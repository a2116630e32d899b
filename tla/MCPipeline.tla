---------------------------- MODULE MCPipeline ----------------------------
(***************************************************************************)
(* Instances of ScoringPipeline, and the refinement of IdempotentScoring.  *)
(***************************************************************************)
EXTENDS ScoringPipeline, TLC

\* Two users, one category, amounts that differ, so that a second transaction
\* of one user meets a history of one and a population with a spread.
MCTx(id, user, amount) ==
    [id |-> id, user |-> user, amount |-> amount, country |-> "US",
     merchant |-> "shop", category |-> "food", device |-> "d1"]

t1 == MCTx("t1", "ana", 10)
t2 == MCTx("t2", "ana", 20)
tNoID == MCTx("", "ana", 20)
tBad == MCTx("t1", "", 10)
tSeed == MCTx("s1", "bob", 30)

AnyMatch == [amountMin |-> 0, amountMax |-> 0, countries |-> {}, excludeCountries |-> {},
             merchants |-> {}, categories |-> {}, deviceIDs |-> {}, userIDs |-> {}]

flagAll == [id |-> "flag", match |-> AnyMatch, action |-> "flag", weight |-> 40]
flagMore == [id |-> "more", match |-> [AnyMatch EXCEPT !.countries = {"us"}],
             action |-> "flag", weight |-> 80]
reviewBig == [id |-> "review", match |-> [AnyMatch EXCEPT !.amountMin = 20],
              action |-> "review", weight |-> 0]
blockAna == [id |-> "block", match |-> [AnyMatch EXCEPT !.userIDs = {"ana"}],
             action |-> "block", weight |-> 0]

MCRules == {flagAll, flagMore, reviewBig, blockAna}

MCStrings == {"US", "us", "shop", "food", "d1", "ana", "bob", ""}
MCLower == [s \in MCStrings |-> IF s = "US" THEN "us" ELSE s]
MCWithin == {<<s, s>> : s \in MCStrings}

\* Sets of bodies and rules files for the configurations.
OverlapTxs == {t1}
NoBatches == {}
SeedOne == <<tSeed>>
NoSeed == <<>>
RequestSymmetry == Permutations(Requests)
RetryTxs == {t1, t2}
LiveTxs == {t1, tSeed}
LiveBatches == {<<t1, t1>>}
EntryTxs == {t1, tNoID, tBad}
Seeds == {tSeed}
EntryBatches == {<<>>, <<tBad, t1>>, <<tNoID, tNoID>>, <<t1, t1, t1>>}
NoRules == {}
OneFile == {{flagAll}}
TwoFiles == {{flagAll, reviewBig}, {blockAna}}
=============================================================================
