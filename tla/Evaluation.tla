----------------------------- MODULE Evaluation -----------------------------
(***************************************************************************)
(* The offline evaluation at boot (api/seed.go, Evaluate) and the          *)
(* calibration that follows it (main.go, buildCalibrationPairs): labelled  *)
(* transactions, each scored by the ensemble and then seeded into the      *)
(* evaluation's store; then the same ones once more, into the same store.  *)
(* One goroutine does both, before the server listens, so scoring a        *)
(* transaction and seeding it is one step.                                 *)
(*                                                                         *)
(* The data set is sorted by time (seed.go).  Here times come in any       *)
(* order, as they do in the live system, where they are the clients'       *)
(* (handlers.go, kafka.go): what is said of the detectors in evaluate      *)
(* holds of live requests of a user that do not overlap, too, whatever     *)
(* their timestamps.                                                       *)
(***************************************************************************)
EXTENDS Detectors

CONSTANTS Templates,  \* transactions whose id is not set
          MaxData     \* bound on the length of the data set

Transaction == [id : Nat, time : Nat, user : Users, amount : Nat, category : STRING,
                country : STRING, device : STRING, merchant : DOMAIN KeysIn, fraud : BOOLEAN]

ASSUME EvaluationAssumption ==
    /\ MaxData \in Nat
    /\ \A t \in Templates : t \in Transaction
    /\ \A s, t \in Templates : s.country # NotGiven => <<s.country, t.country>> \in DOMAIN Distance

VARIABLES phase,     \* evaluate, calibrate, fitted
          data,      \* the transactions replayed, in the order they come
          last,      \* what the detectors said of the last one
          truePos, falseNeg, trueNeg, falsePos,
          next,      \* position of the calibration in data
          pairs      \* NaN or not: one entry per calibration pair

metrics == <<truePos, falseNeg, trueNeg, falsePos>>
vars == <<storeVars, phase, data, last, metrics, next, pairs>>

None == <<>>

Init ==
    /\ NewStore
    /\ phase = "evaluate" /\ data = <<>> /\ last = None
    /\ truePos = 0 /\ falseNeg = 0 /\ trueNeg = 0 /\ falsePos = 0
    /\ next = 1 /\ pairs = <<>>

Tally(isFraud, flagged) ==
    /\ truePos' = truePos + (IF isFraud /\ flagged THEN 1 ELSE 0)
    /\ falseNeg' = falseNeg + (IF isFraud /\ ~flagged THEN 1 ELSE 0)
    /\ falsePos' = falsePos + (IF ~isFraud /\ flagged THEN 1 ELSE 0)
    /\ trueNeg' = trueNeg + (IF ~isFraud /\ ~flagged THEN 1 ELSE 0)

\* The loop of Evaluate: score against the past, count, and only then seed.
Evaluate(template) ==
    LET tx == [template EXCEPT !.id = Len(data) + 1]
    IN  /\ phase = "evaluate" /\ Len(data) < MaxData
        /\ \E votes \in Votes(tx) :
              /\ last' = votes
              /\ Tally(tx.fraud, Flagged(votes))
        /\ Seed(tx)
        /\ data' = Append(data, tx)
        /\ UNCHANGED <<phase, next, pairs>>

\* A fault: the calibration starts from a fresh store, as its comment says.
BeginCalibrationFresh ==
    /\ phase = "evaluate" /\ data # <<>>
    /\ phase' = "calibrate"
    /\ last' = None
    /\ history' = [u \in Users |-> <<>>] /\ seenIDs' = {}
    /\ UNCHANGED <<totalScored, totalFlagged, bySeverity, data, metrics, next, pairs>>

BeginCalibration ==
    /\ phase = "evaluate" /\ data # <<>>
    /\ phase' = "calibrate"
    /\ last' = None
    /\ UNCHANGED <<storeVars, data, metrics, next, pairs>>

\* The loop of buildCalibrationPairs.
Collect ==
    /\ phase = "calibrate" /\ next <= Len(data)
    /\ \E votes \in Votes(data[next]) : pairs' = Append(pairs, IsNaN(votes))
    /\ Seed(data[next])
    /\ next' = next + 1
    /\ UNCHANGED <<phase, data, last, metrics>>

Fit ==
    /\ phase = "calibrate" /\ next > Len(data)
    /\ phase' = "fitted"
    /\ UNCHANGED <<storeVars, data, last, metrics, next, pairs>>

Next == \/ \E template \in Templates : Evaluate(template)
        \/ BeginCalibration \/ Collect \/ Fit

Spec == Init /\ [][Next]_vars

-----------------------------------------------------------------------------
(* What was scored last; which of the data a user had bought before, and which *)
(* of those the window holds: the ones with less than MaxHistory later ones.   *)
Subject == Last(data)
Own(u) == {i \in 1..(Len(data) - 1) : data[i].user = u}
Kept(u) == {i \in Own(u) : Cardinality({j \in Own(u) : j > i}) < MaxHistory}
Known == Kept(Subject.user)

\* The amounts the Subject is compared with, by position in the data.
OfCategory(S) == {i \in S : data[i].category = Subject.category}
OwnBefore == OfCategory(Known)
AllBefore == OfCategory(UNION {Kept(u) : u \in Users})

Scored == last # None
Sound == Scored /\ ~IsNaN(last)

\* A score is NaN exactly for a user with a single transaction of the category in
\* the window, in a population whose amounts differ: not only a customer's second
\* transaction, also one whose earlier ones were trimmed; and never by the
\* population's part of the blend (detector.go:105-132, storage.go:232-239).
\* ScoringPipeline and Retraining take their NaN from this.
NaNIsAHistoryOfOne ==
    Scored => (IsNaN(last) <=> /\ Cardinality(OwnBefore) = 1
                               /\ \E i, j \in AllBefore : data[i].amount # data[j].amount)

\* A detector never lowers the score by firing, however weak its signal: with its
\* abstention in place of its vote the sum is smaller (detector.go:404-408, 437-438).
FiringRaises ==
    Sound => \A i \in Fired(last) : Combined([last EXCEPT ![i] = Clean]) < Combined(last)

\* The velocity detector counts timestamps in a window that is trimmed by arrival.
\* A burst is what a user sent in the time that ends at the scored transaction,
\* which is one of it.  The detector fires on nothing but bursts of more than
\* MaxTransactions + 1, and it misses such a burst only if nearly a full window
\* of the user's transactions, MaxHistory - MaxTransactions of them stamped
\* outside the burst, arrived after one of its own: in chronological order, none
\* (detector.go:306-333).
BurstOnlyHiddenByFlood ==
    LET u == Subject.user
        burst == {Len(data)} \cup
                   {i \in Own(u) : data[i].time \in (Subject.time - Window)..Subject.time}
        flood(i) == {j \in Own(u) \ burst : j > i}
    IN  Scored =>
            /\ last[3] # Clean => Cardinality(burst) > MaxTransactions + 1
            /\ Cardinality(burst) > MaxTransactions + 1 /\ last[3] = Clean =>
                  \E i \in burst : Cardinality(flood(i)) >= MaxHistory - MaxTransactions

\* Whatever the quartiles are blended from, an amount that is a median of each
\* sample with a part in the blend is no outlier (detector.go:208-236).
IsMedian(a, S) == /\ 2 * Cardinality({i \in S : data[i].amount <= a}) >= Cardinality(S)
                  /\ 2 * Cardinality({i \in S : data[i].amount >= a}) >= Cardinality(S)
MedianIsClean ==
    (/\ Scored
     /\ IsMedian(Subject.amount, OwnBefore)
     /\ Cardinality(OwnBefore) < MinHistory => IsMedian(Subject.amount, AllBefore))
         => last[2] = Clean

\* A user who is where most of the window's purchases were made is at home,
\* however ties among other countries are broken (geo.go:213-225).
HomeIsNotFar ==
    Scored =>
        LET N(c) == Cardinality({i \in Known : data[i].country = c})
        IN  (\A i \in Known : data[i].country \notin {NotGiven, Subject.country}
                                  => N(data[i].country) < N(Subject.country))
                => last[4] = Clean

\* The quiet hours are quiet: an hour that is held against the user lies in a
\* window with no more purchases than any other (behavioral.go:72-73, 107-129).
QuietIsLeastBusy ==
    Scored /\ last[7] \in {30, 50} =>
        LET Purchases(start) ==
                Cardinality({i \in Known : isInWindow(HourOf(data[i].time), start)})
        IN  \E start \in 0..(Hours - 1) :
                /\ isInWindow(HourOf(Subject.time), start)
                /\ \A other \in 0..(Hours - 1) : Purchases(start) <= Purchases(other)

\* The fit at boot is finite as long as every user has two transactions or more
\* in each category used (seed.go:175-183 makes six) and none is trimmed: it is
\* the store filled by Evaluate that keeps the first ones from being NaN.
CalibrationIsFinite ==
    (\A i \in DOMAIN data :
        /\ \E j \in DOMAIN data \ {i} : /\ data[j].user = data[i].user
                                        /\ data[j].category = data[i].category
        /\ Cardinality({j \in DOMAIN data : data[j].user = data[i].user}) <= MaxHistory)
    => \A i \in DOMAIN pairs : ~pairs[i]
=============================================================================
