--------------------------- MODULE StoreContract ---------------------------
(***************************************************************************)
(* What the Store interface (internal/storage/interface.go) promises of    *)
(* the in-memory store, stated against the complete, untrimmed history of  *)
(* calls.  arrivals is an auxiliary variable: for every user, everything   *)
(* Add and Seed were ever given, in call order.                            *)
(***************************************************************************)
EXTENDS MemStore

CONSTANTS Txs,          \* transactions the callers pass
          Risks,        \* risk scores the pipeline passes to Add
          MaxCalls      \* bound on the number of Add and Seed calls

ASSUME CallersAssumption ==
    /\ \A tx \in Txs : tx.user \in Users
    /\ Risks \subseteq {r \in RiskScore : r.severity = SeverityFromScore(r.score)}
    /\ MaxCalls \in Nat

VARIABLES arrivals,     \* user -> all transactions ever recorded for it
          calls         \* Add and Seed calls so far

contractVars == <<storeVars, arrivals, calls>>

Arrive(tx) ==
    /\ calls < MaxCalls
    /\ calls' = calls + 1
    /\ arrivals' = [arrivals EXCEPT ![tx.user] = Append(@, tx)]

ContractInit ==
    /\ NewStore
    /\ arrivals = [u \in Users |-> <<>>]
    /\ calls = 0

DoAdd(tx, risk) == Add(tx, risk) /\ Arrive(tx)
DoSeed(tx) == Seed(tx) /\ Arrive(tx)

ContractNext == \E tx \in Txs : DoSeed(tx) \/ \E risk \in Risks : DoAdd(tx, risk)

ContractSpec == ContractInit /\ [][ContractNext]_contractVars

-----------------------------------------------------------------------------
\* Every store variable has the shape the Go fields have.
StoreTypeOK ==
    /\ history \in [Users -> Seq(Txs)]
    /\ arrivals \in [Users -> Seq(Txs)]
    /\ seenIDs \subseteq {tx.id : tx \in Txs} \ {NoID}
    /\ totalScored \in Nat /\ totalFlagged \in Nat
    /\ bySeverity \in [Severities -> Nat]
    /\ calls \in Nat

\* appendLocked's trimming: a user's history is exactly the newest MaxHistory
\* of all its arrivals, in arrival order, none lost, repeated or swapped.
HistoryIsNewestArrivals ==
    \A u \in Users : history[u] = Newest(arrivals[u], MaxHistory)

\* SeenBefore answers for every transaction ever recorded by Add or Seed, also
\* those that trimming has dropped from the history, and for nothing else.
SeenIsEverRecorded ==
    seenIDs = (UNION {{arrivals[u][i].id : i \in DOMAIN arrivals[u]} : u \in Users}) \ {NoID}

=============================================================================
