----------------------------- MODULE MemStore -----------------------------
(***************************************************************************)
(* The in-memory transaction store (internal/storage/storage.go).          *)
(*                                                                         *)
(* Every public method holds the store's mutex from its first to its last  *)
(* access, so each is one atomic step.  A user that has no entry in the    *)
(* history map is a user whose sequence is empty: the map never holds an   *)
(* empty slice.                                                            *)
(*                                                                         *)
(* A transaction is a record with at least the fields id, user, category   *)
(* and amount.  NoID is the empty identifier.                              *)
(***************************************************************************)
EXTENDS RiskModel, Sequences, FiniteSets

CONSTANTS Users,        \* every user identifier, the empty one included
          NoID,         \* the empty transaction identifier
          MaxHistory    \* maxHistoryPerUser

ASSUME MaxHistoryAssumption == MaxHistory \in Nat \ {0}

VARIABLES history,      \* user -> transactions kept, oldest arrival first
          seenIDs,      \* identifiers recorded by Add or Seed
          totalScored, totalFlagged,
          bySeverity    \* severity -> number of transactions

storeVars == <<history, seenIDs, totalScored, totalFlagged, bySeverity>>

-----------------------------------------------------------------------------
NewStore ==
    /\ history = [u \in Users |-> <<>>]
    /\ seenIDs = {}
    /\ totalScored = 0
    /\ totalFlagged = 0
    /\ bySeverity = [s \in Severities |-> 0]

\* Faulty variants of the operations below are kept beside them: each is a
\* plausible slip that one of the properties exists to catch.

\* The last n elements of s, all of s when there are fewer.
Newest(s, n) == IF Len(s) > n THEN SubSeq(s, Len(s) - n + 1, Len(s)) ELSE s

\* A fault: the window is trimmed before the append instead of after it.
appendTrimsFirst(tx) ==
    history' = [history EXCEPT ![tx.user] = Append(Newest(@, MaxHistory), tx)]

\* The shared body of Add and Seed.
appendLocked(tx) ==
    history' = [history EXCEPT ![tx.user] = Newest(Append(@, tx), MaxHistory)]

MarkSeen(tx) == seenIDs' = IF tx.id = NoID THEN seenIDs ELSE seenIDs \cup {tx.id}

\* A fault: Add leaves the seen set to Seed.
AddUnmarked(tx, risk) ==
    /\ appendLocked(tx)
    /\ totalScored' = totalScored + 1
    /\ totalFlagged' = totalFlagged + (IF IsFlagged(risk) THEN 1 ELSE 0)
    /\ bySeverity' = [bySeverity EXCEPT ![risk.severity] = @ + 1]
    /\ UNCHANGED seenIDs

\* Every caller in the program passes a risk whose severity is set, so the
\* fallback for an empty severity is not needed.
Add(tx, risk) ==
    /\ appendLocked(tx)
    /\ MarkSeen(tx)
    /\ totalScored' = totalScored + 1
    /\ totalFlagged' = totalFlagged + (IF IsFlagged(risk) THEN 1 ELSE 0)
    /\ bySeverity' = [bySeverity EXCEPT ![risk.severity] = @ + 1]

\* A fault: Seed appends without marking.
SeedUnmarked(tx) ==
    /\ appendLocked(tx)
    /\ UNCHANGED <<seenIDs, totalScored, totalFlagged, bySeverity>>

\* A fault: synthetic transactions are counted as scored.
SeedCounted(tx) ==
    /\ appendLocked(tx)
    /\ MarkSeen(tx)
    /\ totalScored' = totalScored + 1
    /\ UNCHANGED <<totalFlagged, bySeverity>>

Seed(tx) ==
    /\ appendLocked(tx)
    /\ MarkSeen(tx)
    /\ UNCHANGED <<totalScored, totalFlagged, bySeverity>>

-----------------------------------------------------------------------------
(* Queries. *)

SeenBefore(id) == id # NoID /\ id \in seenIDs

GetUserHistory(u) == history[u]

UserCount == Cardinality({u \in Users : history[u] # <<>>})

\* Number of entries of the category in the user's history.
amountsOfCategory(u, category) ==
    {i \in DOMAIN GetUserHistory(u) : history[u][i].category = category}

\* GlobalCategoryStats reduced to "its deviation is not zero": two entries of
\* the category, of any users, whose amounts differ.
GlobalCategorySpread(category) ==
    \E u, v \in Users : \E i \in amountsOfCategory(u, category),
                           j \in amountsOfCategory(v, category) :
        history[u][i].amount # history[v][j].amount

-----------------------------------------------------------------------------
\* GetStats agrees with itself: the severity buckets add up to the total, and
\* the flagged ones are exactly medium and above, whatever blend, override or
\* NaN the pipeline went through before Add.
CountersAgree ==
    /\ totalScored = bySeverity["low"] + bySeverity["medium"]
                     + bySeverity["high"] + bySeverity["critical"]
    /\ totalFlagged = bySeverity["medium"] + bySeverity["high"] + bySeverity["critical"]
=============================================================================
