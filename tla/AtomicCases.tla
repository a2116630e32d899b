---------------------------- MODULE AtomicCases ----------------------------
(***************************************************************************)
(* The case manager as its callers may think of it: Assign, Resolve and    *)
(* AddNote each change one case, all of it at once.  CaseManager is built  *)
(* from such steps; CaseReads is what the code does instead.               *)
(***************************************************************************)
EXTENDS CaseEdits

CONSTANTS CaseIDs, Analysts, Nobody,
          Decisions,   \* the verdicts analysts use
          MaxNotes     \* bound on the notes of a case

VARIABLE cases         \* id -> case

Unreviewed == [status |-> "open", assignedTo |-> Nobody, resolved |-> FALSE, notes |-> 0]

CasesInit == cases = [id \in CaseIDs |-> Unreviewed]

Becomes(id, c) == c.notes <= MaxNotes /\ cases' = [cases EXCEPT ![id] = c]

CasesNext ==
    \E id \in CaseIDs :
        \/ \E a \in Analysts : Becomes(id, InReview(cases[id], a))
        \/ \E a \in Analysts, v \in Decisions, n \in 0..1 :
               Becomes(id, Resolved(cases[id], v, a, n))
        \/ Becomes(id, Noted(cases[id], 1))

CasesSpec == CasesInit /\ [][CasesNext]_cases
=============================================================================
