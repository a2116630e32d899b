----------------------------- MODULE CaseEdits -----------------------------
(***************************************************************************)
(* What the case manager's calls make of a case (internal/cases/cases.go), *)
(* be a call a single step (CaseManager, AtomicCases) or a list of         *)
(* assignments under a mutex (CaseReads).                                  *)
(***************************************************************************)
EXTENDS Integers

Verdicts == {"confirmed", "false_positive", "escalated"}
Statuses == {"open", "in_review"} \cup Verdicts

InReview(c, analyst) == [c EXCEPT !.status = "in_review", !.assignedTo = analyst]

Noted(c, n) == [c EXCEPT !.notes = c.notes + n]

Resolved(c, verdict, analyst, n) ==
    [Noted(c, n) EXCEPT !.status = verdict, !.assignedTo = analyst, !.resolved = TRUE]
=============================================================================
