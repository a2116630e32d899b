---------------------------- MODULE CaseManager ----------------------------
(***************************************************************************)
(* The analyst workflow: the case manager (internal/cases/cases.go), the   *)
(* handlers that guard its operations (internal/api/cases_handlers.go) and *)
(* the Stripe hook main.go registers with OnResolve.                       *)
(*                                                                         *)
(* A case is keyed by "case-" + transaction id, which is injective, so it  *)
(* is keyed by the transaction id here; status "absent" is a map miss.     *)
(* Every Manager method is one critical section.  Resolve starts the hooks *)
(* after the unlock, each in a goroutine of its own: pendingHooks counts   *)
(* the goroutines that have not run yet.                                   *)
(***************************************************************************)
EXTENDS RiskModel, CaseEdits

CONSTANTS CaseIDs,       \* transaction ids a case may be opened for
          Analysts,      \* non-empty analyst names
          NoAnalyst,     \* the empty name
          MaxNotes,      \* bound on the notes of one case
          MaxConfirms    \* bound on how often one case is confirmed

ASSUME CaseBoundsAssumption ==
    /\ MaxNotes \in Nat
    /\ MaxConfirms \in Nat
    /\ NoAnalyst \notin Analysts

VARIABLES cases,         \* transaction id -> case
          pendingHooks,  \* transaction id -> hook goroutines not yet run
          markers        \* transaction id -> fraud markers issued to Stripe

caseVars == <<cases, pendingHooks, markers>>

\* priorityFromSeverity: the four severities and priorities share names.
Priorities == {"low", "medium", "high", "critical"}
priorityFromSeverity(sev) ==
    IF sev \in {"critical", "high", "medium"} THEN sev ELSE "low"

Case == [status : Statuses \cup {"absent"}, priority : Priorities,
         score : ScoreValue, assignedTo : Analysts \cup {NoAnalyst},
         resolved : BOOLEAN, notes : Nat]

NoCase == [status |-> "absent", priority |-> "low", score |-> 0,
           assignedTo |-> NoAnalyst, resolved |-> FALSE, notes |-> 0]

Exists(id) == cases[id].status # "absent"

\* What Create makes of a score; CaseEdits has what the other operations make of
\* a case.
Opened(risk) == [NoCase EXCEPT !.status = "open",
                               !.score = risk.score,
                               !.priority = priorityFromSeverity(risk.severity)]

-----------------------------------------------------------------------------
NewManager ==
    /\ cases = [id \in CaseIDs |-> NoCase]
    /\ pendingHooks = [id \in CaseIDs |-> 0]
    /\ markers = [id \in CaseIDs |-> 0]

\* Create stores a fresh case whatever the map held under that key.
Create(id, risk) ==
    /\ cases' = [cases EXCEPT ![id] = Opened(risk)]
    /\ UNCHANGED <<pendingHooks, markers>>

\* AssignCase + Assign: the name must not be empty; any status is accepted.
Assign(id, analyst) ==
    /\ Exists(id)
    /\ cases' = [cases EXCEPT ![id] = InReview(@, analyst)]
    /\ UNCHANGED <<pendingHooks, markers>>

\* A fault: only the first verdict on a case starts the hook.
ResolveHooksOnce(id, verdict, analyst, n) ==
    /\ Exists(id)
    /\ cases[id].notes + n <= MaxNotes
    /\ verdict = "confirmed" => pendingHooks[id] + markers[id] < MaxConfirms
    /\ cases' = [cases EXCEPT ![id] = Resolved(@, verdict, analyst, n)]
    /\ pendingHooks' = IF verdict = "confirmed" /\ ~cases[id].resolved
                       THEN [pendingHooks EXCEPT ![id] = @ + 1]
                       ELSE pendingHooks
    /\ UNCHANGED markers

\* ResolveCase + Resolve: one of three verdicts, with n = 0 or 1 notes, from any
\* status; a confirmation starts the registered hook.
Resolve(id, verdict, analyst, n) ==
    /\ Exists(id)
    /\ cases[id].notes + n <= MaxNotes
    /\ verdict = "confirmed" => pendingHooks[id] + markers[id] < MaxConfirms
    /\ cases' = [cases EXCEPT ![id] = Resolved(@, verdict, analyst, n)]
    /\ pendingHooks' = IF verdict = "confirmed"
                       THEN [pendingHooks EXCEPT ![id] = @ + 1]
                       ELSE pendingHooks
    /\ UNCHANGED markers

AddNote(id) ==
    /\ Exists(id)
    /\ cases[id].notes < MaxNotes
    /\ cases' = [cases EXCEPT ![id] = Noted(@, 1)]
    /\ UNCHANGED <<pendingHooks, markers>>

\* The hook goroutine: OnCaseConfirmed issues a marker for the transaction the
\* case names (it reads the case only for fields that never change).
RunHook(id) ==
    /\ pendingHooks[id] > 0
    /\ pendingHooks' = [pendingHooks EXCEPT ![id] = @ - 1]
    /\ markers' = [markers EXCEPT ![id] = @ + 1]
    /\ UNCHANGED cases

AnalystStep ==
    \E id \in CaseIDs :
        \/ \E a \in Analysts : Assign(id, a)
        \/ \E v \in Verdicts, a \in Analysts, n \in 0..1 : Resolve(id, v, a, n)
        \/ AddNote(id)
=============================================================================
