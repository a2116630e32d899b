----------------------------- MODULE CaseReads -----------------------------
(***************************************************************************)
(* The case manager's mutex, field by field: what Manager.Get, List and    *)
(* Stats (internal/cases/cases.go) and the handlers that encode their      *)
(* results (internal/api/cases_handlers.go) see while analysts' calls      *)
(* change cases.  CaseManager has the effect of each call on a case; here  *)
(* a call is a wait, a lock, a list of assignments and an unlock.          *)
(*                                                                         *)
(* Get and List return pointers to the live cases, and the handlers encode *)
(* them after the unlock, one field at a time in the order of the struct.  *)
(* A case keeps the fields the calls change, without updated_at; an answer *)
(* keeps the status and, after it, the time of the decision, which is what *)
(* can fail to agree, and nothing once the case is written meanwhile.  A   *)
(* torn read of a single field is not modelled: torn cases show without    *)
(* it.  Cases are alike, so they are encoded and counted in a fixed order. *)
(***************************************************************************)
EXTENDS Sequences, FiniteSets, CaseEdits

CONSTANTS CaseIDs, Writers, Readers, Nobody,
          Decisions,   \* the verdicts analysts use
          Filters,     \* the values of ?status= in use, "any" for none
          MaxNotes     \* bound: with a case of so many notes none is added to any

ASSUME ReadsAssumption ==
    /\ IsFiniteSet(CaseIDs) /\ CaseIDs # {}
    /\ Nobody \notin Writers
    /\ Writers \cap Readers = {}
    /\ Decisions \subseteq Verdicts
    /\ Filters \subseteq Statuses \cup {"any"}
    /\ MaxNotes \in Nat

VARIABLES cases,     \* id -> the live case
          waiting,   \* who waits for the mutex, first come first served
          writer,    \* who holds the mutex for writing
          readers,   \* who holds it for reading
          job,       \* writer -> the assignments left to do, with their case
          confirms,  \* writer -> its call is a Resolve to confirmed
          hooks,     \* hook goroutines not yet run, at most one
          ask,       \* reader -> what it was asked for
          found,     \* reader -> pointers, or cases still to be counted
          fields,    \* reader -> fields left to encode of the current case
          doc,       \* reader -> the case being encoded, while nobody writes it
          tally,     \* reader -> status -> cases counted by Stats
          sent,      \* reader -> the last case encoded, with the filter it was under
          touched,   \* auxiliary: reader -> cases written since its Find
          truth      \* auxiliary: reader -> the statuses when its Stats began

lockVars == <<waiting, writer, readers>>
writeVars == <<job, confirms, hooks>>
readVars == <<ask, found, fields, doc, tally, sent, touched, truth>>
vars == <<cases, lockVars, writeVars, readVars>>

Case == [status : Statuses, assignedTo : Writers \cup {Nobody}, resolved : BOOLEAN,
         notes : 0..MaxNotes]
NewCase == [status |-> "open", assignedTo |-> Nobody, resolved |-> FALSE, notes |-> 0]

\* What is kept of an answer: the status and, later, the time of the decision.
Encoding == <<"status", "resolved">>
NewDoc == [status |-> "open", resolved |-> FALSE]

Idle == [kind |-> "none", status |-> "any"]
Asks == {Idle, [kind |-> "get", status |-> "any"], [kind |-> "stats", status |-> "any"]}
            \cup [kind : {"list"}, status : Filters]

NoTally == [s \in Statuses |-> 0]
NothingSent == [case |-> NewDoc, filter |-> "any", touched |-> FALSE]

Init ==
    /\ cases = [id \in CaseIDs |-> NewCase]
    /\ waiting = <<>> /\ writer = Nobody /\ readers = {}
    /\ job = [w \in Writers |-> <<>>]
    /\ confirms = [w \in Writers |-> FALSE]
    /\ hooks = 0
    /\ ask = [r \in Readers |-> Idle]
    /\ found = [r \in Readers |-> {}]
    /\ fields = [r \in Readers |-> <<>>]
    /\ doc = [r \in Readers |-> NewDoc]
    /\ tally = [r \in Readers |-> NoTally]
    /\ sent = [r \in Readers |-> NothingSent]
    /\ touched = [r \in Readers |-> {}]
    /\ truth = [r \in Readers |-> NoTally]

Count(s) == Cardinality({id \in CaseIDs : cases[id].status = s})

-----------------------------------------------------------------------------
(* Assign, Resolve and AddNote: their assignments, in the code's order. *)
Set(id, field, value) == [case |-> id, field |-> field, value |-> value]

AssignJob(w, id) == <<Set(id, "status", "in_review"), Set(id, "assignedTo", w)>>

ResolveJob(w, id, v, n) ==
    <<Set(id, "status", v), Set(id, "assignedTo", w), Set(id, "resolved", TRUE)>>
        \o (IF n > cases[id].notes THEN <<Set(id, "notes", n)>> ELSE <<>>)

NoteJob(id) == <<Set(id, "notes", cases[id].notes + 1)>>

RoomForNotes == \A id \in CaseIDs : cases[id].notes < MaxNotes

Waits(p) == \E i \in DOMAIN waiting : waiting[i] = p
First(p) == waiting # <<>> /\ Head(waiting) = p

\* A call is made; it waits for the mutex, and holds new readers off.
Call(w) ==
    /\ writer # w /\ ~Waits(w)
    /\ waiting' = Append(waiting, w)
    /\ UNCHANGED <<cases, writer, readers, writeVars, readVars>>

\* A fault: the mutex is taken for reading, so writers let one another in.
LockWriteShared(w) ==
    /\ First(w) /\ readers = {} /\ job[w] = <<>>
    /\ waiting' = Tail(waiting)
    /\ writer' = w

LockWrite(w) ==
    /\ First(w) /\ writer = Nobody /\ readers = {}
    /\ waiting' = Tail(waiting)
    /\ writer' = w

\* The call has the mutex, and knows what it will assign.
Begin(w) ==
    /\ LockWrite(w)
    /\ \E id \in CaseIDs :
          \/ job' = [job EXCEPT ![w] = AssignJob(w, id)] /\ UNCHANGED confirms
          \/ \E v \in Decisions, n \in cases[id].notes..(cases[id].notes + 1) :
                /\ n = cases[id].notes \/ RoomForNotes
                /\ job' = [job EXCEPT ![w] = ResolveJob(w, id, v, n)]
                /\ confirms' = [confirms EXCEPT ![w] = (v = "confirmed")]
          \/ /\ RoomForNotes
             /\ job' = [job EXCEPT ![w] = NoteJob(id)]
             /\ UNCHANGED confirms
    /\ UNCHANGED <<cases, readers, hooks, readVars>>

\* The case r encodes, or will encode next.
Current(r) == CHOOSE c \in found[r] : TRUE

Write(w) ==
    /\ writer = w /\ job[w] # <<>>
    /\ LET set == Head(job[w])
       IN  /\ cases' = [cases EXCEPT ![set.case] = [@ EXCEPT ![set.field] = set.value]]
           /\ touched' = [r \in Readers |->
                  touched[r] \cup (IF ask[r].kind # "stats" THEN {set.case} \cap found[r] ELSE {})]
           /\ doc' = [r \in Readers |-> IF set.case \in touched'[r] /\ Current(r) = set.case
                                        THEN NewDoc ELSE doc[r]]
    /\ job' = [job EXCEPT ![w] = Tail(@)]
    /\ UNCHANGED <<lockVars, confirms, hooks, ask, found, fields, tally, sent, truth>>

\* A fault: the call unlocks before its last assignment.
EndEarly(w) ==
    /\ writer = w /\ Len(job[w]) <= 1
    /\ writer' = Nobody
    /\ hooks' = IF confirms[w] /\ hooks = 0 THEN 1 ELSE hooks
    /\ confirms' = [confirms EXCEPT ![w] = FALSE]
    /\ UNCHANGED <<cases, waiting, readers, job, readVars>>

\* The call unlocks; after a confirmation it starts the hook's goroutine.
End(w) ==
    /\ writer = w /\ job[w] = <<>>
    /\ writer' = Nobody
    /\ hooks' = IF confirms[w] /\ hooks = 0 THEN 1 ELSE hooks
    /\ confirms' = [confirms EXCEPT ![w] = FALSE]
    /\ UNCHANGED <<cases, waiting, readers, job, readVars>>

\* A hook may itself call the manager (OnResolve, Assign, ...).
RunHook ==
    /\ hooks > 0
    /\ writer = Nobody /\ readers = {}
    /\ hooks' = 0
    /\ UNCHANGED <<cases, lockVars, job, confirms, readVars>>

-----------------------------------------------------------------------------
(* The read handlers. *)
Ask(r, a) ==
    /\ ask[r] = Idle
    /\ ask' = [ask EXCEPT ![r] = a]
    /\ sent' = [sent EXCEPT ![r] = NothingSent]
    /\ tally' = [tally EXCEPT ![r] = NoTally]
    /\ truth' = [truth EXCEPT ![r] = NoTally]
    /\ waiting' = Append(waiting, r)
    /\ UNCHANGED <<cases, writer, readers, writeVars, found, fields, doc, touched>>

\* A fault: the cases are looked up without the mutex.
FindUnlocked(r) ==
    /\ ask[r].kind \in {"get", "list"} /\ found[r] = {} /\ fields[r] = <<>>
    /\ waiting' = SelectSeq(waiting, LAMBDA p : p # r)
    /\ \/ /\ ask[r].kind = "get"
          /\ \E id \in CaseIDs : found' = [found EXCEPT ![r] = {id}]
          /\ UNCHANGED ask
       \/ /\ ask[r].kind = "list"
          /\ LET ids == {id \in CaseIDs : ask[r].status \in {"any", cases[id].status}}
             IN  /\ found' = [found EXCEPT ![r] = ids]
                 /\ ask' = IF ids = {} THEN [ask EXCEPT ![r] = Idle] ELSE ask
    /\ UNCHANGED <<cases, writer, readers, writeVars, fields, doc, tally, sent, touched, truth>>

\* Get and List: one critical section that returns pointers.
Find(r) ==
    /\ ask[r].kind \in {"get", "list"} /\ found[r] = {} /\ fields[r] = <<>>
    /\ First(r) /\ writer = Nobody
    /\ waiting' = Tail(waiting)
    /\ \/ /\ ask[r].kind = "get"
          /\ \E id \in CaseIDs : found' = [found EXCEPT ![r] = {id}]
          /\ UNCHANGED ask
       \/ /\ ask[r].kind = "list"
          /\ LET ids == {id \in CaseIDs : ask[r].status \in {"any", cases[id].status}}
             IN  /\ found' = [found EXCEPT ![r] = ids]
                 /\ ask' = IF ids = {} THEN [ask EXCEPT ![r] = Idle] ELSE ask
    /\ UNCHANGED <<cases, writer, readers, writeVars, fields, doc, tally, sent, touched, truth>>

\* Encoding a case, after the unlock.
BeginCase(r) ==
    /\ ask[r].kind \in {"get", "list"} /\ found[r] # {} /\ fields[r] = <<>>
    /\ fields' = [fields EXCEPT ![r] = Encoding]
    /\ sent' = [sent EXCEPT ![r] = NothingSent]
    /\ UNCHANGED <<cases, lockVars, writeVars, ask, found, doc, tally, touched, truth>>

EncodeField(r) ==
    /\ fields[r] # <<>>
    /\ LET id == Current(r)
           f == Head(fields[r])
           d == [doc[r] EXCEPT ![f] = cases[id][f]]
           last == Tail(fields[r]) = <<>>
           clean == id \notin touched[r]
       IN  /\ doc' = [doc EXCEPT ![r] = IF ~last /\ clean THEN d ELSE NewDoc]
           /\ fields' = [fields EXCEPT ![r] = Tail(@)]
           /\ found' = IF last THEN [found EXCEPT ![r] = @ \ {id}] ELSE found
           /\ sent' = IF last
                      THEN [sent EXCEPT ![r] = [case |-> IF clean THEN d ELSE NewDoc,
                                                filter |-> ask[r].status, touched |-> ~clean]]
                      ELSE sent
           /\ touched' = IF last THEN [touched EXCEPT ![r] = @ \ {id}] ELSE touched
           /\ ask' = IF last /\ found[r] = {id} THEN [ask EXCEPT ![r] = Idle] ELSE ask
    /\ UNCHANGED <<cases, lockVars, writeVars, tally, truth>>

\* A fault: the counts are taken without the mutex.
BeginStatsUnlocked(r) ==
    /\ ask[r].kind = "stats" /\ found[r] = {}
    /\ waiting' = SelectSeq(waiting, LAMBDA p : p # r)
    /\ found' = [found EXCEPT ![r] = CaseIDs]
    /\ truth' = [truth EXCEPT ![r] = [s \in Statuses |-> Count(s)]]
    /\ UNCHANGED <<cases, writer, readers, writeVars, ask, fields, doc, tally, sent, touched>>

\* Stats counts under the read lock, case after case.
BeginStats(r) ==
    /\ ask[r].kind = "stats" /\ found[r] = {}
    /\ First(r) /\ writer = Nobody
    /\ waiting' = Tail(waiting)
    /\ readers' = readers \cup {r}
    /\ found' = [found EXCEPT ![r] = CaseIDs]
    /\ truth' = [truth EXCEPT ![r] = [s \in Statuses |-> Count(s)]]
    /\ UNCHANGED <<cases, writer, writeVars, ask, fields, doc, tally, sent, touched>>

\* A fault: the read lock is not given back.
CountCaseKeepsLock(r) ==
    /\ ask[r].kind = "stats" /\ found[r] # {}
    /\ LET id == Current(r)
       IN  /\ tally' = [tally EXCEPT ![r][cases[id].status] = @ + 1]
           /\ found' = [found EXCEPT ![r] = @ \ {id}]
           /\ ask' = IF found[r] = {id} THEN [ask EXCEPT ![r] = Idle] ELSE ask
    /\ UNCHANGED <<cases, lockVars, writeVars, fields, doc, sent, touched, truth>>

CountCase(r) ==
    /\ ask[r].kind = "stats" /\ found[r] # {}
    /\ LET id == Current(r)
       IN  /\ tally' = [tally EXCEPT ![r][cases[id].status] = @ + 1]
           /\ found' = [found EXCEPT ![r] = @ \ {id}]
           /\ readers' = IF found[r] = {id} THEN readers \ {r} ELSE readers
           /\ ask' = IF found[r] = {id} THEN [ask EXCEPT ![r] = Idle] ELSE ask
    /\ UNCHANGED <<cases, waiting, writer, writeVars, fields, doc, sent, touched, truth>>

-----------------------------------------------------------------------------
ReadStep(r) == Find(r) \/ BeginCase(r) \/ EncodeField(r) \/ BeginStats(r) \/ CountCase(r)
WriteStep(w) == Begin(w) \/ Write(w) \/ End(w)

Next == \/ \E w \in Writers : Call(w) \/ WriteStep(w)
        \/ \E r \in Readers : ReadStep(r) \/ (\E a \in Asks \ {Idle} : Ask(r, a))
        \/ RunHook

Spec == Init /\ [][Next]_vars

\* Goroutines are scheduled.  sync.RWMutex is taken in the order of arrival: it
\* holds new readers off while a writer waits, and those it lets past waiting
\* writers could have come first.  The hook waits in no order, and gets in at last.
FairSpec == /\ Spec
            /\ \A w \in Writers : WF_vars(WriteStep(w))
            /\ \A r \in Readers : WF_vars(ReadStep(r))
            /\ SF_vars(RunHook)

-----------------------------------------------------------------------------
\* The counts of the dashboard are of one moment: a case that moves from one
\* status to another is never counted twice or not at all (cases.go:237-257).
StatsAreOfOneMoment ==
    \A r \in Readers : ask[r] = Idle => tally[r] = truth[r]

\* cases.go:195-197: hooks cannot deadlock against the manager's mutex.  Even if
\* they call the manager, they run, and every call of a handler returns.
CallsReturn ==
    /\ []<>(hooks = 0)
    /\ \A w \in Writers : []<>(writer # w /\ ~Waits(w))
    /\ \A r \in Readers : []<>(ask[r] = Idle)

\* A case that nobody writes while it is being listed or encoded is answered as
\* one consistent case: it matches the filter and, decided, has the time of the
\* decision.  A write between the unlock and the last field voids both, since
\* Get and List hand out the live cases (cases.go:139-158, cases_handlers.go:22).
UntouchedIsFaithful ==
    \A r \in Readers : ~sent[r].touched =>
        /\ sent[r].filter \in {"any", sent[r].case.status}
        /\ sent[r].case.status \in Verdicts => sent[r].case.resolved

\* What is left of a call makes this of a case.
Completed(c, todo) ==
    [f \in DOMAIN c |->
        LET at == {i \in DOMAIN todo : todo[i].field = f}
        IN  IF at = {} THEN c[f] ELSE todo[CHOOSE i \in at : TRUE].value]

\* The cases as the call that holds the mutex will leave them.
Written ==
    [id \in CaseIDs |->
        IF writer # Nobody /\ job[writer] # <<>> /\ Head(job[writer]).case = id
        THEN Completed(cases[id], job[writer])
        ELSE cases[id]]

\* Assign, Resolve and AddNote are atomic among themselves: though they write a
\* case field by field, together they make of the cases what they would make of
\* them one after the other, in the order they got the mutex, each changing one
\* case at once.  So CaseManager may take each for a step (cases.go:160-226).
Calls == INSTANCE AtomicCases WITH Analysts <- Writers, cases <- Written
CallsAreAtomic == Calls!CasesSpec
=============================================================================
