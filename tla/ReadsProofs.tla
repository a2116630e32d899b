---------------------------- MODULE ReadsProofs ----------------------------
(***************************************************************************)
(* What readers see of the cases, for any number of cases, analysts and    *)
(* readers.  The mutex excludes writers while a Stats counts, so counted   *)
(* and uncounted cases always add up to what there was at its start.  And  *)
(* between calls every decided case has its time of decision: only within  *)
(* a Resolve, under the mutex, is it missing; so a case found under the    *)
(* mutex and not written since is encoded as it was found.                 *)
(***************************************************************************)
EXTENDS CaseReads, FiniteSetTheorems, SequenceTheorems, TLAPS

\* The assignments of the three calls, and what is left to encode of a case.
Assignment ==
    [case : CaseIDs, field : {"status"}, value : Statuses]
        \cup [case : CaseIDs, field : {"assignedTo"}, value : Writers]
        \cup [case : CaseIDs, field : {"resolved"}, value : {TRUE}]
        \cup [case : CaseIDs, field : {"notes"}, value : 0..MaxNotes]

ToEncode == {<<>>, Encoding, <<"resolved">>}
Doc == [status : Statuses, resolved : BOOLEAN]
Sent == [case : Doc, filter : Statuses \cup {"any"}, touched : BOOLEAN]

Types ==
    /\ cases \in [CaseIDs -> Case]
    /\ job \in [Writers -> Seq(Assignment)]
    /\ ask \in [Readers -> Asks]
    /\ found \in [Readers -> SUBSET CaseIDs]
    /\ fields \in [Readers -> ToEncode]
    /\ doc \in [Readers -> Doc]
    /\ tally \in [Readers -> [Statuses -> Nat]]
    /\ truth \in [Readers -> [Statuses -> Nat]]
    /\ sent \in [Readers -> Sent]
    /\ touched \in [Readers -> SUBSET CaseIDs]

\* A reader that is encoding has pointers; one that was asked nothing has none.
ReaderShape ==
    \A r \in Readers :
        /\ fields[r] # <<>> => found[r] # {} /\ ask[r].kind \in {"get", "list"}
        /\ ask[r] = Idle => found[r] = {}

Counting(r) == ask[r].kind = "stats" /\ found[r] # {}

\* The read-write mutex: those who count hold it together, a writer alone, and
\* who has something to assign holds it.
LockInv ==
    /\ writer \in Writers \cup {Nobody}
    /\ readers # {} => writer = Nobody
    /\ readers = {r \in Readers : Counting(r)}
    /\ \A w \in Writers : job[w] # <<>> => writer = w

\* What is counted and what is left add up to what there was.
Left(r, s) == Cardinality({id \in found[r] : cases[id].status = s})
StatsInv ==
    \A r \in Readers :
        /\ ask[r].kind # "stats" => tally[r] = truth[r]
        /\ ask[r].kind = "stats" /\ found[r] = {} => tally[r] = NoTally
        /\ Counting(r) => \A s \in Statuses : tally[r][s] + Left(r, s) = truth[r][s]

\* A verdict that is assigned, or still to be assigned, without the time of the
\* decision is followed by it in the same call.
Stamp(id) == Set(id, "resolved", TRUE)
Stamps(s) ==
    \A i \in DOMAIN s : s[i].field = "status" /\ s[i].value \in Verdicts =>
        \E j \in DOMAIN s : j > i /\ s[j] = Stamp(s[i].case)
DecisionInv ==
    /\ \A id \in CaseIDs : cases[id].status \in Verdicts /\ ~cases[id].resolved =>
          \E w \in Writers : \E i \in DOMAIN job[w] : job[w][i] = Stamp(id)
    /\ \A w \in Writers : Stamps(job[w])

\* What was found and not written since is as it was found; what is encoded of
\* it is what it is.
AsFound(r, id) ==
    /\ cases[id].status \in Verdicts => cases[id].resolved
    /\ ask[r].status \in {"any", cases[id].status}
ReadOf(r) ==
    /\ ask[r].kind # "stats" => \A id \in found[r] \ touched[r] : AsFound(r, id)
    /\ fields[r] \notin {<<>>, Encoding} /\ Current(r) \notin touched[r] =>
          doc[r].status = cases[Current(r)].status
ReadInv == \A r \in Readers : ReadOf(r)

ReadsInv ==
    Types /\ ReaderShape /\ LockInv /\ StatsInv /\ DecisionInv /\ ReadInv /\ UntouchedIsFaithful

-----------------------------------------------------------------------------
(* Cases, assignments and encodings. *)

\* An assignment keeps the shape of a case and touches the field it names.
LEMMA AssignmentType ==
    ASSUME NEW c \in Case, NEW set \in Assignment
    PROVE  LET d == [c EXCEPT ![set.field] = set.value]
           IN  /\ d \in Case
               /\ d.status = IF set.field = "status" THEN set.value ELSE c.status
               /\ d.resolved = IF set.field = "resolved" THEN TRUE ELSE c.resolved
               /\ set.case \in CaseIDs
BY DEF Case, Assignment

\* Three values of a set as a sequence, and one.
LEMMA Tuples ==
    ASSUME NEW S, NEW x \in S, NEW y \in S, NEW z \in S
    PROVE  <<x, y, z>> \in Seq(S) /\ <<x>> \in Seq(S) /\ <<>> \in Seq(S)
OBVIOUS

\* The jobs of the three calls.
LEMMA JobTypes ==
    ASSUME Types, NEW w \in Writers, NEW id \in CaseIDs
    PROVE  /\ AssignJob(w, id) \in Seq(Assignment)
           /\ \A v \in Decisions, n \in 0..MaxNotes : ResolveJob(w, id, v, n) \in Seq(Assignment)
           /\ cases[id].notes < MaxNotes => NoteJob(id) \in Seq(Assignment)
<1> USE DEF Set, Assignment
<1>1. AssignJob(w, id) \in Seq(Assignment)
  BY DEF AssignJob, Statuses
<1>2. ASSUME NEW v \in Decisions, NEW n \in 0..MaxNotes
      PROVE  ResolveJob(w, id, v, n) \in Seq(Assignment)
  <2>1. v \in Statuses
    BY ReadsAssumption DEF Statuses
  <2>2. Set(id, "status", v) \in Assignment /\ Set(id, "assignedTo", w) \in Assignment
        /\ Set(id, "resolved", TRUE) \in Assignment /\ Set(id, "notes", n) \in Assignment
    BY <2>1
  <2> HIDE DEF Set, Assignment
  <2>3. <<Set(id, "status", v), Set(id, "assignedTo", w), Set(id, "resolved", TRUE)>>
            \in Seq(Assignment)
    BY <2>2, Tuples
  <2>4. <<Set(id, "notes", n)>> \in Seq(Assignment) /\ <<>> \in Seq(Assignment)
    BY <2>2, Tuples
  <2>5. \A s, t \in Seq(Assignment) : s \o t \in Seq(Assignment)
    OBVIOUS
  <2>6. (IF n > cases[id].notes THEN <<Set(id, "notes", n)>> ELSE <<>>) \in Seq(Assignment)
    BY <2>4
  <2> QED BY <2>3, <2>5, <2>6 DEF ResolveJob
<1>3. ASSUME cases[id].notes < MaxNotes
      PROVE  NoteJob(id) \in Seq(Assignment)
  <2>1. cases[id].notes + 1 \in 0..MaxNotes
    BY <1>3, ReadsAssumption DEF Types, Case
  <2> QED BY <2>1 DEF NoteJob
<1> QED BY <1>1, <1>2, <1>3

\* The bound on the notes leaves room for the one that a call may add.
LEMMA NotesBound ==
    ASSUME Types, NEW id \in CaseIDs
    PROVE  /\ RoomForNotes => cases[id].notes < MaxNotes
           /\ \A n \in cases[id].notes..(cases[id].notes + 1) :
                 n = cases[id].notes \/ RoomForNotes => n <= MaxNotes
BY ReadsAssumption DEF Types, Case, RoomForNotes

\* The first field left to encode, and the rest.
LEMMA EncodingSteps ==
    ASSUME NEW f \in ToEncode, f # <<>>
    PROVE  /\ Head(f) \in {"status", "resolved"}
           /\ Tail(f) \in ToEncode
           /\ f = Encoding <=> Head(f) = "status"
           /\ f = <<"resolved">> <=> Head(f) = "resolved"
           /\ f = <<"resolved">> <=> Tail(f) = <<>>
           /\ Tail(f) # Encoding
<1>1. CASE f = Encoding
  BY <1>1 DEF ToEncode, Encoding
<1>2. CASE f = <<"resolved">>
  BY <1>2 DEF ToEncode, Encoding
<1> QED BY <1>1, <1>2 DEF ToEncode

\* Every call that decides a case assigns the time of the decision after the status.
LEMMA JobStamps ==
    ASSUME Types, NEW w \in Writers, NEW id \in CaseIDs
    PROVE  /\ Stamps(<<>>)
           /\ Stamps(AssignJob(w, id))
           /\ \A v \in Decisions, n \in 0..MaxNotes : Stamps(ResolveJob(w, id, v, n))
           /\ Stamps(NoteJob(id))
<1>1. Stamps(<<>>)
  BY DEF Stamps
<1>2. Stamps(AssignJob(w, id))
  BY DEF Stamps, AssignJob, Set, Verdicts
<1>3. ASSUME NEW v \in Decisions, NEW n \in 0..MaxNotes
      PROVE  Stamps(ResolveJob(w, id, v, n))
  <2> DEFINE x == Set(id, "status", v)
             y == Set(id, "assignedTo", w)
             z == Set(id, "resolved", TRUE)
             u == Set(id, "notes", n)
  <2>1. /\ x.case = id /\ y.field # "status" /\ z.field # "status" /\ u.field # "status"
        /\ z = Stamp(id)
    BY DEF Set, Stamp
  <2>2. ResolveJob(w, id, v, n) = <<x, y, z>> \o (IF n > cases[id].notes THEN <<u>> ELSE <<>>)
    BY DEF ResolveJob
  <2> HIDE DEF x, y, z, u
  <2> DEFINE job3 == <<x, y, z>>
             rest == IF n > cases[id].notes THEN <<u>> ELSE <<>>
             whole == job3 \o rest
             S == {x, y, z, u}
  <2>3. /\ job3 \in Seq(S) /\ Len(job3) = 3 /\ job3[1] = x /\ job3[2] = y /\ job3[3] = z
    OBVIOUS
  <2>4. rest \in Seq(S) /\ \A i \in 1..Len(rest) : rest[i] = u
    <3>1. u \in S
      OBVIOUS
    <3> HIDE DEF S
    <3>2. <<u>> \in Seq(S) /\ Len(<<u>>) = 1 /\ <<u>>[1] = u /\ <<>> \in Seq(S) /\ Len(<<>>) = 0
      BY <3>1
    <3>3. CASE n > cases[id].notes
      BY <3>2, <3>3
    <3>4. CASE ~(n > cases[id].notes)
      BY <3>2, <3>4
    <3> QED BY <3>3, <3>4
  <2> HIDE DEF job3, rest, S
  <2>5. /\ Len(rest) \in Nat /\ DOMAIN whole = 1..(3 + Len(rest))
        /\ \A i \in 1..3 : whole[i] = job3[i]
        /\ \A i \in 4..(3 + Len(rest)) : whole[i] = rest[i - 3]
    <3>1. /\ whole \in Seq(S) /\ Len(whole) = 3 + Len(rest)
          /\ \A i \in 1..(3 + Len(rest)) : whole[i] = IF i <= 3 THEN job3[i] ELSE rest[i - 3]
      <4>1. /\ whole \in Seq(S) /\ Len(whole) = Len(job3) + Len(rest)
            /\ \A i \in 1..(Len(job3) + Len(rest)) :
                  whole[i] = IF i <= Len(job3) THEN job3[i] ELSE rest[i - Len(job3)]
        BY <2>3, <2>4, ConcatProperties, Zenon
      <4> HIDE DEF whole
      <4> QED BY <2>3, <4>1
    <3>2. Len(rest) \in Nat /\ DOMAIN whole = 1..Len(whole)
      BY <2>4, <3>1
    <3> HIDE DEF whole
    <3> QED BY <3>1, <3>2
  <2> HIDE DEF whole
  <2>6. ASSUME NEW i \in DOMAIN whole, whole[i].field = "status"
        PROVE  i = 1
    <3>1. CASE i \in 1..3
      BY <2>1, <2>3, <2>5, <2>6, <3>1
    <3>2. CASE i \in 4..(3 + Len(rest))
      <4>1. i - 3 \in 1..Len(rest)
        BY <2>5, <3>2
      <4>2. whole[i] = u
        BY <2>4, <2>5, <3>2, <4>1
      <4> QED BY <2>1, <2>6, <4>2
    <3> QED BY <2>5, <3>1, <3>2
  <2>7. 3 \in DOMAIN whole /\ whole[3] = Stamp(whole[1].case)
    BY <2>1, <2>3, <2>5
  <2>8. Stamps(whole)
    BY <2>6, <2>7 DEF Stamps
  <2> QED BY <2>2, <2>8 DEF whole, job3, rest
<1>4. Stamps(NoteJob(id))
  BY DEF Stamps, NoteJob, Set
<1> QED BY <1>1, <1>2, <1>3, <1>4

\* A call that has carried out its first assignment still owes the rest.
LEMMA TailStamps ==
    ASSUME NEW s \in Seq(Assignment), s # <<>>, Stamps(s)
    PROVE  /\ Stamps(Tail(s))
           /\ Head(s).field = "status" /\ Head(s).value \in Verdicts =>
                 \E j \in DOMAIN Tail(s) : Tail(s)[j] = Stamp(Head(s).case)
           /\ \A id : (\E i \in DOMAIN s : s[i] = Stamp(id)) =>
                 Head(s) = Stamp(id) \/ \E i \in DOMAIN Tail(s) : Tail(s)[i] = Stamp(id)
<1>1. /\ Len(s) \in Nat /\ Len(s) >= 1 /\ DOMAIN s = 1..Len(s)
      /\ DOMAIN Tail(s) = 1..(Len(s) - 1)
      /\ \A i \in 1..(Len(s) - 1) : Tail(s)[i] = s[i + 1]
      /\ Head(s) = s[1]
  OBVIOUS
<1>2. ASSUME NEW i \in 2..Len(s)
      PROVE  i - 1 \in DOMAIN Tail(s) /\ Tail(s)[i - 1] = s[i]
  <2>1. i - 1 \in 1..(Len(s) - 1) /\ (i - 1) + 1 = i
    BY <1>1
  <2> QED BY <1>1, <2>1
<1>3. Stamps(Tail(s))
  <2> SUFFICES ASSUME NEW i \in DOMAIN Tail(s), Tail(s)[i].field = "status",
                      Tail(s)[i].value \in Verdicts
               PROVE  \E j \in DOMAIN Tail(s) : j > i /\ Tail(s)[j] = Stamp(Tail(s)[i].case)
    BY DEF Stamps
  <2>1. i \in 1..(Len(s) - 1) /\ Tail(s)[i] = s[i + 1] /\ i + 1 \in DOMAIN s
    BY <1>1
  <2>2. PICK j \in DOMAIN s : j > i + 1 /\ s[j] = Stamp(s[i + 1].case)
    BY <2>1 DEF Stamps
  <2>3. j \in 2..Len(s) /\ j - 1 > i
    BY <1>1, <2>1, <2>2
  <2> QED BY <1>2, <2>1, <2>2, <2>3
<1>4. ASSUME Head(s).field = "status", Head(s).value \in Verdicts
      PROVE  \E j \in DOMAIN Tail(s) : Tail(s)[j] = Stamp(Head(s).case)
  <2>1. PICK j \in DOMAIN s : j > 1 /\ s[j] = Stamp(s[1].case)
    BY <1>1, <1>4 DEF Stamps
  <2>2. j \in 2..Len(s)
    BY <1>1, <2>1
  <2>3. j - 1 \in DOMAIN Tail(s) /\ Tail(s)[j - 1] = s[j]
    BY <1>2, <2>2
  <2> QED BY <1>1, <2>1, <2>3
<1>5. ASSUME NEW id, NEW i \in DOMAIN s, s[i] = Stamp(id)
      PROVE  Head(s) = Stamp(id) \/ \E j \in DOMAIN Tail(s) : Tail(s)[j] = Stamp(id)
  <2>1. CASE i = 1
    BY <1>1, <1>5, <2>1
  <2>2. CASE i # 1
    <3>1. i \in 2..Len(s)
      BY <1>1, <2>2
    <3>2. i - 1 \in DOMAIN Tail(s) /\ Tail(s)[i - 1] = s[i]
      BY <1>2, <3>1
    <3> QED BY <1>5, <3>2
  <2> QED BY <2>1, <2>2
<1> QED BY <1>3, <1>4, <1>5

\* While nobody holds the mutex for writing no assignment is left to do, and
\* every decided case has the time of its decision.
LEMMA QuietMutex ==
    ASSUME ReadsInv, writer = Nobody
    PROVE  /\ \A w \in Writers : job[w] = <<>>
           /\ \A id \in CaseIDs : cases[id].status \in Verdicts => cases[id].resolved
<1>1. \A w \in Writers : job[w] = <<>>
  BY ReadsAssumption DEF ReadsInv, LockInv
<1> QED BY <1>1 DEF ReadsInv, DecisionInv

-----------------------------------------------------------------------------
(* The writers. *)

\* The invariant holds at first.
LEMMA ReadsInit == Init => ReadsInv
<1> SUFFICES ASSUME Init PROVE ReadsInv
  OBVIOUS
<1> USE DEF Init
<1>1. NewCase \in Case /\ NewCase.status = "open" /\ Idle \in Asks /\ Idle.kind = "none"
      /\ NoTally \in [Statuses -> Nat] /\ <<>> \in ToEncode
  BY ReadsAssumption DEF NewCase, Case, Statuses, Idle, Asks, NoTally, ToEncode
<1>9. NewDoc \in Doc /\ NothingSent \in Sent
  BY DEF NewDoc, Doc, Sent, NothingSent, Statuses
<1> HIDE DEF NewCase
<1>2. Types
  BY <1>1, <1>9 DEF Types
<1>3. ReaderShape
  BY DEF ReaderShape
<1>4. LockInv
  BY DEF LockInv, Counting
<1>5. StatsInv
  BY <1>1 DEF StatsInv, Counting
<1>6. DecisionInv
  BY <1>1, JobStamps DEF DecisionInv, Stamps, Verdicts
<1>7. ReadInv
  BY DEF ReadInv, ReadOf
<1>8. UntouchedIsFaithful
  BY <1>1 DEF UntouchedIsFaithful, NothingSent, NewDoc, Verdicts
<1> QED BY <1>2, <1>3, <1>4, <1>5, <1>6, <1>7, <1>8 DEF ReadsInv

\* A call begins when nobody holds the mutex, and owes the time of the decision
\* from its first assignment on.
LEMMA BeginInv == ASSUME ReadsInv, NEW w \in Writers, Begin(w) PROVE ReadsInv'
<1>1. /\ writer = Nobody /\ readers = {} /\ writer' = w
      /\ UNCHANGED <<cases, readers, hooks, readVars>>
  BY DEF Begin, LockWrite
<1>2. \E s \in Seq(Assignment) : Stamps(s) /\ job' = [job EXCEPT ![w] = s]
  <2>1. Types /\ MaxNotes \in Nat
    BY ReadsAssumption DEF ReadsInv
  <2>2. PICK id \in CaseIDs :
          \/ job' = [job EXCEPT ![w] = AssignJob(w, id)]
          \/ \E v \in Decisions, n \in cases[id].notes..(cases[id].notes + 1) :
                n <= MaxNotes /\ job' = [job EXCEPT ![w] = ResolveJob(w, id, v, n)]
          \/ cases[id].notes < MaxNotes /\ job' = [job EXCEPT ![w] = NoteJob(id)]
    BY <2>1, NotesBound DEF Begin
  <2>3. cases[id].notes \in Nat
    BY <2>1 DEF Types, Case
  <2>4. CASE job' = [job EXCEPT ![w] = AssignJob(w, id)]
    BY <2>1, <2>4, JobTypes, JobStamps
  <2>5. ASSUME NEW v \in Decisions, NEW n \in cases[id].notes..(cases[id].notes + 1),
               n <= MaxNotes, job' = [job EXCEPT ![w] = ResolveJob(w, id, v, n)]
        PROVE  \E s \in Seq(Assignment) : Stamps(s) /\ job' = [job EXCEPT ![w] = s]
    <3>1. n \in 0..MaxNotes
      BY <2>1, <2>3, <2>5
    <3> QED BY <2>1, <2>5, <3>1, JobTypes, JobStamps
  <2>6. CASE cases[id].notes < MaxNotes /\ job' = [job EXCEPT ![w] = NoteJob(id)]
    BY <2>1, <2>6, JobTypes, JobStamps
  <2> QED BY <2>2, <2>4, <2>5, <2>6
<1>3. PICK s \in Seq(Assignment) : Stamps(s) /\ job' = [job EXCEPT ![w] = s]
  BY <1>2
<1>4. /\ \A v \in Writers : job[v] = <<>>
      /\ \A id \in CaseIDs : cases[id].status \in Verdicts => cases[id].resolved
  BY <1>1, QuietMutex
<1> USE DEF ReadsInv, readVars
<1>5. Types'
  BY <1>1, <1>3 DEF Types
<1>6. ReaderShape'
  BY <1>1 DEF ReaderShape
<1>7. LockInv'
  BY <1>1, <1>3, <1>4 DEF LockInv, Counting, Types
<1>8. StatsInv'
  BY <1>1 DEF StatsInv, Counting, Left
<1>9. DecisionInv'
  BY <1>1, <1>3, <1>4 DEF DecisionInv, Types
<1>10. ReadInv'
  BY <1>1 DEF ReadInv, ReadOf, AsFound, Current
<1>11. UntouchedIsFaithful'
  BY <1>1 DEF UntouchedIsFaithful
<1> QED BY <1>5, <1>6, <1>7, <1>8, <1>9, <1>10, <1>11

\* An assignment: nobody counts meanwhile, a verdict without its time is owed
\* the time, and who found the case has been told.
LEMMA WriteInv == ASSUME ReadsInv, NEW w \in Writers, Write(w) PROVE ReadsInv'
<1> DEFINE set == Head(job[w])
           c == [cases[set.case] EXCEPT ![set.field] = set.value]
<1>1. /\ writer = w /\ job[w] # <<>>
      /\ cases' = [cases EXCEPT ![set.case] = c]
      /\ touched' = [r \in Readers |->
             touched[r] \cup (IF ask[r].kind # "stats" THEN {set.case} \cap found[r] ELSE {})]
      /\ doc' = [r \in Readers |-> IF set.case \in touched'[r] /\ Current(r) = set.case
                                   THEN NewDoc ELSE doc[r]]
      /\ job' = [job EXCEPT ![w] = Tail(job[w])]
      /\ UNCHANGED <<lockVars, confirms, hooks, ask, found, fields, tally, sent, truth>>
  BY DEF Write
<1>2. Types /\ ReaderShape /\ LockInv /\ StatsInv /\ DecisionInv /\ ReadInv /\ UntouchedIsFaithful
  BY DEF ReadsInv
<1>3. job[w] \in Seq(Assignment) /\ set \in Assignment /\ Tail(job[w]) \in Seq(Assignment)
  <2>1. job[w] \in Seq(Assignment)
    BY <1>2 DEF Types
  <2> QED BY <1>1, <2>1
<1> HIDE DEF set
<1>4. set.case \in CaseIDs
  BY <1>3 DEF Assignment
<1>5. /\ c \in Case
      /\ c.status = IF set.field = "status" THEN set.value ELSE cases[set.case].status
      /\ c.resolved = IF set.field = "resolved" THEN TRUE ELSE cases[set.case].resolved
  BY <1>2, <1>3, <1>4, AssignmentType DEF Types
<1> HIDE DEF c
<1>6. /\ cases' \in [CaseIDs -> Case] /\ cases'[set.case] = c
      /\ \A id \in CaseIDs : id # set.case => cases'[id] = cases[id]
  BY <1>1, <1>2, <1>4, <1>5 DEF Types
<1>7. job'[w] = Tail(job[w]) /\ \A v \in Writers : v # w => job'[v] = job[v] /\ job[v] = <<>>
  BY <1>1, <1>2 DEF Types, LockInv
<1>8. Types'
  <2>1. NewDoc \in Doc
    BY DEF NewDoc, Doc, Statuses
  <2>2. doc' \in [Readers -> Doc]
    BY <1>1, <1>2, <2>1 DEF Types
  <2> QED BY <1>1, <1>2, <1>3, <1>6, <2>2 DEF Types
<1>9. ReaderShape'
  BY <1>1, <1>2 DEF ReaderShape
<1>10. LockInv'
  BY <1>1, <1>2, <1>7 DEF LockInv, Counting, lockVars
<1>11. \A r \in Readers : ~Counting(r)
  BY <1>1, <1>2, ReadsAssumption DEF LockInv
<1>12. StatsInv'
  BY <1>1, <1>2, <1>11 DEF StatsInv, Counting
<1>13. DecisionInv'
  <2>1. /\ Stamps(Tail(job[w]))
        /\ set.field = "status" /\ set.value \in Verdicts =>
              \E j \in DOMAIN Tail(job[w]) : Tail(job[w])[j] = Stamp(set.case)
        /\ \A id : (\E i \in DOMAIN job[w] : job[w][i] = Stamp(id)) =>
              set = Stamp(id) \/ \E i \in DOMAIN Tail(job[w]) : Tail(job[w])[i] = Stamp(id)
    BY <1>1, <1>2, <1>3, TailStamps DEF set, DecisionInv
  <2>2. \A id : Stamp(id).case = id /\ Stamp(id).field = "resolved"
    BY DEF Stamp, Set
  <2>3. ASSUME NEW id \in CaseIDs, cases'[id].status \in Verdicts, ~cases'[id].resolved
        PROVE  \E i \in DOMAIN job'[w] : job'[w][i] = Stamp(id)
    <3>1. ASSUME cases[id].status \in Verdicts, ~cases[id].resolved
          PROVE  \E i \in DOMAIN job[w] : job[w][i] = Stamp(id)
      BY <1>2, <1>7, <3>1 DEF DecisionInv
    <3>2. CASE id # set.case
      <4>1. cases'[id] = cases[id]
        BY <1>6, <3>2
      <4> QED BY <1>7, <2>1, <2>2, <2>3, <3>1, <3>2, <4>1
    <3>3. CASE id = set.case
      <4>1. set.field # "resolved"
        BY <1>5, <1>6, <2>3, <3>3
      <4>2. CASE set.field = "status"
        BY <1>5, <1>6, <1>7, <2>1, <2>3, <3>3, <4>2
      <4>3. CASE set.field # "status"
        <5>1. cases[id].status \in Verdicts /\ ~cases[id].resolved
          BY <1>5, <1>6, <2>3, <3>3, <4>1, <4>3
        <5> QED BY <1>7, <2>1, <2>2, <3>1, <4>1, <5>1
      <4> QED BY <4>2, <4>3
    <3> QED BY <3>2, <3>3
  <2>4. \A v \in Writers : Stamps(job'[v])
    BY <1>2, <1>7, <2>1 DEF DecisionInv
  <2> QED BY <2>3, <2>4 DEF DecisionInv
<1>14. ReadInv'
  <2> SUFFICES ASSUME NEW r \in Readers
               PROVE  /\ ask'[r].kind # "stats" => \A id \in found'[r] \ touched'[r] : AsFound(r, id)'
                      /\ fields'[r] \notin {<<>>, Encoding} /\ Current(r)' \notin touched'[r] =>
                            doc'[r].status = cases'[Current(r)'].status
    BY DEF ReadInv, ReadOf
  <2>5. /\ ask' = ask /\ found' = found /\ fields' = fields
        /\ Current(r)' = Current(r)
    BY <1>1 DEF Current
  <2>1. ASSUME ask[r].kind # "stats", NEW id \in found[r], id \notin touched'[r]
        PROVE  id \notin touched[r] /\ cases'[id] = cases[id]
    BY <1>1, <1>2, <1>6, <2>1 DEF Types
  <2>2. ask[r].kind # "stats" => \A id \in found[r] \ touched'[r] : AsFound(r, id)'
    BY <1>1, <1>2, <2>1 DEF ReadInv, ReadOf, AsFound
  <2>3. fields[r] # <<>> => ask[r].kind # "stats" /\ Current(r) \in found[r]
    BY <1>2 DEF ReaderShape, Current
  <2>6. ASSUME fields[r] # <<>>, Current(r) \notin touched'[r]
        PROVE  /\ Current(r) \notin touched[r] /\ cases'[Current(r)] = cases[Current(r)]
               /\ doc'[r] = doc[r]
    <3>1. Current(r) \notin touched[r] /\ cases'[Current(r)] = cases[Current(r)]
      BY <2>1, <2>3, <2>6
    <3>2. ~(set.case \in touched'[r] /\ Current(r) = set.case)
      BY <2>6
    <3>3. doc'[r] = doc[r]
      BY <1>1, <3>2
    <3> QED BY <3>1, <3>3
  <2>7. fields[r] \notin {<<>>, Encoding} /\ Current(r) \notin touched[r] =>
            doc[r].status = cases[Current(r)].status
    BY <1>2 DEF ReadInv, ReadOf
  <2> QED BY <2>2, <2>5, <2>6, <2>7
<1>15. UntouchedIsFaithful'
  BY <1>1, <1>2 DEF UntouchedIsFaithful
<1> QED BY <1>8, <1>9, <1>10, <1>12, <1>13, <1>14, <1>15 DEF ReadsInv

\* The unlock: who still had something to assign would still hold the mutex.
LEMMA EndInv == ASSUME ReadsInv, NEW w \in Writers, End(w) PROVE ReadsInv'
<1>1. /\ writer = w /\ job[w] = <<>> /\ writer' = Nobody
      /\ UNCHANGED <<cases, readers, job, readVars>>
  BY DEF End
<1> USE DEF ReadsInv, readVars
<1>2. Types'
  BY <1>1 DEF Types
<1>3. ReaderShape'
  BY <1>1 DEF ReaderShape
<1>4. LockInv'
  BY <1>1 DEF LockInv, Counting
<1>5. StatsInv'
  BY <1>1 DEF StatsInv, Counting, Left
<1>6. DecisionInv'
  BY <1>1 DEF DecisionInv
<1>7. ReadInv'
  BY <1>1 DEF ReadInv, ReadOf, AsFound, Current
<1>8. UntouchedIsFaithful'
  BY <1>1 DEF UntouchedIsFaithful
<1> QED BY <1>2, <1>3, <1>4, <1>5, <1>6, <1>7, <1>8

\* A hook, or a call that waits, changes no case, nor anything a reader has.
LEMMA NoWriteInv ==
    ASSUME ReadsInv, UNCHANGED <<cases, writer, readers, job, readVars>>
    PROVE  ReadsInv'
<1> USE DEF ReadsInv, readVars
<1>1. Types'
  BY DEF Types
<1>2. ReaderShape'
  BY DEF ReaderShape
<1>3. LockInv'
  BY DEF LockInv, Counting
<1>4. StatsInv'
  BY DEF StatsInv, Counting, Left
<1>5. DecisionInv'
  BY DEF DecisionInv
<1>6. ReadInv'
  BY DEF ReadInv, ReadOf, AsFound, Current
<1>7. UntouchedIsFaithful'
  BY DEF UntouchedIsFaithful
<1> QED BY <1>1, <1>2, <1>3, <1>4, <1>5, <1>6, <1>7

-----------------------------------------------------------------------------
(* The readers. *)

\* A new question starts from nothing found, nothing counted and nothing sent.
LEMMA AskInv ==
    ASSUME ReadsInv, NEW r \in Readers, NEW a \in Asks \ {Idle}, Ask(r, a)
    PROVE  ReadsInv'
<1>1. /\ ask[r] = Idle /\ ask' = [ask EXCEPT ![r] = a]
      /\ sent' = [sent EXCEPT ![r] = NothingSent]
      /\ tally' = [tally EXCEPT ![r] = NoTally]
      /\ truth' = [truth EXCEPT ![r] = NoTally]
      /\ UNCHANGED <<cases, writer, readers, writeVars, found, fields, doc, touched>>
  BY DEF Ask
<1>2. found[r] = {} /\ fields[r] = <<>>
  BY <1>1 DEF ReadsInv, ReaderShape, Idle
<1>3. /\ NoTally \in [Statuses -> Nat]
      /\ NothingSent \in Sent
      /\ NothingSent.filter = "any" /\ NothingSent.case.status \notin Verdicts
  BY DEF NoTally, NothingSent, NewDoc, Doc, Sent, Statuses, Verdicts
<1> USE DEF ReadsInv, writeVars
<1>4. Types'
  BY <1>1, <1>3 DEF Types
<1>5. ReaderShape'
  BY <1>1, <1>2 DEF ReaderShape, Types
<1>6. LockInv'
  <2>1. \A q \in Readers : Counting(q)' <=> Counting(q)
    BY <1>1, <1>2 DEF Counting, Types
  <2> QED BY <1>1, <2>1 DEF LockInv
<1>7. StatsInv'
  <2>1. \A q \in Readers : q # r => ask'[q] = ask[q] /\ tally'[q] = tally[q] /\ truth'[q] = truth[q]
    BY <1>1 DEF Types
  <2>2. found'[r] = {} /\ tally'[r] = NoTally /\ truth'[r] = NoTally
    BY <1>1, <1>2 DEF Types
  <2>3. \A q \in Readers, s \in Statuses : Left(q, s)' = Left(q, s)
    BY <1>1 DEF Left
  <2>4. \A q \in Readers : Counting(q)' => Counting(q) /\ q # r
    BY <1>1, <2>1, <2>2 DEF Counting
  <2>5. StatsInv /\ found' = found
    BY <1>1
  <2> HIDE DEF ReadsInv
  <2> QED BY <2>1, <2>2, <2>3, <2>4, <2>5 DEF StatsInv
<1>8. DecisionInv'
  BY <1>1 DEF DecisionInv
<1>9. ReadInv'
  BY <1>1, <1>2 DEF ReadInv, ReadOf, AsFound, Current, Types
<1>10. UntouchedIsFaithful'
  BY <1>1, <1>3 DEF UntouchedIsFaithful, Types
<1> QED BY <1>4, <1>5, <1>6, <1>7, <1>8, <1>9, <1>10

\* What is found is found between calls: decided cases have their time, and
\* match the filter.
LEMMA FindInv == ASSUME ReadsInv, NEW r \in Readers, Find(r) PROVE ReadsInv'
<1>1. /\ ask[r].kind \in {"get", "list"} /\ found[r] = {} /\ fields[r] = <<>>
      /\ writer = Nobody
      /\ UNCHANGED <<cases, writer, readers, writeVars, fields, doc, tally, sent, touched, truth>>
  BY DEF Find
<1>2. PICK ids \in SUBSET CaseIDs :
        /\ found' = [found EXCEPT ![r] = ids]
        /\ \A id \in ids : ask[r].status \in {"any", cases[id].status}
        /\ ask' = IF ids = {} THEN [ask EXCEPT ![r] = Idle] ELSE ask
  <2>1. CASE ask[r].kind = "get"
    <3>1. ask[r].status = "any"
      BY <2>1 DEF ReadsInv, Types, Asks, Idle
    <3>2. PICK id \in CaseIDs : found' = [found EXCEPT ![r] = {id}] /\ UNCHANGED ask
      BY <2>1 DEF Find
    <3>3. {id} \in SUBSET CaseIDs /\ {id} # {} /\ ask' = ask
      BY <3>2
    <3>4. ask' = IF {id} = {} THEN [ask EXCEPT ![r] = Idle] ELSE ask
      BY <3>3
    <3> QED BY <3>1, <3>2, <3>3, <3>4
  <2>2. CASE ask[r].kind = "list"
    <3> DEFINE ids == {id \in CaseIDs : ask[r].status \in {"any", cases[id].status}}
    <3>1. /\ found' = [found EXCEPT ![r] = ids]
          /\ ask' = IF ids = {} THEN [ask EXCEPT ![r] = Idle] ELSE ask
      BY <2>2 DEF Find
    <3>2. ids \in SUBSET CaseIDs /\ \A id \in ids : ask[r].status \in {"any", cases[id].status}
      OBVIOUS
    <3> QED BY <3>1, <3>2
  <2> QED BY <1>1, <2>1, <2>2
<1>3. \A id \in CaseIDs : cases[id].status \in Verdicts => cases[id].resolved
  BY <1>1, QuietMutex
<1> USE DEF ReadsInv, writeVars
<1>4. Types'
  BY <1>1, <1>2 DEF Types, Asks
<1>5. ask'[r] \in {ask[r], Idle} /\ (ask'[r] = Idle => found'[r] = {})
      /\ found'[r] = ids /\ \A q \in Readers : q # r => ask'[q] = ask[q] /\ found'[q] = found[q]
  BY <1>1, <1>2 DEF Types, Idle
<1>6. Idle.kind = "none" /\ ask'[r].kind # "stats" /\ ask[r].kind # "stats"
  BY <1>1, <1>5 DEF Idle
<1>7. ReaderShape'
  BY <1>1, <1>5 DEF ReaderShape
<1>8. LockInv'
  <2>1. \A q \in Readers : Counting(q)' <=> Counting(q)
    BY <1>5, <1>6 DEF Counting
  <2> QED BY <1>1, <2>1 DEF LockInv
<1>9. StatsInv'
  BY <1>1, <1>5, <1>6 DEF StatsInv, Counting, Left
<1>10. DecisionInv'
  BY <1>1 DEF DecisionInv
<1>11. ReadInv'
  BY <1>1, <1>2, <1>3, <1>5 DEF ReadInv, ReadOf, AsFound, Current
<1>12. UntouchedIsFaithful'
  BY <1>1 DEF UntouchedIsFaithful
<1> QED BY <1>4, <1>7, <1>8, <1>9, <1>10, <1>11, <1>12

\* To begin a case is to have all its fields to encode.
LEMMA BeginCaseInv == ASSUME ReadsInv, NEW r \in Readers, BeginCase(r) PROVE ReadsInv'
<1>1. /\ ask[r].kind \in {"get", "list"} /\ found[r] # {} /\ fields[r] = <<>>
      /\ fields' = [fields EXCEPT ![r] = Encoding]
      /\ sent' = [sent EXCEPT ![r] = NothingSent]
      /\ UNCHANGED <<cases, lockVars, writeVars, ask, found, doc, tally, touched, truth>>
  BY DEF BeginCase
<1>2. /\ NothingSent \in Sent
      /\ NothingSent.filter = "any" /\ NothingSent.case.status \notin Verdicts
  BY DEF NothingSent, NewDoc, Doc, Sent, Statuses, Verdicts
<1>3. Encoding # <<>> /\ Encoding \in ToEncode
  BY DEF Encoding, ToEncode
<1> USE DEF ReadsInv, lockVars, writeVars
<1>4. Types'
  BY <1>1, <1>2, <1>3 DEF Types
<1>5. ReaderShape'
  BY <1>1 DEF ReaderShape, Types
<1>6. LockInv'
  BY <1>1 DEF LockInv, Counting
<1>7. StatsInv'
  BY <1>1 DEF StatsInv, Counting, Left
<1>8. DecisionInv'
  BY <1>1 DEF DecisionInv
<1>9. ReadInv'
  <2>1. fields'[r] = Encoding /\ \A q \in Readers : q # r => fields'[q] = fields[q]
    BY <1>1 DEF Types
  <2>2. \A q \in Readers : Current(q)' = Current(q) /\ \A id : AsFound(q, id)' <=> AsFound(q, id)
    BY <1>1 DEF Current, AsFound
  <2>3. ReadInv /\ UNCHANGED <<cases, ask, found, doc, touched>>
    BY <1>1
  <2> HIDE DEF ReadsInv
  <2> QED BY <1>3, <2>1, <2>2, <2>3 DEF ReadInv, ReadOf
<1>10. UntouchedIsFaithful'
  BY <1>1, <1>2 DEF UntouchedIsFaithful, Types
<1> QED BY <1>4, <1>5, <1>6, <1>7, <1>8, <1>9, <1>10

\* A field is copied from the case as it is; the last one ends the case.
LEMMA EncodeFieldInv == ASSUME ReadsInv, NEW r \in Readers, EncodeField(r) PROVE ReadsInv'
<1> DEFINE id == Current(r)
           f == Head(fields[r])
           d == [doc[r] EXCEPT ![f] = cases[id][f]]
           last == Tail(fields[r]) = <<>>
           clean == id \notin touched[r]
           answer == [case |-> IF clean THEN d ELSE NewDoc, filter |-> ask[r].status,
                      touched |-> ~clean]
<1>1. /\ fields[r] # <<>>
      /\ doc' = [doc EXCEPT ![r] = IF ~last /\ clean THEN d ELSE NewDoc]
      /\ fields' = [fields EXCEPT ![r] = Tail(fields[r])]
      /\ found' = IF last THEN [found EXCEPT ![r] = found[r] \ {id}] ELSE found
      /\ sent' = IF last THEN [sent EXCEPT ![r] = answer] ELSE sent
      /\ touched' = IF last THEN [touched EXCEPT ![r] = touched[r] \ {id}] ELSE touched
      /\ ask' = IF last /\ found[r] = {id} THEN [ask EXCEPT ![r] = Idle] ELSE ask
      /\ UNCHANGED <<cases, lockVars, writeVars, tally, truth>>
  BY DEF EncodeField
<1>2. Types /\ ReaderShape /\ LockInv /\ StatsInv /\ DecisionInv /\ ReadInv /\ UntouchedIsFaithful
  BY DEF ReadsInv
<1>3. /\ ask[r].kind \in {"get", "list"} /\ id \in found[r] /\ id \in CaseIDs
      /\ cases[id] \in Case /\ doc[r] \in Doc /\ fields[r] \in ToEncode
  BY <1>1, <1>2 DEF ReaderShape, Types, Current
<1>4. /\ f \in {"status", "resolved"}
      /\ Tail(fields[r]) \in ToEncode
      /\ fields[r] = Encoding <=> f = "status"
      /\ last <=> f = "resolved"
      /\ Tail(fields[r]) # Encoding
  BY <1>1, <1>3, EncodingSteps
<1>5. /\ d \in Doc
      /\ d.status = IF f = "status" THEN cases[id].status ELSE doc[r].status
      /\ d.resolved = IF f = "resolved" THEN cases[id].resolved ELSE doc[r].resolved
  <2>1. PICK a \in Case, b \in Doc, g \in {"status", "resolved"} :
           a = cases[id] /\ b = doc[r] /\ g = f
    BY <1>3, <1>4
  <2>2. /\ [b EXCEPT ![g] = a[g]] \in Doc
        /\ [b EXCEPT ![g] = a[g]].status = IF g = "status" THEN a.status ELSE b.status
        /\ [b EXCEPT ![g] = a[g]].resolved = IF g = "resolved" THEN a.resolved ELSE b.resolved
    BY DEF Case, Doc
  <2>3. d = [b EXCEPT ![g] = a[g]]
    BY <2>1
  <2> HIDE DEF d, f, id
  <2> QED BY <2>1, <2>2, <2>3
<1>6. /\ NewDoc \in Doc /\ Idle \in Asks /\ Idle.kind = "none"
      /\ ask[r].status \in Statuses \cup {"any"}
  <2>1. NewDoc \in Doc /\ Idle \in Asks /\ Idle.kind = "none"
    BY DEF NewDoc, Doc, Statuses, Idle, Asks
  <2>2. \A q \in Asks : q.status \in Statuses \cup {"any"}
    BY ReadsAssumption DEF Asks, Idle
  <2> QED BY <1>2, <2>1, <2>2 DEF Types
<1>7. clean => /\ f # "status" => doc[r].status = cases[id].status
               /\ AsFound(r, id)
  BY <1>1, <1>2, <1>3, <1>4 DEF ReadInv, ReadOf
<1>18. answer \in Sent
  BY <1>5, <1>6 DEF Sent
<1> HIDE DEF id, f, d, last, clean, answer
<1>8. Types'
  <2>1. (IF ~last /\ clean THEN d ELSE NewDoc) \in Doc
    BY <1>5, <1>6
  <2>2. doc' \in [Readers -> Doc] /\ sent' \in [Readers -> Sent]
    BY <1>1, <1>2, <1>18, <2>1 DEF Types
  <2> QED BY <1>1, <1>2, <1>4, <1>6, <2>2 DEF Types, lockVars, writeVars
<1>9. \A q \in Readers : q # r => /\ doc'[q] = doc[q] /\ fields'[q] = fields[q]
                                 /\ found'[q] = found[q] /\ sent'[q] = sent[q]
                                 /\ touched'[q] = touched[q] /\ ask'[q] = ask[q]
  BY <1>1, <1>2 DEF Types
<1>10. /\ fields'[r] = Tail(fields[r])
       /\ last => /\ fields'[r] = <<>> /\ found'[r] = found[r] \ {id}
                  /\ sent'[r] = answer
                  /\ touched'[r] = touched[r] \ {id}
                  /\ ask'[r] = IF found[r] = {id} THEN Idle ELSE ask[r]
       /\ ~last => /\ fields'[r] # <<>> /\ found'[r] = found[r] /\ sent'[r] = sent[r]
                   /\ touched'[r] = touched[r] /\ ask'[r] = ask[r] /\ (clean => doc'[r] = d)
  BY <1>1, <1>2 DEF Types, last
<1>11. ask'[r].kind # "stats" /\ ask[r].kind # "stats"
  BY <1>3, <1>6, <1>10
<1>12. ReaderShape'
  <2>1. (ask'[r] = Idle => found'[r] = {}) /\ (fields'[r] # <<>> => found'[r] # {}
            /\ ask'[r].kind \in {"get", "list"})
    BY <1>3, <1>6, <1>10
  <2> QED BY <1>2, <1>9, <2>1 DEF ReaderShape
<1>13. LockInv'
  <2>1. \A q \in Readers : Counting(q)' <=> Counting(q)
    BY <1>9, <1>11 DEF Counting
  <2> QED BY <1>1, <1>2, <2>1 DEF LockInv, lockVars, writeVars
<1>14. StatsInv'
  BY <1>1, <1>2, <1>9, <1>11 DEF StatsInv, Counting, Left
<1>15. DecisionInv'
  BY <1>1, <1>2 DEF DecisionInv, writeVars
<1>16. ReadInv'
  <2>1. ASSUME NEW q \in Readers, q # r
        PROVE  /\ ask'[q].kind # "stats" => \A c \in found'[q] \ touched'[q] : AsFound(q, c)'
               /\ fields'[q] \notin {<<>>, Encoding} /\ Current(q)' \notin touched'[q] =>
                     doc'[q].status = cases'[Current(q)'].status
    BY <1>1, <1>2, <1>9, <2>1 DEF ReadInv, ReadOf, AsFound, Current
  <2>2. CASE last
    <3>1. ASSUME NEW c \in found'[r], c \notin touched'[r]
          PROVE  AsFound(r, c)'
      <4>1. c \in found[r] \ touched[r] /\ ask'[r] = ask[r]
        BY <1>10, <2>2, <3>1
      <4> QED BY <1>1, <1>2, <1>11, <4>1 DEF ReadInv, ReadOf, AsFound
    <3>2. fields'[r] = <<>>
      BY <1>10, <2>2
    <3> QED BY <2>1, <3>1, <3>2 DEF ReadInv, ReadOf
  <2>3. CASE ~last
    <3>1. Current(r)' = id
      BY <1>10, <2>3 DEF Current, id
    <3>2. \A c \in found'[r] \ touched'[r] : AsFound(r, c)'
      BY <1>1, <1>2, <1>10, <1>11, <2>3 DEF ReadInv, ReadOf, AsFound
    <3>3. clean => d.status = cases[id].status
      BY <1>5, <1>7
    <3>4. id \notin touched[r] <=> clean
      BY DEF clean
    <3> QED BY <1>1, <1>10, <2>1, <2>3, <3>1, <3>2, <3>3, <3>4 DEF ReadInv, ReadOf
  <2> QED BY <2>2, <2>3
<1>17. UntouchedIsFaithful'
  <2>1. ASSUME last, ~sent'[r].touched
        PROVE  /\ sent'[r].filter \in {"any", sent'[r].case.status}
               /\ sent'[r].case.status \in Verdicts => sent'[r].case.resolved
    <3>1. clean /\ sent'[r].case = d /\ sent'[r].filter = ask[r].status
      <4>1. sent'[r] = answer
        BY <1>10, <2>1
      <4>2. answer.touched = ~clean /\ answer.filter = ask[r].status
        BY DEF answer
      <4>3. clean
        BY <2>1, <4>1, <4>2 DEF clean
      <4>4. answer.case = d
        BY <4>3 DEF answer
      <4> QED BY <4>1, <4>2, <4>3, <4>4
    <3>2. f = "resolved"
      BY <1>4, <2>1
    <3>3. d.status = cases[id].status /\ d.resolved = cases[id].resolved /\ AsFound(r, id)
      BY <1>5, <1>7, <3>1, <3>2
    <3> QED BY <3>1, <3>3 DEF AsFound
  <2>2. ~last => sent'[r] = sent[r]
    BY <1>10
  <2> QED BY <1>2, <1>9, <2>1, <2>2 DEF UntouchedIsFaithful
<1> QED BY <1>8, <1>12, <1>13, <1>14, <1>15, <1>16, <1>17 DEF ReadsInv

-----------------------------------------------------------------------------
(* The counts. *)

\* At its start a Stats has everything left to count.
LEMMA BeginStatsInv == ASSUME ReadsInv, NEW r \in Readers, BeginStats(r) PROVE ReadsInv'
<1>1. /\ ask[r].kind = "stats" /\ found[r] = {} /\ writer = Nobody
      /\ readers' = readers \cup {r}
      /\ found' = [found EXCEPT ![r] = CaseIDs]
      /\ truth' = [truth EXCEPT ![r] = [s \in Statuses |-> Count(s)]]
      /\ UNCHANGED <<cases, writer, writeVars, ask, fields, doc, tally, sent, touched>>
  BY DEF BeginStats
<1>2. Types /\ ReaderShape /\ LockInv /\ StatsInv /\ DecisionInv /\ ReadInv /\ UntouchedIsFaithful
  BY DEF ReadsInv
<1>3. fields[r] = <<>> /\ CaseIDs # {} /\ ask[r] # Idle
  BY <1>1, <1>2, ReadsAssumption DEF ReaderShape, Idle
<1>4. \A s \in Statuses : Count(s) \in Nat
  <2> SUFFICES ASSUME NEW s \in Statuses PROVE Count(s) \in Nat
    OBVIOUS
  <2>1. IsFiniteSet({id \in CaseIDs : cases[id].status = s})
    BY ReadsAssumption, FS_Subset
  <2> QED BY <2>1, FS_CardinalityType DEF Count
<1>5. Types'
  BY <1>1, <1>2, <1>4 DEF Types, writeVars
<1>6. \A q \in Readers : q # r => found'[q] = found[q] /\ truth'[q] = truth[q]
  BY <1>1, <1>2 DEF Types
<1>7. found'[r] = CaseIDs /\ truth'[r] = [s \in Statuses |-> Count(s)]
  BY <1>1, <1>2 DEF Types
<1>8. ReaderShape'
  BY <1>1, <1>2, <1>3, <1>6 DEF ReaderShape
<1>9. LockInv'
  <2>1. Counting(r)' /\ \A q \in Readers : q # r => (Counting(q)' <=> Counting(q))
    BY <1>1, <1>3, <1>6, <1>7 DEF Counting
  <2> QED BY <1>1, <1>2, <2>1 DEF LockInv, writeVars
<1>10. StatsInv'
  <2>1. \A s \in Statuses : tally[r][s] = 0 /\ Left(r, s)' = Count(s)
    <3>1. tally[r] = NoTally
      BY <1>1, <1>2 DEF StatsInv
    <3>2. \A s \in Statuses : tally[r][s] = 0
      BY <3>1 DEF NoTally
    <3>3. cases' = cases /\ found'[r] = CaseIDs
      BY <1>1, <1>7
    <3>4. \A s \in Statuses : Left(r, s)' = Count(s)
      BY <3>3 DEF Left, Count
    <3> QED BY <3>2, <3>4
  <2>2. \A s \in Statuses : tally'[r][s] + Left(r, s)' = truth'[r][s]
    BY <1>1, <1>4, <1>7, <2>1
  <2>3. \A q \in Readers, s \in Statuses : q # r => Left(q, s)' = Left(q, s)
    BY <1>1, <1>6 DEF Left
  <2>4. \A q \in Readers : q # r => (Counting(q)' <=> Counting(q))
    BY <1>1, <1>6 DEF Counting
  <2> QED BY <1>1, <1>2, <1>3, <1>6, <1>7, <2>2, <2>3, <2>4 DEF StatsInv
<1>11. DecisionInv'
  BY <1>1, <1>2 DEF DecisionInv, writeVars
<1>12. ReadInv'
  <2>1. \A q \in Readers : q # r => Current(q)' = Current(q) /\ \A id : AsFound(q, id)' <=> AsFound(q, id)
    BY <1>1, <1>6 DEF Current, AsFound
  <2>3. ASSUME NEW q \in Readers, q # r PROVE ReadOf(q)'
    <3>1. ReadOf(q)
      BY <1>2 DEF ReadInv, ReadOf
    <3>2. /\ ask' = ask /\ found'[q] = found[q] /\ touched' = touched /\ fields' = fields
          /\ doc' = doc /\ cases' = cases
      BY <1>1, <1>6, <2>3
    <3> QED BY <2>1, <2>3, <3>1, <3>2 DEF ReadOf
  <2>4. ask'[r].kind = "stats" /\ fields'[r] = <<>>
    BY <1>1, <1>3
  <2>5. ReadOf(r)'
    BY <2>4, <1>1 DEF ReadOf
  <2> QED BY <2>3, <2>5 DEF ReadInv, ReadOf
<1>13. UntouchedIsFaithful'
  BY <1>1, <1>2 DEF UntouchedIsFaithful
<1> QED BY <1>5, <1>8, <1>9, <1>10, <1>11, <1>12, <1>13 DEF ReadsInv

\* A case that is counted moves from what is left to the tally, under the status
\* it had at the start: no writer comes in between.
LEMMA CountCaseInv == ASSUME ReadsInv, NEW r \in Readers, CountCase(r) PROVE ReadsInv'
<1> DEFINE id == Current(r)
           st == cases[id].status
           final == found[r] = {id}
<1>1. /\ ask[r].kind = "stats" /\ found[r] # {}
      /\ tally' = [tally EXCEPT ![r] = [tally[r] EXCEPT ![st] = tally[r][st] + 1]]
      /\ found' = [found EXCEPT ![r] = found[r] \ {id}]
      /\ readers' = IF final THEN readers \ {r} ELSE readers
      /\ ask' = IF final THEN [ask EXCEPT ![r] = Idle] ELSE ask
      /\ UNCHANGED <<cases, writer, writeVars, fields, doc, sent, touched, truth>>
  <2>1. tally' = [tally EXCEPT ![r] = [tally[r] EXCEPT ![st] = tally[r][st] + 1]]
    BY DEF CountCase, Current
  <2>2. /\ ask[r].kind = "stats" /\ found[r] # {}
        /\ found' = [found EXCEPT ![r] = found[r] \ {id}]
        /\ readers' = IF final THEN readers \ {r} ELSE readers
        /\ ask' = IF final THEN [ask EXCEPT ![r] = Idle] ELSE ask
        /\ UNCHANGED <<cases, writer, writeVars, fields, doc, sent, touched, truth>>
    BY DEF CountCase, Current
  <2> QED BY <2>1, <2>2
<1>2. Types /\ ReaderShape /\ LockInv /\ StatsInv /\ DecisionInv /\ ReadInv /\ UntouchedIsFaithful
  BY DEF ReadsInv
<1>3. /\ id \in found[r] /\ id \in CaseIDs /\ st \in Statuses
      /\ found[r] \subseteq CaseIDs /\ tally[r] \in [Statuses -> Nat]
      /\ truth[r] \in [Statuses -> Nat]
      /\ fields[r] = <<>> /\ ask[r] # Idle
  BY <1>1, <1>2 DEF Types, Current, Case, ReaderShape, Idle
<1>4. Idle \in Asks /\ Idle.kind = "none"
  BY DEF Idle, Asks
<1> HIDE DEF id, st
<1>5. Types'
  BY <1>1, <1>2, <1>3, <1>4 DEF Types, writeVars
<1>6. \A q \in Readers : q # r => ask'[q] = ask[q] /\ found'[q] = found[q] /\ tally'[q] = tally[q]
  BY <1>1, <1>2 DEF Types
<1>7. /\ found'[r] = found[r] \ {id}
      /\ \A s \in Statuses : tally'[r][s] = IF s = st THEN tally[r][s] + 1 ELSE tally[r][s]
      /\ tally'[r] \in [Statuses -> Nat]
      /\ final => ask'[r] = Idle /\ found'[r] = {}
      /\ ~final => ask'[r] = ask[r] /\ found'[r] # {}
  BY <1>1, <1>2, <1>3 DEF Types
<1> HIDE DEF final
<1>8. ReaderShape'
  BY <1>1, <1>2, <1>3, <1>6, <1>7 DEF ReaderShape
<1>9. Counting(r) /\ (Counting(r)' <=> ~final)
      /\ \A q \in Readers : q # r => (Counting(q)' <=> Counting(q))
  BY <1>1, <1>4, <1>6, <1>7 DEF Counting
<1>10. LockInv'
  BY <1>1, <1>2, <1>9 DEF LockInv, writeVars
<1>11. ASSUME NEW s \in Statuses
       PROVE  /\ tally'[r][s] + Left(r, s)' = truth[r][s]
              /\ final => Left(r, s)' = 0
  <2> DEFINE before == {c \in found[r] : cases[c].status = s}
             after == {c \in found'[r] : cases'[c].status = s}
  <2>1. IsFiniteSet(before)
    BY <1>3, ReadsAssumption, FS_Subset
  <2>2. after = before \ {id} /\ (id \in before <=> s = st)
    BY <1>1, <1>3, <1>7 DEF st
  <2> HIDE DEF before, after
  <2>3. /\ Cardinality(before) \in Nat /\ Cardinality(after) \in Nat
        /\ Cardinality(after) = IF s = st THEN Cardinality(before) - 1 ELSE Cardinality(before)
    BY <2>1, <2>2, FS_RemoveElement, FS_CardinalityType
  <2>4. tally[r][s] + Cardinality(before) = truth[r][s]
    BY <1>2, <1>9 DEF StatsInv, Left, before
  <2>5. tally'[r][s] + Cardinality(after) = truth[r][s]
    <3>1. tally[r][s] \in Nat /\ truth[r][s] \in Nat
      BY <1>3
    <3>2. CASE s = st
      <4>1. tally'[r][s] = tally[r][s] + 1 /\ Cardinality(after) = Cardinality(before) - 1
        BY <1>7, <2>3, <3>2
      <4> QED BY <2>3, <2>4, <3>1, <4>1
    <3>3. CASE s # st
      <4>1. tally'[r][s] = tally[r][s] /\ Cardinality(after) = Cardinality(before)
        BY <1>7, <2>3, <3>3
      <4> QED BY <2>4, <4>1
    <3> QED BY <3>2, <3>3
  <2>6. final => Cardinality(after) = 0
    BY <1>7, FS_EmptySet DEF after
  <2> QED BY <2>5, <2>6 DEF Left, after
<1>12. StatsInv'
  <2>1. final => tally'[r] = truth[r]
    <3>1. ASSUME final, NEW s \in Statuses PROVE tally'[r][s] = truth[r][s]
      BY <1>7, <1>11, <3>1
    <3> QED BY <1>3, <1>7, <3>1
  <2>2. \A q \in Readers, s \in Statuses : q # r => Left(q, s)' = Left(q, s)
    BY <1>1, <1>6 DEF Left
  <2> QED BY <1>1, <1>2, <1>4, <1>6, <1>7, <1>9, <1>11, <2>1, <2>2 DEF StatsInv
<1>13. DecisionInv'
  BY <1>1, <1>2 DEF DecisionInv, writeVars
<1>14. ReadInv'
  <2>1. \A q \in Readers : q # r => Current(q)' = Current(q) /\ \A c : AsFound(q, c)' <=> AsFound(q, c)
    BY <1>1, <1>6 DEF Current, AsFound
  <2>3. ask'[r].kind # "stats" => found'[r] = {}
    BY <1>1, <1>7
  <2>4. ASSUME NEW q \in Readers, q # r PROVE ReadOf(q)'
    <3>1. ReadOf(q)
      BY <1>2 DEF ReadInv, ReadOf
    <3>2. /\ ask'[q] = ask[q] /\ found'[q] = found[q] /\ touched' = touched /\ fields' = fields
          /\ doc' = doc /\ cases' = cases
      BY <1>1, <1>6, <2>4
    <3> QED BY <2>1, <2>4, <3>1, <3>2 DEF ReadOf
  <2>5. fields'[r] = <<>>
    BY <1>1, <1>3
  <2>6. ReadOf(r)'
    BY <2>3, <2>5 DEF ReadOf
  <2> QED BY <2>4, <2>6 DEF ReadInv, ReadOf
<1>15. UntouchedIsFaithful'
  BY <1>1, <1>2 DEF UntouchedIsFaithful
<1> QED BY <1>5, <1>8, <1>10, <1>12, <1>13, <1>14, <1>15 DEF ReadsInv

-----------------------------------------------------------------------------
\* The invariant is inductive.
LEMMA ReadsNext == ReadsInv /\ [Next]_vars => ReadsInv'
<1> SUFFICES ASSUME ReadsInv, [Next]_vars PROVE ReadsInv'
  OBVIOUS
<1>6. ASSUME NEW w \in Writers, Call(w) PROVE ReadsInv'
  BY <1>6, NoWriteInv DEF Call, writeVars
<1>1. ASSUME NEW w \in Writers, WriteStep(w) PROVE ReadsInv'
  BY <1>1, BeginInv, WriteInv, EndInv DEF WriteStep
<1>2. ASSUME NEW r \in Readers, ReadStep(r) PROVE ReadsInv'
  BY <1>2, FindInv, BeginCaseInv, EncodeFieldInv, BeginStatsInv, CountCaseInv DEF ReadStep
<1>3. ASSUME NEW r \in Readers, NEW a \in Asks \ {Idle}, Ask(r, a) PROVE ReadsInv'
  BY <1>3, AskInv
<1>4. CASE RunHook
  BY <1>4, NoWriteInv DEF RunHook, lockVars
<1>5. CASE UNCHANGED vars
  BY <1>5, NoWriteInv DEF vars, lockVars, writeVars
<1> QED BY <1>1, <1>2, <1>3, <1>4, <1>5, <1>6 DEF Next

\* The invariant holds in every state (of the mutex, cases.go:160-257).
THEOREM ReadsInvHolds == Spec => []ReadsInv
BY ReadsInit, ReadsNext, PTL DEF Spec

\* The dashboard's counts are of one moment, whatever analysts do while they are
\* taken (cases.go, Stats).
THEOREM StatsMomentTheorem == Spec => []StatsAreOfOneMoment
<1>1. ReadsInv => StatsAreOfOneMoment
  BY DEF ReadsInv, StatsInv, StatsAreOfOneMoment, Idle
<1> QED BY <1>1, ReadsInvHolds, PTL

\* A case that is not written while it is listed and encoded is answered whole,
\* though it is encoded after the unlock (cases.go, Get and List).
THEOREM UntouchedTheorem == Spec => []UntouchedIsFaithful
<1>1. ReadsInv => UntouchedIsFaithful
  BY DEF ReadsInv
<1> QED BY <1>1, ReadsInvHolds, PTL

-----------------------------------------------------------------------------
(* A call's assignments are to one case and to different fields, so it does not *)
(* matter how many of them are done: what is left makes the same of the case.   *)

OneCase(todo) ==
    \A i, k \in DOMAIN todo : /\ todo[i].case = todo[k].case
                              /\ todo[i].field = todo[k].field => i = k
JobsInv == \A w \in Writers : OneCase(job[w])

\* With nothing left to assign a case is what it is.
LEMMA CompletedNone ==
    ASSUME NEW c \in Case
    PROVE  Completed(c, <<>>) = c
BY DEF Completed, Case

\* The first field that is left may be assigned now or with the others.
LEMMA CompletedTail ==
    ASSUME NEW c \in Case, NEW todo \in Seq(Assignment), todo # <<>>, OneCase(todo)
    PROVE  Completed([c EXCEPT ![Head(todo).field] = Head(todo).value], Tail(todo))
               = Completed(c, todo)
<1> DEFINE g == Head(todo).field
           d == [c EXCEPT ![g] = Head(todo).value]
           rest == Tail(todo)
           n == Len(todo)
           at(f) == {i \in DOMAIN todo : todo[i].field = f}
           rat(f) == {i \in DOMAIN rest : rest[i].field = f}
<1>1. /\ n \in Nat \ {0} /\ DOMAIN todo = 1..n /\ DOMAIN rest = 1..(n - 1)
      /\ \A i \in 1..(n - 1) : rest[i] = todo[i + 1]
      /\ Head(todo) = todo[1]
  OBVIOUS
<1>2. g \in DOMAIN c /\ DOMAIN d = DOMAIN c
      /\ d[g] = todo[1].value /\ \A f \in DOMAIN c : f # g => d[f] = c[f]
  <2>1. todo[1] \in Assignment
    BY <1>1
  <2>2. g \in DOMAIN c
    BY <1>1, <2>1 DEF Assignment, Case
  <2> QED BY <1>1, <2>2
<1>3. \A i, k \in 1..n : todo[i].field = todo[k].field => i = k
  BY <1>1 DEF OneCase
<1> HIDE DEF d, rest, n
<1>4. ASSUME NEW f \in DOMAIN c
      PROVE  (IF rat(f) = {} THEN d[f] ELSE rest[CHOOSE i \in rat(f) : TRUE].value)
                 = (IF at(f) = {} THEN c[f] ELSE todo[CHOOSE i \in at(f) : TRUE].value)
  <2>1. CASE f = g
    <3>1. at(f) = {1}
      BY <1>1, <1>3, <2>1
    <3>2. rat(f) = {}
      <4>1. ASSUME NEW i \in 1..(n - 1), rest[i].field = f PROVE FALSE
        <5>1. i + 1 \in 1..n /\ 1 \in 1..n /\ i + 1 # 1 /\ todo[i + 1].field = todo[1].field
          BY <1>1, <2>1, <4>1
        <5> QED BY <5>1, <1>3
      <4> QED BY <1>1, <4>1
    <3> QED BY <1>2, <2>1, <3>1, <3>2
  <2>2. CASE f # g /\ at(f) = {}
    <3>1. rat(f) = {}
      <4>1. ASSUME NEW i \in 1..(n - 1), rest[i].field = f PROVE FALSE
        <5>1. i + 1 \in at(f)
          BY <1>1, <4>1
        <5> QED BY <2>2, <5>1
      <4> QED BY <1>1, <4>1
    <3> QED BY <1>2, <2>2, <3>1
  <2>3. CASE f # g /\ at(f) # {}
    <3>1. PICK k \in at(f) : TRUE
      BY <2>3
    <3>2. k \in 1..n /\ todo[k].field = f /\ k # 1
      BY <1>1, <2>3, <3>1
    <3>3. at(f) = {k}
      BY <1>1, <1>3, <3>2
    <3>4. k - 1 \in 1..(n - 1) /\ rest[k - 1] = todo[k]
      <4>1. k - 1 \in 1..(n - 1) /\ (k - 1) + 1 = k
        BY <1>1, <3>2
      <4> QED BY <1>1, <4>1
    <3>5. rat(f) = {k - 1}
      <4>1. k - 1 \in rat(f)
        BY <1>1, <3>2, <3>4
      <4>2. ASSUME NEW i \in 1..(n - 1), rest[i].field = f PROVE i = k - 1
        <5>1. i + 1 \in 1..n /\ todo[i + 1].field = todo[k].field
          BY <1>1, <3>2, <4>2
        <5>2. i + 1 = k
          BY <1>3, <3>2, <5>1
        <5> QED BY <1>1, <3>2, <5>2
      <4> QED BY <1>1, <4>1, <4>2
    <3> QED BY <3>3, <3>4, <3>5
  <2> QED BY <2>1, <2>2, <2>3
<1> HIDE DEF at, rat
<1>5. Completed(d, rest) = [f \in DOMAIN d |->
          IF rat(f) = {} THEN d[f] ELSE rest[CHOOSE i \in rat(f) : TRUE].value]
  BY DEF Completed, rat
<1>6. Completed(c, todo) = [f \in DOMAIN c |->
          IF at(f) = {} THEN c[f] ELSE todo[CHOOSE i \in at(f) : TRUE].value]
  BY DEF Completed, at
<1>7. Completed(d, rest) = Completed(c, todo)
  BY <1>2, <1>4, <1>5, <1>6
<1> QED BY <1>7 DEF d, rest

\* A field that is left to be assigned gets its value, another one stays.
LEMMA CompletedAt ==
    ASSUME NEW c, NEW todo, NEW k \in DOMAIN todo, todo[k].field \in DOMAIN c,
           \A i \in DOMAIN todo : todo[i].field = todo[k].field => i = k
    PROVE  Completed(c, todo)[todo[k].field] = todo[k].value
<1>1. {i \in DOMAIN todo : todo[i].field = todo[k].field} = {k}
  OBVIOUS
<1> QED BY <1>1 DEF Completed

\* A field that no assignment is left for stays as it is.
LEMMA CompletedElse ==
    ASSUME NEW c, NEW todo, NEW f \in DOMAIN c, \A i \in DOMAIN todo : todo[i].field # f
    PROVE  Completed(c, todo)[f] = c[f]
BY DEF Completed

\* A case is its four fields.
Fields == {"status", "assignedTo", "resolved", "notes"}
IsACase(d) == d = [f \in Fields |-> d[f]]
\* Cases with the same fields are the same.
LEMMA SameCase ==
    ASSUME NEW d, NEW e, IsACase(d), IsACase(e), \A f \in Fields : d[f] = e[f]
    PROVE  d = e
BY DEF IsACase

\* What assignments make of a case is one.
LEMMA CompletedCase ==
    ASSUME NEW c \in Case, NEW todo
    PROVE  IsACase(Completed(c, todo)) /\ DOMAIN c = Fields
<1>1. DOMAIN c = Fields
  BY DEF Case, Fields
<1> QED BY <1>1 DEF IsACase, Completed

\* Done, a call's assignments are what CaseEdits says of it, and they are as above.
LEMMA AssignMakes ==
    ASSUME Types, NEW w \in Writers, NEW id \in CaseIDs
    PROVE  /\ OneCase(AssignJob(w, id)) /\ AssignJob(w, id) # <<>>
           /\ Head(AssignJob(w, id)).case = id
           /\ Completed(cases[id], AssignJob(w, id)) = InReview(cases[id], w)
<1> DEFINE c == cases[id]
           e == InReview(c, w)
<1>1. c \in Case
  BY DEF Types
<1> HIDE DEF c
<1>2. PICK s : s = AssignJob(w, id)
  OBVIOUS
<1>3. /\ DOMAIN s = {1, 2} /\ s[1] = Set(id, "status", "in_review")
      /\ s[2] = Set(id, "assignedTo", w) /\ Head(s) = s[1] /\ s # <<>>
  BY <1>2 DEF AssignJob
<1>4. /\ s[1].field = "status" /\ s[1].value = "in_review" /\ s[1].case = id
      /\ s[2].field = "assignedTo" /\ s[2].value = w /\ s[2].case = id
  BY <1>3 DEF Set
<1>5. OneCase(s) /\ Head(s).case = id
  BY <1>3, <1>4 DEF OneCase
<1>6. IsACase(e) /\ e.status = "in_review" /\ e.assignedTo = w
      /\ e.resolved = c.resolved /\ e.notes = c.notes
  BY <1>1 DEF InReview, Case, Fields, IsACase
<1> HIDE DEF e
<1>7. IsACase(Completed(c, s)) /\ DOMAIN c = Fields
  BY <1>1, CompletedCase
<1>8. Completed(c, s)["status"] = "in_review"
  BY <1>3, <1>4, <1>7, CompletedAt DEF Fields
<1>9. Completed(c, s)["assignedTo"] = w
  BY <1>3, <1>4, <1>7, CompletedAt DEF Fields
<1>10. \A f \in {"resolved", "notes"} : Completed(c, s)[f] = c[f]
  BY <1>3, <1>4, <1>7, CompletedElse DEF Fields
<1>11. \A f \in Fields : Completed(c, s)[f] = e[f]
  BY <1>6, <1>8, <1>9, <1>10 DEF Fields
<1>12. Completed(c, s) = e
  BY <1>6, <1>7, <1>11, SameCase
<1> QED BY <1>2, <1>3, <1>5, <1>12 DEF c, e

\* The assignment of AddNote amounts to one more note.
LEMMA NoteMakes ==
    ASSUME Types, NEW id \in CaseIDs
    PROVE  /\ OneCase(NoteJob(id)) /\ NoteJob(id) # <<>> /\ Head(NoteJob(id)).case = id
           /\ Completed(cases[id], NoteJob(id)) = Noted(cases[id], 1)
<1> DEFINE c == cases[id]
           e == Noted(c, 1)
<1>1. c \in Case
  BY DEF Types
<1> HIDE DEF c
<1>2. PICK s : s = NoteJob(id)
  OBVIOUS
<1>3. /\ DOMAIN s = {1} /\ s[1] = Set(id, "notes", c.notes + 1) /\ Head(s) = s[1] /\ s # <<>>
  BY <1>2 DEF NoteJob, c
<1>4. s[1].field = "notes" /\ s[1].value = c.notes + 1 /\ s[1].case = id
  BY <1>3 DEF Set
<1>5. OneCase(s) /\ Head(s).case = id
  BY <1>3, <1>4 DEF OneCase
<1>6. IsACase(e) /\ e.status = c.status /\ e.assignedTo = c.assignedTo
      /\ e.resolved = c.resolved /\ e.notes = c.notes + 1
  BY <1>1 DEF Noted, Case, Fields, IsACase
<1> HIDE DEF e
<1>7. IsACase(Completed(c, s)) /\ DOMAIN c = Fields
  BY <1>1, CompletedCase
<1>8. Completed(c, s)["notes"] = c.notes + 1
  BY <1>3, <1>4, <1>7, CompletedAt DEF Fields
<1>9. \A f \in {"status", "assignedTo", "resolved"} : Completed(c, s)[f] = c[f]
  BY <1>3, <1>4, <1>7, CompletedElse DEF Fields
<1>10. \A f \in Fields : Completed(c, s)[f] = e[f]
  BY <1>6, <1>8, <1>9 DEF Fields
<1>11. Completed(c, s) = e
  BY <1>6, <1>7, <1>10, SameCase
<1> QED BY <1>2, <1>3, <1>5, <1>11 DEF c, e

\* The assignments of Resolve amount to the verdict, the analyst, its time and the note.
LEMMA ResolveMakes ==
    ASSUME Types, NEW w \in Writers, NEW id \in CaseIDs, NEW v \in Decisions,
           NEW n \in cases[id].notes..(cases[id].notes + 1)
    PROVE  /\ OneCase(ResolveJob(w, id, v, n)) /\ ResolveJob(w, id, v, n) # <<>>
           /\ Head(ResolveJob(w, id, v, n)).case = id
           /\ Completed(cases[id], ResolveJob(w, id, v, n))
                  = Resolved(cases[id], v, w, n - cases[id].notes)
           /\ n - cases[id].notes \in 0..1
<1> DEFINE c == cases[id]
           m == n - c.notes
           e == Resolved(c, v, w, m)
<1>1. c \in Case /\ c.notes \in Nat /\ n \in Nat /\ m \in 0..1 /\ n = c.notes + m
  BY ReadsAssumption DEF Types, Case
<1> HIDE DEF c, m
<1>2. PICK a, b, d, f4 : a = Set(id, "status", v) /\ b = Set(id, "assignedTo", w)
                         /\ d = Set(id, "resolved", TRUE) /\ f4 = Set(id, "notes", n)
  OBVIOUS
<1>3. PICK s : s = ResolveJob(w, id, v, n)
  OBVIOUS
<1>4. s = <<a, b, d>> \o (IF n > c.notes THEN <<f4>> ELSE <<>>)
  BY <1>2, <1>3 DEF ResolveJob, c
<1>5. /\ DOMAIN s = IF m = 1 THEN {1, 2, 3, 4} ELSE {1, 2, 3}
      /\ s[1] = a /\ s[2] = b /\ s[3] = d /\ (m = 1 => s[4] = f4)
      /\ Head(s) = a /\ s # <<>>
  <2>1. PICK p : p = <<a, b, d>>
    OBVIOUS
  <2>2. PICK q : q = IF n > c.notes THEN <<f4>> ELSE <<>>
    OBVIOUS
  <2>3. PICK S : S = {a, b, d, f4}
    OBVIOUS
  <2>4. p \in Seq(S) /\ Len(p) = 3 /\ p[1] = a /\ p[2] = b /\ p[3] = d
    BY <2>1, <2>3
  <2>5. q \in Seq(S) /\ Len(q) = m /\ (m = 1 => q[1] = f4)
    <3>1. CASE m = 1
      <4>1. n > c.notes
        BY <1>1, <3>1
      <4>2. q = <<f4>>
        BY <2>2, <4>1
      <4> QED BY <2>3, <3>1, <4>2
    <3>2. CASE m = 0
      <4>1. ~(n > c.notes)
        BY <1>1, <3>2
      <4>2. q = <<>>
        BY <2>2, <4>1
      <4> QED BY <2>3, <3>2, <4>2
    <3> QED BY <1>1, <3>1, <3>2
  <2>6. s = p \o q
    BY <1>4, <2>1, <2>2
  <2>7. /\ s \in Seq(S) /\ Len(s) = Len(p) + Len(q)
        /\ \A i \in 1..(Len(p) + Len(q)) : s[i] = IF i <= Len(p) THEN p[i] ELSE q[i - Len(p)]
    BY <2>4, <2>5, <2>6, ConcatProperties
  <2>8. s[1] = a /\ s[2] = b /\ s[3] = d
    BY <2>4, <2>5, <2>7
  <2>9. DOMAIN s = 1..(3 + m)
    <3>1. DOMAIN s = 1..Len(s)
      BY <2>7
    <3>2. Len(s) = 3 + m
      BY <2>4, <2>5, <2>7
    <3> QED BY <3>1, <3>2
  <2>10. ASSUME m = 1 PROVE s[4] = f4
    <3>1. Len(p) = 3 /\ Len(q) = 1 /\ q[1] = f4
      BY <2>4, <2>5, <2>10
    <3> QED BY <2>7, <3>1
  <2>11. 1..3 = {1, 2, 3} /\ 1..4 = {1, 2, 3, 4}
    OBVIOUS
  <2>12. DOMAIN s = IF m = 1 THEN {1, 2, 3, 4} ELSE {1, 2, 3}
    <3>1. CASE m = 1
      <4>1. DOMAIN s = 1..4
        BY <2>9, <3>1
      <4> QED BY <2>11, <3>1, <4>1
    <3>2. CASE m = 0
      <4>1. DOMAIN s = 1..3
        BY <2>9, <3>2
      <4> QED BY <2>11, <3>2, <4>1
    <3> QED BY <1>1, <3>1, <3>2
  <2>13. s # <<>>
    BY <2>4, <2>5, <2>7
  <2>14. Head(s) = a
    BY <2>7, <2>8, <2>13
  <2> QED BY <2>8, <2>10, <2>12, <2>13, <2>14
<1>6. /\ s[1].field = "status" /\ s[1].value = v /\ s[1].case = id
      /\ s[2].field = "assignedTo" /\ s[2].value = w /\ s[2].case = id
      /\ s[3].field = "resolved" /\ s[3].value = TRUE /\ s[3].case = id
      /\ m = 1 => s[4].field = "notes" /\ s[4].value = n /\ s[4].case = id
      /\ Head(s).case = id
  BY <1>2, <1>5 DEF Set
<1>7. OneCase(s)
  BY <1>5, <1>6 DEF OneCase
<1>8. IsACase(e) /\ e.status = v /\ e.assignedTo = w /\ e.resolved = TRUE /\ e.notes = n
  BY <1>1 DEF Resolved, Noted, Case, Fields, IsACase
<1> HIDE DEF e
<1>9. IsACase(Completed(c, s)) /\ DOMAIN c = Fields
  BY <1>1, CompletedCase
<1>10. Completed(c, s)["status"] = v
  BY <1>5, <1>6, <1>9, CompletedAt DEF Fields
<1>11. Completed(c, s)["assignedTo"] = w
  BY <1>5, <1>6, <1>9, CompletedAt DEF Fields
<1>12. Completed(c, s)["resolved"] = TRUE
  BY <1>5, <1>6, <1>9, CompletedAt DEF Fields
<1>13. Completed(c, s)["notes"] = n
  <2>1. CASE m = 1
    BY <1>5, <1>6, <1>9, <2>1, CompletedAt DEF Fields
  <2>2. CASE m = 0
    <3>1. Completed(c, s)["notes"] = c.notes
      BY <1>5, <1>6, <1>9, <2>2, CompletedElse DEF Fields
    <3> QED BY <1>1, <2>2, <3>1
  <2> QED BY <1>1, <2>1, <2>2
<1>14. \A f \in Fields : Completed(c, s)[f] = e[f]
  BY <1>8, <1>10, <1>11, <1>12, <1>13 DEF Fields
<1>15. Completed(c, s) = e
  BY <1>8, <1>9, <1>14, SameCase
<1> QED BY <1>1, <1>3, <1>5, <1>6, <1>7, <1>15 DEF c, e, m

\* What the holder of the mutex w may make of a case: one of the three calls' effects.
Outcome(w, id, c) ==
    /\ c.notes <= MaxNotes
    /\ \/ c = InReview(cases[id], w)
       \/ \E v \in Decisions, n \in 0..1 : c = Resolved(cases[id], v, w, n)
       \/ c = Noted(cases[id], 1)

\* Whatever call begins, its assignments amount to what CaseEdits says of it.
LEMMA BeginMakes ==
    ASSUME Types, NEW w \in Writers, Begin(w)
    PROVE  \E id \in CaseIDs : \E J :
               /\ job' = [job EXCEPT ![w] = J] /\ OneCase(J) /\ J # <<>> /\ Head(J).case = id
               /\ Outcome(w, id, Completed(cases[id], J))
<1>1. PICK id \in CaseIDs :
          \/ job' = [job EXCEPT ![w] = AssignJob(w, id)]
          \/ \E v \in Decisions, n \in cases[id].notes..(cases[id].notes + 1) :
                n <= MaxNotes /\ job' = [job EXCEPT ![w] = ResolveJob(w, id, v, n)]
          \/ cases[id].notes < MaxNotes /\ job' = [job EXCEPT ![w] = NoteJob(id)]
  BY NotesBound DEF Begin
<1>2. cases[id] \in Case /\ cases[id].notes \in 0..MaxNotes /\ MaxNotes \in Nat
  BY ReadsAssumption DEF Types, Case
<1>3. CASE job' = [job EXCEPT ![w] = AssignJob(w, id)]
  <2>1. InReview(cases[id], w).notes <= MaxNotes
    BY <1>2 DEF InReview, Case
  <2> QED BY <1>3, <2>1, AssignMakes DEF Outcome
<1>4. ASSUME NEW v \in Decisions, NEW n \in cases[id].notes..(cases[id].notes + 1),
             n <= MaxNotes, job' = [job EXCEPT ![w] = ResolveJob(w, id, v, n)]
      PROVE  \E J : /\ job' = [job EXCEPT ![w] = J] /\ OneCase(J) /\ J # <<>>
                    /\ Head(J).case = id /\ Outcome(w, id, Completed(cases[id], J))
  <2>1. PICK m \in 0..1 : m = n - cases[id].notes
    BY <1>2
  <2>2. Resolved(cases[id], v, w, m).notes <= MaxNotes
    BY <1>2, <1>4, <2>1 DEF Resolved, Noted, Case
  <2>3. PICK J : J = ResolveJob(w, id, v, n)
    OBVIOUS
  <2>4. /\ OneCase(J) /\ J # <<>> /\ Head(J).case = id
        /\ Completed(cases[id], J) = Resolved(cases[id], v, w, m)
    BY <2>1, <2>3, ResolveMakes
  <2>5. Outcome(w, id, Completed(cases[id], J))
    BY <2>2, <2>4 DEF Outcome
  <2> QED BY <1>4, <2>3, <2>4, <2>5
<1>5. CASE cases[id].notes < MaxNotes /\ job' = [job EXCEPT ![w] = NoteJob(id)]
  <2>1. Noted(cases[id], 1).notes <= MaxNotes
    BY <1>2, <1>5 DEF Noted, Case
  <2> QED BY <1>5, <2>1, NoteMakes DEF Outcome
<1> QED BY <1>1, <1>3, <1>4, <1>5

\* The assignments left to do are to one case and to different fields.
LEMMA JobsNext == ReadsInv /\ JobsInv /\ [Next]_vars => JobsInv'
<1> SUFFICES ASSUME ReadsInv, JobsInv, [Next]_vars PROVE JobsInv'
  OBVIOUS
<1>0. Types
  BY DEF ReadsInv
<1>1. ASSUME NEW w \in Writers, Begin(w) PROVE JobsInv'
  <2>1. PICK J : job' = [job EXCEPT ![w] = J] /\ OneCase(J)
    BY <1>0, <1>1, BeginMakes
  <2> QED BY <1>0, <2>1 DEF JobsInv, Types
<1>2. ASSUME NEW w \in Writers, Write(w) PROVE JobsInv'
  <2>1. /\ job' = [job EXCEPT ![w] = Tail(job[w])] /\ job[w] # <<>>
        /\ job[w] \in Seq(Assignment) /\ OneCase(job[w])
    BY <1>0, <1>2 DEF Write, Types, JobsInv
  <2>2. OneCase(Tail(job[w]))
    <3>1. PICK s \in Seq(Assignment) : s = job[w] /\ s # <<>> /\ OneCase(s)
      BY <2>1
    <3>2. PICK t : t = Tail(s)
      OBVIOUS
    <3>3. /\ DOMAIN s = 1..Len(s) /\ DOMAIN t = 1..(Len(s) - 1) /\ Len(s) \in Nat \ {0}
          /\ \A i \in 1..(Len(s) - 1) : t[i] = s[i + 1]
      BY <3>1, <3>2
    <3>4. ASSUME NEW i \in DOMAIN t, NEW k \in DOMAIN t
          PROVE  t[i].case = t[k].case /\ (t[i].field = t[k].field => i = k)
      <4>1. i \in 1..(Len(s) - 1) /\ k \in 1..(Len(s) - 1)
            /\ i + 1 \in 1..Len(s) /\ k + 1 \in 1..Len(s)
        BY <3>3
      <4>2. t[i] = s[i + 1] /\ t[k] = s[k + 1]
        BY <3>3, <4>1
      <4>3. /\ s[i + 1].case = s[k + 1].case
            /\ s[i + 1].field = s[k + 1].field => i + 1 = k + 1
        BY <3>1, <3>3, <4>1 DEF OneCase
      <4> QED BY <4>1, <4>2, <4>3
    <3> QED BY <3>1, <3>2, <3>4 DEF OneCase
  <2> QED BY <1>0, <2>1, <2>2 DEF JobsInv, Types
<1>3. CASE UNCHANGED job
  BY <1>3 DEF JobsInv
<1>4. ASSUME NEW r \in Readers, ReadStep(r) \/ \E a \in Asks \ {Idle} : Ask(r, a)
      PROVE  UNCHANGED job
  BY <1>4 DEF ReadStep, Ask, Find, BeginCase, EncodeField, BeginStats, CountCase, writeVars
<1>5. ASSUME NEW w \in Writers, Call(w) \/ End(w) PROVE UNCHANGED job
  BY <1>5 DEF Call, End, writeVars
<1>6. CASE RunHook
  BY <1>3, <1>6 DEF RunHook
<1>7. CASE UNCHANGED vars
  BY <1>3, <1>7 DEF vars, writeVars
<1> QED BY <1>1, <1>2, <1>3, <1>4, <1>5, <1>6, <1>7 DEF Next, WriteStep

-----------------------------------------------------------------------------
(* The refinement: to those who wait for the mutex a call happens at once, *)
(* when it gets the mutex; its assignments and its unlock are stutters.    *)

\* Between calls the cases are as written.
LEMMA WrittenQuiet ==
    ASSUME Types, writer = Nobody \/ (writer \in Writers /\ job[writer] = <<>>)
    PROVE  Written = cases
BY DEF Types, Written

\* A call begins: at once its case is what it will make of it.
LEMMA BeginIsACall ==
    ASSUME ReadsInv, NEW w \in Writers, Begin(w)
    PROVE  Calls!CasesNext
<1>1. Types /\ writer = Nobody /\ writer' = w /\ w # Nobody /\ cases' = cases
  BY ReadsAssumption DEF ReadsInv, Begin, LockWrite
<1>2. Written = cases
  BY <1>1, WrittenQuiet
<1>3. PICK id \in CaseIDs : \E J :
          /\ job' = [job EXCEPT ![w] = J] /\ OneCase(J) /\ J # <<>> /\ Head(J).case = id
          /\ Outcome(w, id, Completed(cases[id], J))
  BY <1>1, BeginMakes
<1>4. PICK J : /\ job' = [job EXCEPT ![w] = J] /\ J # <<>> /\ Head(J).case = id
               /\ Outcome(w, id, Completed(cases[id], J))
  BY <1>3
<1> DEFINE c == Completed(cases[id], J)
<1>5. job'[writer'] = J /\ writer' # Nobody
  BY <1>1, <1>4 DEF Types
<1>6. Written' = [i \in CaseIDs |->
          IF writer' # Nobody /\ job'[writer'] # <<>> /\ Head(job'[writer']).case = i
          THEN Completed(cases'[i], job'[writer']) ELSE cases'[i]]
  BY DEF Written
<1>7. Written' = [i \in CaseIDs |-> IF i = id THEN c ELSE cases[i]]
  BY <1>1, <1>4, <1>5, <1>6
<1> HIDE DEF c
<1>8. Written' = [cases EXCEPT ![id] = c]
  <2>1. cases = [i \in CaseIDs |-> cases[i]]
    BY <1>1 DEF Types
  <2> QED BY <1>7, <2>1
<1>9. Outcome(w, id, c)
  BY <1>4 DEF c
<1>10. Calls!Becomes(id, c)
  BY <1>2, <1>8, <1>9 DEF Outcome, Calls!Becomes
<1>11. \/ c = Calls!InReview(Written[id], w)
       \/ \E v \in Decisions, n \in 0..1 : c = Calls!Resolved(Written[id], v, w, n)
       \/ c = Calls!Noted(Written[id], 1)
  <2>1. PICK x : x = cases[id]
    OBVIOUS
  <2>2. /\ Calls!InReview(x, w) = InReview(x, w) /\ Calls!Noted(x, 1) = Noted(x, 1)
        /\ \A v, n : Calls!Resolved(x, v, w, n) = Resolved(x, v, w, n)
    BY DEF InReview, Resolved, Noted, Calls!InReview, Calls!Resolved, Calls!Noted
  <2>3. Written[id] = x
    BY <1>2, <2>1
  <2> QED BY <1>9, <2>1, <2>2, <2>3 DEF Outcome
<1> QED BY <1>10, <1>11 DEF Calls!CasesNext

\* An assignment: what is left of the call makes the same of its case.
LEMMA WriteIsAStutter ==
    ASSUME ReadsInv, JobsInv, NEW w \in Writers, Write(w)
    PROVE  Written' = Written
<1> DEFINE J == job[w]
           set == Head(J)
           id == set.case
           d == [cases[id] EXCEPT ![set.field] = set.value]
<1>1. /\ writer = w /\ writer' = w /\ w # Nobody /\ J # <<>> /\ J \in Seq(Assignment)
      /\ OneCase(J) /\ job'[w] = Tail(J) /\ cases \in [CaseIDs -> Case]
      /\ cases' = [cases EXCEPT ![id] = d]
  BY ReadsAssumption DEF ReadsInv, Types, JobsInv, Write, lockVars
<1>2. set \in Assignment /\ id \in CaseIDs /\ cases[id] \in Case /\ set = J[1]
  <2>1. set \in Assignment /\ set = J[1]
    BY <1>1
  <2>2. id \in CaseIDs
    BY <2>1 DEF Assignment
  <2> QED BY <1>1, <2>1, <2>2
<1>3. d \in Case
  BY <1>2, AssignmentType
<1>4. Completed(d, Tail(J)) = Completed(cases[id], J)
  BY <1>1, <1>2, CompletedTail
<1>5. Tail(J) = <<>> => Completed(d, Tail(J)) = d
  BY <1>3, CompletedNone
<1>6. Tail(J) # <<>> => Head(Tail(J)).case = id
  <2>1. PICK s \in Seq(Assignment) : s = J /\ s # <<>> /\ OneCase(s)
    BY <1>1
  <2>2. ASSUME Tail(s) # <<>>
        PROVE  Head(Tail(s)) = s[2] /\ 1 \in DOMAIN s /\ 2 \in DOMAIN s
    BY <2>1, <2>2
  <2> QED BY <1>2, <2>1, <2>2 DEF OneCase
<1> HIDE DEF J, set, id, d
<1>7. Written = [i \in CaseIDs |-> IF i = id THEN Completed(cases[i], J) ELSE cases[i]]
  BY <1>1 DEF Written, J, set, id
<1>8. Written' = [i \in CaseIDs |->
          IF Tail(J) # <<>> /\ Head(Tail(J)).case = i
          THEN Completed(cases'[i], Tail(J)) ELSE cases'[i]]
  BY <1>1 DEF Written
<1>9. cases'[id] = d /\ \A i \in CaseIDs : i # id => cases'[i] = cases[i]
  BY <1>1, <1>2
<1>10. ASSUME NEW i \in CaseIDs
       PROVE  (IF Tail(J) # <<>> /\ Head(Tail(J)).case = i
               THEN Completed(cases'[i], Tail(J)) ELSE cases'[i])
                  = (IF i = id THEN Completed(cases[i], J) ELSE cases[i])
  BY <1>4, <1>5, <1>6, <1>9
<1> QED BY <1>7, <1>8, <1>10

\* Every step is a call of AtomicCases or leaves the completed cases alone.
LEMMA CallsStep ==
    ASSUME ReadsInv, JobsInv, [Next]_vars
    PROVE  [Calls!CasesNext]_Written
<1>1. ASSUME cases' = cases, writer' = writer, job' = job PROVE Written' = Written
  BY <1>1 DEF Written
<1>2. ASSUME NEW w \in Writers, Begin(w) PROVE Calls!CasesNext
  BY <1>2, BeginIsACall
<1>3. ASSUME NEW w \in Writers, Write(w) PROVE Written' = Written
  BY <1>3, WriteIsAStutter
<1>4. ASSUME NEW w \in Writers, End(w) PROVE Written' = Written
  <2>1. Types /\ writer = w /\ job[w] = <<>> /\ writer' = Nobody /\ cases' = cases
    BY <1>4 DEF End, ReadsInv
  <2>2. Written = cases
    BY <2>1, WrittenQuiet
  <2>3. Written' = cases
    BY <2>1 DEF Written, Types
  <2> QED BY <2>2, <2>3
<1>5. ASSUME NEW r \in Readers, ReadStep(r) \/ \E a \in Asks \ {Idle} : Ask(r, a)
      PROVE  cases' = cases /\ writer' = writer /\ job' = job
  BY <1>5 DEF ReadStep, Ask, Find, BeginCase, EncodeField, BeginStats, CountCase,
              writeVars, lockVars
<1>8. ASSUME NEW w \in Writers, Call(w) PROVE Written' = Written
  BY <1>1, <1>8 DEF Call, writeVars
<1>6. CASE RunHook
  BY <1>1, <1>6 DEF RunHook, lockVars
<1>7. CASE UNCHANGED vars
  BY <1>1, <1>7 DEF vars, writeVars, lockVars
<1> QED BY <1>1, <1>2, <1>3, <1>4, <1>5, <1>6, <1>7, <1>8 DEF Next, WriteStep

\* Assign, Resolve and AddNote write a case field by field, and still analysts can
\* think of them as atomic: CaseReads implements AtomicCases (cases.go:160-226).
THEOREM AtomicCallsTheorem == Spec => CallsAreAtomic
<1>1. Init => JobsInv /\ Calls!CasesInit
  <2> SUFFICES ASSUME Init PROVE JobsInv /\ Calls!CasesInit
    OBVIOUS
  <2>1. Types
    BY ReadsInit DEF ReadsInv
  <2>2. Written = cases
    BY <2>1, WrittenQuiet DEF Init
  <2> QED BY <2>2 DEF Init, JobsInv, OneCase, NewCase, Calls!CasesInit, Calls!Unreviewed
<1>2. ReadsInv /\ JobsInv /\ [Next]_vars => JobsInv' /\ [Calls!CasesNext]_Written
  BY JobsNext, CallsStep
<1> QED BY <1>1, <1>2, ReadsInvHolds, PTL DEF Spec, CallsAreAtomic, Calls!CasesSpec
=============================================================================
