------------------------- MODULE IdempotentScoring -------------------------
(***************************************************************************)
(* What Pipeline.Process promises, with no requests, locks or steps: each  *)
(* transaction id gets one outcome, once, which never changes, and the ids *)
(* whose outcome calls for it get one case.                                *)
(***************************************************************************)
EXTENDS RiskModel

CONSTANT IDs

VARIABLES book,      \* id -> {} or {its outcome}
          opened     \* ids a case was opened for

BookInit == book = [id \in IDs |-> {}] /\ opened = {}

\* The outcome is left open; it is read off the new book.
Record(id) ==
    /\ book[id] = {}
    /\ \E o \in book'[id] : o \in Outcomes /\ book' = [book EXCEPT ![id] = {o}]
    /\ UNCHANGED opened

Open(id) ==
    /\ id \notin opened
    /\ \E o \in book[id] : NeedsCase(o)
    /\ opened' = opened \cup {id}
    /\ UNCHANGED book

BookNext == \E id \in IDs : Open(id) \/ Record(id)

BookSpec == BookInit /\ [][BookNext]_<<book, opened>>
=============================================================================
