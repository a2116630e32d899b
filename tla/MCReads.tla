------------------------------ MODULE MCReads ------------------------------
(* Two cases, one reader, and two analysts whose calls compete for a case. *)
EXTENDS CaseReads
=============================================================================
