--------------------------- MODULE MCRetraining ---------------------------
(* Transactions of two users in one category, with different amounts, so   *)
(* that a case may be re-scored against a history of one.                  *)
EXTENDS Retraining

MCTxs == {[id |-> "t1", user |-> "ana", category |-> "food", amount |-> 10],
          [id |-> "t2", user |-> "bob", category |-> "food", amount |-> 20]}
=============================================================================
