------------------------------ MODULE MCStore ------------------------------
(* Two users, three identifiers of which one is empty, a window of two.    *)
EXTENDS StoreContract

MCTx(id, user) == [id |-> id, user |-> user, category |-> "food", amount |-> 1]

MCTxs == {MCTx(id, user) : id \in {"t1", "t2", ""}, user \in {"ana"}}
         \cup {MCTx("t2", "bob"), MCTx("t3", "bob")}

MCRisks == {[score |-> s, severity |-> SeverityFromScore(s)] : s \in {0, 50, 70, 100, NaN}}
=============================================================================
