----------------------------- MODULE MCTableStats -----------------------------
(* TLC instances of TableStats. *)
EXTENDS TableSnapshot, TLC

(* Addresses, transactions and values are only compared for equality. *)
Symmetry == Permutations(Col) \cup Permutations(Txn) \cup Permutations(Value)

(* A bound for histories that need many transactions but no two at a time. *)
OneAtATime == Cardinality({t \in Txn : ~Finished(t)}) <= 1
===============================================================================
