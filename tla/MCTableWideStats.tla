--------------------------- MODULE MCTableWideStats ---------------------------
(* TLC instance of TableWideStats. *)
EXTENDS TableWideStats, TLC

(* Addresses, transactions and values are only compared for equality. *)
Symmetry == Permutations(Col) \cup Permutations(Txn) \cup Permutations(Value)
===============================================================================
