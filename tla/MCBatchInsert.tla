----------------------------- MODULE MCBatchInsert -----------------------------
(* TLC instances of BatchInsert. *)
EXTENDS BatchInsert

(* Small batches that become worth merging together; a batch of a whole row
   group behind two small ones, and one the filters leave nothing of; three
   tasks at once.                                                            *)
MCInputs ==
    {[chunks |-> <<1, 2, 1, 1>>, rows |-> <<5, 1, 4, 9>>, tasks |-> 2],
     [chunks |-> <<1, 0, 1, 1, 1>>, rows |-> <<4, 1, 5, 10, 9>>, tasks |-> 2],
     [chunks |-> <<1, 1, 1>>, rows |-> <<2, 1, 9>>, tasks |-> 3]}
===============================================================================
