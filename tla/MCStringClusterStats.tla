------------------------- MODULE MCStringClusterStats -------------------------
(* TLC instance of StringClusterStats: strings one byte longer than the prefix
   the clusters keep, over a NUL byte and a char that is negative.            *)
EXTENDS StringClusterStats

MCString == UNION {[1..n -> {0, 3}] : n \in 0..3}
===============================================================================
