--------------------------- MODULE MCStatisticsSet ---------------------------
(* TLC instances of StatisticsSet: the hashes of the values. *)
EXTENDS StatisticsSet

(* Hashes of some variety, with collisions in a half and in both. *)
MCLow == [v \in Value |-> (7 * v + 3) % Word]

MCHigh == [v \in Value |-> (3 * (v \div 2) + 1) % Word]

(* Hashes that do not tell one NaN from another. *)
MCLowOfClass == [v \in Value |-> MCLow[IF v \in NaN THEN Max(NaN) ELSE v]]

MCHighOfClass == [v \in Value |-> MCHigh[IF v \in NaN THEN Max(NaN) ELSE v]]

(* Signed values of 3 bits, the least and the greatest among them, and a gap
   between them that is negative when taken for a signed number.              *)
MCSigned == {-4, -3, 0, 1, 2, 3}

(* Finite values of a floating point column, and the special ones. *)
MCFloats == {-1, 0, 2}

MCNegInf == -9

MCPosInf == 9

MCTwoNaNs == {20, 21}

MCSpecial == {MCNegInf, MCPosInf} \cup NaN
===============================================================================
