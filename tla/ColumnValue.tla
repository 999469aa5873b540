----------------------------- MODULE ColumnValue -----------------------------
(***************************************************************************)
(* The values of one column and the comparisons the engine evaluates on    *)
(* them.  Integers stand for the values in their order; the values of a    *)
(* floating point column may also be infinite or NaN.  NaN is a set        *)
(* because many bit patterns are NaN: the engine compares them as equal    *)
(* and greater than everything else, whatever C++ says.                    *)
(***************************************************************************)
EXTENDS Integers

CONSTANTS
    Finite,     \* the finite values of the column and of the constants
    NegInf,     \* minus infinity,
    PosInf,     \* plus infinity and
    NaN,        \* the NaNs the column and the constants can have; an integer
    Special     \* column has no special value at all

ASSUME FiniteAssumption == Finite \subseteq Int
ASSUME SpecialAssumption ==
    /\ {NegInf, PosInf} \cup NaN \subseteq Int
    /\ \A f \in Finite : NegInf < f /\ f < PosInf
    /\ NegInf < PosInf
    /\ \A n \in NaN : PosInf < n
    /\ Special \subseteq {NegInf, PosInf} \cup NaN

Value == Finite \cup Special

Comparison == {"EQUAL", "NOTEQUAL", "LESSTHAN", "LESSTHANOREQUALTO",
               "GREATERTHAN", "GREATERTHANOREQUALTO"}

Equals(left, right) == left = right \/ {left, right} \subseteq NaN

GreaterThan(left, right) == left > right /\ ~Equals(left, right)

GreaterThanEquals(left, right) == left > right \/ Equals(left, right)

LessThan(left, right) == GreaterThan(right, left)

LessThanEquals(left, right) == GreaterThanEquals(right, left)

(* What C++ answers to left > right. *)
RawGreater(left, right) == left > right /\ {left, right} \cap NaN = {}

(* The filter `value comparison constant' holds of a row with that value. *)
Satisfies(value, comparison, constant) ==
    CASE comparison = "EQUAL"                -> Equals(value, constant)
      [] comparison = "NOTEQUAL"             -> ~Equals(value, constant)
      [] comparison = "LESSTHAN"             -> LessThan(value, constant)
      [] comparison = "LESSTHANOREQUALTO"    -> LessThanEquals(value, constant)
      [] comparison = "GREATERTHAN"          -> GreaterThan(value, constant)
      [] comparison = "GREATERTHANOREQUALTO" -> GreaterThanEquals(value, constant)

(* The filter `value BETWEEN start AND end' holds. *)
Between(value, start, end) ==
    GreaterThanEquals(value, start) /\ LessThanEquals(value, end)
===============================================================================
