------------------------------ MODULE BloomStats ------------------------------
(***************************************************************************)
(* BloomAdditionalStats: a blocked Bloom filter.  The hash of a value      *)
(* picks a block by its low half and then Hashes bits of that block by     *)
(* both halves.  The halves are constants here: they stand for             *)
(* MurmurHash3 of std::hash, which on floating point values depends on the *)
(* bits, except that the two zeros have the same hash.                     *)
(***************************************************************************)
EXTENDS ColumnValue, Functions

CONSTANTS
    Blocks,     \* template parameter M, the number of blocks
    BlockBits,  \* 64 * N, the bits of a block
    Hashes,     \* template parameter K, the number of bits of a value
    Word,       \* 2^32: the arithmetic on the halves is of 32 bits
    Low,        \* the low and the high half of the hash of every value
    High

ASSUME BloomAssumption ==
    /\ {Blocks, BlockBits, Hashes, Word} \subseteq Nat \ {0}
    /\ Low \in [Value -> 0..(Word - 1)] /\ High \in [Value -> 0..(Word - 1)]

(* Faulty variant of BitPosition: one block too many is addressed. *)
BitPositionBeyond(value, i) ==
    ((Low[value] % (Blocks + 1)) * BlockBits)
        + (((Low[value] + i * High[value]) % Word) % BlockBits)

(* The i-th bit of a value: its block, and the position within the block. *)
BitPosition(value, i) ==
    ((Low[value] % Blocks) * BlockBits)
        + (((Low[value] + i * High[value]) % Word) % BlockBits)

(* Faulty variant of Inserted: the probes are counted from 0 in Insert alone. *)
InsertedFromZero(value) == {BitPosition(value, i) : i \in 0..(Hashes - 1)}

(* The bits Insert sets *)
Inserted(value) == {BitPosition(value, i) : i \in 1..Hashes}

(* Initialise *)
Bloom(data) ==
    [type |-> "BLOOM", bits |-> UNION {Inserted(value) : value \in Range(data)}]

(* QueryUtil finds every bit of the value set *)
MayContain(s, value) == \A i \in 1..Hashes : BitPosition(value, i) \in s.bits

(* Query answers FILTER_ALWAYS_FALSE *)
BloomQuery(s, comparison, constant) ==
    comparison = "EQUAL" /\ ~MayContain(s, constant)
===============================================================================
