------------------------------- MODULE Bitlist ------------------------------
(***************************************************************************)
(* serialize and deserialize of sequences of bits, lists.hpp: a bitlist    *)
(* (ssz::list<bool, N>), a bitvector (std::bitset<N>) and the bare         *)
(* std::vector<bool>, which is written as a bitvector and read as a        *)
(* bitlist.                                                                *)
(*                                                                         *)
(* A byte is the set of its bits that are 1: |= is the union, 1 << n is    *)
(* {n}.  Bytes and bits are counted from 0.                                *)
(***************************************************************************)
EXTENDS Integers, Sequences, FiniteSetsExt

CONSTANTS
    CHAR_BIT,       \* 8 in the code
    MaxBits,        \* bound: longest sequence of bits
    Limits          \* the limits N of bitlists tried

ASSUME BitlistAssumption ==
    /\ CHAR_BIT \in Nat \ {0}
    /\ MaxBits \in Nat
    /\ Limits \subseteq Nat

Kinds == {"bitlist", "bitvector", "vector<bool>"}

VARIABLES
    kind,       \* which of the three types
    N,          \* its template parameter; unused for vector<bool>
    bits,       \* the value serialized
    dirty,      \* the bytes the buffer held before were not zero
    bytes,      \* the buffer, a function from 0 .. number of bytes - 1
    ret,        \* the value deserialized into
    pc

vars == <<kind, N, bits, dirty, bytes, ret, pc>>

Byte == SUBSET (0 .. CHAR_BIT - 1)

CeilDiv(n, d) == (n + d - 1) \div d

-----------------------------------------------------------------------------
(* ssz::size of the three types.                                           *)
size ==
    IF kind = "bitlist" THEN Len(bits) \div CHAR_BIT + 1
                        ELSE CeilDiv(Len(bits), CHAR_BIT)

(* The bytes that serialize allocates, and that a caller who serializes in *)
(* place has to provide.                                                   *)
buffer_size ==
    IF kind = "bitvector" THEN CeilDiv(Len(bits), CHAR_BIT)
                          ELSE Len(bits) \div CHAR_BIT + 1

(* Bit j of byte b, of the bits there are.                                 *)
BitAt(b, j) == CHAR_BIT * b + j < Len(bits) /\ bits[CHAR_BIT * b + j + 1]

Packed(b) == {j \in 0 .. CHAR_BIT - 1 : BitAt(b, j)}

(* _serialize_bitvector assigns the bytes that hold bits.                  *)
_serialize_bitvector ==
    [b \in DOMAIN bytes |->
        IF b < CeilDiv(Len(bits), CHAR_BIT) THEN Packed(b) ELSE bytes[b]]

(* Mutant: the sentinel goes to the last byte that holds bits.             *)
SentinelInLastByte(written) ==
    [written EXCEPT ![(Len(bits) - 1) \div CHAR_BIT] =
        @ \cup {Len(bits) % CHAR_BIT}]

(* serialize of a bitlist then sets the bit after the last one.            *)
Sentinel(written) ==
    [written EXCEPT ![Len(bits) \div CHAR_BIT] = @ \cup {Len(bits) % CHAR_BIT}]

(* serialize of a std::bitset only ever sets bits.                         *)
Ored == [b \in DOMAIN bytes |-> bytes[b] \cup Packed(b)]

(* The bits of the bytes 0 .. count - 1.                                   *)
Unpacked(count) ==
    [p \in 1 .. CHAR_BIT * count |->
        (p - 1) % CHAR_BIT \in bytes[(p - 1) \div CHAR_BIT]]

Length == Cardinality(DOMAIN bytes)

(* The bits of the last byte below its highest: CHAR_BIT - 1 minus its     *)
(* leading zeroes, none if it is 0.                                        *)
HighestBit(byte) == IF byte = {} THEN -1 ELSE Max(byte)
BelowHighest(byte) == [p \in 1 .. HighestBit(byte) |-> p - 1 \in byte]

(* Mutant: the highest bit is taken for one of the list.                   *)
KeepingSentinel ==
    LET last == bytes[Length - 1]
    IN  Unpacked(Length - 1)
           \o [p \in 1 .. HighestBit(last) + 1 |-> p - 1 \in last]

read_bitlist == Unpacked(Length - 1) \o BelowHighest(bytes[Length - 1])

(* Mutant: the bits of the last byte beyond N are kept.                    *)
UnboundedBitvector == Unpacked(Length)

(* The std::bitset is reset, then its bits are set; bits of the last byte  *)
(* beyond N are ignored.                                                   *)
read_bitvector == SubSeq(Unpacked(Length), 1, N)

-----------------------------------------------------------------------------
(* A list within its limit; a bitset has N bits.  The buffer, and the      *)
(* object deserialized into, may have been used before.                    *)
Init ==
    /\ kind \in Kinds
    /\ N \in IF kind = "bitlist" THEN Limits ELSE 1 .. MaxBits
    /\ \E n \in IF kind = "bitvector" THEN {N} ELSE 0 .. MaxBits :
          /\ n <= N
          /\ bits \in [1 .. n -> BOOLEAN]
    /\ dirty \in BOOLEAN
    /\ bytes = [b \in 0 .. buffer_size - 1 |->
                    IF dirty THEN 0 .. CHAR_BIT - 1 ELSE {}]
    /\ ret \in {[p \in 1 .. n |-> TRUE] :
                    n \in IF kind = "bitvector" THEN {N} ELSE {0, N}}
    /\ pc = "serialize"

Serialize ==
    /\ pc = "serialize"
    /\ bytes' = CASE kind = "bitlist"      -> Sentinel(_serialize_bitvector)
                  [] kind = "vector<bool>" -> _serialize_bitvector
                  [] kind = "bitvector"    -> Ored
    /\ pc' = "deserialize"
    /\ UNCHANGED <<kind, N, bits, dirty, ret>>

(* The bytes are more than the limit of the list has bits.                 *)
TooLong == kind = "bitlist" /\ Length * CHAR_BIT > N

DeserializeThrows ==
    /\ pc = "deserialize" /\ TooLong
    /\ pc' = "threw"
    /\ UNCHANGED <<kind, N, bits, dirty, bytes, ret>>

Deserialize ==
    /\ pc = "deserialize" /\ ~TooLong
    /\ ret' = IF kind = "bitvector" THEN read_bitvector ELSE read_bitlist
    /\ pc' = "done"
    /\ UNCHANGED <<kind, N, bits, dirty, bytes>>

Terminating == pc \in {"done", "threw"} /\ UNCHANGED vars

Next == Serialize \/ DeserializeThrows \/ Deserialize \/ Terminating

Spec == Init /\ [][Next]_vars /\ WF_vars(Next)

-----------------------------------------------------------------------------
(* Properties.                                                             *)

(* Every variable has its type.                                            *)
TypeOK ==
    /\ kind \in Kinds
    /\ N \in Nat
    /\ bits \in Seq(BOOLEAN) /\ Len(bits) <= N
    /\ dirty \in BOOLEAN
    /\ bytes \in [0 .. buffer_size - 1 -> Byte]
    /\ ret \in Seq(BOOLEAN)
    /\ kind = "bitvector" => Len(ret) = N
    /\ pc \in {"serialize", "deserialize", "done", "threw"}

(* The bytes written do not depend on what the buffer held.  A bitlist     *)
(* assigns every byte that holds a bit, but only sets the sentinel in a    *)
(* byte of its own when its length is a multiple of CHAR_BIT.              *)
Overwritten == ~dirty \/ (kind = "bitlist" /\ Len(bits) % CHAR_BIT # 0)

(* A bitlist or bitvector that is read back is the one that was written,   *)
(* at every length around a byte boundary, and whatever the buffer and the *)
(* object read into held before, as far as the buffer is overwritten.      *)
RoundTrip ==
    pc = "done" /\ Overwritten /\ kind # "vector<bool>" => ret = bits

(* ssz::size announces to the enclosing container exactly the bytes that   *)
(* are written, and the sentinel is the highest bit of the last: a reader  *)
(* recovers the length from the bytes alone, whatever the bits are.        *)
SizeExact ==
    pc # "serialize" /\ Overwritten /\ kind # "vector<bool>" =>
        /\ Length = size
        /\ kind = "bitlist" =>
              CHAR_BIT * (size - 1) + HighestBit(bytes[size - 1]) = Len(bits)

(* A bitlist within its limit can be read back: the round trip of          *)
(* spec_test.cpp (lines 61 to 63) for every value of the type.             *)
WithinLimitReadable ==
    pc = "threw" => Len(bits) > N
=============================================================================
