--------------------------- MODULE ContainerCodec ---------------------------
(***************************************************************************)
(* serialize of a container into a fresh buffer, then deserialize of that  *)
(* buffer into another container of the same type: container.hpp.          *)
(*                                                                         *)
(* The members, in their order, are of three kinds.  An "array" has a size *)
(* its type fixes: basic values, std::array, std::bitset, containers of    *)
(* such.  A "vector" is a std::vector, a fixed-size object to the          *)
(* library whose size is nevertheless that of its value.  A "list" has a   *)
(* variable size.  The elements of vectors and lists are one byte long, so *)
(* that any bytes are some vector or list; a member is the sequence of its *)
(* bytes, whatever its own serialize is.                                   *)
(*                                                                         *)
(* Byte j of member m is a record of its own, a 32-bit offset is the       *)
(* sequence of the bytes of a word.  Positions in the buffer count from 0. *)
(***************************************************************************)
EXTENDS Integers, Sequences, SequencesExt

CONSTANTS
    BYTES_PER_LENGTH_OFFSET,    \* 4 in the code
    UINT32_VALUES,              \* 2^32 in the code
    Shapes,                     \* the sequences of member kinds tried
    Sizes                       \* bound: the sizes of members tried

ASSUME CodecAssumption ==
    /\ BYTES_PER_LENGTH_OFFSET \in Nat \ {0}
    /\ UINT32_VALUES \in Nat \ {0}
    /\ Shapes \subseteq Seq({"array", "vector", "list"})
    /\ Sizes \subseteq Nat

VARIABLES
    shape,      \* the kinds of the members
    source,     \* the container serialized, a sequence of byte sequences
    held,       \* the sizes of the target's members before it is assigned
    target,     \* the container deserialized into
    buffer,     \* the serialized bytes
    result,     \* serialize: where the next fixed part goes
    variable,   \* serialize: where the next variable part goes
    shifted,    \* deserialize: first byte of shifted_bytes
    offsets,    \* deserialize: the offsets read
    k,          \* deserialize: index in offsets of the iterator offset
    m,          \* the member at hand
    pc

container == <<shape, source, held>>
writing   == <<buffer, result, variable>>
reading   == <<shifted, offsets, k>>
vars      == <<container, target, writing, reading, m, pc>>

Members == 1 .. Len(shape)
Fixed(n) == shape[n] # "list"

Zero  == [zero |-> TRUE]        \* of a value-initialised buffer
Stale == [stale |-> TRUE]       \* of the target before it is assigned

Payload(n, size) == [j \in 1 .. size |-> [member |-> n, byte |-> j]]
Word(value) ==
    [j \in 1 .. BYTES_PER_LENGTH_OFFSET |-> [word |-> value, byte |-> j]]

-----------------------------------------------------------------------------
(* Sizes, in std::uint32_t.                                                *)

size(n) == Len(source[n])

(* Mutant: lists are counted with their size.                              *)
SizeWithoutPlaceholder(n) == size(n)

size_or_placeholder(n) ==
    IF Fixed(n) THEN size(n) ELSE BYTES_PER_LENGTH_OFFSET

size_plus_placeholder(n) ==
    IF Fixed(n) THEN size(n) ELSE size(n) + BYTES_PER_LENGTH_OFFSET

(* The sums over the first n members.                                      *)
fixed_length[n \in Nat] ==
    IF n = 0 THEN 0
    ELSE (fixed_length[n - 1] + size_or_placeholder(n)) % UINT32_VALUES

total_length[n \in Nat] ==
    IF n = 0 THEN 0
    ELSE (total_length[n - 1] + size_plus_placeholder(n)) % UINT32_VALUES

compute_fixed_length == fixed_length[Len(shape)]
compute_total_length == total_length[Len(shape)]

-----------------------------------------------------------------------------
End == Len(buffer)

Slice(from, to) == SubSeq(buffer, from + 1, to)

(* buffer with the given bytes from position at on.                        *)
Written(b, at, bytes) ==
    [p \in DOMAIN b |-> IF p - at \in DOMAIN bytes THEN bytes[p - at] ELSE b[p]]

(* What a std::uint32_t read at a position may be: the offset that was     *)
(* written there, or any number if it is made of other bytes.              *)
WordsAt(at) ==
    LET word == Slice(at, at + BYTES_PER_LENGTH_OFFSET)
        read == {n \in 0 .. UINT32_VALUES - 1 : Word(n) = word}
    IN  IF read # {} THEN read ELSE 0 .. UINT32_VALUES - 1

Goto(label) == pc' = label /\ m' = 1

-----------------------------------------------------------------------------
(* Any container, and any earlier value of the target: members whose type  *)
(* fixes their size have that size already.                                *)
Init ==
    /\ shape \in Shapes
    /\ \E sizes \in [Members -> Sizes], old \in [Members -> Sizes] :
          /\ \A n \in Members :
                shape[n] = "array" => sizes[n] > 0 /\ old[n] = sizes[n]
          /\ source = [n \in Members |-> Payload(n, sizes[n])]
          /\ held = old
          /\ target = [n \in Members |-> [j \in 1 .. old[n] |-> Stale]]
    /\ buffer = <<>>
    /\ result = 0 /\ variable = 0 /\ shifted = 0
    /\ offsets = <<>> /\ k = 1 /\ m = 1
    /\ pc = "allocate"

Allocate ==
    /\ pc = "allocate"
    /\ buffer' = [p \in 1 .. compute_total_length |-> Zero]
    /\ variable' = compute_fixed_length
    /\ Goto("serialize")
    /\ UNCHANGED <<container, target, reading, result>>

FitsAt(at, length) == at + length <= End

SerializeFixed ==
    /\ pc = "serialize" /\ m \in Members /\ Fixed(m)
    /\ FitsAt(result, size(m))
    /\ buffer' = Written(buffer, result, source[m])
    /\ result' = result + size(m)
    /\ m' = m + 1
    /\ UNCHANGED <<container, target, reading, variable, pc>>

(* Mutant: the cursor of the variable parts moves by the offset, too.      *)
SerializeListWithPlaceholder ==
    /\ pc = "serialize" /\ m \in Members /\ ~Fixed(m)
    /\ FitsAt(result, BYTES_PER_LENGTH_OFFSET) /\ FitsAt(variable, size(m))
    /\ LET offset == Word(variable % UINT32_VALUES)
       IN  buffer' = Written(Written(buffer, result, offset),
                             variable, source[m])
    /\ result' = result + BYTES_PER_LENGTH_OFFSET
    /\ variable' = variable + size_plus_placeholder(m)
    /\ m' = m + 1
    /\ UNCHANGED <<container, target, reading, pc>>

(* Mutant: the offset is the distance from the end of the fixed parts.     *)
SerializeListFromFixed ==
    /\ pc = "serialize" /\ m \in Members /\ ~Fixed(m)
    /\ FitsAt(result, BYTES_PER_LENGTH_OFFSET) /\ FitsAt(variable, size(m))
    /\ LET offset == Word((variable - compute_fixed_length) % UINT32_VALUES)
       IN  buffer' = Written(Written(buffer, result, offset),
                             variable, source[m])
    /\ result' = result + BYTES_PER_LENGTH_OFFSET
    /\ variable' = variable + size(m)
    /\ m' = m + 1
    /\ UNCHANGED <<container, target, reading, pc>>

(* The offset goes among the fixed parts, the member after all of them.    *)
SerializeList ==
    /\ pc = "serialize" /\ m \in Members /\ ~Fixed(m)
    /\ FitsAt(result, BYTES_PER_LENGTH_OFFSET) /\ FitsAt(variable, size(m))
    /\ LET offset == Word(variable % UINT32_VALUES)
       IN  buffer' = Written(Written(buffer, result, offset),
                             variable, source[m])
    /\ result' = result + BYTES_PER_LENGTH_OFFSET
    /\ variable' = variable + size(m)
    /\ m' = m + 1
    /\ UNCHANGED <<container, target, reading, pc>>

Serialized ==
    /\ pc = "serialize" /\ m \notin Members
    /\ Goto("fixed")
    /\ UNCHANGED <<container, target, writing, reading>>

-----------------------------------------------------------------------------
(* deserialize_fixed_size_members.  It takes the size of a member from the *)
(* target.  views::take takes no more bytes than there are, and            *)
(* shifted_bytes.advance stops at their end.                               *)

DeserializeFixed ==
    /\ pc = "fixed" /\ m \in Members /\ Fixed(m)
    /\ FitsAt(shifted, Len(target[m]))
    /\ target' = [target EXCEPT ![m] = Slice(shifted, shifted + Len(@))]
    /\ shifted' = shifted + Len(target[m])
    /\ m' = m + 1
    /\ UNCHANGED <<container, writing, offsets, k, pc>>

(* With too few bytes left a std::vector becomes shorter.  A std::bitset   *)
(* clears the bits it has no bytes for, an array of objects keeps the      *)
(* objects, and a container has members that do either.                    *)
DeserializeShort ==
    /\ pc = "fixed" /\ m \in Members /\ Fixed(m)
    /\ ~FitsAt(shifted, Len(target[m]))
    /\ LET lacking == IF shape[m] = "vector" THEN 0
                      ELSE Len(target[m]) - (End - shifted)
       IN  \E rest \in [1 .. lacking -> {Zero, Stale}] :
              target' = [target EXCEPT ![m] = Slice(shifted, End) \o rest]
    /\ shifted' = End
    /\ m' = m + 1
    /\ UNCHANGED <<container, writing, offsets, k, pc>>

ReadOffset ==
    /\ pc = "fixed" /\ m \in Members /\ ~Fixed(m)
    /\ FitsAt(shifted, BYTES_PER_LENGTH_OFFSET)
    /\ \E n \in WordsAt(shifted) : offsets' = Append(offsets, n)
    /\ shifted' = shifted + BYTES_PER_LENGTH_OFFSET
    /\ m' = m + 1
    /\ UNCHANGED <<container, target, writing, k, pc>>

(* Too few bytes for a basic value or an array of them, or a byte that is  *)
(* no bool: one of another member.                                         *)
DeserializeThrows ==
    /\ pc = "fixed" /\ m \in Members /\ shape[m] = "array"
    /\ FitsAt(shifted, Len(target[m]))
          => Slice(shifted, shifted + Len(target[m])) # source[m]
    /\ Goto("threw")
    /\ UNCHANGED <<container, target, writing, reading>>

FixedDone ==
    /\ pc = "fixed" /\ m \notin Members
    /\ Goto(IF offsets = <<>> THEN "done" ELSE "variable")
    /\ UNCHANGED <<container, target, writing, reading>>

-----------------------------------------------------------------------------
(* deserialize_variable_size_members.  current_offset is offsets[k] until  *)
(* the iterator moves, and is assigned the next offset after.              *)

Skip ==
    /\ pc = "variable" /\ m \in Members /\ Fixed(m)
    /\ m' = m + 1
    /\ UNCHANGED <<container, target, writing, reading, pc>>

(* Mutant: current_offset stays at the first member.                       *)
DeserializeListFromFirst ==
    /\ pc = "variable" /\ m \in Members /\ ~Fixed(m) /\ k < Len(offsets)
    /\ offsets[k] <= offsets[k + 1] /\ offsets[k + 1] <= End
    /\ target' = [target EXCEPT ![m] = Slice(offsets[1], offsets[k + 1])]
    /\ k' = k + 1
    /\ m' = m + 1
    /\ UNCHANGED <<container, writing, shifted, offsets, pc>>

DeserializeList ==
    /\ pc = "variable" /\ m \in Members /\ ~Fixed(m) /\ k < Len(offsets)
    /\ offsets[k] <= offsets[k + 1] /\ offsets[k + 1] <= End
    /\ target' = [target EXCEPT ![m] = Slice(offsets[k], offsets[k + 1])]
    /\ k' = k + 1
    /\ m' = m + 1
    /\ UNCHANGED <<container, writing, shifted, offsets, pc>>

(* The last list takes the rest of the buffer; views::drop stops at its    *)
(* end.                                                                    *)
DeserializeLast ==
    /\ pc = "variable" /\ m \in Members /\ ~Fixed(m) /\ k = Len(offsets)
    /\ target' = [target EXCEPT ![m] = Slice(offsets[k], End)]
    /\ k' = k + 1
    /\ m' = m + 1
    /\ UNCHANGED <<container, writing, shifted, offsets, pc>>

VariableDone ==
    /\ pc = "variable" /\ m \notin Members
    /\ Goto("done")
    /\ UNCHANGED <<container, target, writing, reading>>

-----------------------------------------------------------------------------
(* Accesses outside the buffer, undefined behaviour: a part that is        *)
(* written past the end, an offset that is read there, and a subrange      *)
(* between two offsets that is not one of the buffer.                      *)
Outside ==
    /\ m \in Members
    /\ \/ /\ pc = "serialize"
          /\ \/ ~FitsAt(result, size_or_placeholder(m))
             \/ ~Fixed(m) /\ ~FitsAt(variable, size(m))
       \/ /\ pc = "fixed" /\ ~Fixed(m)
          /\ ~FitsAt(shifted, BYTES_PER_LENGTH_OFFSET)
       \/ /\ pc = "variable" /\ ~Fixed(m) /\ k < Len(offsets)
          /\ ~(offsets[k] <= offsets[k + 1] /\ offsets[k + 1] <= End)
    /\ Goto("undefined")
    /\ UNCHANGED <<container, target, writing, reading>>

Finished == {"done", "threw", "undefined"}
Terminating == pc \in Finished /\ UNCHANGED vars

Next ==
    \/ Allocate \/ SerializeFixed \/ SerializeList \/ Serialized
    \/ DeserializeFixed \/ DeserializeShort \/ ReadOffset
    \/ DeserializeThrows \/ FixedDone
    \/ Skip \/ DeserializeList \/ DeserializeLast \/ VariableDone
    \/ Outside \/ Terminating

Spec == Init /\ [][Next]_vars /\ WF_vars(Next)

-----------------------------------------------------------------------------
(* Properties.                                                             *)

(* The SSZ encoding of the source: the fixed parts, an offset where a list *)
(* stands, then the lists.                                                 *)
FixedParts(offset) ==
    FlattenSeq([n \in Members |-> IF Fixed(n) THEN source[n]
                                              ELSE Word(offset[n])])
VariableParts(n) ==
    FlattenSeq([j \in 1 .. n |-> IF Fixed(j) THEN <<>> ELSE source[j]])
FixedLength == Len(FixedParts([n \in Members |-> 0]))
Encoding ==
    FixedParts([n \in Members |-> FixedLength + Len(VariableParts(n - 1))])
       \o VariableParts(Len(shape))

(* The encoding is shorter than 2^32 bytes.                                *)
Representable == Len(Encoding) < UINT32_VALUES

(* Types.  Members whose type fixes their size keep it.  The reader's      *)
(* cursor stops at the end of the buffer.  Nothing stops the writer's.     *)
Typed ==
    /\ shape \in Shapes
    /\ Len(source) = Len(shape) /\ Len(target) = Len(shape)
    /\ held \in [Members -> Sizes]
    /\ \A n \in Members : Len(source[n]) \in Sizes
    /\ \A n \in Members : shape[n] = "array" => Len(target[n]) = size(n)
    /\ result \in Nat /\ variable \in Nat
    /\ shifted \in 0 .. End
    /\ offsets \in Seq(0 .. UINT32_VALUES - 1)
    /\ k \in 1 .. Len(offsets) + 1
    /\ m \in 1 .. Len(shape) + 1
    /\ pc \in {"allocate", "serialize", "fixed", "variable"} \cup Finished

(* Every variable has its type, and the writer's cursors keep to the two   *)
(* parts of the buffer if its length fits in 32 bits.  Of longer ones      *)
(* nothing is claimed: the code writes past their end.                     *)
TypeOK ==
    /\ Typed
    /\ Representable /\ pc # "allocate" =>
          result \in 0 .. FixedLength /\ variable \in FixedLength .. End

(* The buffer is exactly as long as the encoding, and the bytes the two    *)
(* cursors have passed, and no others, are those of the encoding: no part  *)
(* overwrites another, no gap is left, every offset points to its list.    *)
LayoutExact ==
    Representable /\ pc # "allocate" =>
        /\ Len(buffer) = Len(Encoding)
        /\ \A p \in 1 .. End :
              buffer[p] = IF p <= result \/ p \in FixedLength + 1 .. variable
                          THEN Encoding[p] ELSE Zero
        /\ pc # "serialize" => result = FixedLength /\ variable = End

(* Every std::vector of the target had the size of the source's.           *)
SameVectors == \A n \in Members : shape[n] = "vector" => held[n] = size(n)

(* The pass over the fixed parts ends where the first list begins, and     *)
(* has read one offset per list, none beyond the end and none before its   *)
(* predecessor: the second pass needs nothing but these offsets.           *)
PassesMeet ==
    Representable /\ SameVectors /\ pc = "variable" =>
        /\ offsets[1] = shifted
        /\ Len(offsets) = Cardinality({n \in Members : ~Fixed(n)})
        /\ \A j \in 1 .. Len(offsets) : offsets[j] <= End
        /\ \A j \in 1 .. Len(offsets) - 1 : offsets[j] <= offsets[j + 1]

(* Deserializing what was serialized gives the container back, without an  *)
(* exception or an access outside the buffer, whatever the target held     *)
(* before, as long as its vectors had the right sizes.                     *)
RoundTrip ==
    Representable /\ SameVectors =>
        /\ pc \notin {"threw", "undefined"}
        /\ pc = "done" => target = source

-----------------------------------------------------------------------------
(* The README offers std::vector to model any vector (line 62) and         *)
(* deserializes into a fresh object (lines 79 to 89), whose vectors are    *)
(* empty: what was serialized would then come back.                        *)
Fresh == \A n \in Members : shape[n] = "vector" => held[n] = 0

RoundTripFresh ==
    Representable /\ Fresh /\ pc = "done" => target = source
=============================================================================
