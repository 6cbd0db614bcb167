------------------------------ MODULE ListCodec -----------------------------
(***************************************************************************)
(* serialize and deserialize of vectors and lists, lists.hpp.  The holder  *)
(* is a std::array, or a std::vector or ssz::list, which resize.  Elements *)
(* are basic values, copied in one go, fixed-size objects, one after the   *)
(* other, or variable-size objects, after a table of their offsets.        *)
(* Elements that are std::vectors count as fixed-size objects.  There is   *)
(* no deserialize of a std::array of variable-size objects.                *)
(*                                                                         *)
(* The list is a part of a buffer: all of one that serialize allocates, or *)
(* the part of a caller who serializes in place, such as the container of  *)
(* the list.  The reader may have lost bytes at the end.                   *)
(*                                                                         *)
(* Byte j of element n is a record of its own, a 32-bit offset is the      *)
(* sequence of the bytes of a word.  Positions count from 0.               *)
(***************************************************************************)
EXTENDS Integers, Sequences, SequencesExt

CONSTANTS
    BYTES_PER_LENGTH_OFFSET,    \* 4 in the code
    UINT32_VALUES,              \* 2^32 in the code
    MaxElements,                \* bound: number of elements
    Widths,                     \* bound: sizes of fixed-size elements
    Sizes,                      \* bound: sizes of variable-size elements
    Bases,                      \* where the list starts; 0 if allocated
    MaxMissing                  \* bound: number of bytes lost

ASSUME ListAssumption ==
    /\ BYTES_PER_LENGTH_OFFSET \in Nat \ {0}
    /\ UINT32_VALUES \in Nat \ {0}
    /\ MaxElements \in Nat
    /\ Widths \subseteq Nat \ {0}
    /\ Sizes \subseteq Nat
    /\ Bases \subseteq Nat
    /\ MaxMissing \in Nat

VARIABLES
    holder,     \* "array" or "vector"
    element,    \* "basic", "object", "vector" or "variable"
    width,      \* the size of an element, unless "variable"
    source,     \* the list serialized, a sequence of byte sequences
    ret,        \* the list deserialized into
    buffer,     \* the bytes
    base,       \* where the list starts in the buffer
    missing,    \* how many of its last bytes the reader does not get
    data,       \* serialize: where the next element goes
    offset,     \* deserialize: where the next variable-size element starts
    idx,        \* the element at hand
    pc

type == <<holder, element, width>>
env  == <<type, source, base, missing>>
vars == <<env, ret, buffer, data, offset, idx, pc>>

Zero  == [zero |-> TRUE]        \* of a value-initialised buffer or element
Stale == [stale |-> TRUE]       \* of anything used before
Other == [other |-> TRUE]       \* of an element that was never serialized

Payload(n, length) == [j \in 1 .. length |-> [element |-> n, byte |-> j]]
Filled(length, byte) == [j \in 1 .. length |-> byte]
Word(value) ==
    [j \in 1 .. BYTES_PER_LENGTH_OFFSET |-> [word |-> value, byte |-> j]]

-----------------------------------------------------------------------------
(* The sizes of the first n elements and of their offsets.                 *)
sizes_to[n \in Nat] ==
    IF n = 0 THEN 0
    ELSE sizes_to[n - 1] + BYTES_PER_LENGTH_OFFSET + Len(source[n])

(* Mutant: the table of offsets is not counted.                            *)
TablelessSize ==
    IF element = "variable" THEN Len(FlattenSeq(source))
    ELSE IF source = <<>> THEN 0 ELSE Len(source) * Len(source[1])

(* ssz::size, a std::size_t.                                               *)
size ==
    IF element = "variable" THEN sizes_to[Len(source)]
    ELSE IF source = <<>> THEN 0 ELSE Len(source) * Len(source[1])

(* What serialize allocates: the sizes of variable-size elements are added *)
(* up in a std::uint32_t.                                                  *)
totals[n \in Nat] ==
    IF n = 0 THEN 0
    ELSE (totals[n - 1] % UINT32_VALUES) + BYTES_PER_LENGTH_OFFSET
                                         + Len(source[n])
total_size == IF element = "variable" THEN totals[Len(source)] ELSE size

room == IF base = 0 THEN total_size ELSE size

(* b with the given bytes from position at on.                             *)
Written(b, at, bytes) ==
    [p \in DOMAIN b |-> IF p - at \in DOMAIN bytes THEN bytes[p - at] ELSE b[p]]

FitsAt(at, length) == at + length <= Len(buffer)

(* The bytes the reader gets, and parts of them.                           *)
received == SubSeq(buffer, base + 1, base + room - missing)
End      == Len(received)
Slice(from, to) == SubSeq(received, from + 1, to)

(* What a std::uint32_t read at a position may be: the offset that was     *)
(* written there, or any number if it is made of other bytes.              *)
WordsAt(at) ==
    LET word == Slice(at, at + BYTES_PER_LENGTH_OFFSET)
        read == {n \in 0 .. UINT32_VALUES - 1 : Word(n) = word}
    IN  IF read # {} THEN read ELSE 0 .. UINT32_VALUES - 1

-----------------------------------------------------------------------------
(* Any list, any buffer with room for it, and any earlier value of the     *)
(* list deserialized into: a std::array has its size already.              *)
Init ==
    /\ holder \in {"array", "vector"}
    /\ element \in {"basic", "object", "vector"} \cup
                    (IF holder = "vector" THEN {"variable"} ELSE {})
    /\ width \in Widths
    /\ \E count \in 0 .. MaxElements, old \in 0 .. MaxElements :
          /\ holder = "array" => count > 0 /\ old = count
          /\ \E sizes \in [1 .. count -> IF element = "variable" THEN Sizes
                                                                 ELSE {width}] :
                source = [n \in 1 .. count |-> Payload(n, sizes[n])]
          /\ ret = [n \in 1 .. old |-> Filled(width, Stale)]
    /\ base \in Bases
    /\ buffer = Filled(base, Stale)
                   \o Filled(room, IF base = 0 THEN Zero ELSE Stale)
                   \o Filled(base, Stale)
    /\ missing \in 0 .. MaxMissing /\ missing <= room
    /\ data = base + (IF element = "variable"
                      THEN Len(source) * BYTES_PER_LENGTH_OFFSET ELSE 0)
    /\ offset = 0 /\ idx = 1
    /\ pc = "serialize"

Goto(label) == pc' = label /\ idx' = 1

SerializeBasic ==
    /\ pc = "serialize" /\ element = "basic"
    /\ buffer' = Written(buffer, base, FlattenSeq(source))
    /\ Goto("deserialize")
    /\ UNCHANGED <<env, ret, data, offset>>

SerializeObject ==
    /\ pc = "serialize" /\ element \in {"object", "vector"}
    /\ idx <= Len(source)
    /\ buffer' = Written(buffer, data, source[idx])
    /\ data' = data + Len(source[idx])
    /\ idx' = idx + 1
    /\ UNCHANGED <<env, ret, offset, pc>>

(* Mutant: offsets count from the start of the buffer.                     *)
SerializeVariableFromBuffer ==
    /\ pc = "serialize" /\ element = "variable" /\ idx <= Len(source)
    /\ FitsAt(base, idx * BYTES_PER_LENGTH_OFFSET)
    /\ FitsAt(data, Len(source[idx]))
    /\ buffer' = Written(Written(buffer,
                                 base + (idx - 1) * BYTES_PER_LENGTH_OFFSET,
                                 Word(data % UINT32_VALUES)),
                         data, source[idx])
    /\ data' = data + Len(source[idx])
    /\ idx' = idx + 1
    /\ UNCHANGED <<env, ret, offset, pc>>

(* The offset goes to the table, the element after the one before it.      *)
SerializeVariable ==
    /\ pc = "serialize" /\ element = "variable" /\ idx <= Len(source)
    /\ FitsAt(base, idx * BYTES_PER_LENGTH_OFFSET)
    /\ FitsAt(data, Len(source[idx]))
    /\ buffer' = Written(Written(buffer,
                                 base + (idx - 1) * BYTES_PER_LENGTH_OFFSET,
                                 Word((data - base) % UINT32_VALUES)),
                         data, source[idx])
    /\ data' = data + Len(source[idx])
    /\ idx' = idx + 1
    /\ UNCHANGED <<env, ret, offset, pc>>

Serialized ==
    /\ pc = "serialize" /\ element # "basic" /\ idx > Len(source)
    /\ Goto("deserialize")
    /\ UNCHANGED <<env, ret, buffer, data, offset>>

-----------------------------------------------------------------------------
(* Fixed-size elements.                                                    *)

Fixed == element \in {"basic", "object"}

(* Mutant: vector_length drops the remainder.                              *)
RemainderDropped ==
    holder = "array" /\ element = "basic" /\ End < Len(ret) * width

(* vector_length of a std::vector, and the size of an array of basic       *)
(* values.                                                                 *)
Refused ==
    \/ holder = "vector" /\ End % width # 0
    \/ holder = "array" /\ element = "basic" /\ End < Len(ret) * width

DeserializeThrows ==
    /\ pc = "deserialize" /\ Fixed /\ Refused
    /\ Goto("threw")
    /\ UNCHANGED <<env, ret, buffer, data, offset>>

vector_length == IF holder = "vector" THEN End \div width ELSE Len(ret)

chunk(n) == Slice((n - 1) * width, n * width)

DeserializeBasic ==
    /\ pc = "deserialize" /\ element = "basic" /\ ~Refused
    /\ ret' = [n \in 1 .. vector_length |-> chunk(n)]
    /\ Goto("done")
    /\ UNCHANGED <<env, buffer, data, offset>>

(* A std::vector starts afresh, a std::array keeps its elements until they *)
(* are deserialized.                                                       *)
DeserializeObjects ==
    /\ pc = "deserialize" /\ element = "object" /\ ~Refused
    /\ ret' = IF holder = "array" THEN ret
              ELSE [n \in 1 .. vector_length |-> Filled(width, Zero)]
    /\ Goto("chunks")
    /\ UNCHANGED <<env, buffer, data, offset>>

DeserializeChunk ==
    /\ pc = "chunks" /\ idx * width <= End
    /\ ret' = [ret EXCEPT ![idx] = chunk(idx)]
    /\ idx' = idx + 1
    /\ UNCHANGED <<env, buffer, data, offset, pc>>

(* The last chunk is too short.  Basic values of the object that lack      *)
(* bytes throw.  A std::bitset clears the bits it has no bytes for, a      *)
(* std::array of objects keeps the ones it has none for, and a container   *)
(* does what its members do.                                               *)
ShortChunk == pc = "chunks" /\ (idx - 1) * width < End /\ End < idx * width

ChunkThrows ==
    /\ ShortChunk
    /\ Goto("threw")
    /\ UNCHANGED <<env, ret, buffer, data, offset>>

ChunkCompleted ==
    /\ ShortChunk
    /\ \E rest \in [1 .. idx * width - End -> {Zero, Stale}] :
          ret' = [ret EXCEPT ![idx] = Slice((idx - 1) * width, End) \o rest]
    /\ Goto("done")
    /\ UNCHANGED <<env, buffer, data, offset>>

ChunksDone ==
    /\ pc = "chunks" /\ (idx - 1) * width = End
    /\ Goto("done")
    /\ UNCHANGED <<env, ret, buffer, data, offset>>

(* A std::vector, as the T vac{} of vector_length and __deserialize_chunked*)
(* is one, has size 0: a division by zero, or chunks of no bytes.          *)
NoSize ==
    /\ pc = "deserialize" /\ element = "vector"
    /\ Goto("undefined")
    /\ UNCHANGED <<env, ret, buffer, data, offset>>

-----------------------------------------------------------------------------
(* Variable-size elements.                                                 *)

DeserializeEmpty ==
    /\ pc = "deserialize" /\ element = "variable" /\ End = 0
    /\ ret' = <<>>
    /\ Goto("done")
    /\ UNCHANGED <<env, buffer, data, offset>>

(* Mutant: the first element is counted, too, with the size of the table.  *)
DeserializeOneTooMany ==
    /\ pc = "deserialize" /\ element = "variable"
    /\ BYTES_PER_LENGTH_OFFSET <= End
    /\ \E first \in WordsAt(0) :
          /\ first >= BYTES_PER_LENGTH_OFFSET
          /\ offset' = first
          /\ ret' = [n \in 1 .. first \div BYTES_PER_LENGTH_OFFSET + 1 |-> <<>>]
    /\ Goto("offsets")
    /\ UNCHANGED <<env, buffer, data>>

(* The first offset gives the number of elements.                          *)
DeserializeVariable ==
    /\ pc = "deserialize" /\ element = "variable"
    /\ BYTES_PER_LENGTH_OFFSET <= End
    /\ \E first \in WordsAt(0) :
          /\ first >= BYTES_PER_LENGTH_OFFSET
          /\ offset' = first
          /\ ret' = [n \in 1 .. first \div BYTES_PER_LENGTH_OFFSET |-> <<>>]
    /\ Goto("offsets")
    /\ UNCHANGED <<env, buffer, data>>

TableEnd == (idx + 1) * BYTES_PER_LENGTH_OFFSET

(* What the deserialize of the element at hand makes of the bytes up to    *)
(* some position: of its own, the element; of others, an element that is   *)
(* encoded by them, or another one.  A bitlist without its last byte ends  *)
(* at the highest bit that is left, and is as good as any.                 *)
Own(to) == idx \in DOMAIN source /\ Slice(offset, to) = source[idx]

ElementsOf(to) ==
    {Slice(offset, to)} \cup (IF Own(to) THEN {} ELSE {<<Other>>})

DeserializeElement ==
    /\ pc = "offsets" /\ idx < Len(ret) /\ TableEnd <= End
    /\ \E next_offset \in WordsAt(idx * BYTES_PER_LENGTH_OFFSET) :
          /\ offset <= next_offset /\ next_offset <= End
          /\ \E elem \in ElementsOf(next_offset) :
                ret' = [ret EXCEPT ![idx] = elem]
          /\ offset' = next_offset
    /\ idx' = idx + 1
    /\ UNCHANGED <<env, buffer, data, pc>>

(* The last element takes the rest of the bytes; views::drop stops at      *)
(* their end.                                                              *)
DeserializeLast ==
    /\ pc = "offsets" /\ idx = Len(ret)
    /\ \E elem \in ElementsOf(End) : ret' = [ret EXCEPT ![idx] = elem]
    /\ Goto("done")
    /\ UNCHANGED <<env, buffer, data, offset>>

(* An element may refuse bytes that are not its own, or look for more than *)
(* there are, which is undefined: a bitlist reads the last of no bytes.    *)
ElementFaults ==
    /\ pc = "offsets"
    /\ \/ idx = Len(ret) /\ ~Own(End)
       \/ /\ idx < Len(ret) /\ TableEnd <= End
          /\ \E next_offset \in WordsAt(idx * BYTES_PER_LENGTH_OFFSET) :
                /\ offset <= next_offset /\ next_offset <= End
                /\ ~Own(next_offset)
    /\ \E fault \in {"threw", "undefined"} : Goto(fault)
    /\ UNCHANGED <<env, ret, buffer, data, offset>>

-----------------------------------------------------------------------------
(* Accesses outside the buffer, undefined behaviour: an element written    *)
(* past its end, an offset read there, a subrange between two offsets that *)
(* is not one of the bytes, and ret.back() of no elements.                 *)
Outside ==
    /\ element = "variable"
    /\ \/ /\ pc = "serialize" /\ idx <= Len(source)
          /\ \/ ~FitsAt(base, idx * BYTES_PER_LENGTH_OFFSET)
             \/ ~FitsAt(data, Len(source[idx]))
       \/ /\ pc = "deserialize" /\ End > 0
          /\ ~(/\ BYTES_PER_LENGTH_OFFSET <= End
               /\ \A first \in WordsAt(0) : first >= BYTES_PER_LENGTH_OFFSET)
       \/ /\ pc = "offsets" /\ idx < Len(ret)
          /\ \/ TableEnd > End
             \/ /\ TableEnd <= End
                /\ \E next_offset \in WordsAt(idx * BYTES_PER_LENGTH_OFFSET) :
                      ~(offset <= next_offset /\ next_offset <= End)
    /\ Goto("undefined")
    /\ UNCHANGED <<env, ret, buffer, data, offset>>

Finished == {"done", "threw", "undefined"}
Terminating == pc \in Finished /\ UNCHANGED vars

Next ==
    \/ SerializeBasic \/ SerializeObject \/ SerializeVariable \/ Serialized
    \/ DeserializeThrows \/ DeserializeBasic
    \/ DeserializeObjects \/ DeserializeChunk \/ ChunksDone
    \/ ChunkThrows \/ ChunkCompleted
    \/ NoSize
    \/ DeserializeEmpty \/ DeserializeVariable \/ DeserializeElement
    \/ DeserializeLast \/ ElementFaults
    \/ Outside \/ Terminating

Spec == Init /\ [][Next]_vars /\ WF_vars(Next)

-----------------------------------------------------------------------------
(* Properties.                                                             *)

(* Every variable has its type; data does not pass the size of the list,   *)
(* which is more than the room if the sums of totals wrap.                 *)
TypeOK ==
    /\ holder \in {"array", "vector"}
    /\ element \in {"basic", "object", "vector", "variable"}
    /\ width \in Widths
    /\ Len(source) \in 0 .. MaxElements /\ base \in Bases
    /\ missing \in 0 .. MaxMissing
    /\ Len(ret) \in 0 .. MaxElements
    /\ holder = "array" => Len(ret) = Len(source)
    /\ Len(buffer) = 2 * base + room
    /\ data \in base .. base + size
    /\ offset \in 0 .. UINT32_VALUES - 1
    /\ idx \in 1 .. MaxElements + 1
    /\ pc \in {"serialize", "deserialize", "chunks", "offsets"} \cup Finished

(* The SSZ encoding of a list: its elements, after their offsets if their  *)
(* size is variable.                                                       *)
OffsetOf(list, n) ==
    Len(list) * BYTES_PER_LENGTH_OFFSET + Len(FlattenSeq(SubSeq(list, 1, n - 1)))
Table(list) == FlattenSeq([n \in DOMAIN list |-> Word(OffsetOf(list, n))])
Encoding(list) ==
    IF element = "variable" THEN Table(list) \o FlattenSeq(list)
                            ELSE FlattenSeq(list)

(* The encoding is shorter than 2^32 bytes.                                *)
Representable == Len(Encoding(source)) < UINT32_VALUES

(* A serialized list is its SSZ encoding, of the size announced to its     *)
(* container, wherever in the buffer it starts and whatever the buffer     *)
(* held; not one byte before or after it is touched.                       *)
LayoutExact ==
    Representable /\ pc # "serialize" =>
        /\ room = size
        /\ buffer = Filled(base, Stale) \o Encoding(source)
                       \o Filled(base, Stale)

(* Deserializing what was serialized gives the list back, without an       *)
(* exception or an access outside the buffer, whatever the list held       *)
(* before, unless its elements are std::vectors.                           *)
RoundTrip ==
    Representable /\ missing = 0 /\ element # "vector" =>
        /\ pc \notin {"threw", "undefined"}
        /\ pc = "done" => ret = source

(* The bytes of the first n elements, and those before them, arrived.      *)
Arrived(n) ==
    (IF element = "variable" THEN Len(source) * BYTES_PER_LENGTH_OFFSET ELSE 0)
       + Len(FlattenSeq(SubSeq(source, 1, n))) <= End

(* If bytes that lost their end are accepted at all, what arrived in full  *)
(* is in its place in the list.  Basic values, and objects in a            *)
(* std::vector, are not read from a part of their bytes: the list returned *)
(* is the shorter one that the bytes received encode.  Variable-size       *)
(* elements keep their number if a byte is left.  What an element becomes  *)
(* of which the end is lost is up to its type.                             *)
ArrivedIntact ==
    Representable /\ pc = "done" =>
        /\ \A n \in DOMAIN source :
              Arrived(n) => n \in DOMAIN ret /\ ret[n] = source[n]
        /\ \/ holder = "array" /\ element = "object"
           \/ element = "variable" /\ (End > 0 => Len(ret) = Len(source))
           \/ element # "variable" /\ received = Encoding(ret)

-----------------------------------------------------------------------------
(* The README offers std::vector to model arbitrary vectors (line 62), and *)
(* ssz::list for any ssz_object: lists of them would come back.            *)
VectorsRoundTrip ==
    Representable /\ missing = 0 /\ element = "vector" =>
        pc # "undefined"
=============================================================================
