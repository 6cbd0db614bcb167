--------------------------- MODULE SparseHashTree ---------------------------
(***************************************************************************)
(* One call of sparse_hash_tree: the sequential merkleization of a byte    *)
(* buffer into a freshly allocated, exactly sized buffer.  Elements are    *)
(* bytes, so Chunk(lo, end) is the chunk holding bytes lo..end-1.          *)
(*                                                                         *)
(* The iterators into the output always advance by whole chunks; first,    *)
(* last and the buffer are indexed in chunks.                              *)
(***************************************************************************)
EXTENDS Merkle, Sequences

CONSTANTS
    BYTES_PER_CHUNK,    \* 32 in the code
    MaxBytes,           \* bound: longest input buffer
    Limits              \* the chunk limits tried, 0 for "no limit"

ASSUME SparseAssumption ==
    /\ BYTES_PER_CHUNK \in Nat \ {0}
    /\ MaxBytes \in Nat
    /\ Limits \subseteq Nat
    /\ \A n \in Limits : log2ceil(n) < zero_hash_depth
    /\ log2ceil(CeilDiv(MaxBytes, BYTES_PER_CHUNK)) < zero_hash_depth

VARIABLES
    byte_length,    \* parameter: bytes in the input
    limit,          \* parameter: limit in chunks, 0 for none
    ret,            \* the output buffer, a sequence of chunks
    first, last,    \* chunks first..last-1 of ret are the layer just written
    height,         \* height of that layer above the leaves
    pc

vars == <<byte_length, limit, ret, first, last, height, pc>>

chunk_count == CeilDiv(byte_length, BYTES_PER_CHUNK)

depth == TreeHeight(chunk_count, limit)

(* The value-initialised buffer of n chunks.                               *)
Zeroed(n) == [c \in 1 .. n |-> ZeroChunk]

(* The buffer with the given chunks written from position at (0-based) on. *)
Written(at, chunks) ==
    [c \in DOMAIN ret |-> IF c - at \in DOMAIN chunks THEN chunks[c - at]
                                                      ELSE ret[c]]

-----------------------------------------------------------------------------
(* Mutant: a layer with an odd number of chunks gives half of them,        *)
(* rounded down, to the next.                                              *)
NoRoundUpTreeSize(n, d) ==
    LET size[k \in Nat] == [m \in Nat |->
            IF k = 0 THEN 0 ELSE m \div 2 + size[k - 1][m \div 2]]
    IN  IF d = 0 THEN 1 ELSE size[d][n]

(* One turn of the loop of compute_hashtree_size: m chunks have half as    *)
(* many above them, rounded up, and what is above those.                   *)
OneMore(k, above) ==
    [m \in Nat |-> CeilDiv(m, 2) + above[CeilDiv(m, 2)]]

(* The chunks of the k layers above m chunks.                              *)
layers[k \in Nat] ==
    IF k = 0 THEN [m \in Nat |-> 0] ELSE OneMore(k, layers[k - 1])

(* compute_hashtree_size, in chunks: the layers above n leaves, up to      *)
(* height d.                                                               *)
compute_hashtree_size(n, d) == IF d = 0 THEN 1 ELSE layers[d][n]

(* Chunk c of the input as hashtree_hash reads it where it lies: all of    *)
(* its bytes, whether the buffer has them or not.                          *)
InPlace(c) == Chunk(c * BYTES_PER_CHUNK, (c + 1) * BYTES_PER_CHUNK)

(* Chunk c of the input as it is copied into the zeroed last_chunk.        *)
Copied(c) == Leaf(BYTES_PER_CHUNK, c * BYTES_PER_CHUNK, byte_length)

(* Mutant: an even number of chunks is hashed in place even if the last    *)
(* one is not whole.                                                       *)
IgnoringLeftOverFirstLayer ==
    LET in_place == IF chunk_count % 2 = 0
                    THEN chunk_count \div 2 ELSE (chunk_count - 1) \div 2
    IN  [b \in 1 .. CeilDiv(chunk_count, 2) |->
            IF b <= in_place THEN Hash(InPlace(2 * b - 2), InPlace(2 * b - 1))
                             ELSE Hash(Copied(2 * b - 2), Copied(2 * b - 1))]

(* hash_first_layer: the chunks it writes.  With an even number of whole   *)
(* chunks everything is hashed in place; otherwise all but the last pair,  *)
(* which goes through the copy.                                            *)
hash_first_layer ==
    LET left_over_bytes == byte_length % BYTES_PER_CHUNK # 0
        whole           == chunk_count % 2 = 0 /\ ~left_over_bytes
        first_blocks    == IF whole THEN chunk_count \div 2
                                    ELSE (chunk_count - 1) \div 2
        in_place == [b \in 1 .. first_blocks |->
                        Hash(InPlace(2 * b - 2), InPlace(2 * b - 1))]
        copied   == <<Hash(Copied(2 * first_blocks),
                           Copied(2 * first_blocks + 1))>>
    IN  IF whole THEN in_place ELSE in_place \o copied

(* Mutant: the odd last chunk is paired with an empty tree one level too   *)
(* low.                                                                    *)
StaleZeroSiblingLayer ==
    LET dist  == last - first
        pairs == [b \in 1 .. dist \div 2 |->
                    Hash(ret[first + 2 * b - 1], ret[first + 2 * b])]
        tail  == <<Hash(ret[last], zero_hash_array[height - 1])>>
    IN  IF dist % 2 = 1 THEN pairs \o tail ELSE pairs

(* One turn of the loop: the layer above chunks first..last-1.  An odd     *)
(* last chunk is paired with the root of an empty tree of its height.      *)
next_layer ==
    LET dist  == last - first
        pairs == [b \in 1 .. dist \div 2 |->
                    Hash(ret[first + 2 * b - 1], ret[first + 2 * b])]
        tail  == <<Hash(ret[last], zero_hash_array[height])>>
    IN  IF dist % 2 = 1 THEN pairs \o tail ELSE pairs

-----------------------------------------------------------------------------
Init ==
    /\ byte_length \in 0 .. MaxBytes
    /\ limit \in {n \in Limits : n = 0 \/ chunk_count <= n}
    /\ ret = <<>>
    /\ first = 0 /\ last = 0 /\ height = 0
    /\ pc = "start"

(* No chunk at all: a zero chunk followed by the root of the empty tree.   *)
Empty ==
    /\ pc = "start" /\ chunk_count = 0
    /\ ret' = <<ZeroChunk, zero_hash_array[depth]>>
    /\ pc' = "done"
    /\ UNCHANGED <<byte_length, limit, first, last, height>>

Allocate ==
    /\ pc = "start" /\ chunk_count > 0
    /\ ret' = Zeroed(compute_hashtree_size(chunk_count, depth))
    /\ pc' = IF depth = 0 THEN "copy" ELSE "leaves"
    /\ UNCHANGED <<byte_length, limit, first, last, height>>

(* depth = 0: one chunk, which is its own root.                            *)
CopyOnly ==
    /\ pc = "copy"
    /\ ret' = Written(0, <<Copied(0)>>)
    /\ last' = 1
    /\ pc' = "done"
    /\ UNCHANGED <<byte_length, limit, first, height>>

FirstLayer ==
    /\ pc = "leaves"
    /\ ret' = Written(0, hash_first_layer)
    /\ last' = Len(hash_first_layer)
    /\ height' = 1
    /\ pc' = "layers"
    /\ UNCHANGED <<byte_length, limit, first>>

(* Mutant: the loop runs once too often.                                   *)
OneLayerTooMany ==
    /\ pc = "layers" /\ height <= depth
    /\ ret' = Written(last, next_layer)
    /\ first' = last
    /\ last' = last + Len(next_layer)
    /\ height' = height + 1
    /\ UNCHANGED <<byte_length, limit, pc>>

NextLayer ==
    /\ pc = "layers" /\ height < depth
    /\ ret' = Written(last, next_layer)
    /\ first' = last
    /\ last' = last + Len(next_layer)
    /\ height' = height + 1
    /\ UNCHANGED <<byte_length, limit, pc>>

Return ==
    /\ pc = "layers" /\ height >= depth
    /\ pc' = "done"
    /\ UNCHANGED <<byte_length, limit, ret, first, last, height>>

Terminating == pc = "done" /\ UNCHANGED vars

Next == Empty \/ Allocate \/ CopyOnly \/ FirstLayer \/ NextLayer \/ Return
        \/ Terminating

Spec == Init /\ [][Next]_vars /\ WF_vars(Next)

-----------------------------------------------------------------------------
(* Properties.                                                             *)

(* Every variable has its type; the layer lies inside the buffer, which is *)
(* there from the allocation on.                                           *)
TypeOK ==
    /\ byte_length \in 0 .. MaxBytes
    /\ limit \in Limits
    /\ DOMAIN ret = 1 .. Len(ret)
    /\ Len(ret) = 0 <=> pc = "start"
    /\ first \in 0 .. last /\ last \in 0 .. Len(ret)
    /\ height \in 0 .. depth
    /\ pc \in {"start", "copy", "leaves", "layers", "done"}

(* compute_hashtree_size is exact: no layer is written past the end of the *)
(* buffer, and when the call returns the layer of the root is its last     *)
(* chunk, which is where every caller looks for the root (line 215).       *)
BufferExact ==
    /\ last <= Len(ret)
    /\ pc = "done" /\ chunk_count > 0 => last = Len(ret) /\ last = first + 1

(* After the layer of a height is written it has one chunk for every       *)
(* subtree of that height that holds data, each the reference root of its  *)
(* subtree: the byte-level padding of hash_first_layer, the pairing of an  *)
(* odd last chunk and the indexing of zero_hash_array agree at every       *)
(* height.                                                                 *)
LayerCorrect ==
    pc = "layers" =>
        /\ last - first = CeilDiv(chunk_count, Pow2[height])
        /\ \A c \in 0 .. last - first - 1 :
              ret[first + c + 1] =
                 Subtree(height, BYTES_PER_CHUNK,
                         c * Pow2[height] * BYTES_PER_CHUNK, byte_length)

(* The call implements the promise of HashTreeRoot: it returns, and the    *)
(* last chunk of the buffer it returns is the root.                        *)
Promise == INSTANCE HashTreeRoot WITH
    Calls   <- VectorCalls,
    RootOf  <- VectorRoot,
    request <- [per |-> BYTES_PER_CHUNK, size |-> byte_length, limit |-> limit],
    status  <- IF pc = "done" THEN "returned" ELSE "running",
    failed  <- FALSE,
    root    <- IF pc = "done" THEN ret[Len(ret)] ELSE ZeroChunk

ImplementsPromise == Promise!Spec

-----------------------------------------------------------------------------
(* The inductive invariant, in named parts.                                *)

(* The input respects the limit.                                           *)
Within == limit = 0 \/ chunk_count <= limit

(* No layer is written before the first one.                               *)
Before == pc \in {"start", "copy", "leaves"} =>
             first = 0 /\ last = 0 /\ height = 0

(* The buffer keeps the size it was given.                                 *)
Sized ==
    pc \in {"copy", "leaves", "layers"} =>
        LET size == compute_hashtree_size(chunk_count, depth)
        IN  /\ chunk_count > 0
            /\ DOMAIN ret = 1 .. size /\ Len(ret) = size
            /\ pc = "copy" <=> depth = 0

(* Behind the layer just written there is room for exactly the layers      *)
(* above it.                                                               *)
RoomLeft ==
    pc = "layers" =>
        height > 0 /\ last + layers[depth - height][last - first] = Len(ret)

(* The last chunk of what is returned is the root.                         *)
Rooted ==
    pc = "done" =>
        ret[Len(ret)] = Merkleize(BYTES_PER_CHUNK, 0, byte_length, limit)

IInv == TypeOK /\ Within /\ Before /\ Sized /\ RoomLeft
        /\ BufferExact /\ LayerCorrect /\ Rooted
=============================================================================
