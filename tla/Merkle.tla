------------------------------- MODULE Merkle -------------------------------
(***************************************************************************)
(* The pure part of merkleize.hpp and math.hpp: logarithms, the table of   *)
(* roots of empty trees, and the reference definition of an SSZ Merkle     *)
(* tree that every algorithm of the library is compared with.              *)
(*                                                                         *)
(* Data is abstract.  A vector is a number of elements; the elements lo,   *)
(* lo+1, ..., end-1 that share one 32-byte chunk are the term Chunk(lo,    *)
(* end), zero padding on the right included.  Two nodes are equal only     *)
(* when they are the same term.                                            *)
(***************************************************************************)
EXTENDS Integers

CONSTANTS
    Hash(_, _),         \* hashtree_hash of two consecutive chunks
    Chunk(_, _),        \* Chunk(lo, end): elements lo..end-1, zero padded
    ZeroChunk,          \* zero_hash, 32 zero bytes
    zero_hash_depth     \* number of entries of zero_hash_array

ASSUME ZeroHashDepthAssumption == zero_hash_depth \in Nat \ {0}

-----------------------------------------------------------------------------
(* Arithmetic of math.hpp and of <bit>.                                    *)

Pow2[n \in Nat] == IF n = 0 THEN 1 ELSE 2 * Pow2[n - 1]

(* std::bit_width: the number of binary digits of m, none for 0.           *)
bit_width(m) ==
    CHOOSE k \in 0 .. m : m < Pow2[k] /\ \A j \in 0 .. k - 1 : Pow2[j] <= m

(* helpers::log2ceil: the digits of n - 1, guarded for n = 0.              *)
log2ceil(n) == IF n = 0 THEN 0 ELSE bit_width(n - 1)

(* std::bit_ceil: the smallest power of two not smaller than n.            *)
bit_ceil(n) == Pow2[log2ceil(n)]

CeilDiv(n, k) == (n + k - 1) \div k

-----------------------------------------------------------------------------
(* Roots of trees all of whose leaves are zero.                            *)

ZeroHash[h \in Nat] ==
    IF h = 0 THEN ZeroChunk
             ELSE LET below == ZeroHash[h - 1] IN Hash(below, below)

(* The table the header initialises.  An index it does not have is an      *)
(* error of the model, as it is a read past the end in the code.           *)
zero_hash_array == [h \in 0 .. zero_hash_depth - 1 |-> ZeroHash[h]]

-----------------------------------------------------------------------------
(* The reference: merkleize(chunks, limit) of the SSZ specification.       *)
(* Subtree(h, per, lo, end) is the root of the complete tree of height h   *)
(* whose leaves hold the elements from lo on, per to a chunk; elements     *)
(* from end on do not exist and their chunks are zero.                     *)

Leaf(per, lo, end) ==
    IF lo >= end THEN ZeroChunk
                 ELSE Chunk(lo, IF lo + per <= end THEN lo + per ELSE end)

Leaves ==
    [per \in Nat |-> [lo \in Nat |-> [end \in Nat |-> Leaf(per, lo, end)]]]

Above(h, below) ==
    [per \in Nat |-> [lo \in Nat |-> [end \in Nat |->
        Hash(below[per][lo][end], below[per][lo + per * Pow2[h - 1]][end])]]]

Node[h \in Nat] == IF h = 0 THEN Leaves ELSE Above(h, Node[h - 1])

Subtree(h, per, lo, end) == Node[h][per][lo][end]

(* Height of the tree for a number of chunks and a limit, 0 for "none".    *)
TreeHeight(chunk_count, limit) ==
    IF limit = 0 THEN log2ceil(chunk_count) ELSE log2ceil(limit)

(* Root of the n elements from lo on, per to a chunk, under a limit in     *)
(* chunks: what a hash_tree_root of a vector promises to write.            *)
Merkleize(per, lo, n, limit) ==
    Subtree(TreeHeight(CeilDiv(n, per), limit), per, lo, lo + n)

(* The same for a whole vector, asked for as a record.                     *)
VectorCalls == [per : Nat \ {0}, size : Nat, limit : Nat]
VectorRoot(call) == Merkleize(call.per, 0, call.size, call.limit)
=============================================================================
