-------------------------- MODULE MCSparseHashTree --------------------------
(* SparseHashTree with 2-byte chunks.  A node is the pair of its children. *)
EXTENDS SparseHashTree

MCHash(left, right) == <<left, right>>
MCChunk(lo, end)    == <<lo, end, "data">>
MCZeroChunk         == <<>>
=============================================================================
