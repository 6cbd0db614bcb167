--------------------------- MODULE MCParallelHash ---------------------------
(* ParallelHash with 2-byte chunks.  A node is the pair of its children.   *)
EXTENDS ParallelHash

MCHash(left, right) == <<left, right>>
MCChunk(lo, end)    == <<lo, end, "data">>
MCZeroChunk         == <<>>

(* Vectors of objects: sizes around the powers of two, an exact limit, a   *)
(* loose one and none.                                                     *)
MCObjects ==
    {[basic |-> FALSE, sizeof |-> 2, size |-> n, limit |-> l, cpu_count |-> c] :
        n \in {0, 3, 4, 5, 7, 8, 9}, l \in {0, 9, 20}, c \in 0 .. MaxCpu}
(* Vectors of basic values, one or two to a chunk.  Forking starts at 8    *)
(* elements, so 33 of them fork three deep on 8 cpus.                      *)
MCPacked ==
    {r \in [basic : {TRUE}, sizeof : {1, 2}, size : {7, 8, 9, 16, 17, 33},
            limit : {0, 17, 33}, cpu_count : {0, 1, 3}] :
        r.limit > 0 => CeilDiv(r.size * r.sizeof, BYTES_PER_CHUNK) <= r.limit}
=============================================================================
