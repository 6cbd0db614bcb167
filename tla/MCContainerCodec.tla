-------------------------- MODULE MCContainerCodec --------------------------
(* ContainerCodec with 2-byte offsets and every sequence of up to three    *)
(* members, of up to two bytes each.  With 9 values of std::uint32_t the  *)
(* largest containers are too long for it.                                 *)
EXTENDS ContainerCodec

MCShapes == UNION {[1 .. n -> {"array", "vector", "list"}] : n \in 1 .. 3}
=============================================================================
