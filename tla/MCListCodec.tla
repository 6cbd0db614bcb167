----------------------------- MODULE MCListCodec ----------------------------
(* ListCodec with 2-byte offsets and lists that do and do not fit in the   *)
(* 32-bit offsets, allocated by serialize or in the middle of a buffer.    *)
EXTENDS ListCodec
=============================================================================
