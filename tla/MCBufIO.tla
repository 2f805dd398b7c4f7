------------------------------- MODULE MCBufIO ------------------------------
(* Two byte values, a file of at most four bytes, buffers of one to three. *)
EXTENDS BufIO
MCChunks == {<<1>>, <<2, 1>>}
MCOffsets == -1 .. 2
=============================================================================
