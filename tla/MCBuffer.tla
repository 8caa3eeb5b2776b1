------------------------------ MODULE MCBuffer ------------------------------
(* A small buffer, and chunks that fit it, fill it and exceed it.           *)
EXTENDS Buffer

MCChunks == {<<1>>, <<2, 3>>, <<3, 1, 2>>}
=============================================================================
