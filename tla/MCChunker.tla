----------------------------- MODULE MCChunker -----------------------------
(***************************************************************************)
(* Constants of the runs of Chunker.                                       *)
(***************************************************************************)
EXTENDS Chunker

MCChunkTokens == {2, 3}
=============================================================================
