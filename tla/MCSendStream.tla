---------------------------- MODULE MCSendStream ----------------------------
(* Streams of every length up to four chunks: empty, inside a chunk, and   *)
(* ending at the edge of one.                                              *)
EXTENDS SendStream
=============================================================================
