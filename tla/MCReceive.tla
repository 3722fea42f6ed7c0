----------------------------- MODULE MCReceive -----------------------------
(* A header of two bytes and payloads of up to two: a message may be cut   *)
(* inside its header, after it, and inside its payload, or have none.      *)
EXTENDS Receive
=============================================================================
