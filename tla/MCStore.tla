------------------------------ MODULE MCStore ------------------------------
(* A name that is free, one that is taken and one that is refused.         *)
EXTENDS Store

MCNames == {"new", "old"}
MCOld   == {"old"}
MCBad   == {"../x"}

=============================================================================
