------------------------------- MODULE MCFtp -------------------------------
(* The instance TLC checks: a file of one block and a file of three (two   *)
(* chunks, the second one short), and a name the server does not have.     *)
EXTENDS Ftp

MCNames   == {"short", "long", "absent"}
MCFiles   == {"short", "long"}
MCFileLen == [f \in MCFiles |-> IF f = "short" THEN 1 ELSE 3]

=============================================================================
