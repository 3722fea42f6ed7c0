-------------------------- MODULE MCServerProcess --------------------------
(* Three clients, a backlog of one, two descriptors: one client has to     *)
(* wait in the queue, and accept fails meanwhile.                          *)
EXTENDS ServerProcess
=============================================================================
