----------------------------- MODULE MCConsole -----------------------------
(* Every command, two names, one of a file that is there, and the words    *)
(* for yes and no; any word may be typed at any place.  Ports of four bits *)
(* and ints of six, and the numbers around both.                           *)
EXTENDS Console

MCWords == {"ls", "get", "put", "q", "a", "b", "yes", "no"}
MCCommand ==
  [w \in MCWords |-> CASE w = "ls" -> "LS" [] w = "get" -> "GET" [] w = "put" -> "PUT"
                       [] w = "q" -> "QUIT" [] OTHER -> "end"]
MCNumerals == {-33, -15, -1, 0, 1, 15, 16, 31, 32}
MCEphemeral == {14, 15}
=============================================================================
