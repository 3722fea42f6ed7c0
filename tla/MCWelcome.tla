----------------------------- MODULE MCWelcome -----------------------------
(* Two connections for one welcome; a time limit that is no multiple of    *)
(* the select timeout.                                                     *)
EXTENDS Welcome
=============================================================================
