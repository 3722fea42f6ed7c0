------------------------------- MODULE MCWire -------------------------------
(* Names that are empty, short, just short enough for the words of an      *)
(* error and just too long, at the limit of a message, beyond it, and so   *)
(* long that a length of LenBytes would wrap; numbers with one and with    *)
(* two bytes.                                                              *)
EXTENDS Wire

MCNameLens == {0, 1, 2, 3, 4, 5, 60}
MCNumbers == {0, 1, 8, 10, 63}
=============================================================================
