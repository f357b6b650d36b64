------------------------------- MODULE MCMemory -------------------------------
(* Memory on a small instance, where a field's key and a note's id are one. *)
EXTENDS Memory, TLC
=============================================================================
