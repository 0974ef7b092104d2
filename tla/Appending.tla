----------------------------- MODULE Appending ------------------------------
(***************************************************************************)
(* A string or vector built by appending one part after the other to an    *)
(* empty one, as the loops over key columns, lines and statements do.      *)
(***************************************************************************)
EXTENDS Integers, Sequences

Appended(parts) ==
    LET built[n \in 0 .. Len(parts)] == IF n = 0 THEN << >> ELSE built[n - 1] \o parts[n]
    IN  built[Len(parts)]
=============================================================================
