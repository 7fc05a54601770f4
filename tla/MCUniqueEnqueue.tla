-------------------------- MODULE MCUniqueEnqueue --------------------------
(***************************************************************************)
(* Small instances of UniqueEnqueue for TLC: ticks of ten seconds, so that *)
(* the window of 60 s is six ticks, and a call may take one tick.          *)
(***************************************************************************)
EXTENDS UniqueEnqueue, TLC

CONSTANTS c1, c2, c3, k1, k2

Symmetry == Permutations({c1, c2, c3}) \union Permutations({k1, k2})
=============================================================================
