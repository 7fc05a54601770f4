--------------------------- MODULE MCPluginTables ---------------------------
(***************************************************************************)
(* The start-up, two requests and one call; requests are interchangeable. *)
(***************************************************************************)
EXTENDS PluginTables, TLC

CONSTANTS h1, h2, k1

Symmetry == Permutations({h1, h2})
=============================================================================
