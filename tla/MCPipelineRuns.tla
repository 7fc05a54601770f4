--------------------------- MODULE MCPipelineRuns ---------------------------
(***************************************************************************)
(* A source of any of the types, two runs on its CI system, a trigger, and *)
(* two requests that overlap it and each other.                            *)
(***************************************************************************)
EXTENDS PipelineRuns, TLC

CONSTANTS x1, x2, t1, q1, q2

Symmetry == Permutations(Runs) \union Permutations(Requests)
=============================================================================
