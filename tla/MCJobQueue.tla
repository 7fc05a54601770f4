----------------------------- MODULE MCJobQueue -----------------------------
(***************************************************************************)
(* Small instances of JobQueue for TLC.                                    *)
(***************************************************************************)
EXTENDS JobQueue, TLC

CONSTANTS j1, j2, w1, w2, w3, p1, p2

\* Two goroutines that stop and crash together and one of another process.
MCProcOf == w1 :> p1 @@ w2 :> p1 @@ w3 :> p2

\* Two goroutines of one process.
MCSameProc == w1 :> p1 @@ w2 :> p1

Symmetry == Permutations({j1, j2}) \union Permutations({w1, w2})
=============================================================================
