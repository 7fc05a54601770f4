--------------------------- MODULE WorkflowSteps ---------------------------
(***************************************************************************)
(* Reference definitions about the dependency graph of a workflow: deps    *)
(* maps the name of each step to the set of names it depends on.           *)
(***************************************************************************)
EXTENDS Naturals, FiniteSets

\* The graph has a cycle exactly when some steps can never start because each
\* of them waits for another of them.
Cyclic(deps) ==
  \E S \in SUBSET DOMAIN deps : /\ S # {}
                                /\ \A s \in S : deps[s] \intersect S # {}

\* The steps that can be finished after n rounds, each round running together
\* all the steps whose dependencies earlier rounds have finished.
FinishedBy(deps) ==
  LET F[n \in Nat] == IF n = 0 THEN {}
                      ELSE {s \in DOMAIN deps : deps[s] \subseteq F[n - 1]}
  IN  F

\* The steps of round n; there is no round 0.
LevelOf(deps, n) ==
  {s \in DOMAIN deps : n > 0 /\ s \in FinishedBy(deps)[n] \ FinishedBy(deps)[n - 1]}
=============================================================================
