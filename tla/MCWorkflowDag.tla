--------------------------- MODULE MCWorkflowDag ---------------------------
(***************************************************************************)
(* Every workflow of two steps with any names, and every workflow of three *)
(* well-named steps, with dependency lists of up to two entries.           *)
(***************************************************************************)
EXTENDS WorkflowDag

CONSTANTS a, b, c, d

DepLists(S, n) == UNION {[1..k -> S] : k \in 0..n}

\* d is a name no step has.
AnyTwoSteps ==
  LET Step == [name : {a, b, NoName}, deps : DepLists({a, b, d}, 2)]
  IN  UNION {[1..k -> Step] : k \in 0..2}

ThreeSteps ==
  {<<[name |-> a, deps |-> p], [name |-> b, deps |-> q], [name |-> c, deps |-> r]>> :
     p \in DepLists({a, b, c}, 2), q \in DepLists({a, b, c}, 2),
     r \in DepLists({a, b, c}, 2)}

MCStepLists == AnyTwoSteps \union ThreeSteps
=============================================================================
