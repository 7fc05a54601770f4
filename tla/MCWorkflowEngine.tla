-------------------------- MODULE MCWorkflowEngine --------------------------
(***************************************************************************)
(* Small instances of WorkflowEngine for TLC.                              *)
(***************************************************************************)
EXTENDS WorkflowEngine, TLC

CONSTANTS a, b, c

Graphs == {a :> A @@ b :> B @@ c :> C :
             A \in {{}, {c}}, B \in {{}, {a}}, C \in SUBSET {a, b}}

\* What step b may be: plain, with any mixture of conditions, or an approval.
Middles == [runWhen : {"", "always"}, skip : {NoStep, a}, kind : {"action"}]
             \union [runWhen : {""}, skip : {NoStep}, kind : {"approval"}]

\* Chains, forks, joins, independent steps and cycles of three steps; a is
\* plain, c may run always or on failure.
MCWorkflows ==
  {[deps |-> g, runWhen |-> a :> "" @@ b :> m.runWhen @@ c :> rc,
    skipIfFailed |-> a :> NoStep @@ b :> m.skip @@ c :> NoStep,
    kind |-> a :> "action" @@ b :> m.kind @@ c :> "action"] :
     g \in Graphs, m \in Middles, rc \in {"", "always", "on_failure"}}
=============================================================================
