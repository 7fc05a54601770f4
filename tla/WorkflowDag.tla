---------------------------- MODULE WorkflowDag ----------------------------
(***************************************************************************)
(* buildDAG of internal/workflow/engine.go: validates the steps of a       *)
(* workflow and sorts them by Kahn's algorithm into levels whose steps the *)
(* engine runs in parallel.                                                *)
(*                                                                         *)
(* A workflow is the list of its steps as the user wrote it, so a name may *)
(* be empty or repeated and a dependency may be unknown or listed twice.   *)
(***************************************************************************)
EXTENDS Integers, Sequences, Functions, WorkflowSteps

CONSTANTS NoName,    \* the empty step name
          StepLists  \* the step lists considered: sequences of records with
                     \* a name and a sequence of dependencies

IsStepList(list) ==
  /\ list \in Seq(Range(list))
  /\ \A i \in DOMAIN list : list[i].deps \in Seq(Range(list[i].deps))

ASSUME StepListsAssumption == \A list \in StepLists : IsStepList(list)

VARIABLES steps,     \* the workflow
          inDegree,  \* steps not placed yet, with their unplaced dependencies
          levels,    \* the levels so far: a sequence of sets of names
          processed, \* number of steps placed
          outcome    \* "validate" | "sort" | "ok" | an error

dagVars == <<steps, inDegree, levels, processed, outcome>>

Errors == {"empty name", "duplicate", "unknown dependency", "cycle"}

Names == {steps[i].name : i \in DOMAIN steps}

\* How many entries of the dependency list of step i are in S.
Entries(i, S) == Cardinality({k \in DOMAIN steps[i].deps : steps[i].deps[k] \in S})

IndexOf(name) == CHOOSE i \in DOMAIN steps : steps[i].name = name

DagTypeOK == /\ steps \in StepLists
             /\ DOMAIN inDegree \subseteq Names
             /\ \A n \in DOMAIN inDegree : inDegree[n] \in Nat
             /\ levels \in Seq(SUBSET Names)
             /\ processed \in 0..Len(steps)
             /\ outcome \in {"validate", "sort", "ok"} \union Errors

DagInit == /\ steps \in StepLists
           /\ inDegree = <<>>
           /\ levels = <<>>
           /\ processed = 0
           /\ outcome = "validate"

-----------------------------------------------------------------------------

EmptyAt(i) == steps[i].name = NoName
DuplicateAt(i) == \E k \in 1..(i - 1) : steps[k].name = steps[i].name

\* The first loop stops at the first empty or repeated name.
RejectName ==
  /\ outcome = "validate"
  /\ \E i \in DOMAIN steps :
       /\ EmptyAt(i) \/ DuplicateAt(i)
       /\ \A k \in 1..(i - 1) : ~EmptyAt(k) /\ ~DuplicateAt(k)
       /\ outcome' = IF EmptyAt(i) THEN "empty name" ELSE "duplicate"
  /\ UNCHANGED <<steps, inDegree, levels, processed>>

NamesValid == \A i \in DOMAIN steps : ~EmptyAt(i) /\ ~DuplicateAt(i)

DepsKnown == \A i \in DOMAIN steps : Range(steps[i].deps) \subseteq Names

RejectDependency ==
  /\ outcome = "validate"
  /\ NamesValid
  /\ ~DepsKnown
  /\ outcome' = "unknown dependency"
  /\ UNCHANGED <<steps, inDegree, levels, processed>>

\* A slip: a dependency listed twice is counted once.
CountDistinctDependencies ==
  /\ outcome = "validate"
  /\ NamesValid
  /\ DepsKnown
  /\ inDegree' = [n \in Names |-> Cardinality(Range(steps[IndexOf(n)].deps))]
  /\ outcome' = "sort"
  /\ UNCHANGED <<steps, levels, processed>>

\* A dependency listed twice counts twice, here and in `dependents`.
CountDependencies ==
  /\ outcome = "validate"
  /\ NamesValid
  /\ DepsKnown
  /\ inDegree' = [n \in Names |-> Len(steps[IndexOf(n)].deps)]
  /\ outcome' = "sort"
  /\ UNCHANGED <<steps, levels, processed>>

\* A slip: the scan for ready steps stops at the first one.
FirstReady ==
  LET R == {n \in DOMAIN inDegree : inDegree[n] = 0}
  IN  IF R = {} THEN {} ELSE {CHOOSE n \in R : TRUE}

Ready == {n \in DOMAIN inDegree : inDegree[n] = 0}

\* One iteration of the loop: the ready steps form a level, leave inDegree,
\* and every entry that names one of them is counted down.
PlaceLevel ==
  /\ outcome = "sort"
  /\ Ready # {}
  /\ levels' = Append(levels, Ready)
  /\ processed' = processed + Cardinality(Ready)
  /\ inDegree' = [n \in DOMAIN inDegree \ Ready |->
                    inDegree[n] - Entries(IndexOf(n), Ready)]
  /\ UNCHANGED <<steps, outcome>>

\* Slips: the cycle check is missing; the loop only ends when all are placed.
EndWithoutCheck ==
  /\ outcome = "sort"
  /\ Ready = {}
  /\ outcome' = "ok"
  /\ UNCHANGED <<steps, inDegree, levels, processed>>

EndWhenAllPlaced ==
  /\ outcome = "sort"
  /\ processed = Len(steps)
  /\ outcome' = "ok"
  /\ UNCHANGED <<steps, inDegree, levels, processed>>

\* The loop ends when no step is ready; what is left then is on a cycle.
EndSort ==
  /\ outcome = "sort"
  /\ Ready = {}
  /\ outcome' = IF processed < Len(steps) THEN "cycle" ELSE "ok"
  /\ UNCHANGED <<steps, inDegree, levels, processed>>

DagNext == \/ RejectName \/ RejectDependency \/ CountDependencies
           \/ PlaceLevel \/ EndSort

DagSpec == DagInit /\ [][DagNext]_dagVars /\ WF_dagVars(DagNext)

-----------------------------------------------------------------------------
(* Properties *)

Placed == UNION Range(levels)

\* The graph of the workflow, once its names are known to be distinct.
Deps == [n \in Names |-> Range(steps[IndexOf(n)].deps)]

\* The count kept for a step is the number of entries of its dependency list
\* that no level holds yet, repeated entries included (engine.go:585-614).
CountsUnplaced ==
  outcome = "sort" =>
    /\ DOMAIN inDegree = Names \ Placed
    /\ \A n \in DOMAIN inDegree :
         inDegree[n] = Entries(IndexOf(n), Names \ Placed)

\* After as many iterations as there are levels, the steps placed are those
\* the reference finishes in as many rounds.
PlacedIsFinished ==
  /\ outcome = "validate" => levels = <<>> /\ processed = 0
  /\ outcome \in {"sort", "ok", "cycle"} =>
       /\ NamesValid /\ DepsKnown
       /\ Placed = FinishedBy(Deps)[Len(levels)]
       /\ processed = Cardinality(Placed)

\* The counters of the sort are what the loop takes them for.
SortInv == DagTypeOK /\ CountsUnplaced /\ PlacedIsFinished

\* A level holds exactly the steps whose dependencies all lie in earlier
\* levels: no step runs beside or before one it needs, and none is held back
\* (engine.go:560-561, "each level can run in parallel").
LevelsMatchReference ==
  outcome \in {"sort", "ok", "cycle"} =>
    \A k \in DOMAIN levels : levels[k] = LevelOf(Deps, k)

\* buildDAG accepts a workflow exactly when its names are distinct and not
\* empty, its dependencies exist and its graph has no cycle, and then every
\* step is in some level.
AcceptsExactlyDags ==
  /\ outcome = "ok" => /\ NamesValid /\ DepsKnown /\ ~Cyclic(Deps)
                       /\ Placed = Names
  /\ outcome = "cycle" => NamesValid /\ DepsKnown /\ Cyclic(Deps)

\* buildDAG computes what the reference definitions of WorkflowSteps say: the
\* same levels, the same verdict.
MatchesReference == LevelsMatchReference /\ AcceptsExactlyDags

\* Inductive: the reference is matched level by level.
DagInv == SortInv /\ MatchesReference

\* The loop ends for every input, cyclic ones included.
AlwaysDecides == <>(outcome \in Errors \union {"ok"})
=============================================================================
