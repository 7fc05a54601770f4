--------------------------- MODULE WorkflowEngine ---------------------------
(***************************************************************************)
(* One execution of one workflow: the handler that creates it and enqueues *)
(* its job (internal/api/rest/workflow_handlers.go), the worker that runs  *)
(* and retries the job (cmd/worker/main.go) and the engine that runs the   *)
(* steps level by level (internal/workflow/engine.go), against the status  *)
(* column of workflow_executions.                                          *)
(*                                                                         *)
(* The steps of a level run in parallel goroutines.  A goroutine first     *)
(* reads the shared map of results, without its mutex, to decide whether   *)
(* the step runs; then runs it; then writes its result under the mutex.    *)
(*                                                                         *)
(* The job moves as JobLifecycle says; which queue it waits in is          *)
(* JobQueue's business.  Which outcome an action has is nondeterministic.  *)
(***************************************************************************)
EXTENDS Naturals, FiniteSets, WorkflowSteps

CONSTANTS Steps,       \* step names
          Workflows,   \* workflows to run, see IsWorkflow
          NoStep,      \* the skip condition of a step that has none
          MaxRetries,  \* 3 in the code
          MaxFaults,   \* bound: crashes and failed database or Redis calls
          MaxStops     \* bound: graceful shutdowns of the worker process

\* A workflow: for each step the steps it depends on, its run_when, the step
\* whose failure its skip_when names ("steps.x == failed") and what it does.
IsWorkflow(w) ==
  /\ w.deps \in [Steps -> SUBSET Steps]
  /\ w.runWhen \in [Steps -> {"", "always", "on_failure"}]
  /\ w.skipIfFailed \in [Steps -> Steps \union {NoStep}]
  /\ w.kind \in [Steps -> {"action", "approval"}]

ASSUME EngineAssumption == /\ IsFiniteSet(Steps)
                           /\ NoStep \notin Steps
                           /\ \A w \in Workflows : IsWorkflow(w)
                           /\ MaxRetries \in Nat
                           /\ MaxFaults \in Nat
                           /\ MaxStops \in Nat

VARIABLES wf,        \* the workflow
          status,    \* workflow_executions.status; "none" before the row exists
          job,       \* "new" | "waiting" | "running" | "done" | "dead" | "lost"
          retries,   \* Job.Retries
          phase,     \* where the worker is in the job, see Phases
          level,     \* the level being run
          stepPc,    \* where each step of this attempt is
          decided,   \* the status each step is about to record
          results,   \* stepResults: the statuses recorded in this attempt
          cancelled, \* the worker's context is cancelled
          fatal,     \* history: a goroutine brought the worker process down
          attempts,  \* history: times the job was popped
          ranNow,    \* history: the steps whose action this attempt ran
          panicked,  \* history: a recovered panic ended this attempt
          faults,    \* history: faults so far
          stops      \* history: shutdowns so far

attemptVars == <<level, stepPc, decided, results, ranNow, panicked>>
boundVars == <<faults, stops>>
vars == <<wf, status, job, retries, phase, attemptVars, cancelled, fatal,
          attempts, boundVars>>

\* In Execute "start" (nothing done), "load" (marked running), "reject" (about
\* to return through the deferred handler) and "levels" (running the steps);
\* back in runWorker "succeeded" and "failed"; "idle" without the job.
Phases == {"idle", "start", "load", "reject", "levels", "succeeded", "failed"}
StepPCs == {"idle", "read", "act", "write", "done"}
StepStatuses == {"none", "success", "failed", "skipped"}

TypeOK == /\ wf \in Workflows
          /\ status \in {"none", "pending", "running", "waiting", "success", "failed"}
          /\ job \in {"new", "waiting", "running", "done", "dead", "lost"}
          /\ retries \in 0..MaxRetries
          /\ phase \in Phases
          /\ level \in 0..Cardinality(Steps)
          /\ stepPc \in [Steps -> StepPCs]
          /\ decided \in [Steps -> StepStatuses]
          /\ results \in [Steps -> StepStatuses]
          /\ cancelled \in BOOLEAN
          /\ fatal \in BOOLEAN
          /\ attempts \in Nat
          /\ ranNow \subseteq Steps
          /\ panicked \in BOOLEAN
          /\ faults \in 0..MaxFaults
          /\ stops \in 0..MaxStops

NoStatuses == [s \in Steps |-> "none"]
AllIdle == [s \in Steps |-> "idle"]

Init == /\ wf \in Workflows
        /\ status = "none"
        /\ job = "new"
        /\ retries = 0
        /\ phase = "idle"
        /\ level = 0
        /\ stepPc = AllIdle
        /\ decided = NoStatuses
        /\ results = NoStatuses
        /\ cancelled = FALSE
        /\ fatal = FALSE
        /\ attempts = 0
        /\ ranNow = {}
        /\ panicked = FALSE
        /\ faults = 0
        /\ stops = 0

-----------------------------------------------------------------------------
(* The handler *)

\* CreateExecution inserts the row as pending.
CreateExecution ==
  /\ status = "none"
  /\ status' = "pending"
  /\ UNCHANGED <<wf, job, retries, phase, attemptVars, cancelled, fatal, attempts,
                 boundVars>>

\* The error Enqueue returns is ignored, so a failure is a step not taken.
EnqueueJob ==
  /\ status = "pending"
  /\ job = "new"
  /\ job' = "waiting"
  /\ UNCHANGED <<wf, status, retries, phase, attemptVars, cancelled, fatal,
                 attempts, boundVars>>

-----------------------------------------------------------------------------
(* The worker *)

\* A worker pops the job; it checks its context before it pops.
Pop ==
  /\ job = "waiting"
  /\ ~cancelled
  /\ job' = "running"
  /\ attempts' = attempts + 1
  /\ phase' = "start"
  /\ level' = 0
  /\ stepPc' = AllIdle
  /\ decided' = NoStatuses
  /\ results' = NoStatuses
  /\ ranNow' = {}
  /\ panicked' = FALSE
  /\ UNCHANGED <<wf, status, retries, cancelled, fatal, boundVars>>

\* Execute returned nil: the worker drops the job.
CompleteJob ==
  /\ phase = "succeeded"
  /\ phase' = "idle"
  /\ job' = "done"
  /\ UNCHANGED <<wf, status, retries, attemptVars, cancelled, fatal, attempts,
                 boundVars>>

\* A slip: one attempt too many.
RetriesLeftOnceMore == retries <= MaxRetries

RetriesLeft == retries < MaxRetries

\* Execute returned an error and retries remain.  The queue uses a context of
\* its own, so this works during a shutdown as well.
Requeue ==
  /\ phase = "failed"
  /\ RetriesLeft
  /\ retries' = retries + 1
  /\ phase' = "idle"
  /\ job' = "waiting"
  /\ UNCHANGED <<wf, status, attemptVars, cancelled, fatal, attempts, boundVars>>

\* Execute returned an error on the last attempt.
DeadLetter ==
  /\ phase = "failed"
  /\ ~RetriesLeft
  /\ phase' = "idle"
  /\ job' = "dead"
  /\ UNCHANGED <<wf, status, retries, attemptVars, cancelled, fatal, attempts,
                 boundVars>>

-----------------------------------------------------------------------------
(* Execute, before and after the levels *)

\* A database call fails, because the worker's context is cancelled or because
\* of a fault.
CallFails == \/ cancelled /\ UNCHANGED faults
             \/ faults < MaxFaults /\ faults' = faults + 1

\* A write to the execution row whose error is ignored.
Persist(new) == \/ ~cancelled /\ status' = new /\ UNCHANGED faults
                \/ CallFails /\ UNCHANGED status

\* UpdateExecutionStatus(running).
MarkRunning ==
  /\ phase = "start"
  /\ \/ /\ ~cancelled
        /\ status' = "running"
        /\ phase' = "load"
        /\ UNCHANGED faults
     \/ /\ CallFails
        /\ phase' = "failed"
        /\ UNCHANGED status
  /\ UNCHANGED <<wf, job, retries, attemptVars, cancelled, fatal, attempts, stops>>

\* The workflow and the execution are loaded and buildDAG sorts the steps.
LoadSteps ==
  /\ phase = "load"
  /\ \/ /\ ~cancelled
        /\ phase' = IF Cyclic(wf.deps) THEN "reject" ELSE "levels"
        /\ UNCHANGED faults
     \/ /\ CallFails
        /\ phase' = "reject"
  /\ UNCHANGED <<wf, status, job, retries, attemptVars, cancelled, fatal, attempts,
                 stops>>

\* A slip: there is no deferred handler.
RejectUnrecorded ==
  /\ phase = "reject"
  /\ phase' = "failed"
  /\ UNCHANGED <<wf, status, job, retries, attemptVars, cancelled, fatal, attempts,
                 boundVars>>

\* The deferred handler records the failure.
Reject ==
  /\ phase = "reject"
  /\ Persist("failed")
  /\ phase' = "failed"
  /\ UNCHANGED <<wf, job, retries, attemptVars, cancelled, fatal, attempts, stops>>

HasFailed == \E s \in Steps : results[s] = "failed"

\* Slips: nobody waits for the goroutines of a level; the loop over the levels
\* is left at the first error.
LevelStarted == TRUE
NextLevelUnlessFailed == IF HasFailed THEN {} ELSE LevelOf(wf.deps, level + 1)

LevelDone == \A s \in LevelOf(wf.deps, level) : stepPc[s] = "done"

NextLevel == LevelOf(wf.deps, level + 1)

\* The next level starts: one goroutine per step.  Of the level before,
\* wg.Wait saw every goroutine end.
StartLevel ==
  /\ phase = "levels"
  /\ LevelDone
  /\ NextLevel # {}
  /\ level' = level + 1
  /\ stepPc' = [s \in Steps |-> IF s \in NextLevel THEN "read" ELSE stepPc[s]]
  /\ UNCHANGED <<wf, status, job, retries, phase, decided, results, ranNow,
                 panicked, cancelled, fatal, attempts, boundVars>>

\* A slip: a step is stopped only when everything it depends on failed.
AllDepsFailed(s) == wf.deps[s] # {} /\ \A d \in wf.deps[s] : results[d] = "failed"

HasFailedDeps(s) == \E d \in wf.deps[s] : results[d] = "failed"
Skips(s) == /\ wf.skipIfFailed[s] # NoStep
            /\ results[wf.skipIfFailed[s]] = "failed"

\* What executeStepWithConditions finds in the shared map.
Verdict(s) ==
  CASE Skips(s) -> "skipped"
    [] ~Skips(s) /\ wf.runWhen[s] = "on_failure" /\ ~HasFailed -> "skipped"
    [] ~Skips(s) /\ ~(wf.runWhen[s] = "on_failure" /\ ~HasFailed)
         /\ wf.runWhen[s] # "always" /\ HasFailedDeps(s) -> "failed"
    [] OTHER -> "none"

Decide(s) ==
  /\ phase = "levels"
  /\ stepPc[s] = "read"
  /\ decided' = [decided EXCEPT ![s] = Verdict(s)]
  /\ stepPc' = [stepPc EXCEPT ![s] = IF Verdict(s) = "none" THEN "act" ELSE "write"]
  /\ UNCHANGED <<wf, status, job, retries, phase, level, results, ranNow,
                 panicked, cancelled, fatal, attempts, boundVars>>

\* executeStep.  An approval marks the execution as waiting and then fails;
\* anything else succeeds or fails.
Act(s) ==
  /\ phase = "levels"
  /\ stepPc[s] = "act"
  /\ stepPc' = [stepPc EXCEPT ![s] = "write"]
  /\ ranNow' = ranNow \union {s}
  /\ \/ /\ wf.kind[s] = "approval"
        /\ decided' = [decided EXCEPT ![s] = "failed"]
        /\ Persist("waiting")
     \/ /\ wf.kind[s] = "action"
        /\ \E r \in {"success", "failed"} : decided' = [decided EXCEPT ![s] = r]
        /\ UNCHANGED <<status, faults>>
  /\ UNCHANGED <<wf, job, retries, phase, level, results, panicked, cancelled,
                 fatal, attempts, stops>>

\* The goroutine stores its result under resultsMu.
WriteResult(s) ==
  /\ phase = "levels"
  /\ stepPc[s] = "write"
  /\ results' = [results EXCEPT ![s] = decided[s]]
  /\ stepPc' = [stepPc EXCEPT ![s] = "done"]
  /\ UNCHANGED <<wf, status, job, retries, phase, level, decided, ranNow,
                 panicked, cancelled, fatal, attempts, boundVars>>

\* A slip: firstErr forgets the errors of the levels before.
LastLevelResult ==
  IF \E s \in LevelOf(wf.deps, level) : results[s] = "failed"
  THEN "failed" ELSE "success"

\* firstErr is set exactly when some step failed.
Result == IF HasFailed THEN "failed" ELSE "success"

\* After the last level the result is persisted and Execute returns.
Finish ==
  /\ phase = "levels"
  /\ LevelDone
  /\ NextLevel = {}
  /\ Persist(Result)
  /\ phase' = IF Result = "failed" THEN "failed" ELSE "succeeded"
  /\ UNCHANGED <<wf, job, retries, attemptVars, cancelled, fatal, attempts, stops>>

-----------------------------------------------------------------------------
(* What goes wrong around it *)

ReadsResults(s) == \/ wf.deps[s] # {}
                   \/ wf.runWhen[s] = "on_failure"
                   \/ wf.skipIfFailed[s] # NoStep

\* Two goroutines of a level in the map at once, one writing.
MapRace == \E s, t \in Steps : /\ s # t
                               /\ stepPc[s] = "read"
                               /\ ReadsResults(s)
                               /\ stepPc[t] = "write"

\* The Go runtime may answer a concurrent read and write of a map with a fatal
\* error, which no recover catches: the process ends and the job is lost.
MapRaceFatal ==
  /\ phase = "levels"
  /\ MapRace
  /\ fatal' = TRUE
  /\ job' = "lost"
  /\ phase' = "idle"
  /\ UNCHANGED <<wf, status, retries, attemptVars, cancelled, attempts, boundVars>>

\* The code of an action panics: a plugin client, a driver, a nil it did not
\* expect.
Panics(s) == /\ phase = "levels"
             /\ stepPc[s] = "act"
             /\ wf.kind[s] = "action"

\* A level of one step runs in the worker's own goroutine, whose recover
\* requeues or dead-letters the job as an error does.  Execute never returned
\* an error, so its deferred handler writes nothing.
PanicRecovered(s) ==
  /\ Panics(s)
  /\ LevelOf(wf.deps, level) = {s}
  /\ panicked' = TRUE
  /\ phase' = "failed"
  /\ UNCHANGED <<wf, status, job, retries, level, stepPc, decided, results, ranNow,
                 cancelled, fatal, attempts, boundVars>>

\* The goroutine of a step in a larger level has no recover: the panic ends the
\* process.
PanicFatal(s) ==
  /\ Panics(s)
  /\ LevelOf(wf.deps, level) # {s}
  /\ fatal' = TRUE
  /\ job' = "lost"
  /\ phase' = "idle"
  /\ UNCHANGED <<wf, status, retries, attemptVars, cancelled, attempts, boundVars>>

\* The worker process dies, or cannot requeue or dead-letter the job.
LoseJob ==
  /\ job = "running"
  /\ faults < MaxFaults
  /\ faults' = faults + 1
  /\ job' = "lost"
  /\ phase' = "idle"
  /\ UNCHANGED <<wf, status, retries, attemptVars, cancelled, fatal, attempts, stops>>

\* SIGTERM cancels the worker's context; the attempt in progress goes on.
Shutdown ==
  /\ ~cancelled
  /\ stops < MaxStops
  /\ stops' = stops + 1
  /\ cancelled' = TRUE
  /\ UNCHANGED <<wf, status, job, retries, phase, attemptVars, fatal, attempts,
                 faults>>

\* The process restarts once its worker has left the loop.
Restart ==
  /\ cancelled
  /\ phase = "idle"
  /\ cancelled' = FALSE
  /\ UNCHANGED <<wf, status, job, retries, phase, attemptVars, fatal, attempts,
                 boundVars>>

-----------------------------------------------------------------------------

WorkOnJob == \/ MarkRunning \/ LoadSteps \/ Reject \/ StartLevel \/ Finish
             \/ CompleteJob \/ Requeue \/ DeadLetter
             \/ \E s \in Steps : Decide(s) \/ Act(s) \/ WriteResult(s)

Next == \/ CreateExecution \/ EnqueueJob \/ Pop \/ WorkOnJob
        \/ MapRaceFatal \/ (\E s \in Steps : PanicRecovered(s) \/ PanicFatal(s))
        \/ LoseJob \/ Shutdown \/ Restart

Spec == Init /\ [][Next]_vars

\* The handler finishes once it has inserted the row and Redis takes the job;
\* workers, step goroutines and the container runtime make progress.
Fairness == WF_vars(EnqueueJob) /\ WF_vars(Pop) /\ WF_vars(WorkOnJob)
              /\ WF_vars(Restart)

FairSpec == Spec /\ Fairness

-----------------------------------------------------------------------------
(* Properties *)

Active(s) == stepPc[s] \in {"read", "act", "write"}

\* A step starts only after every step it depends on has recorded its result
\* in the same attempt (levels and wg.Wait, engine.go:109-141).
DependenciesSettledFirst ==
  phase = "levels" =>
    \A s \in Steps : Active(s) => \A d \in wf.deps[s] : results[d] # "none"

LevelsInv == TypeOK /\ DependenciesSettledFirst

\* No step acts on top of a failed dependency unless it asked to run always,
\* in whatever order the goroutines of the levels before it finished
\* (engine.go:488-492).
NoActionAfterFailedDependency ==
  phase = "levels" =>
    \A s \in ranNow : \/ wf.runWhen[s] = "always"
                      \/ \A d \in wf.deps[s] : results[d] # "failed"

EarlierSteps(s) ==
  {t \in Steps : \E m, n \in 1..Cardinality(Steps) :
                   m < n /\ t \in LevelOf(wf.deps, m) /\ s \in LevelOf(wf.deps, n)}

NothingFailedBefore(s) == \A t \in EarlierSteps(s) : results[t] # "failed"

\* "Record first error but continue processing remaining levels so that
\* run_when=always steps can still execute" (engine.go:143-144): when the levels
\* end, every such step has run unless its skip_when held.  An on_failure step
\* has run unless its skip_when held, nothing failed in a level before its own,
\* or one of the steps it depends on failed: that makes it failed as well, not
\* run (engine.go:488-492), so it cannot handle the failure of a dependency.
FailureHandlersRun ==
  [][Finish => \A s \in Steps \ ranNow :
       /\ wf.runWhen[s] = "always" => Skips(s)
       /\ wf.runWhen[s] = "on_failure" => \/ Skips(s) \/ HasFailedDeps(s)
                                         \/ NothingFailedBefore(s)]_vars

\* An execution that reports success ran its last attempt without a failed
\* step, and is never run again (engine.go:169-181, main.go:210-212).
SuccessIsFinal ==
  status = "success" => /\ job \in {"done", "lost"} \/ phase = "succeeded"
                        /\ \A s \in Steps : results[s] \in {"success", "skipped"}

\* The status agrees with the fate of the job, unless a fault or a shutdown got
\* in between: of a dead job it says failed, but for the one case that escapes
\* "ensure the execution is recorded as failed rather than stuck in running
\* forever" (engine.go:60-66), a last attempt that a recovered panic ended.
StatusMatchesJob ==
  faults = 0 /\ stops = 0 => /\ job = "done" => status = "success"
                             /\ job = "dead" => (status = "failed" <=> ~panicked)

\* Every execution whose row exists ends as success or failed for good, when no
\* call fails and no goroutine brings the process down; or a recovered panic
\* ended the last attempt, and it stays as that attempt left it.
ExecutionSettles ==
  (status = "pending" /\ [](~fatal /\ faults = 0 /\ stops = 0))
    ~> \/ [](status \in {"success", "failed"})
       \/ [](job = "dead" /\ panicked)

-----------------------------------------------------------------------------
(* What these need to be inductive *)

\* The steps started are those of the levels so far, and only the last of these
\* levels may still be at work; every level has a step.
StepsInLevels ==
  /\ level <= Cardinality(FinishedBy(wf.deps)[level])
  /\ \A s \in Steps : stepPc[s] = "idle" <=> s \notin FinishedBy(wf.deps)[level]
  /\ level > 0 => \A s \in FinishedBy(wf.deps)[level - 1] : stepPc[s] = "done"

\* A result is in the map exactly when its goroutine has ended.
RecordsFollowSteps ==
  \A s \in Steps : /\ results[s] # "none" <=> stepPc[s] = "done"
                   /\ stepPc[s] = "done" => results[s] = decided[s]
                   /\ stepPc[s] = "write" => decided[s] # "none"
                   /\ s \in ranNow => stepPc[s] \in {"write", "done"}

\* What a step decided still stands: nothing it looked at has changed since.
VerdictsStand ==
  \A s \in Steps :
    /\ stepPc[s] = "act" \/ s \in ranNow => wf.runWhen[s] = "always" \/ ~HasFailedDeps(s)
    /\ stepPc[s] \in {"write", "done"} /\ s \notin ranNow =>
         /\ wf.runWhen[s] = "always" => Skips(s)
         /\ wf.runWhen[s] = "on_failure" =>
              Skips(s) \/ HasFailedDeps(s) \/ NothingFailedBefore(s)

JobAndPhase ==
  /\ phase # "idle" <=> job = "running"
  /\ phase = "levels" => ~Cyclic(wf.deps)
  /\ phase \notin {"idle", "failed"} => ~panicked
  /\ job = "new" => attempts = 0 /\ retries = 0
  /\ job = "waiting" => attempts = retries
  /\ job = "running" => attempts = retries + 1

QuietStatus ==
  faults = 0 /\ stops = 0 => /\ ~cancelled
                             /\ phase \in {"load", "reject", "levels"} =>
                                  status \in {"running", "waiting"}
                             /\ phase = "succeeded" => status = "success"
                             /\ phase = "failed" => (status = "failed" <=> ~panicked)

CoreInv == /\ TypeOK
           /\ StepsInLevels
           /\ RecordsFollowSteps
           /\ VerdictsStand
           /\ JobAndPhase
           /\ QuietStatus
           /\ SuccessIsFinal
           /\ StatusMatchesJob

EngineInv == CoreInv /\ DependenciesSettledFirst

-----------------------------------------------------------------------------

\* The execution's job lives as JobLifecycle promises.
JL == INSTANCE JobLifecycle WITH Jobs <- {"job"},
                                 status <- [j \in {"job"} |-> job],
                                 attempts <- [j \in {"job"} |-> attempts]

LifecycleSpec == JL!LifeSpec
=============================================================================
