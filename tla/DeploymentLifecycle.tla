------------------------- MODULE DeploymentLifecycle -------------------------
(***************************************************************************)
(* The status column of one row of `deployments` and everybody who writes  *)
(* it: the worker that runs PerformDeployment for the row's job (and again *)
(* for each retry), the goroutine that runs it when there is no job, the   *)
(* goroutine of triggerGitOpsSync, and the handlers that cancel, promote,  *)
(* approve, roll back and remove the deployment while these are at work.   *)
(* (internal/service/deployment_service.go, internal/repository/           *)
(* deployment_repo.go, internal/api/rest/deployment_handlers.go,           *)
(* gitops_handlers.go, gitops_deploy_lifecycle_handlers.go)                *)
(*                                                                         *)
(* Only Cancel and Rollback test the status in the statement that changes  *)
(* it; every other writer decides on a status it read earlier, or on none. *)
(* The row has a target cluster.  A promotion, a rollback or a retry of one *)
(* row creates another, which is another instance of this module; what its *)
(* origin changes is part of the module: a restored row starts as deployed *)
(* and nobody looks whether it is healthy, and a retry whose job cannot be *)
(* queued has no goroutine to fall back on.                                *)
(***************************************************************************)
EXTENDS Naturals

CONSTANTS Requests,    \* concurrent promote, approve and rollback requests
          MaxRetries,  \* 3 in the code
          MaxFaults    \* bound: lost goroutines, panics and failed calls

ASSUME DeploymentAssumption == /\ MaxRetries \in Nat
                               /\ MaxFaults \in Nat

\* Who carries out a deployment: the worker with the job, a goroutine running
\* PerformDeployment, a goroutine running the body of triggerGitOpsSync.
Executors == {"job", "local", "sync"}

VARIABLES status,      \* deployments.status; "none" before, "deleted" after
          origin,      \* who created the row, see Origins
          pc,          \* where each executor is
          retries,     \* Job.Retries of the row's job
          next,        \* the next stage: "final" (none) | "approval" | "plain"
          request,     \* where each request is
          healthy,     \* history: an executor saw the deployment succeed
          undone,      \* history: times the cluster was rolled back
          cancelledIn, \* history: executors whose attempt was cancelled in time
          faults       \* history: faults so far

history == <<healthy, undone, cancelledIn>>
vars == <<status, origin, pc, retries, next, request, history, faults>>

Released == {"deployed", "awaiting_approval", "promoted", "rolled_back"}
Rollbackable == {"deployed", "promoted"}
Statuses == {"none", "pending", "syncing", "failed", "cancelled", "error", "deleted"}
              \union Released

\* Who created the row: createDeployment, a step of a workflow, manualDeploy or
\* a promotion, retryDeployment (which is "refusing" and then has "refused" the
\* retry when Enqueue returned an error), or a rollback that restored it.
Origins == {"none", "api", "step", "manual", "retry", "refusing", "refused",
            "restored"}

\* Rows whose release PerformDeployment reports, after a health check.
Checked == origin \notin {"manual", "restored"}

\* The part of PerformDeployment in which a cancellation is still looked for.
BeforeRecheck == {"resolve", "check", "client", "recheck"}
PCs == {"off", "waiting", "start", "apply", "health", "report", "fail",
        "cancel", "returned", "expired", "ended", "dead", "lost"}
         \union BeforeRecheck
RequestPCs == {"idle", "final", "park", "complete", "create", "rollback",
               "undo", "undo_failed", "mark", "finish", "done"}

TypeOK == /\ status \in Statuses
          /\ origin \in Origins
          /\ pc \in [Executors -> PCs]
          /\ retries \in 0..MaxRetries
          /\ next \in {"final", "approval", "plain"}
          /\ request \in [Requests -> RequestPCs]
          /\ healthy \in BOOLEAN
          /\ undone \in Nat
          /\ cancelledIn \subseteq {"job", "local"}
          /\ faults \in 0..MaxFaults

Init == /\ status = "none"
        /\ origin = "none"
        /\ pc = [e \in Executors |-> "off"]
        /\ retries = 0
        /\ next \in {"final", "approval", "plain"}
        /\ request = [r \in Requests |-> "idle"]
        /\ healthy = FALSE
        /\ undone = 0
        /\ cancelledIn = {}
        /\ faults = 0

-----------------------------------------------------------------------------
(* Steps all actors share *)

Fault == faults < MaxFaults /\ faults' = faults + 1

Stored(new) == status' = IF status = "deleted" THEN "deleted" ELSE new

\* A write whose error is only logged.  It reads the row first, but what it
\* stores as the status does not depend on what it read.
Write(new) == \/ Stored(new) /\ UNCHANGED faults
              \/ Fault /\ UNCHANGED status

Move(e, from, to) == pc[e] = from /\ pc' = [pc EXCEPT ![e] = to]

\* A step that succeeds or fails: kubeconfig, client, apply, health check.
Try(e, from, to) == Move(e, from, to) \/ Move(e, from, "fail")

Step(r, from, to) == request[r] = from /\ request' = [request EXCEPT ![r] = to]

-----------------------------------------------------------------------------
(* Creation *)

\* createDeployment, or retryDeployment for the copy of a failed row, inserts
\* the row; its job follows.
Create ==
  /\ origin = "none"
  /\ origin' \in {"api", "retry"}
  /\ status' = "pending"
  /\ UNCHANGED <<pc, retries, next, request, history, faults>>

Unassigned == origin \in {"api", "retry"} /\ \A e \in Executors : pc[e] = "off"

EnqueueJob ==
  /\ Unassigned
  /\ pc' = [pc EXCEPT !["job"] = "waiting"]
  /\ UNCHANGED <<status, origin, retries, next, request, history, faults>>

\* Enqueue returns an error and a goroutine takes over; when only the reply
\* of the push was lost, the job is in the queue as well.
EnqueueError ==
  /\ Unassigned
  /\ origin = "api"
  /\ Fault
  /\ \E job \in {"off", "waiting"} :
       pc' = [pc EXCEPT !["job"] = job, !["local"] = "start"]
  /\ UNCHANGED <<status, origin, retries, next, request, history>>

\* The handler of a retry does not fall back on a goroutine when Enqueue returns
\* an error: it stores its copy of the row as "error", ignoring whether that
\* works, with the job in the queue all the same if only the reply was lost.
EnqueueRetryError ==
  /\ Unassigned
  /\ origin = "retry"
  /\ Fault
  /\ origin' = "refusing"
  /\ \E job \in {"off", "waiting"} : pc' = [pc EXCEPT !["job"] = job]
  /\ UNCHANGED <<status, retries, next, request, history>>

RefuseRetry ==
  /\ origin = "refusing"
  /\ origin' = "refused"
  /\ Write("error")
  /\ UNCHANGED <<pc, retries, next, request, history>>

\* PerformRollback of another row inserts the version it went back to, as
\* deployed.
Restore ==
  /\ origin = "none"
  /\ origin' = "restored"
  /\ status' = "deployed"
  /\ UNCHANGED <<pc, retries, next, request, history, faults>>

\* A deploy step of a workflow inserts the row and starts a goroutine.
CreateByStep ==
  /\ origin = "none"
  /\ origin' = "step"
  /\ status' = "pending"
  /\ pc' = [pc EXCEPT !["local"] = "start"]
  /\ UNCHANGED <<retries, next, request, history, faults>>

\* manualDeploy, and completePromotion for the next stage, insert the row and
\* start the goroutine of triggerGitOpsSync.
ManualDeploy ==
  /\ origin = "none"
  /\ origin' = "manual"
  /\ status' = "pending"
  /\ pc' = [pc EXCEPT !["sync"] = "start"]
  /\ UNCHANGED <<retries, next, request, history, faults>>

-----------------------------------------------------------------------------
(* PerformDeployment, run by the worker or by a goroutine *)

Performers == {"job", "local"}

Pop ==
  /\ Move("job", "waiting", "start")
  /\ UNCHANGED <<status, origin, retries, next, request, history, faults>>

\* "Mark as syncing to show progress", whatever the status was.
Start(e) ==
  /\ Move(e, "start", "resolve")
  /\ Write("syncing")
  /\ cancelledIn' = cancelledIn \ {e}
  /\ UNCHANGED <<origin, retries, next, request, healthy, undone>>

\* isCancelled: an error, as for a row that is gone, counts as "no".
Look(e, from, to) ==
  \/ Move(e, from, IF status = "cancelled" THEN "cancel" ELSE to) /\ UNCHANGED faults
  \/ Move(e, from, to) /\ Fault

\* A slip: the second look is missing.
RecheckSkipped(e) ==
  /\ Move(e, "recheck", "apply")
  /\ UNCHANGED <<status, origin, retries, next, request, history, faults>>

Resolve(e) ==
  /\ Try(e, "resolve", "check")
  /\ UNCHANGED <<status, origin, retries, next, request, history, faults>>

Check(e) ==
  /\ Look(e, "check", "client")
  /\ UNCHANGED <<status, origin, retries, next, request, history>>

Client(e) ==
  /\ Try(e, "client", "recheck")
  /\ UNCHANGED <<status, origin, retries, next, request, history, faults>>

Recheck(e) ==
  /\ Look(e, "recheck", "apply")
  /\ UNCHANGED <<status, origin, retries, next, request, history>>

\* A slip: the health check is missing.
ApplyIsEnough(e) ==
  /\ Try(e, "apply", "report")
  /\ UNCHANGED <<status, origin, retries, next, request, history, faults>>

Apply(e) ==
  /\ Try(e, "apply", "health")
  /\ UNCHANGED <<status, origin, retries, next, request, history, faults>>

Health(e) ==
  /\ Try(e, "health", "report")
  /\ healthy' = (healthy \/ pc'[e] = "report")
  /\ UNCHANGED <<status, origin, retries, next, request, undone, cancelledIn,
                 faults>>

\* A slip: the caller is told of a failure.
ReportAsFailure(e) ==
  /\ Move(e, "report", "returned")
  /\ Write("deployed")
  /\ UNCHANGED <<origin, retries, next, request, history>>

Report(e) ==
  /\ Move(e, "report", "ended")
  /\ Write("deployed")
  /\ UNCHANGED <<origin, retries, next, request, history>>

\* A slip: the failure is returned and not recorded.
FailUnrecorded(e) ==
  /\ Move(e, "fail", "returned")
  /\ UNCHANGED <<status, origin, retries, next, request, history, faults>>

Fail(e) ==
  /\ Move(e, "fail", "returned")
  /\ Write("failed")
  /\ UNCHANGED <<origin, retries, next, request, history>>

ObserveCancel(e) ==
  /\ Move(e, "cancel", "returned")
  /\ Write("cancelled")
  /\ UNCHANGED <<origin, retries, next, request, history>>

RetriesLeft == retries < MaxRetries

\* The worker treats a failed and a cancelled deployment alike: the job is
\* requeued, or dead-lettered when no retries are left.
Requeue ==
  /\ RetriesLeft
  /\ Move("job", "returned", "waiting")
  /\ retries' = retries + 1
  /\ UNCHANGED <<status, origin, next, request, history, faults>>

DeadLetter ==
  /\ ~RetriesLeft
  /\ Move("job", "returned", "dead")
  /\ UNCHANGED <<status, origin, retries, next, request, history, faults>>

\* A goroutine has nobody to tell.
GoroutineEnds(e) ==
  /\ e # "job"
  /\ Move(e, "returned", "ended")
  /\ UNCHANGED <<status, origin, retries, next, request, history, faults>>

\* PerformDeployment panics in the worker, whose recover requeues or
\* dead-letters the job as for an error; nothing is written to the row.
Panic ==
  /\ \E at \in BeforeRecheck \union {"apply", "health"} : Move("job", at, "returned")
  /\ Fault
  /\ UNCHANGED <<status, origin, retries, next, request, history>>

\* The process of an executor dies, of a panic in a goroutine for one, or its
\* job is lost.
Lose(e) ==
  /\ pc[e] \notin {"off", "waiting", "ended", "dead", "lost"}
  /\ pc' = [pc EXCEPT ![e] = "lost"]
  /\ Fault
  /\ UNCHANGED <<status, origin, retries, next, request, history>>

Perform(e) == \/ Start(e) \/ Resolve(e) \/ Check(e) \/ Client(e) \/ Recheck(e)
              \/ Apply(e) \/ Health(e) \/ Report(e) \/ Fail(e)
              \/ ObserveCancel(e) \/ GoroutineEnds(e)

-----------------------------------------------------------------------------
(* triggerGitOpsSync *)

\* The row is read and stored back as syncing; if either fails, that is all.
SyncStart ==
  /\ \/ status # "deleted" /\ Move("sync", "start", "apply")
        /\ Stored("syncing") /\ UNCHANGED faults
     \/ status = "deleted" /\ Move("sync", "start", "ended")
        /\ UNCHANGED <<status, faults>>
     \/ Move("sync", "start", "ended") /\ Fault /\ UNCHANGED status
  /\ UNCHANGED <<origin, retries, next, request, history>>

\* The engine's plugin is called.  It succeeds; or it answers that it failed
\* and nobody looks at the answer; or, the engine being unknown and ArgoCD's
\* plugin not loaded, none is called and there is no error; or there is one.
\* The goroutine's minute may run out meanwhile.
SyncCall ==
  /\ \E answer \in {"report", "fail", "expired"} : Move("sync", "apply", answer)
  /\ \/ healthy' = TRUE /\ pc'["sync"] # "fail"
     \/ UNCHANGED healthy
  /\ UNCHANGED <<status, origin, retries, next, request, undone, cancelledIn,
                 faults>>

\* The last write is made under the context of the call.
SyncReport ==
  /\ \/ Move("sync", "expired", "ended") /\ UNCHANGED <<status, faults>>
     \/ Move("sync", "report", "ended") /\ Write("deployed")
     \/ Move("sync", "fail", "ended") /\ Write("failed")
  /\ UNCHANGED <<origin, retries, next, request, history>>

Sync == SyncStart \/ SyncCall \/ SyncReport

-----------------------------------------------------------------------------
(* Requests *)

\* One UPDATE that only matches a pending or syncing row.
Cancel ==
  /\ status \in {"pending", "syncing"}
  /\ status' = "cancelled"
  /\ cancelledIn' = cancelledIn \union {e \in Performers : pc[e] \in BeforeRecheck}
  /\ UNCHANGED <<origin, pc, retries, next, request, healthy, undone, faults>>

Remove ==
  /\ status \notin {"none", "deleted"}
  /\ status' = "deleted"
  /\ UNCHANGED <<origin, pc, retries, next, request, history, faults>>

\* promoteDeployment reads the row and its team's stages, then decides.
Promote(r) ==
  /\ status = "deployed"
  /\ Step(r, "idle", CASE next = "final" -> "final"
                       [] next = "approval" -> "park"
                       [] next = "plain" -> "complete")
  /\ UNCHANGED <<status, origin, pc, retries, next, history, faults>>

Approve(r) ==
  /\ status = "awaiting_approval"
  /\ next # "final"
  /\ Step(r, "idle", "complete")
  /\ UNCHANGED <<status, origin, pc, retries, next, history, faults>>

\* The row read earlier is stored back as awaiting approval.
Park(r) ==
  /\ Step(r, "park", "done")
  /\ Write("awaiting_approval")
  /\ UNCHANGED <<origin, pc, retries, next, history>>

\* The repository's Promote does not test the status; on an error the handler
\* answers and is done.
MarkPromoted(r) ==
  /\ \/ Step(r, "final", "done") /\ Stored("promoted") /\ UNCHANGED faults
     \/ Step(r, "complete", "create") /\ Stored("promoted") /\ UNCHANGED faults
     \/ /\ Step(r, "final", "done") \/ Step(r, "complete", "done")
        /\ Fault
        /\ UNCHANGED status
  /\ UNCHANGED <<origin, pc, retries, next, history>>

\* completePromotion inserts the row of the next stage and starts its goroutine.
CreateNext(r) ==
  /\ Step(r, "create", "done")
  /\ UNCHANGED <<status, origin, pc, retries, next, history, faults>>

\* rollbackDeployment tests the status and starts a goroutine, which tests it
\* again ...
Rollback(r) ==
  /\ status \in Rollbackable
  /\ Step(r, "idle", "rollback")
  /\ UNCHANGED <<status, origin, pc, retries, next, history, faults>>

CheckRollback(r) ==
  /\ Step(r, "rollback", IF status \in Rollbackable THEN "undo" ELSE "done")
  /\ UNCHANGED <<status, origin, pc, retries, next, history, faults>>

\* ... and rolls the cluster back, ...
Undo(r) ==
  /\ \/ Step(r, "undo", "mark") /\ undone' = undone + 1
     \/ Step(r, "undo", "undo_failed") /\ UNCHANGED undone
  /\ UNCHANGED <<status, origin, pc, retries, next, healthy, cancelledIn,
                 faults>>

RecordUndoFailure(r) ==
  /\ Step(r, "undo_failed", "done")
  /\ Write("failed")
  /\ UNCHANGED <<origin, pc, retries, next, history>>

\* ... marks the row with an UPDATE that tests the status, ignoring its error,
MarkRolledBack(r) ==
  /\ Step(r, "mark", "finish")
  /\ \/ /\ Stored(IF status \in Rollbackable THEN "rolled_back" ELSE status)
        /\ UNCHANGED faults
     \/ Fault /\ UNCHANGED status
  /\ UNCHANGED <<origin, pc, retries, next, history>>

\* and, after the row of the restored version, marks it again without a test.
FinishRollback(r) ==
  /\ Step(r, "finish", "done")
  /\ Write("rolled_back")
  /\ UNCHANGED <<origin, pc, retries, next, history>>

RequestStep(r) == \/ Park(r) \/ MarkPromoted(r) \/ CreateNext(r)
                  \/ CheckRollback(r) \/ Undo(r) \/ RecordUndoFailure(r)
                  \/ MarkRolledBack(r) \/ FinishRollback(r)

-----------------------------------------------------------------------------

ExecutorStep == Pop \/ Requeue \/ DeadLetter \/ Sync
                  \/ \E e \in Performers : Perform(e)

Creation == \/ Create \/ EnqueueJob \/ EnqueueError \/ EnqueueRetryError \/ RefuseRetry
            \/ Restore \/ CreateByStep \/ ManualDeploy

Next == \/ Creation
        \/ ExecutorStep
        \/ Panic
        \/ \E e \in Executors : Lose(e)
        \/ Cancel \/ Remove
        \/ \E r \in Requests : Promote(r) \/ Approve(r) \/ Rollback(r)
                                 \/ RequestStep(r)

Spec == Init /\ [][Next]_vars

\* The handler finishes, workers pop, and the calls to the cluster return: they
\* run under a timeout.
Fairness == WF_vars(EnqueueJob) /\ WF_vars(ExecutorStep)
              /\ \A r \in Requests : WF_vars(RequestStep(r))

FairSpec == Spec /\ Fairness

-----------------------------------------------------------------------------
(* Properties *)

InProgress == {"pending", "syncing"}

Over(e) == pc[e] \in {"off", "ended", "dead"}

\* A deployment is released, promoted or rolled back only if some attempt saw
\* it pass its health check (deployment_service.go:187-215), whatever cancels,
\* retries, panics and faults came in between; but for the rows that no such
\* attempt reports: those of triggerGitOpsSync, and the row a rollback inserts
\* as deployed without looking (deployment_service.go:343-366).
ReleasedMeansHealthy == Checked /\ status \in Released => healthy

\* When everybody who carries out a deployment is done with it, its row does
\* not pretend that it is still in progress (deployment_service.go:122-215,
\* main.go:193-209), unless a call failed or a process died.
NotLeftInProgress ==
  faults = 0 /\ origin \in {"api", "retry", "step"} /\ ~Unassigned
    /\ (\A e \in Executors : Over(e)) => status \notin InProgress

\* A cancel that arrives before an attempt's second look keeps that attempt
\* from touching the cluster (deployment_service.go:139-175).
CancelStopsAttempt ==
  faults = 0 /\ status # "deleted" =>
    \A e \in cancelledIn : pc[e] \notin {"apply", "health", "report"}

\* A released deployment is never taken back into progress or cancelled, by no
\* retry and no late cancel (deployment_repo.go:315-328, main.go:193-213).
ReleasedStaysReleased ==
  [][faults = 0 /\ status \in Released =>
       status' \notin InProgress \union {"cancelled"}]_vars

\* A row says "rolled back" only after the cluster was rolled back
\* (deployment_service.go:309-369), whoever promotes or cancels meanwhile.
RolledBackMeansUndone == status = "rolled_back" => undone > 0

\* Both hold of what is about to be written, too.
Busy(r) == request[r] \notin {"idle", "done"}

AboutToWrite ==
  /\ Checked => /\ pc["sync"] = "off"
                /\ \A e \in Executors : pc[e] = "report" => healthy
                /\ \A r \in Requests : Busy(r) => healthy
  /\ \A r \in Requests : request[r] \in {"mark", "finish"} => undone > 0

\* A row has one executor, until a fault makes a second one necessary or seem
\* so; a restored row has none.  It has ended before there is a release, or a
\* request that found one.
Assigned == /\ origin \in {"none", "restored"} => \A e \in Executors : pc[e] = "off"
            /\ origin = "step" => pc["local"] # "off"

OneExecutor ==
  faults = 0 =>
    /\ \A e, f \in Executors : e # f => pc[e] = "off" \/ pc[f] = "off"
    /\ origin # "restored" /\ (status \in Released \/ \E r \in Requests : Busy(r)) =>
         \E e \in Executors : pc[e] = "ended"
    /\ origin = "restored" => status \notin InProgress \union {"cancelled"}
    /\ origin \notin {"refusing", "refused"}

\* An attempt that is over has left the row settled; one that was cancelled in
\* time still finds the row cancelled when it looks.
AttemptSettles ==
  faults = 0 =>
    \A e \in Performers :
      /\ pc[e] \in {"returned", "ended", "dead"} => status \notin InProgress
      /\ e \in cancelledIn /\ status # "deleted" =>
           /\ pc[e] \notin {"apply", "health", "report"}
           /\ pc[e] \in BeforeRecheck => status = "cancelled"

IInv == TypeOK /\ ReleasedMeansHealthy /\ RolledBackMeansUndone /\ AboutToWrite
        /\ Assigned /\ OneExecutor /\ AttemptSettles

\* Every deployment that PerformDeployment is to carry out leaves progress for
\* good, as long as no call fails and no process dies
\* (deployment_service.go:122-215, main.go:193-209).
DeploymentSettles ==
  (origin \in {"api", "retry", "step"} /\ [](faults = 0)) ~> [](status \notin InProgress)

\* "Cancel marks a deployment as cancelled" (deployment_repo.go:314), which
\* PerformDeployment looks for "before proceeding" and "before deploying"
\* (deployment_service.go:139, 170): a cancelled deployment stays cancelled.
CancelSticks == [][status = "cancelled" => status' \in {"cancelled", "deleted"}]_vars
=============================================================================
