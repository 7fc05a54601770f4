--------------------------- MODULE BatchOperation ---------------------------
(***************************************************************************)
(* One row of batch_operations, the requests that execute and cancel it    *)
(* and the goroutines that carry it out (internal/api/rest/                *)
(* devops_handlers.go, internal/repository/devops_repo.go).                *)
(*                                                                         *)
(* An execution walks through service_ids in order; for each service it    *)
(* copies the service's latest deployment into a new row and enqueues it.  *)
(* A service is its position 1..N; its deployment is absent, names a       *)
(* cluster, or names none.  What becomes of an enqueued deployment is      *)
(* DeploymentLifecycle; the results column is left out, and the counters   *)
(* stand for it.                                                           *)
(***************************************************************************)
EXTENDS Naturals, FiniteSets

CONSTANTS N,          \* length of service_ids
          Executors,  \* execute requests
          MaxFaults   \* bound: failed statements and crashes

ASSUME BatchAssumption == N \in Nat /\ MaxFaults \in Nat

VARIABLES status,     \* the row's columns
          stored,     \* completed_count and failed_count
          template,   \* what List finds for each service
          pc,         \* where each execution is
          at,         \* the service it is at
          completed,  \* its counters
          failed,
          deploy,     \* what it made of each service
          faults,
          late,       \* history: rows it inserted since the last cancel
          cancel,     \* history: "none" | "quiet" | "raced", the last cancel
          raced       \* history: an execution read beside one about to mark

rowVars == <<status, stored, template>>
execVars == <<pc, at, completed, failed, deploy>>
historyVars == <<late, cancel, raced>>
vars == <<rowVars, execVars, faults, historyVars>>

Services == 1..N
Looping == {"ask", "list", "create", "enqueue"}
InFlight == {"mark", "finish"} \union Looping
Counts == [completed : Nat, failed : Nat]

TypeOK == /\ status \in {"pending", "running", "cancelled", "completed"}
          /\ stored \in Counts
          /\ template \in [Services -> {"none", "cluster", "bare"}]
          /\ pc \in [Executors -> InFlight \union {"idle", "done", "lost"}]
          /\ at \in [Executors -> 1..(N + 1)]
          /\ completed \in [Executors -> Nat]
          /\ failed \in [Executors -> Nat]
          /\ deploy \in [Executors -> [Services -> {"none", "row", "job", "direct"}]]
          /\ faults \in 0..MaxFaults
          /\ late \in [Executors -> Nat]
          /\ cancel \in {"none", "quiet", "raced"}
          /\ raced \in BOOLEAN

\* CreateBatchOperation.
Init == /\ status = "pending"
        /\ stored = [completed |-> 0, failed |-> 0]
        /\ template \in [Services -> {"none", "cluster", "bare"}]
        /\ pc = [e \in Executors |-> "idle"]
        /\ at = [e \in Executors |-> 1]
        /\ completed = [e \in Executors |-> 0]
        /\ failed = [e \in Executors |-> 0]
        /\ deploy = [e \in Executors |-> [n \in Services |-> "none"]]
        /\ faults = 0
        /\ late = [e \in Executors |-> 0]
        /\ cancel = "none"
        /\ raced = FALSE

Fault == faults < MaxFaults /\ faults' = faults + 1

Goto(e, from, to) == pc[e] = from /\ pc' = [pc EXCEPT ![e] = to]

-----------------------------------------------------------------------------
(* The execute handler *)

\* A slip: any row that is not running is executed.
MayExecuteNotRunning == status # "running"

MayExecute == status = "pending"

\* The handler reads the row; the copy's status is pending, its counts zero.
ReadRow(e) ==
  /\ \/ /\ MayExecute
        /\ Goto(e, "idle", "mark")
        /\ raced' = (raced \/ (\E f \in Executors : pc[f] = "mark"))
        /\ UNCHANGED faults
     \/ ~MayExecute /\ Goto(e, "idle", "done") /\ UNCHANGED <<raced, faults>>
     \/ Goto(e, "idle", "done") /\ Fault /\ UNCHANGED raced
  /\ UNCHANGED <<rowVars, at, completed, failed, deploy, late, cancel>>

\* The whole row is stored as running, whatever it says by now.
MarkRunning(e) ==
  \/ /\ Goto(e, "mark", "ask")
     /\ status' = "running"
     /\ stored' = [completed |-> 0, failed |-> 0]
     /\ UNCHANGED <<template, at, completed, failed, deploy, faults, historyVars>>
  \/ /\ Goto(e, "mark", "done")
     /\ Fault
     /\ UNCHANGED <<rowVars, at, completed, failed, deploy, historyVars>>

-----------------------------------------------------------------------------
(* The goroutine *)

\* A slip: the row is asked for its status at the first service only.
AskOnce(e) ==
  /\ at[e] \in Services
  /\ Goto(e, "ask", IF status = "cancelled" /\ at[e] = 1 THEN "finish" ELSE "list")
  /\ UNCHANGED <<rowVars, at, completed, failed, deploy, faults, historyVars>>

\* Before each service the row is read again; a failed read stops as a cancel.
Ask(e) ==
  /\ at[e] \in Services
  /\ \/ /\ Goto(e, "ask", IF status = "cancelled" THEN "finish" ELSE "list")
        /\ UNCHANGED faults
     \/ Goto(e, "ask", "finish") /\ Fault
  /\ UNCHANGED <<rowVars, at, completed, failed, deploy, historyVars>>

\* The loop is over.
AskedAll(e) ==
  /\ at[e] = N + 1
  /\ Goto(e, "ask", "finish")
  /\ UNCHANGED <<rowVars, at, completed, failed, deploy, faults, historyVars>>

CountFailed(e) ==
  /\ failed' = [failed EXCEPT ![e] = @ + 1]
  /\ at' = [at EXCEPT ![e] = @ + 1]
  /\ UNCHANGED completed

CountCompleted(e) ==
  /\ completed' = [completed EXCEPT ![e] = @ + 1]
  /\ at' = [at EXCEPT ![e] = @ + 1]
  /\ UNCHANGED failed

\* The deployments are listed; without one for the service it is skipped.
FindTemplate(e) ==
  /\ \/ /\ Goto(e, "list", "create")
        /\ template[at[e]] # "none"
        /\ UNCHANGED <<at, completed, failed, faults>>
     \/ /\ Goto(e, "list", "ask")
        /\ template[at[e]] = "none"
        /\ CountFailed(e)
        /\ UNCHANGED faults
     \/ /\ Goto(e, "list", "ask")
        /\ CountFailed(e)
        /\ Fault
  /\ UNCHANGED <<rowVars, deploy, historyVars>>

\* The new row is inserted; without a cluster it is counted and left alone.
CreateDeployment(e) ==
  \/ /\ Goto(e, "create", "enqueue")
     /\ template[at[e]] = "cluster"
     /\ deploy' = [deploy EXCEPT ![e][at[e]] = "row"]
     /\ late' = [late EXCEPT ![e] = IF status = "cancelled" THEN @ + 1 ELSE @]
     /\ UNCHANGED <<rowVars, at, completed, failed, faults, cancel, raced>>
  \/ /\ Goto(e, "create", "ask")
     /\ template[at[e]] = "bare"
     /\ CountCompleted(e)
     /\ deploy' = [deploy EXCEPT ![e][at[e]] = "row"]
     /\ late' = [late EXCEPT ![e] = IF status = "cancelled" THEN @ + 1 ELSE @]
     /\ UNCHANGED <<rowVars, faults, cancel, raced>>
  \/ /\ Goto(e, "create", "ask")
     /\ CountFailed(e)
     /\ Fault
     /\ UNCHANGED <<rowVars, deploy, historyVars>>

\* A slip: nothing stands in for a job that could not be enqueued.
EnqueueOrForget(e) ==
  /\ Goto(e, "enqueue", "ask")
  /\ CountCompleted(e)
  /\ \/ deploy' = [deploy EXCEPT ![e][at[e]] = "job"] /\ UNCHANGED faults
     \/ UNCHANGED deploy /\ Fault
  /\ UNCHANGED <<rowVars, historyVars>>

\* The job is enqueued, or a goroutine carries the deployment out instead.
Enqueue(e) ==
  /\ Goto(e, "enqueue", "ask")
  /\ CountCompleted(e)
  /\ \/ deploy' = [deploy EXCEPT ![e][at[e]] = "job"] /\ UNCHANGED faults
     \/ deploy' = [deploy EXCEPT ![e][at[e]] = "direct"] /\ Fault
  /\ UNCHANGED <<rowVars, historyVars>>

\* A slip: an execution that deployed nothing has nothing to store.
FinishWithSomething(e) ==
  /\ completed[e] > 0
  /\ Goto(e, "finish", "done")
  /\ status' = "completed"
  /\ stored' = [completed |-> completed[e], failed |-> failed[e]]
  /\ UNCHANGED <<template, at, completed, failed, deploy, faults, historyVars>>

\* The whole row is stored again, as completed, also after a cancel; an error
\* is ignored.
Finish(e) ==
  /\ Goto(e, "finish", "done")
  /\ \/ /\ status' = "completed"
        /\ stored' = [completed |-> completed[e], failed |-> failed[e]]
        /\ UNCHANGED faults
     \/ UNCHANGED <<status, stored>> /\ Fault
  /\ UNCHANGED <<template, at, completed, failed, deploy, historyVars>>

-----------------------------------------------------------------------------

\* CancelBatchOperation, when the statement matches the row.
CancelBatch ==
  /\ status \in {"pending", "running"}
  /\ status' = "cancelled"
  /\ cancel' = IF \E e \in Executors : pc[e] \in InFlight THEN "raced" ELSE "quiet"
  /\ late' = [e \in Executors |-> 0]
  /\ UNCHANGED <<stored, template, execVars, faults, raced>>

\* The process ends; nothing takes the row up again.
Crash ==
  /\ Fault
  /\ pc' = [e \in Executors |-> IF pc[e] \in InFlight THEN "lost" ELSE pc[e]]
  /\ UNCHANGED <<rowVars, at, completed, failed, deploy, historyVars>>

Execution(e) == \/ MarkRunning(e) \/ Ask(e) \/ AskedAll(e) \/ FindTemplate(e)
                \/ CreateDeployment(e) \/ Enqueue(e) \/ Finish(e)

Next == \/ \E e \in Executors : ReadRow(e) \/ Execution(e)
        \/ CancelBatch
        \/ Crash

Spec == Init /\ [][Next]_vars

\* A handler and its goroutine are scheduled until they end; no request has to
\* arrive and no statement has to fail.
FairSpec == Spec /\ \A e \in Executors : WF_vars(Execution(e))

-----------------------------------------------------------------------------
(* Properties *)

\* The services an execution reported about are those it went past, and what
\* it counts as completed are the rows it inserted: continue and break on the
\* error paths of ExecuteBatchOperation lose none and count none twice.
Rows(e) == {n \in Services : deploy[e][n] # "none"}

Counted(e) ==
  /\ completed[e] + failed[e] = at[e] - 1
  /\ Rows(e) \subseteq 1..at[e]
  /\ at[e] \in Rows(e) => pc[e] \in {"enqueue", "lost"}
  /\ Cardinality(Rows(e) \ {at[e]}) = completed[e]

CountsMatchRows == \A e \in Executors : Counted(e)

\* A row with a cluster that nobody carries out is one whose execution is
\* about to enqueue it or died before it could: a failed Enqueue is made up for.
NoRowForgotten ==
  \A e \in Executors, n \in Services :
    deploy[e][n] = "row" /\ template[n] = "cluster" =>
      n = at[e] /\ pc[e] \in {"enqueue", "lost"}

\* Two executions deploy the batch only when the second read the row while the
\* first was between its own read and its mark: the status test of
\* ExecuteBatchOperation fails in no other order, with cancels and crashes too.
Deploying(e) == Rows(e) # {} \/ pc[e] \in Looping \union {"finish"}

DeployedOnceUnlessRaced ==
  raced \/ \A e, f \in Executors : Deploying(e) /\ Deploying(f) => e = f

\* While a cancel stands in the row each execution inserts at most one more
\* deployment, the one it had asked for before; and a cancel of a batch that
\* no execution is working on stands for good.
CancelStops ==
  /\ status = "cancelled" => \A e \in Executors : late[e] <= 1
  /\ cancel = "quiet" => status = "cancelled"

\* What the status columns say of the executions.
StatusAgrees ==
  /\ status = "pending" => \A e \in Executors : ~Deploying(e)
  /\ \A e \in Executors : pc[e] \in {"idle", "mark"} =>
       at[e] = 1 /\ ~Deploying(e)
  /\ cancel = "quiet" => \A e \in Executors : pc[e] \notin InFlight
  /\ status = "cancelled" => \A e \in Executors :
       pc[e] \in {"list", "create"} => late[e] = 0
  /\ \A e \in Executors : pc[e] \in Looping \ {"ask"} => at[e] \in Services
  /\ ~raced => \A e, f \in Executors :
       pc[e] = "mark" /\ (pc[f] = "mark" \/ Deploying(f)) => e = f

IInv == /\ TypeOK
        /\ CountsMatchRows
        /\ NoRowForgotten
        /\ DeployedOnceUnlessRaced
        /\ CancelStops
        /\ StatusAgrees

\* A batch stored as running is stored as completed or cancelled, unless a
\* statement failed or the process died: every way through the loop, an early
\* break included, leads to the last update.
BatchSettles ==
  status = "running" ~> (status \in {"completed", "cancelled"} \/ faults > 0)
=============================================================================
