-------------------------- MODULE DeploymentProofs --------------------------
(***************************************************************************)
(* Proofs about DeploymentLifecycle for every number of requests, retries  *)
(* and faults.                                                             *)
(***************************************************************************)
EXTENDS DeploymentLifecycle, TLAPS

USE DeploymentAssumption

-----------------------------------------------------------------------------
(* Steps all actors share *)

LEMMA FaultType ==
  ASSUME TypeOK, Fault
  PROVE  faults' \in 0..MaxFaults
BY DEF TypeOK, Fault

LEMMA WriteType ==
  ASSUME TypeOK, NEW new \in Statuses, Write(new)
  PROVE  status' \in Statuses /\ faults' \in 0..MaxFaults
BY FaultType DEF TypeOK, Write, Stored, Statuses

LEMMA MoveType ==
  ASSUME TypeOK, NEW e \in Executors, NEW from, NEW to \in PCs, Move(e, from, to)
  PROVE  pc' \in [Executors -> PCs]
BY DEF TypeOK, Move

LEMMA StepType ==
  ASSUME TypeOK, NEW r \in Requests, NEW from, NEW to \in RequestPCs, Step(r, from, to)
  PROVE  request' \in [Requests -> RequestPCs]
BY DEF TypeOK, Step

-----------------------------------------------------------------------------
(* The row and its executor are created *)

LEMMA CreationType ==
  ASSUME TypeOK, Creation
  PROVE  TypeOK'
<1>1. CASE Create
  BY <1>1 DEF Create, Origins, history, TypeOK, Statuses, Released, PCs, BeforeRecheck,
     RequestPCs, Executors, Performers
<1>2. CASE EnqueueJob
  BY <1>2 DEF EnqueueJob, Unassigned, Origins, history, TypeOK, Statuses, Released, PCs,
     BeforeRecheck, RequestPCs, Executors, Performers
<1>3. CASE EnqueueError
  BY <1>3, WriteType, FaultType DEF EnqueueError, Unassigned, Origins, history, TypeOK,
     Statuses, Released, PCs, BeforeRecheck, RequestPCs, Executors, Performers
<1>4. CASE CreateByStep
  BY <1>4 DEF CreateByStep, Origins, history, TypeOK, Statuses, Released, PCs,
     BeforeRecheck, RequestPCs, Executors, Performers
<1>5. CASE ManualDeploy
  BY <1>5 DEF ManualDeploy, Origins, history, TypeOK, Statuses, Released, PCs,
     BeforeRecheck, RequestPCs, Executors, Performers
<1>6. CASE EnqueueRetryError
  BY <1>6, WriteType, FaultType DEF EnqueueRetryError, Unassigned, Fault, Origins, history, TypeOK, Statuses, Released, PCs, BeforeRecheck,
     RequestPCs, Executors, Performers
<1>7. CASE RefuseRetry
  BY <1>7, WriteType, FaultType DEF RefuseRetry, Write, Stored, Fault, Origins, history, TypeOK, Statuses, Released, PCs, BeforeRecheck,
     RequestPCs, Executors, Performers
<1>8. CASE Restore
  BY <1>8 DEF Restore, Origins, history, TypeOK, Statuses, Released, PCs, BeforeRecheck,
     RequestPCs, Executors, Performers
<1> QED  BY <1>1, <1>2, <1>3, <1>4, <1>5, <1>6, <1>7, <1>8 DEF Creation

LEMMA CreationWrites ==
  ASSUME IInv, Creation
  PROVE  (ReleasedMeansHealthy /\ RolledBackMeansUndone /\ AboutToWrite)'
<1>1. CASE Create
  BY <1>1 DEF Create, history, IInv, TypeOK, ReleasedMeansHealthy,
     RolledBackMeansUndone, AboutToWrite, Checked, Busy, Released, Executors, Performers
<1>2. CASE EnqueueJob
  BY <1>2 DEF EnqueueJob, Unassigned, history, IInv, TypeOK,
     ReleasedMeansHealthy, RolledBackMeansUndone, AboutToWrite, Checked, Busy, Released,
     Executors, Performers
<1>3. CASE EnqueueError
  BY <1>3 DEF EnqueueError, Unassigned, Fault, history, IInv, TypeOK,
     ReleasedMeansHealthy, RolledBackMeansUndone, AboutToWrite, Checked, Busy, Released,
     Executors, Performers
<1>4. CASE CreateByStep
  BY <1>4 DEF CreateByStep, history, IInv, TypeOK, ReleasedMeansHealthy,
     RolledBackMeansUndone, AboutToWrite, Checked, Busy, Released, Executors, Performers
<1>5. CASE ManualDeploy
  BY <1>5 DEF ManualDeploy, history, IInv, TypeOK, ReleasedMeansHealthy,
     RolledBackMeansUndone, AboutToWrite, Checked, Busy, Released, Executors, Performers
<1>6. CASE EnqueueRetryError
  BY <1>6 DEF EnqueueRetryError, Unassigned, Fault, history, IInv, TypeOK, ReleasedMeansHealthy,
     RolledBackMeansUndone, AboutToWrite, Checked, Busy, Released, Executors, Performers
<1>7. CASE RefuseRetry
  BY <1>7 DEF RefuseRetry, Write, Stored, Fault, history, IInv, TypeOK, ReleasedMeansHealthy,
     RolledBackMeansUndone, AboutToWrite, Checked, Busy, Released, Executors, Performers
<1>8. CASE Restore
  BY <1>8 DEF Restore, history, IInv, TypeOK, ReleasedMeansHealthy,
     RolledBackMeansUndone, AboutToWrite, Checked, Busy, Released, Executors, Performers
<1> QED  BY <1>1, <1>2, <1>3, <1>4, <1>5, <1>6, <1>7, <1>8 DEF Creation

LEMMA CreationHands ==
  ASSUME IInv, Creation
  PROVE  (Assigned /\ OneExecutor)'
<1>1. CASE Create
  BY <1>1 DEF Create, history, IInv, TypeOK, Assigned, OneExecutor, InProgress, Busy,
     Released, Executors, Performers
<1>2. CASE EnqueueJob
  BY <1>2 DEF EnqueueJob, Unassigned, history, IInv, TypeOK, Assigned,
     OneExecutor, InProgress, Busy, Released, Executors, Performers
<1>3. CASE EnqueueError
  BY <1>3 DEF EnqueueError, Unassigned, Fault, history, IInv, TypeOK, Assigned,
     OneExecutor, InProgress, Busy, Released, Executors, Performers
<1>4. CASE CreateByStep
  BY <1>4 DEF CreateByStep, history, IInv, TypeOK, Assigned, OneExecutor, InProgress, Busy,
     Released, Executors, Performers
<1>5. CASE ManualDeploy
  BY <1>5 DEF ManualDeploy, history, IInv, TypeOK, Assigned, OneExecutor, InProgress, Busy,
     Released, Executors, Performers
<1>6. CASE EnqueueRetryError
  BY <1>6 DEF EnqueueRetryError, Unassigned, Fault, history, IInv, TypeOK, Assigned, OneExecutor, InProgress, Busy,
     Released, Executors, Performers
<1>7. CASE RefuseRetry
  BY <1>7 DEF RefuseRetry, Write, Stored, Fault, history, IInv, TypeOK, Assigned, OneExecutor, InProgress, Busy,
     Released, Executors, Performers
<1>8. CASE Restore
  BY <1>8 DEF Restore, history, IInv, TypeOK, Assigned, OneExecutor, InProgress, Busy,
     Released, Executors, Performers
<1> QED  BY <1>1, <1>2, <1>3, <1>4, <1>5, <1>6, <1>7, <1>8 DEF Creation

LEMMA CreationSettled ==
  ASSUME IInv, Creation
  PROVE  AttemptSettles'
<1>1. CASE Create
  BY <1>1 DEF Create, history, IInv, TypeOK, AttemptSettles, OneExecutor,
     Assigned, Busy, Released, InProgress, BeforeRecheck, Executors, Performers
<1>2. CASE EnqueueJob
  BY <1>2 DEF EnqueueJob, Unassigned, history, IInv, TypeOK, AttemptSettles,
     OneExecutor, Assigned, Busy, Released, InProgress, BeforeRecheck, Executors,
     Performers
<1>3. CASE EnqueueError
  BY <1>3 DEF EnqueueError, Unassigned, Fault, history, IInv, TypeOK,
     AttemptSettles, OneExecutor, Assigned, Busy, Released, InProgress,
     BeforeRecheck, Executors, Performers
<1>4. CASE CreateByStep
  BY <1>4 DEF CreateByStep, history, IInv, TypeOK, AttemptSettles, OneExecutor,
     Assigned, Busy, Released, InProgress, BeforeRecheck, Executors, Performers
<1>5. CASE ManualDeploy
  BY <1>5 DEF ManualDeploy, history, IInv, TypeOK, AttemptSettles, OneExecutor,
     Assigned, Busy, Released, InProgress, BeforeRecheck, Executors, Performers
<1>6. CASE EnqueueRetryError
  BY <1>6 DEF EnqueueRetryError, Unassigned, Fault, history, IInv, TypeOK, AttemptSettles, OneExecutor,
     Assigned, Busy, Released, InProgress, BeforeRecheck, Executors, Performers
<1>7. CASE RefuseRetry
  BY <1>7 DEF RefuseRetry, Write, Stored, Fault, history, IInv, TypeOK, AttemptSettles, OneExecutor,
     Assigned, Busy, Released, InProgress, BeforeRecheck, Executors, Performers
<1>8. CASE Restore
  BY <1>8 DEF Restore, history, IInv, TypeOK, AttemptSettles, OneExecutor,
     Assigned, Busy, Released, InProgress, BeforeRecheck, Executors, Performers
<1> QED  BY <1>1, <1>2, <1>3, <1>4, <1>5, <1>6, <1>7, <1>8 DEF Creation

-----------------------------------------------------------------------------
(* An attempt's step *)

LEMMA AttemptType ==
  ASSUME TypeOK, NEW e \in Performers, Perform(e)
  PROVE  TypeOK'
<1>1. CASE Start(e)
  BY <1>1, WriteType, FaultType DEF Start, Move, history, TypeOK, Statuses,
     Released, PCs, BeforeRecheck, RequestPCs, Executors, Performers
<1>2. CASE Resolve(e)
  BY <1>2 DEF Resolve, Try, Move, history, TypeOK, Statuses, Released, PCs,
     BeforeRecheck, RequestPCs, Executors, Performers
<1>3. CASE Check(e)
  <2>1. e \in Executors /\ "cancel" \in PCs /\ "client" \in PCs
    BY DEF Executors, Performers, PCs, BeforeRecheck
  <2>2. pc' \in [Executors -> PCs]
    BY <1>3, <2>1, MoveType DEF Check, Look
  <2>3. faults' \in 0..MaxFaults
    BY <1>3, FaultType DEF Check, Look, TypeOK
  <2> QED  BY <1>3, <2>2, <2>3 DEF Check, history, TypeOK
<1>4. CASE Client(e)
  BY <1>4 DEF Client, Try, Move, history, TypeOK, Statuses, Released, PCs,
     BeforeRecheck, RequestPCs, Executors, Performers
<1>5. CASE Recheck(e)
  <2>1. e \in Executors /\ "cancel" \in PCs /\ "apply" \in PCs
    BY DEF Executors, Performers, PCs, BeforeRecheck
  <2>2. pc' \in [Executors -> PCs]
    BY <1>5, <2>1, MoveType DEF Recheck, Look
  <2>3. faults' \in 0..MaxFaults
    BY <1>5, FaultType DEF Recheck, Look, TypeOK
  <2> QED  BY <1>5, <2>2, <2>3 DEF Recheck, history, TypeOK
<1>6. CASE Apply(e)
  BY <1>6 DEF Apply, Try, Move, history, TypeOK, Statuses, Released, PCs,
     BeforeRecheck, RequestPCs, Executors, Performers
<1>7. CASE Health(e)
  BY <1>7 DEF Health, Try, Move, history, TypeOK, Statuses, Released, PCs,
     BeforeRecheck, RequestPCs, Executors, Performers
<1>8. CASE Report(e)
  BY <1>8, WriteType, FaultType DEF Report, Move, history, TypeOK, Statuses,
     Released, PCs, BeforeRecheck, RequestPCs, Executors, Performers
<1>9. CASE Fail(e)
  BY <1>9, WriteType, FaultType DEF Fail, Move, history, TypeOK, Statuses,
     Released, PCs, BeforeRecheck, RequestPCs, Executors, Performers
<1>10. CASE ObserveCancel(e)
  BY <1>10, WriteType, FaultType DEF ObserveCancel, Move, history, TypeOK,
     Statuses, Released, PCs, BeforeRecheck, RequestPCs, Executors, Performers
<1>11. CASE GoroutineEnds(e)
  BY <1>11 DEF GoroutineEnds, Move, history, TypeOK, Statuses, Released, PCs,
     BeforeRecheck, RequestPCs, Executors, Performers
<1> QED  BY <1>1, <1>2, <1>3, <1>4, <1>5, <1>6, <1>7, <1>8, <1>9, <1>10, <1>11
          DEF Perform

LEMMA AttemptWrites ==
  ASSUME IInv, NEW e \in Performers, Perform(e)
  PROVE  (ReleasedMeansHealthy /\ RolledBackMeansUndone /\ AboutToWrite)'
<1>1. CASE Start(e)
  BY <1>1 DEF Start, Move, Write, Stored, Fault, history, IInv, TypeOK,
     ReleasedMeansHealthy, RolledBackMeansUndone, AboutToWrite, Checked, Busy, Released,
     Executors, Performers
<1>2. CASE Resolve(e)
  BY <1>2 DEF Resolve, Try, Move, history, IInv, TypeOK, ReleasedMeansHealthy,
     RolledBackMeansUndone, AboutToWrite, Checked, Busy, Released, Executors, Performers
<1>3. CASE Check(e)
  BY <1>3 DEF Check, Look, Move, Fault, history, IInv, TypeOK,
     ReleasedMeansHealthy, RolledBackMeansUndone, AboutToWrite, Checked, Busy, Released,
     Executors, Performers
<1>4. CASE Client(e)
  BY <1>4 DEF Client, Try, Move, history, IInv, TypeOK, ReleasedMeansHealthy,
     RolledBackMeansUndone, AboutToWrite, Checked, Busy, Released, Executors, Performers
<1>5. CASE Recheck(e)
  BY <1>5 DEF Recheck, Look, Move, Fault, history, IInv, TypeOK,
     ReleasedMeansHealthy, RolledBackMeansUndone, AboutToWrite, Checked, Busy, Released,
     Executors, Performers
<1>6. CASE Apply(e)
  BY <1>6 DEF Apply, Try, Move, history, IInv, TypeOK, ReleasedMeansHealthy,
     RolledBackMeansUndone, AboutToWrite, Checked, Busy, Released, Executors, Performers
<1>7. CASE Health(e)
  BY <1>7 DEF Health, Try, Move, history, IInv, TypeOK, ReleasedMeansHealthy,
     RolledBackMeansUndone, AboutToWrite, Checked, Busy, Released, Executors, Performers
<1>8. CASE Report(e)
  BY <1>8 DEF Report, Move, Write, Stored, Fault, history, IInv, TypeOK,
     ReleasedMeansHealthy, RolledBackMeansUndone, AboutToWrite, Checked, Busy, Released,
     Executors, Performers
<1>9. CASE Fail(e)
  BY <1>9 DEF Fail, Move, Write, Stored, Fault, history, IInv, TypeOK,
     ReleasedMeansHealthy, RolledBackMeansUndone, AboutToWrite, Checked, Busy, Released,
     Executors, Performers
<1>10. CASE ObserveCancel(e)
  BY <1>10 DEF ObserveCancel, Move, Write, Stored, Fault, history, IInv, TypeOK,
     ReleasedMeansHealthy, RolledBackMeansUndone, AboutToWrite, Checked, Busy, Released,
     Executors, Performers
<1>11. CASE GoroutineEnds(e)
  BY <1>11 DEF GoroutineEnds, Move, history, IInv, TypeOK, ReleasedMeansHealthy,
     RolledBackMeansUndone, AboutToWrite, Checked, Busy, Released, Executors, Performers
<1> QED  BY <1>1, <1>2, <1>3, <1>4, <1>5, <1>6, <1>7, <1>8, <1>9, <1>10, <1>11
          DEF Perform

LEMMA AttemptHands ==
  ASSUME IInv, NEW e \in Performers, Perform(e)
  PROVE  (Assigned /\ OneExecutor)'
<1>1. CASE Start(e)
  BY <1>1 DEF Start, Move, Write, Stored, Fault, history, IInv, TypeOK, Assigned,
     OneExecutor, InProgress, Busy, Released, Executors, Performers
<1>2. CASE Resolve(e)
  BY <1>2 DEF Resolve, Try, Move, history, IInv, TypeOK, Assigned, OneExecutor, InProgress,
     Busy, Released, Executors, Performers
<1>3. CASE Check(e)
  BY <1>3 DEF Check, Look, Move, Fault, history, IInv, TypeOK, Assigned,
     OneExecutor, InProgress, Busy, Released, Executors, Performers
<1>4. CASE Client(e)
  BY <1>4 DEF Client, Try, Move, history, IInv, TypeOK, Assigned, OneExecutor, InProgress,
     Busy, Released, Executors, Performers
<1>5. CASE Recheck(e)
  BY <1>5 DEF Recheck, Look, Move, Fault, history, IInv, TypeOK, Assigned,
     OneExecutor, InProgress, Busy, Released, Executors, Performers
<1>6. CASE Apply(e)
  BY <1>6 DEF Apply, Try, Move, history, IInv, TypeOK, Assigned, OneExecutor, InProgress,
     Busy, Released, Executors, Performers
<1>7. CASE Health(e)
  BY <1>7 DEF Health, Try, Move, history, IInv, TypeOK, Assigned, OneExecutor, InProgress,
     Busy, Released, Executors, Performers
<1>8. CASE Report(e)
  BY <1>8 DEF Report, Move, Write, Stored, Fault, history, IInv, TypeOK,
     Assigned, OneExecutor, InProgress, Busy, Released, Executors, Performers
<1>9. CASE Fail(e)
  BY <1>9 DEF Fail, Move, Write, Stored, Fault, history, IInv, TypeOK, Assigned,
     OneExecutor, InProgress, Busy, Released, Executors, Performers
<1>10. CASE ObserveCancel(e)
  BY <1>10 DEF ObserveCancel, Move, Write, Stored, Fault, history, IInv, TypeOK,
     Assigned, OneExecutor, InProgress, Busy, Released, Executors, Performers
<1>11. CASE GoroutineEnds(e)
  BY <1>11 DEF GoroutineEnds, Move, history, IInv, TypeOK, Assigned, OneExecutor, InProgress,
     Busy, Released, Executors, Performers
<1> QED  BY <1>1, <1>2, <1>3, <1>4, <1>5, <1>6, <1>7, <1>8, <1>9, <1>10, <1>11
          DEF Perform

LEMMA AttemptSettled ==
  ASSUME IInv, NEW e \in Performers, Perform(e)
  PROVE  AttemptSettles'
<1>1. CASE Start(e)
  BY <1>1 DEF Start, Move, Write, Stored, Fault, history, IInv, TypeOK,
     AttemptSettles, OneExecutor, Assigned, Busy, Released, InProgress,
     BeforeRecheck, Executors, Performers
<1>2. CASE Resolve(e)
  BY <1>2 DEF Resolve, Try, Move, history, IInv, TypeOK, AttemptSettles,
     OneExecutor, Assigned, Busy, Released, InProgress, BeforeRecheck, Executors,
     Performers
<1>3. CASE Check(e)
  BY <1>3 DEF Check, Look, Move, Fault, history, IInv, TypeOK, AttemptSettles,
     OneExecutor, Assigned, Busy, Released, InProgress, BeforeRecheck, Executors,
     Performers
<1>4. CASE Client(e)
  BY <1>4 DEF Client, Try, Move, history, IInv, TypeOK, AttemptSettles,
     OneExecutor, Assigned, Busy, Released, InProgress, BeforeRecheck, Executors,
     Performers
<1>5. CASE Recheck(e)
  BY <1>5 DEF Recheck, Look, Move, Fault, history, IInv, TypeOK, AttemptSettles,
     OneExecutor, Assigned, Busy, Released, InProgress, BeforeRecheck, Executors,
     Performers
<1>6. CASE Apply(e)
  BY <1>6 DEF Apply, Try, Move, history, IInv, TypeOK, AttemptSettles,
     OneExecutor, Assigned, Busy, Released, InProgress, BeforeRecheck, Executors,
     Performers
<1>7. CASE Health(e)
  BY <1>7 DEF Health, Try, Move, history, IInv, TypeOK, AttemptSettles,
     OneExecutor, Assigned, Busy, Released, InProgress, BeforeRecheck, Executors,
     Performers
<1>8. CASE Report(e)
  BY <1>8 DEF Report, Move, Write, Stored, Fault, history, IInv, TypeOK,
     AttemptSettles, OneExecutor, Assigned, Busy, Released, InProgress,
     BeforeRecheck, Executors, Performers
<1>9. CASE Fail(e)
  BY <1>9 DEF Fail, Move, Write, Stored, Fault, history, IInv, TypeOK,
     AttemptSettles, OneExecutor, Assigned, Busy, Released, InProgress,
     BeforeRecheck, Executors, Performers
<1>10. CASE ObserveCancel(e)
  BY <1>10 DEF ObserveCancel, Move, Write, Stored, Fault, history, IInv, TypeOK,
     AttemptSettles, OneExecutor, Assigned, Busy, Released, InProgress,
     BeforeRecheck, Executors, Performers
<1>11. CASE GoroutineEnds(e)
  BY <1>11 DEF GoroutineEnds, Move, history, IInv, TypeOK, AttemptSettles,
     OneExecutor, Assigned, Busy, Released, InProgress, BeforeRecheck, Executors,
     Performers
<1> QED  BY <1>1, <1>2, <1>3, <1>4, <1>5, <1>6, <1>7, <1>8, <1>9, <1>10, <1>11
          DEF Perform

-----------------------------------------------------------------------------
(* The worker's loop, and faults *)

LEMMA WorkerType ==
  ASSUME TypeOK,
         \/ Pop \/ Requeue \/ DeadLetter \/ Panic \/ \E e \in Executors : Lose(e)
  PROVE  TypeOK'
<1>1. CASE Pop
  BY <1>1 DEF Pop, Move, history, TypeOK, Statuses, Released, PCs, BeforeRecheck,
     RequestPCs, Executors, Performers
<1>2. CASE Requeue
  <2>1. "job" \in Executors /\ "waiting" \in PCs
    BY DEF Executors, PCs
  <2>2. pc' \in [Executors -> PCs]
    BY <1>2, <2>1, MoveType DEF Requeue
  <2>3. retries' \in 0..MaxRetries
    BY <1>2 DEF Requeue, RetriesLeft, TypeOK
  <2> QED  BY <1>2, <2>2, <2>3 DEF Requeue, history, TypeOK
<1>3. CASE DeadLetter
  BY <1>3 DEF DeadLetter, Move, history, TypeOK, Statuses, Released, PCs,
     BeforeRecheck, RequestPCs, Executors, Performers
<1>4. CASE \E e \in Executors : Lose(e)
  <2>1. PICK e \in Executors : Lose(e)
    BY <1>4
  <2>2. pc' \in [Executors -> PCs]
    BY <2>1 DEF Lose, TypeOK, PCs
  <2> QED  BY <2>1, <2>2, FaultType DEF Lose, history, TypeOK
<1>5. CASE Panic
  <2>1. PICK at \in BeforeRecheck \union {"apply", "health"} : Move("job", at, "returned")
    BY <1>5 DEF Panic
  <2>2. "job" \in Executors /\ "returned" \in PCs
    BY DEF Executors, PCs
  <2>3. pc' \in [Executors -> PCs] /\ faults' \in 0..MaxFaults
    BY <1>5, <2>1, <2>2, MoveType, FaultType DEF Panic
  <2> QED  BY <1>5, <2>3 DEF Panic, history, TypeOK
<1> QED  BY <1>1, <1>2, <1>3, <1>4, <1>5

LEMMA WorkerWrites ==
  ASSUME IInv,
         \/ Pop \/ Requeue \/ DeadLetter \/ Panic \/ \E e \in Executors : Lose(e)
  PROVE  (ReleasedMeansHealthy /\ RolledBackMeansUndone /\ AboutToWrite)'
<1>1. CASE Pop
  BY <1>1 DEF Pop, Move, history, IInv, TypeOK, ReleasedMeansHealthy,
     RolledBackMeansUndone, AboutToWrite, Checked, Busy, Released, Executors, Performers
<1>2. CASE Requeue
  BY <1>2 DEF Requeue, Move, RetriesLeft, history, IInv, TypeOK,
     ReleasedMeansHealthy, RolledBackMeansUndone, AboutToWrite, Checked, Busy, Released,
     Executors, Performers
<1>3. CASE DeadLetter
  BY <1>3 DEF DeadLetter, Move, history, IInv, TypeOK, ReleasedMeansHealthy,
     RolledBackMeansUndone, AboutToWrite, Checked, Busy, Released, Executors, Performers
<1>4. CASE \E e \in Executors : Lose(e)
  BY <1>4 DEF Lose, Fault, history, IInv, TypeOK, ReleasedMeansHealthy,
     RolledBackMeansUndone, AboutToWrite, Checked, Busy, Released, Executors, Performers
<1>5. CASE Panic
  BY <1>5 DEF Panic, Move, Fault, history, IInv, TypeOK, ReleasedMeansHealthy,
     RolledBackMeansUndone, AboutToWrite, Checked, Busy, Released, BeforeRecheck, Executors,
     Performers
<1> QED  BY <1>1, <1>2, <1>3, <1>4, <1>5

LEMMA WorkerHands ==
  ASSUME IInv,
         \/ Pop \/ Requeue \/ DeadLetter \/ Panic \/ \E e \in Executors : Lose(e)
  PROVE  (Assigned /\ OneExecutor)'
<1>1. CASE Pop
  BY <1>1 DEF Pop, Move, history, IInv, TypeOK, Assigned, OneExecutor, InProgress, Busy,
     Released, Executors, Performers
<1>2. CASE Requeue
  BY <1>2 DEF Requeue, Move, RetriesLeft, history, IInv, TypeOK, Assigned,
     OneExecutor, InProgress, Busy, Released, Executors, Performers
<1>3. CASE DeadLetter
  BY <1>3 DEF DeadLetter, Move, history, IInv, TypeOK, Assigned, OneExecutor, InProgress,
     Busy, Released, Executors, Performers
<1>4. CASE \E e \in Executors : Lose(e)
  BY <1>4 DEF Lose, Fault, history, IInv, TypeOK, Assigned, OneExecutor, InProgress, Busy,
     Released, Executors, Performers
<1>5. CASE Panic
  BY <1>5 DEF Panic, Move, Fault, history, IInv, TypeOK, Assigned, OneExecutor,
     InProgress, Busy, Released, BeforeRecheck, Executors, Performers
<1> QED  BY <1>1, <1>2, <1>3, <1>4, <1>5

LEMMA WorkerSettled ==
  ASSUME IInv,
         \/ Pop \/ Requeue \/ DeadLetter \/ Panic \/ \E e \in Executors : Lose(e)
  PROVE  AttemptSettles'
<1>1. CASE Pop
  BY <1>1 DEF Pop, Move, history, IInv, TypeOK, AttemptSettles, OneExecutor,
     Assigned, Busy, Released, InProgress, BeforeRecheck, Executors, Performers
<1>2. CASE Requeue
  BY <1>2 DEF Requeue, Move, RetriesLeft, history, IInv, TypeOK, AttemptSettles,
     OneExecutor, Assigned, Busy, Released, InProgress, BeforeRecheck, Executors,
     Performers
<1>3. CASE DeadLetter
  BY <1>3 DEF DeadLetter, Move, history, IInv, TypeOK, AttemptSettles,
     OneExecutor, Assigned, Busy, Released, InProgress, BeforeRecheck, Executors,
     Performers
<1>4. CASE \E e \in Executors : Lose(e)
  BY <1>4 DEF Lose, Fault, history, IInv, TypeOK, AttemptSettles, OneExecutor,
     Assigned, Busy, Released, InProgress, BeforeRecheck, Executors, Performers
<1>5. CASE Panic
  BY <1>5 DEF Panic, Move, Fault, history, IInv, TypeOK, AttemptSettles, BeforeRecheck,
     Executors, Performers
<1> QED  BY <1>1, <1>2, <1>3, <1>4, <1>5

-----------------------------------------------------------------------------
(* The goroutine of triggerGitOpsSync *)

LEMMA SyncType ==
  ASSUME TypeOK,
         \/ SyncStart \/ SyncCall \/ SyncReport
  PROVE  TypeOK'
<1>1. CASE SyncStart
  <2>1. "sync" \in Executors /\ "apply" \in PCs /\ "ended" \in PCs
    BY DEF Executors, PCs
  <2>2. pc' \in [Executors -> PCs]
    BY <1>1, <2>1, MoveType DEF SyncStart
  <2>3. status' \in Statuses /\ faults' \in 0..MaxFaults
    BY <1>1, FaultType DEF SyncStart, Stored, TypeOK, Statuses
  <2> QED  BY <1>1, <2>2, <2>3 DEF SyncStart, history, TypeOK
<1>2. CASE SyncCall
  <2>1. "sync" \in Executors /\ \A a \in {"report", "fail", "expired"} : a \in PCs
    BY DEF Executors, PCs
  <2>2. pc' \in [Executors -> PCs]
    BY <1>2, <2>1, MoveType DEF SyncCall
  <2>3. healthy' \in BOOLEAN
    BY <1>2 DEF SyncCall, TypeOK
  <2> QED  BY <1>2, <2>2, <2>3 DEF SyncCall, TypeOK
<1>3. CASE SyncReport
  <2>1. "sync" \in Executors /\ "ended" \in PCs
    BY DEF Executors, PCs
  <2>2. pc' \in [Executors -> PCs]
    BY <1>3, <2>1, MoveType DEF SyncReport
  <2>3. "deployed" \in Statuses /\ "failed" \in Statuses
    BY DEF Statuses, Released
  <2>4. status' \in Statuses /\ faults' \in 0..MaxFaults
    BY <1>3, <2>3, WriteType DEF SyncReport, TypeOK
  <2> QED  BY <1>3, <2>2, <2>4 DEF SyncReport, history, TypeOK
<1> QED  BY <1>1, <1>2, <1>3

LEMMA SyncWrites ==
  ASSUME IInv,
         \/ SyncStart \/ SyncCall \/ SyncReport
  PROVE  (ReleasedMeansHealthy /\ RolledBackMeansUndone /\ AboutToWrite)'
<1>1. CASE SyncStart
  BY <1>1 DEF SyncStart, Move, Stored, Fault, history, IInv, TypeOK,
     ReleasedMeansHealthy, RolledBackMeansUndone, AboutToWrite, Checked, Busy, Released,
     Executors, Performers
<1>2. CASE SyncCall
  BY <1>2 DEF SyncCall, Move, history, IInv, TypeOK, ReleasedMeansHealthy,
     RolledBackMeansUndone, AboutToWrite, Checked, Busy, Released, Executors, Performers
<1>3. CASE SyncReport
  BY <1>3 DEF SyncReport, Move, Write, Stored, Fault, history, IInv, TypeOK,
     ReleasedMeansHealthy, RolledBackMeansUndone, AboutToWrite, Checked, Busy, Released,
     Executors, Performers
<1> QED  BY <1>1, <1>2, <1>3

LEMMA SyncHands ==
  ASSUME IInv,
         \/ SyncStart \/ SyncCall \/ SyncReport
  PROVE  (Assigned /\ OneExecutor)'
<1>1. CASE SyncStart
  BY <1>1 DEF SyncStart, Move, Stored, Fault, history, IInv, TypeOK, Assigned,
     OneExecutor, InProgress, Busy, Released, Executors, Performers
<1>2. CASE SyncCall
  BY <1>2 DEF SyncCall, Move, history, IInv, TypeOK, Assigned, OneExecutor, InProgress, Busy,
     Released, Executors, Performers
<1>3. CASE SyncReport
  BY <1>3 DEF SyncReport, Move, Write, Stored, Fault, history, IInv, TypeOK,
     Assigned, OneExecutor, InProgress, Busy, Released, Executors, Performers
<1> QED  BY <1>1, <1>2, <1>3

LEMMA SyncSettled ==
  ASSUME IInv,
         \/ SyncStart \/ SyncCall \/ SyncReport
  PROVE  AttemptSettles'
<1>1. CASE SyncStart
  BY <1>1 DEF SyncStart, Move, Stored, Fault, history, IInv, TypeOK,
     AttemptSettles, OneExecutor, Assigned, Busy, Released, InProgress,
     BeforeRecheck, Executors, Performers
<1>2. CASE SyncCall
  BY <1>2 DEF SyncCall, Move, history, IInv, TypeOK, AttemptSettles, OneExecutor,
     Assigned, Busy, Released, InProgress, BeforeRecheck, Executors, Performers
<1>3. CASE SyncReport
  BY <1>3 DEF SyncReport, Move, Write, Stored, Fault, history, IInv, TypeOK,
     AttemptSettles, OneExecutor, Assigned, Busy, Released, InProgress,
     BeforeRecheck, Executors, Performers
<1> QED  BY <1>1, <1>2, <1>3

-----------------------------------------------------------------------------
(* Cancel and Remove *)

LEMMA RowType ==
  ASSUME TypeOK,
         \/ Cancel \/ Remove
  PROVE  TypeOK'
<1>1. CASE Cancel
  BY <1>1 DEF Cancel, history, TypeOK, Statuses, Released, PCs, BeforeRecheck,
     RequestPCs, Executors, Performers
<1>2. CASE Remove
  BY <1>2 DEF Remove, history, TypeOK, Statuses, Released, PCs, BeforeRecheck,
     RequestPCs, Executors, Performers
<1> QED  BY <1>1, <1>2

LEMMA RowWrites ==
  ASSUME IInv,
         \/ Cancel \/ Remove
  PROVE  (ReleasedMeansHealthy /\ RolledBackMeansUndone /\ AboutToWrite)'
<1>1. CASE Cancel
  BY <1>1 DEF Cancel, history, IInv, TypeOK, ReleasedMeansHealthy,
     RolledBackMeansUndone, AboutToWrite, Checked, Busy, Released, Executors, Performers
<1>2. CASE Remove
  BY <1>2 DEF Remove, history, IInv, TypeOK, ReleasedMeansHealthy,
     RolledBackMeansUndone, AboutToWrite, Checked, Busy, Released, Executors, Performers
<1> QED  BY <1>1, <1>2

LEMMA RowHands ==
  ASSUME IInv,
         \/ Cancel \/ Remove
  PROVE  (Assigned /\ OneExecutor)'
<1>1. CASE Cancel
  BY <1>1 DEF Cancel, history, IInv, TypeOK, Assigned, OneExecutor, InProgress, Busy,
     Released, Executors, Performers
<1>2. CASE Remove
  BY <1>2 DEF Remove, history, IInv, TypeOK, Assigned, OneExecutor, InProgress, Busy,
     Released, Executors, Performers
<1> QED  BY <1>1, <1>2

LEMMA RowSettled ==
  ASSUME IInv,
         \/ Cancel \/ Remove
  PROVE  AttemptSettles'
<1>1. CASE Cancel
  BY <1>1 DEF Cancel, history, IInv, TypeOK, AttemptSettles, OneExecutor,
     Assigned, Busy, Released, InProgress, BeforeRecheck, Executors, Performers
<1>2. CASE Remove
  BY <1>2 DEF Remove, history, IInv, TypeOK, AttemptSettles, OneExecutor,
     Assigned, Busy, Released, InProgress, BeforeRecheck, Executors, Performers
<1> QED  BY <1>1, <1>2

-----------------------------------------------------------------------------
(* A request *)

LEMMA RequestType ==
  ASSUME TypeOK, NEW r \in Requests,
         \/ Promote(r) \/ Approve(r) \/ Rollback(r) \/ Park(r) \/ MarkPromoted(r)
         \/ CreateNext(r) \/ CheckRollback(r) \/ Undo(r) \/ RecordUndoFailure(r)
         \/ MarkRolledBack(r) \/ FinishRollback(r)
  PROVE  TypeOK'
<1>1. CASE Promote(r)
  BY <1>1 DEF Promote, Step, history, TypeOK, Statuses, Released, PCs,
     BeforeRecheck, RequestPCs, Executors, Performers
<1>2. CASE Approve(r)
  BY <1>2 DEF Approve, Step, history, TypeOK, Statuses, Released, PCs,
     BeforeRecheck, RequestPCs, Executors, Performers
<1>3. CASE Rollback(r)
  BY <1>3 DEF Rollback, Step, Rollbackable, history, TypeOK, Statuses, Released,
     PCs, BeforeRecheck, RequestPCs, Executors, Performers
<1>4. CASE Park(r)
  BY <1>4, WriteType, FaultType DEF Park, Step, history, TypeOK, Statuses,
     Released, PCs, BeforeRecheck, RequestPCs, Executors, Performers
<1>5. CASE MarkPromoted(r)
  BY <1>5, WriteType, FaultType DEF MarkPromoted, Step, Stored, history, TypeOK,
     Statuses, Released, PCs, BeforeRecheck, RequestPCs, Executors, Performers
<1>6. CASE CreateNext(r)
  BY <1>6 DEF CreateNext, Step, history, TypeOK, Statuses, Released, PCs,
     BeforeRecheck, RequestPCs, Executors, Performers
<1>7. CASE CheckRollback(r)
  BY <1>7 DEF CheckRollback, Step, history, TypeOK, Statuses, Released, PCs,
     BeforeRecheck, RequestPCs, Executors, Performers
<1>8. CASE Undo(r)
  <2>1. "mark" \in RequestPCs /\ "undo_failed" \in RequestPCs
    BY DEF RequestPCs
  <2>2. request' \in [Requests -> RequestPCs]
    BY <1>8, <2>1, StepType DEF Undo
  <2>3. undone' \in Nat
    BY <1>8 DEF Undo, TypeOK
  <2> QED  BY <1>8, <2>2, <2>3 DEF Undo, TypeOK
<1>9. CASE RecordUndoFailure(r)
  BY <1>9, WriteType, FaultType DEF RecordUndoFailure, Step, history, TypeOK,
     Statuses, Released, PCs, BeforeRecheck, RequestPCs, Executors, Performers
<1>10. CASE MarkRolledBack(r)
  BY <1>10, WriteType, FaultType DEF MarkRolledBack, Step, Stored, Rollbackable,
     history, TypeOK, Statuses, Released, PCs, BeforeRecheck, RequestPCs, Executors,
     Performers
<1>11. CASE FinishRollback(r)
  BY <1>11, WriteType, FaultType DEF FinishRollback, Step, history, TypeOK,
     Statuses, Released, PCs, BeforeRecheck, RequestPCs, Executors, Performers
<1> QED  BY <1>1, <1>2, <1>3, <1>4, <1>5, <1>6, <1>7, <1>8, <1>9, <1>10, <1>11

LEMMA RequestWrites ==
  ASSUME IInv, NEW r \in Requests,
         \/ Promote(r) \/ Approve(r) \/ Rollback(r) \/ Park(r) \/ MarkPromoted(r)
         \/ CreateNext(r) \/ CheckRollback(r) \/ Undo(r) \/ RecordUndoFailure(r)
         \/ MarkRolledBack(r) \/ FinishRollback(r)
  PROVE  (ReleasedMeansHealthy /\ RolledBackMeansUndone /\ AboutToWrite)'
<1>1. CASE Promote(r)
  BY <1>1 DEF Promote, Step, history, IInv, TypeOK, ReleasedMeansHealthy,
     RolledBackMeansUndone, AboutToWrite, Checked, Busy, Released, Executors, Performers
<1>2. CASE Approve(r)
  BY <1>2 DEF Approve, Step, history, IInv, TypeOK, ReleasedMeansHealthy,
     RolledBackMeansUndone, AboutToWrite, Checked, Busy, Released, Executors, Performers
<1>3. CASE Rollback(r)
  BY <1>3 DEF Rollback, Step, Rollbackable, history, IInv, TypeOK,
     ReleasedMeansHealthy, RolledBackMeansUndone, AboutToWrite, Checked, Busy, Released,
     Executors, Performers
<1>4. CASE Park(r)
  BY <1>4 DEF Park, Step, Write, Stored, Fault, history, IInv, TypeOK,
     ReleasedMeansHealthy, RolledBackMeansUndone, AboutToWrite, Checked, Busy, Released,
     Executors, Performers
<1>5. CASE MarkPromoted(r)
  BY <1>5 DEF MarkPromoted, Step, Stored, Fault, history, IInv, TypeOK,
     ReleasedMeansHealthy, RolledBackMeansUndone, AboutToWrite, Checked, Busy, Released,
     Executors, Performers
<1>6. CASE CreateNext(r)
  BY <1>6 DEF CreateNext, Step, history, IInv, TypeOK, ReleasedMeansHealthy,
     RolledBackMeansUndone, AboutToWrite, Checked, Busy, Released, Executors, Performers
<1>7. CASE CheckRollback(r)
  BY <1>7 DEF CheckRollback, Step, history, IInv, TypeOK, ReleasedMeansHealthy,
     RolledBackMeansUndone, AboutToWrite, Checked, Busy, Released, Executors, Performers
<1>8. CASE Undo(r)
  BY <1>8 DEF Undo, Step, history, IInv, TypeOK, ReleasedMeansHealthy,
     RolledBackMeansUndone, AboutToWrite, Checked, Busy, Released, Executors, Performers
<1>9. CASE RecordUndoFailure(r)
  BY <1>9 DEF RecordUndoFailure, Step, Write, Stored, Fault, history, IInv,
     TypeOK, ReleasedMeansHealthy, RolledBackMeansUndone, AboutToWrite, Checked, Busy,
     Released, Executors, Performers
<1>10. CASE MarkRolledBack(r)
  BY <1>10 DEF MarkRolledBack, Step, Stored, Fault, Rollbackable, history, IInv,
     TypeOK, ReleasedMeansHealthy, RolledBackMeansUndone, AboutToWrite, Checked, Busy,
     Released, Executors, Performers
<1>11. CASE FinishRollback(r)
  BY <1>11 DEF FinishRollback, Step, Write, Stored, Fault, history, IInv, TypeOK,
     ReleasedMeansHealthy, RolledBackMeansUndone, AboutToWrite, Checked, Busy, Released,
     Executors, Performers
<1> QED  BY <1>1, <1>2, <1>3, <1>4, <1>5, <1>6, <1>7, <1>8, <1>9, <1>10, <1>11

LEMMA RequestHands ==
  ASSUME IInv, NEW r \in Requests,
         \/ Promote(r) \/ Approve(r) \/ Rollback(r) \/ Park(r) \/ MarkPromoted(r)
         \/ CreateNext(r) \/ CheckRollback(r) \/ Undo(r) \/ RecordUndoFailure(r)
         \/ MarkRolledBack(r) \/ FinishRollback(r)
  PROVE  (Assigned /\ OneExecutor)'
<1>1. CASE Promote(r)
  BY <1>1 DEF Promote, Step, history, IInv, TypeOK, Assigned, OneExecutor, InProgress, Busy,
     Released, Executors, Performers
<1>2. CASE Approve(r)
  BY <1>2 DEF Approve, Step, history, IInv, TypeOK, Assigned, OneExecutor, InProgress, Busy,
     Released, Executors, Performers
<1>3. CASE Rollback(r)
  BY <1>3 DEF Rollback, Step, Rollbackable, history, IInv, TypeOK, Assigned,
     OneExecutor, InProgress, Busy, Released, Executors, Performers
<1>4. CASE Park(r)
  BY <1>4 DEF Park, Step, Write, Stored, Fault, history, IInv, TypeOK, Assigned,
     OneExecutor, InProgress, Busy, Released, Executors, Performers
<1>5. CASE MarkPromoted(r)
  BY <1>5 DEF MarkPromoted, Step, Stored, Fault, history, IInv, TypeOK, Assigned,
     OneExecutor, InProgress, Busy, Released, Executors, Performers
<1>6. CASE CreateNext(r)
  BY <1>6 DEF CreateNext, Step, history, IInv, TypeOK, Assigned, OneExecutor, InProgress,
     Busy, Released, Executors, Performers
<1>7. CASE CheckRollback(r)
  BY <1>7 DEF CheckRollback, Step, history, IInv, TypeOK, Assigned, OneExecutor, InProgress,
     Busy, Released, Executors, Performers
<1>8. CASE Undo(r)
  BY <1>8 DEF Undo, Step, history, IInv, TypeOK, Assigned, OneExecutor, InProgress, Busy,
     Released, Executors, Performers
<1>9. CASE RecordUndoFailure(r)
  BY <1>9 DEF RecordUndoFailure, Step, Write, Stored, Fault, history, IInv,
     TypeOK, Assigned, OneExecutor, InProgress, Busy, Released, Executors, Performers
<1>10. CASE MarkRolledBack(r)
  BY <1>10 DEF MarkRolledBack, Step, Stored, Fault, Rollbackable, history, IInv,
     TypeOK, Assigned, OneExecutor, InProgress, Busy, Released, Executors, Performers
<1>11. CASE FinishRollback(r)
  BY <1>11 DEF FinishRollback, Step, Write, Stored, Fault, history, IInv, TypeOK,
     Assigned, OneExecutor, InProgress, Busy, Released, Executors, Performers
<1> QED  BY <1>1, <1>2, <1>3, <1>4, <1>5, <1>6, <1>7, <1>8, <1>9, <1>10, <1>11

LEMMA RequestSettled ==
  ASSUME IInv, NEW r \in Requests,
         \/ Promote(r) \/ Approve(r) \/ Rollback(r) \/ Park(r) \/ MarkPromoted(r)
         \/ CreateNext(r) \/ CheckRollback(r) \/ Undo(r) \/ RecordUndoFailure(r)
         \/ MarkRolledBack(r) \/ FinishRollback(r)
  PROVE  AttemptSettles'
<1>1. CASE Promote(r)
  BY <1>1 DEF Promote, Step, history, IInv, TypeOK, AttemptSettles, OneExecutor,
     Assigned, Busy, Released, InProgress, BeforeRecheck, Executors, Performers
<1>2. CASE Approve(r)
  BY <1>2 DEF Approve, Step, history, IInv, TypeOK, AttemptSettles, OneExecutor,
     Assigned, Busy, Released, InProgress, BeforeRecheck, Executors, Performers
<1>3. CASE Rollback(r)
  BY <1>3 DEF Rollback, Step, Rollbackable, history, IInv, TypeOK,
     AttemptSettles, OneExecutor, Assigned, Busy, Released, InProgress,
     BeforeRecheck, Executors, Performers
<1>4. CASE Park(r)
  BY <1>4 DEF Park, Step, Write, Stored, Fault, history, IInv, TypeOK,
     AttemptSettles, OneExecutor, Assigned, Busy, Released, InProgress,
     BeforeRecheck, Executors, Performers
<1>5. CASE MarkPromoted(r)
  BY <1>5 DEF MarkPromoted, Step, Stored, Fault, history, IInv, TypeOK,
     AttemptSettles, OneExecutor, Assigned, Busy, Released, InProgress,
     BeforeRecheck, Executors, Performers
<1>6. CASE CreateNext(r)
  BY <1>6 DEF CreateNext, Step, history, IInv, TypeOK, AttemptSettles,
     OneExecutor, Assigned, Busy, Released, InProgress, BeforeRecheck, Executors,
     Performers
<1>7. CASE CheckRollback(r)
  BY <1>7 DEF CheckRollback, Step, history, IInv, TypeOK, AttemptSettles,
     OneExecutor, Assigned, Busy, Released, InProgress, BeforeRecheck, Executors,
     Performers
<1>8. CASE Undo(r)
  BY <1>8 DEF Undo, Step, history, IInv, TypeOK, AttemptSettles, OneExecutor,
     Assigned, Busy, Released, InProgress, BeforeRecheck, Executors, Performers
<1>9. CASE RecordUndoFailure(r)
  BY <1>9 DEF RecordUndoFailure, Step, Write, Stored, Fault, history, IInv,
     TypeOK, AttemptSettles, OneExecutor, Assigned, Busy, Released, InProgress,
     BeforeRecheck, Executors, Performers
<1>10. CASE MarkRolledBack(r)
  BY <1>10 DEF MarkRolledBack, Step, Stored, Fault, Rollbackable, history, IInv,
     TypeOK, AttemptSettles, OneExecutor, Assigned, Busy, Released, InProgress,
     BeforeRecheck, Executors, Performers
<1>11. CASE FinishRollback(r)
  BY <1>11 DEF FinishRollback, Step, Write, Stored, Fault, history, IInv, TypeOK,
     AttemptSettles, OneExecutor, Assigned, Busy, Released, InProgress,
     BeforeRecheck, Executors, Performers
<1> QED  BY <1>1, <1>2, <1>3, <1>4, <1>5, <1>6, <1>7, <1>8, <1>9, <1>10, <1>11

-----------------------------------------------------------------------------
(* The invariant *)

LEMMA InitIInv == Init => IInv
<1> SUFFICES ASSUME Init PROVE IInv
  OBVIOUS
<1>1. TypeOK
  <2>1. "none" \in Statuses /\ "off" \in PCs /\ "idle" \in RequestPCs
    BY DEF Statuses, PCs, RequestPCs
  <2>2. pc \in [Executors -> PCs] /\ request \in [Requests -> RequestPCs]
    BY <2>1 DEF Init
  <2>3. retries \in 0..MaxRetries /\ faults \in 0..MaxFaults /\ undone \in Nat
    BY DEF Init
  <2>4. /\ origin \in Origins
        /\ next \in {"final", "approval", "plain"}
        /\ healthy \in BOOLEAN
        /\ cancelledIn \subseteq {"job", "local"}
    BY DEF Init, Origins
  <2> QED  BY <2>1, <2>2, <2>3, <2>4 DEF Init, TypeOK
<1>2. ReleasedMeansHealthy /\ RolledBackMeansUndone /\ AboutToWrite
  BY DEF Init, ReleasedMeansHealthy, RolledBackMeansUndone, AboutToWrite, Checked, Busy, Released,
         Executors
<1>3. Assigned /\ OneExecutor /\ AttemptSettles
  BY DEF Init, Assigned, OneExecutor, AttemptSettles, Busy, Released, Executors, Performers,
         BeforeRecheck
<1> QED  BY <1>1, <1>2, <1>3 DEF IInv

LEMMA StutterIInv == IInv /\ UNCHANGED vars => IInv'
BY DEF IInv, vars, history, TypeOK, ReleasedMeansHealthy, RolledBackMeansUndone,
       AboutToWrite, Checked, Busy, Assigned, OneExecutor, AttemptSettles

LEMMA NextIInv == IInv /\ [Next]_vars => IInv'
<1> SUFFICES ASSUME IInv, [Next]_vars PROVE IInv'
  OBVIOUS
<1> USE DEF IInv
<1>1. CASE Creation
  BY <1>1, CreationType, CreationWrites, CreationHands, CreationSettled
<1>2. CASE Pop \/ Requeue \/ DeadLetter \/ Panic \/ \E e \in Executors : Lose(e)
  BY <1>2, WorkerType, WorkerWrites, WorkerHands, WorkerSettled
<1>3. CASE Sync
  BY <1>3, SyncType, SyncWrites, SyncHands, SyncSettled DEF Sync
<1>4. ASSUME NEW e \in Performers, Perform(e)
      PROVE  IInv'
  BY <1>4, AttemptType, AttemptWrites, AttemptHands, AttemptSettled
<1>5. CASE Cancel \/ Remove
  BY <1>5, RowType, RowWrites, RowHands, RowSettled
<1>6. ASSUME NEW r \in Requests, Promote(r) \/ Approve(r) \/ Rollback(r) \/ RequestStep(r)
      PROVE  IInv'
  BY <1>6, RequestType, RequestWrites, RequestHands, RequestSettled DEF RequestStep
<1>7. CASE UNCHANGED vars
  BY <1>7, StutterIInv
<1> QED  BY <1>1, <1>2, <1>3, <1>4, <1>5, <1>6, <1>7 DEF Next, ExecutorStep

\* For every number of requests, retries and faults: a row that is released was
\* seen healthy if it is PerformDeployment that reports its release, one that is
\* rolled back had its cluster rolled back, and while nothing fails the row has
\* one executor, whose attempts leave it settled.
THEOREM DeploymentInvariance == Spec => []IInv
<1>1. IInv /\ [Next]_vars => IInv'
  BY NextIInv
<1> QED  BY InitIInv, <1>1, PTL DEF Spec

\* "Released" means seen healthy for every row but those a sync reports and those
\* a rollback restores, and "rolled back" means what it says for all, whatever
\* cancels, retries, panics, requests and faults came in between.
THEOREM ReleasesAreReal == Spec => [](ReleasedMeansHealthy /\ RolledBackMeansUndone)
<1>1. IInv => ReleasedMeansHealthy /\ RolledBackMeansUndone
  BY DEF IInv
<1> QED  BY <1>1, DeploymentInvariance, PTL

\* When everybody who carries out a deployment is done with it and nothing has
\* failed, its row is not left pending or syncing.
THEOREM LeavesProgress == Spec => []NotLeftInProgress
<1>1. IInv => NotLeftInProgress
  <2> SUFFICES ASSUME IInv, faults = 0, origin \in {"api", "retry", "step"}, ~Unassigned,
                      \A e \in Executors : Over(e)
               PROVE  status \notin InProgress
    BY DEF NotLeftInProgress
  <2>1. PICK e \in Executors : pc[e] # "off"
    BY DEF IInv, Assigned, Unassigned, Executors
  <2>2. e \in Performers /\ pc[e] \in {"ended", "dead"}
    BY <2>1 DEF IInv, AboutToWrite, Checked, Over, Executors, Performers
  <2> QED  BY <2>2 DEF IInv, AttemptSettles
<1> QED  BY <1>1, DeploymentInvariance, PTL

\* A cancel that arrives before an attempt's second look keeps that attempt from
\* touching the cluster.
THEOREM CancelStops == Spec => []CancelStopsAttempt
<1>1. IInv => CancelStopsAttempt
  BY DEF IInv, TypeOK, AttemptSettles, CancelStopsAttempt, Performers
<1> QED  BY <1>1, DeploymentInvariance, PTL

Kept == faults = 0 /\ status \in Released => status' \notin InProgress \union {"cancelled"}

\* No retry and no late cancel takes a release back.
THEOREM ReleasesStay == Spec => ReleasedStaysReleased
<1>1. IInv /\ [Next]_vars => Kept
  <2> SUFFICES ASSUME IInv, [Next]_vars, faults = 0, status \in Released
               PROVE  status' \notin InProgress \union {"cancelled"}
    BY DEF Kept
  <2>1. \A e \in Executors : pc[e] \in {"off", "ended"}
    BY DEF IInv, Assigned, OneExecutor
  <2>2. origin # "none"
    BY DEF IInv, Assigned, OneExecutor, Executors
  <2>3. CASE Creation
    <3>1. ~RefuseRetry
      BY DEF RefuseRetry, IInv, OneExecutor
    <3> QED  BY <2>2, <2>3, <3>1 DEF Creation, Create, EnqueueJob, EnqueueError,
                EnqueueRetryError, Restore, CreateByStep, ManualDeploy, Released, InProgress
  <2>4. CASE Pop \/ Requeue \/ DeadLetter \/ Panic \/ \E e \in Executors : Lose(e)
    BY <2>4 DEF Pop, Requeue, DeadLetter, Panic, Lose, Released, InProgress
  <2>5. CASE Sync
    BY <2>1, <2>5 DEF Sync, SyncStart, SyncCall, SyncReport, Move, Executors, Released,
                      InProgress
  <2>6. ASSUME NEW e \in Performers, Perform(e)
        PROVE  FALSE
    BY <2>1, <2>6 DEF Perform, Start, Resolve, Check, Client, Recheck, Apply, Health, Report,
                      Fail, ObserveCancel, GoroutineEnds, Move, Try, Look, Executors,
                      Performers
  <2>7. CASE Cancel \/ Remove
    BY <2>7 DEF Cancel, Remove, Released, InProgress
  <2>8. ASSUME NEW r \in Requests,
               Promote(r) \/ Approve(r) \/ Rollback(r) \/ RequestStep(r)
        PROVE  status' \notin InProgress \union {"cancelled"}
    BY <2>8 DEF Promote, Approve, Rollback, RequestStep, Park, MarkPromoted, CreateNext,
                CheckRollback, Undo, RecordUndoFailure, MarkRolledBack, FinishRollback,
                Write, Stored, Released, InProgress
  <2>9. CASE UNCHANGED vars
    BY <2>9 DEF vars, Released, InProgress
  <2> QED  BY <2>3, <2>4, <2>5, <2>6, <2>7, <2>8, <2>9 DEF Next, ExecutorStep
<1>2. Spec => [][Kept]_vars
  BY <1>1, DeploymentInvariance, PTL DEF Spec
<1> QED  BY <1>2 DEF ReleasedStaysReleased, Kept

=============================================================================
