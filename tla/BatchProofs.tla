---------------------------- MODULE BatchProofs ----------------------------
(***************************************************************************)
(* Proofs about BatchOperation for any number of services, every set of    *)
(* requests and any number of faults: the inductive invariant that its run *)
(* checks, one lemma for each part of it and each action.                  *)
(***************************************************************************)
EXTENDS BatchOperation, FiniteSetTheorems, TLAPS

USE BatchAssumption

-----------------------------------------------------------------------------
(* Types *)


LEMMA ReadRowType ==
  ASSUME TypeOK, StatusAgrees, NEW e \in Executors, ReadRow(e)
  PROVE  TypeOK'
<1>1. /\ status' \in {"pending", "running", "cancelled", "completed"}
      /\ stored' \in Counts
      /\ template' \in [Services -> {"none", "cluster", "bare"}]
  BY DEF TypeOK, Counts, ReadRow, rowVars
<1>2. faults' \in 0..MaxFaults
  BY DEF TypeOK, Fault, ReadRow, rowVars
<1>3. pc' \in [Executors -> InFlight \union {"idle", "done", "lost"}]
  BY DEF TypeOK, Goto, InFlight, Looping, ReadRow, rowVars
<1>4. at' \in [Executors -> 1..(N + 1)]
  <2>1. pc[e] \in {"list", "create", "enqueue"} => at[e] \in 1..N
    BY DEF StatusAgrees, Looping, Services
  <2> QED  BY <2>1 DEF TypeOK, Goto, ReadRow, rowVars
<1>5. completed' \in [Executors -> Nat] /\ failed' \in [Executors -> Nat]
  BY DEF TypeOK, ReadRow, rowVars
<1>6. deploy' \in [Executors -> [Services -> {"none", "row", "job", "direct"}]]
  BY SMTT(30) DEF TypeOK, ReadRow, rowVars
<1>7. late' \in [Executors -> Nat]
  BY DEF TypeOK, ReadRow, rowVars
<1>8. cancel' \in {"none", "quiet", "raced"} /\ raced' \in BOOLEAN
  BY DEF TypeOK, ReadRow, rowVars
<1> QED  BY <1>1, <1>2, <1>3, <1>4, <1>5, <1>6, <1>7, <1>8 DEF TypeOK

LEMMA MarkRunningType ==
  ASSUME TypeOK, StatusAgrees, NEW e \in Executors, MarkRunning(e)
  PROVE  TypeOK'
<1>1. /\ status' \in {"pending", "running", "cancelled", "completed"}
      /\ stored' \in Counts
      /\ template' \in [Services -> {"none", "cluster", "bare"}]
  BY DEF TypeOK, Counts, MarkRunning, rowVars, historyVars
<1>2. faults' \in 0..MaxFaults
  BY DEF TypeOK, Fault, MarkRunning, rowVars, historyVars
<1>3. pc' \in [Executors -> InFlight \union {"idle", "done", "lost"}]
  BY DEF TypeOK, Goto, InFlight, Looping, MarkRunning, rowVars, historyVars
<1>4. at' \in [Executors -> 1..(N + 1)]
  <2>1. pc[e] \in {"list", "create", "enqueue"} => at[e] \in 1..N
    BY DEF StatusAgrees, Looping, Services
  <2> QED  BY <2>1 DEF TypeOK, Goto, MarkRunning, rowVars, historyVars
<1>5. completed' \in [Executors -> Nat] /\ failed' \in [Executors -> Nat]
  BY DEF TypeOK, MarkRunning, rowVars, historyVars
<1>6. deploy' \in [Executors -> [Services -> {"none", "row", "job", "direct"}]]
  BY SMTT(30) DEF TypeOK, MarkRunning, rowVars, historyVars
<1>7. late' \in [Executors -> Nat]
  BY DEF TypeOK, MarkRunning, rowVars, historyVars
<1>8. cancel' \in {"none", "quiet", "raced"} /\ raced' \in BOOLEAN
  BY DEF TypeOK, MarkRunning, rowVars, historyVars
<1> QED  BY <1>1, <1>2, <1>3, <1>4, <1>5, <1>6, <1>7, <1>8 DEF TypeOK

LEMMA AskType ==
  ASSUME TypeOK, StatusAgrees, NEW e \in Executors, Ask(e)
  PROVE  TypeOK'
<1>1. /\ status' \in {"pending", "running", "cancelled", "completed"}
      /\ stored' \in Counts
      /\ template' \in [Services -> {"none", "cluster", "bare"}]
  BY DEF TypeOK, Counts, Ask, rowVars, historyVars
<1>2. faults' \in 0..MaxFaults
  BY DEF TypeOK, Fault, Ask, rowVars, historyVars
<1>3. pc' \in [Executors -> InFlight \union {"idle", "done", "lost"}]
  BY DEF TypeOK, Goto, InFlight, Looping, Ask, rowVars, historyVars
<1>4. at' \in [Executors -> 1..(N + 1)]
  <2>1. pc[e] \in {"list", "create", "enqueue"} => at[e] \in 1..N
    BY DEF StatusAgrees, Looping, Services
  <2> QED  BY <2>1 DEF TypeOK, Goto, Ask, rowVars, historyVars
<1>5. completed' \in [Executors -> Nat] /\ failed' \in [Executors -> Nat]
  BY DEF TypeOK, Ask, rowVars, historyVars
<1>6. deploy' \in [Executors -> [Services -> {"none", "row", "job", "direct"}]]
  BY SMTT(30) DEF TypeOK, Ask, rowVars, historyVars
<1>7. late' \in [Executors -> Nat]
  BY DEF TypeOK, Ask, rowVars, historyVars
<1>8. cancel' \in {"none", "quiet", "raced"} /\ raced' \in BOOLEAN
  BY DEF TypeOK, Ask, rowVars, historyVars
<1> QED  BY <1>1, <1>2, <1>3, <1>4, <1>5, <1>6, <1>7, <1>8 DEF TypeOK

LEMMA AskedAllType ==
  ASSUME TypeOK, StatusAgrees, NEW e \in Executors, AskedAll(e)
  PROVE  TypeOK'
<1>1. /\ status' \in {"pending", "running", "cancelled", "completed"}
      /\ stored' \in Counts
      /\ template' \in [Services -> {"none", "cluster", "bare"}]
  BY DEF TypeOK, Counts, AskedAll, rowVars, historyVars
<1>2. faults' \in 0..MaxFaults
  BY DEF TypeOK, Fault, AskedAll, rowVars, historyVars
<1>3. pc' \in [Executors -> InFlight \union {"idle", "done", "lost"}]
  BY DEF TypeOK, Goto, InFlight, Looping, AskedAll, rowVars, historyVars
<1>4. at' \in [Executors -> 1..(N + 1)]
  <2>1. pc[e] \in {"list", "create", "enqueue"} => at[e] \in 1..N
    BY DEF StatusAgrees, Looping, Services
  <2> QED  BY <2>1 DEF TypeOK, Goto, AskedAll, rowVars, historyVars
<1>5. completed' \in [Executors -> Nat] /\ failed' \in [Executors -> Nat]
  BY DEF TypeOK, AskedAll, rowVars, historyVars
<1>6. deploy' \in [Executors -> [Services -> {"none", "row", "job", "direct"}]]
  BY SMTT(30) DEF TypeOK, AskedAll, rowVars, historyVars
<1>7. late' \in [Executors -> Nat]
  BY DEF TypeOK, AskedAll, rowVars, historyVars
<1>8. cancel' \in {"none", "quiet", "raced"} /\ raced' \in BOOLEAN
  BY DEF TypeOK, AskedAll, rowVars, historyVars
<1> QED  BY <1>1, <1>2, <1>3, <1>4, <1>5, <1>6, <1>7, <1>8 DEF TypeOK

LEMMA FindTemplateType ==
  ASSUME TypeOK, StatusAgrees, NEW e \in Executors, FindTemplate(e)
  PROVE  TypeOK'
<1>1. /\ status' \in {"pending", "running", "cancelled", "completed"}
      /\ stored' \in Counts
      /\ template' \in [Services -> {"none", "cluster", "bare"}]
  BY DEF TypeOK, Counts, FindTemplate, CountFailed, rowVars, historyVars
<1>2. faults' \in 0..MaxFaults
  BY DEF TypeOK, Fault, FindTemplate, CountFailed, rowVars, historyVars
<1>3. pc' \in [Executors -> InFlight \union {"idle", "done", "lost"}]
  BY DEF TypeOK, Goto, InFlight, Looping, FindTemplate, CountFailed, rowVars, historyVars
<1>4. at' \in [Executors -> 1..(N + 1)]
  <2>1. pc[e] \in {"list", "create", "enqueue"} => at[e] \in 1..N
    BY DEF StatusAgrees, Looping, Services
  <2> QED  BY <2>1 DEF TypeOK, Goto, FindTemplate, CountFailed, rowVars, historyVars
<1>5. completed' \in [Executors -> Nat] /\ failed' \in [Executors -> Nat]
  BY DEF TypeOK, FindTemplate, CountFailed, rowVars, historyVars
<1>6. deploy' \in [Executors -> [Services -> {"none", "row", "job", "direct"}]]
  BY SMTT(30) DEF TypeOK, FindTemplate, CountFailed, rowVars, historyVars
<1>7. late' \in [Executors -> Nat]
  BY DEF TypeOK, FindTemplate, CountFailed, rowVars, historyVars
<1>8. cancel' \in {"none", "quiet", "raced"} /\ raced' \in BOOLEAN
  BY DEF TypeOK, FindTemplate, CountFailed, rowVars, historyVars
<1> QED  BY <1>1, <1>2, <1>3, <1>4, <1>5, <1>6, <1>7, <1>8 DEF TypeOK

LEMMA CreateDeploymentType ==
  ASSUME TypeOK, StatusAgrees, NEW e \in Executors, CreateDeployment(e)
  PROVE  TypeOK'
<1>1. /\ status' \in {"pending", "running", "cancelled", "completed"}
      /\ stored' \in Counts
      /\ template' \in [Services -> {"none", "cluster", "bare"}]
  BY DEF TypeOK, Counts, CreateDeployment, CountCompleted, CountFailed, rowVars, historyVars
<1>2. faults' \in 0..MaxFaults
  BY DEF TypeOK, Fault, CreateDeployment, CountCompleted, CountFailed, rowVars, historyVars
<1>3. pc' \in [Executors -> InFlight \union {"idle", "done", "lost"}]
  BY DEF TypeOK, Goto, InFlight, Looping, CreateDeployment, CountCompleted, CountFailed, rowVars, historyVars
<1>4. at' \in [Executors -> 1..(N + 1)]
  <2>1. pc[e] \in {"list", "create", "enqueue"} => at[e] \in 1..N
    BY DEF StatusAgrees, Looping, Services
  <2> QED  BY <2>1 DEF TypeOK, Goto, CreateDeployment, CountCompleted, CountFailed, rowVars, historyVars
<1>5. completed' \in [Executors -> Nat] /\ failed' \in [Executors -> Nat]
  BY DEF TypeOK, CreateDeployment, CountCompleted, CountFailed, rowVars, historyVars
<1>6. deploy' \in [Executors -> [Services -> {"none", "row", "job", "direct"}]]
  BY SMTT(30) DEF TypeOK, CreateDeployment, CountCompleted, CountFailed, rowVars, historyVars
<1>7. late' \in [Executors -> Nat]
  BY DEF TypeOK, CreateDeployment, CountCompleted, CountFailed, rowVars, historyVars
<1>8. cancel' \in {"none", "quiet", "raced"} /\ raced' \in BOOLEAN
  BY DEF TypeOK, CreateDeployment, CountCompleted, CountFailed, rowVars, historyVars
<1> QED  BY <1>1, <1>2, <1>3, <1>4, <1>5, <1>6, <1>7, <1>8 DEF TypeOK

LEMMA EnqueueType ==
  ASSUME TypeOK, StatusAgrees, NEW e \in Executors, Enqueue(e)
  PROVE  TypeOK'
<1>1. /\ status' \in {"pending", "running", "cancelled", "completed"}
      /\ stored' \in Counts
      /\ template' \in [Services -> {"none", "cluster", "bare"}]
  BY DEF TypeOK, Counts, Enqueue, CountCompleted, rowVars, historyVars
<1>2. faults' \in 0..MaxFaults
  BY DEF TypeOK, Fault, Enqueue, CountCompleted, rowVars, historyVars
<1>3. pc' \in [Executors -> InFlight \union {"idle", "done", "lost"}]
  BY DEF TypeOK, Goto, InFlight, Looping, Enqueue, CountCompleted, rowVars, historyVars
<1>4. at' \in [Executors -> 1..(N + 1)]
  <2>1. pc[e] \in {"list", "create", "enqueue"} => at[e] \in 1..N
    BY DEF StatusAgrees, Looping, Services
  <2> QED  BY <2>1 DEF TypeOK, Goto, Enqueue, CountCompleted, rowVars, historyVars
<1>5. completed' \in [Executors -> Nat] /\ failed' \in [Executors -> Nat]
  BY DEF TypeOK, Enqueue, CountCompleted, rowVars, historyVars
<1>6. deploy' \in [Executors -> [Services -> {"none", "row", "job", "direct"}]]
  <2>1. PICK v \in {"job", "direct"} : deploy' = [deploy EXCEPT ![e][at[e]] = v]
    BY DEF Enqueue
  <2> QED  BY <2>1 DEF TypeOK
<1>7. late' \in [Executors -> Nat]
  BY DEF TypeOK, Enqueue, CountCompleted, rowVars, historyVars
<1>8. cancel' \in {"none", "quiet", "raced"} /\ raced' \in BOOLEAN
  BY DEF TypeOK, Enqueue, CountCompleted, rowVars, historyVars
<1> QED  BY <1>1, <1>2, <1>3, <1>4, <1>5, <1>6, <1>7, <1>8 DEF TypeOK

LEMMA FinishType ==
  ASSUME TypeOK, StatusAgrees, NEW e \in Executors, Finish(e)
  PROVE  TypeOK'
<1>1. /\ status' \in {"pending", "running", "cancelled", "completed"}
      /\ stored' \in Counts
      /\ template' \in [Services -> {"none", "cluster", "bare"}]
  BY DEF TypeOK, Counts, Finish, historyVars
<1>2. faults' \in 0..MaxFaults
  BY DEF TypeOK, Fault, Finish, historyVars
<1>3. pc' \in [Executors -> InFlight \union {"idle", "done", "lost"}]
  BY DEF TypeOK, Goto, InFlight, Looping, Finish, historyVars
<1>4. at' \in [Executors -> 1..(N + 1)]
  <2>1. pc[e] \in {"list", "create", "enqueue"} => at[e] \in 1..N
    BY DEF StatusAgrees, Looping, Services
  <2> QED  BY <2>1 DEF TypeOK, Goto, Finish, historyVars
<1>5. completed' \in [Executors -> Nat] /\ failed' \in [Executors -> Nat]
  BY DEF TypeOK, Finish, historyVars
<1>6. deploy' \in [Executors -> [Services -> {"none", "row", "job", "direct"}]]
  BY SMTT(30) DEF TypeOK, Finish, historyVars
<1>7. late' \in [Executors -> Nat]
  BY DEF TypeOK, Finish, historyVars
<1>8. cancel' \in {"none", "quiet", "raced"} /\ raced' \in BOOLEAN
  BY DEF TypeOK, Finish, historyVars
<1> QED  BY <1>1, <1>2, <1>3, <1>4, <1>5, <1>6, <1>7, <1>8 DEF TypeOK

-----------------------------------------------------------------------------
(* The rows and the counters *)

\* Steps that touch neither.
LEMMA CountsKept ==
  ASSUME TypeOK, CountsMatchRows, NoRowForgotten,
         UNCHANGED <<template, at, completed, failed, deploy>>,
         \A f \in Executors : pc[f] \in {"enqueue", "lost"} => pc'[f] \in {"enqueue", "lost"}
  PROVE  CountsMatchRows' /\ NoRowForgotten'
<1>1. \A f \in Executors : Rows(f)' = Rows(f)
  BY DEF Rows
<1>2. CountsMatchRows'
  BY <1>1 DEF CountsMatchRows, Counted
<1>3. NoRowForgotten'
  BY DEF NoRowForgotten
<1> QED  BY <1>2, <1>3

\* A step of one execution leaves the others' alone.
LEMMA OthersCounted ==
  ASSUME TypeOK, CountsMatchRows, NEW e \in Executors, NEW f \in Executors,
         pc'[f] = pc[f], at'[f] = at[f], completed'[f] = completed[f],
         failed'[f] = failed[f], deploy'[f] = deploy[f]
  PROVE  Counted(f)'
<1>1. Rows(f)' = Rows(f)
  BY DEF Rows
<1> QED  BY <1>1 DEF CountsMatchRows, Counted

LEMMA RowsAfter ==
  ASSUME TypeOK, NEW e \in Executors, NEW v \in {"row", "job", "direct"},
         at[e] \in Services, deploy' = [deploy EXCEPT ![e][at[e]] = v]
  PROVE  Rows(e)' = Rows(e) \union {at[e]}
<1>1. /\ deploy \in [Executors -> [Services -> {"none", "row", "job", "direct"}]]
      /\ at[e] \in Services
  BY DEF TypeOK
<1>2. \A n \in Services : deploy'[e][n] = IF n = at[e] THEN v ELSE deploy[e][n]
  BY <1>1
<1> QED  BY <1>2 DEF Rows

\* What the counters of an execution go through at each of its services.
LEMMA Skipped ==
  ASSUME NEW e \in Executors, TypeOK, Counted(e), at[e] \in Services,
         pc[e] \in {"list", "create"}, CountFailed(e), UNCHANGED deploy
  PROVE  Counted(e)'
<1>1. Rows(e)' = Rows(e)
  BY DEF Rows
<1>2. at[e] \in Nat /\ completed[e] \in Nat /\ failed[e] \in Nat
  BY DEF TypeOK
<1>3. at'[e] = at[e] + 1 /\ failed'[e] = failed[e] + 1 /\ completed'[e] = completed[e]
  BY DEF CountFailed, TypeOK
<1>4. Rows(e) \ {at[e] + 1} = Rows(e) \ {at[e]} /\ at[e] + 1 \notin Rows(e)
  BY <1>2 DEF Counted
<1>5. Rows(e)' \subseteq 1..at'[e] /\ at'[e] \notin Rows(e)'
  BY <1>1, <1>2, <1>3 DEF Counted
<1>6. Cardinality(Rows(e)' \ {at'[e]}) = completed'[e]
  BY <1>1, <1>3, <1>4 DEF Counted
<1>7. completed'[e] + failed'[e] = at'[e] - 1
  BY <1>2, <1>3 DEF Counted
<1> QED  BY <1>5, <1>6, <1>7 DEF Counted

LEMMA Deployed ==
  ASSUME NEW e \in Executors, TypeOK, Counted(e), at[e] \in Services,
         Rows(e)' = Rows(e) \union {at[e]}, CountCompleted(e)
  PROVE  Counted(e)'
<1>1. at[e] \in Nat /\ completed[e] \in Nat /\ failed[e] \in Nat
  BY DEF TypeOK
<1>2. at'[e] = at[e] + 1 /\ failed'[e] = failed[e] /\ completed'[e] = completed[e] + 1
  BY DEF CountCompleted, TypeOK
<1>3. /\ Rows(e)' \ {at[e] + 1} = (Rows(e) \ {at[e]}) \union {at[e]}
      /\ at[e] + 1 \notin Rows(e)'
  BY <1>1 DEF Counted
<1>4. IsFiniteSet(Rows(e) \ {at[e]})
  <2>1. IsFiniteSet(1..N)
    <3>1. N \in Int /\ 1 \in Int
      BY BatchAssumption
    <3> QED  BY <3>1, FS_Interval
  <2>2. Rows(e) \ {at[e]} \in SUBSET (1..N)
    BY DEF Rows, Services
  <2> QED  BY <2>1, <2>2, FS_Subset
<1>5. Cardinality((Rows(e) \ {at[e]}) \union {at[e]}) = completed[e] + 1
  BY <1>4, FS_AddElement DEF Counted
<1>6. Rows(e)' \subseteq 1..at'[e] /\ at'[e] \notin Rows(e)'
  BY <1>1, <1>2, <1>3 DEF Counted, Services
<1>7. Cardinality(Rows(e)' \ {at'[e]}) = completed'[e]
  BY <1>2, <1>3, <1>5
<1>8. completed'[e] + failed'[e] = at'[e] - 1
  BY <1>1, <1>2 DEF Counted
<1> QED  BY <1>6, <1>7, <1>8 DEF Counted

LEMMA Inserted ==
  ASSUME NEW e \in Executors, TypeOK, Counted(e), at[e] \in Services,
         Rows(e)' = Rows(e) \union {at[e]}, pc'[e] = "enqueue",
         UNCHANGED <<at, completed, failed>>
  PROVE  Counted(e)'
<1>1. at[e] \in Nat
  BY DEF TypeOK
<1>2. Rows(e)' \ {at[e]} = Rows(e) \ {at[e]} /\ Rows(e)' \subseteq 1..at[e]
  BY <1>1 DEF Counted, Services
<1> QED  BY <1>2 DEF Counted

LEMMA InTheLoop ==
  ASSUME StatusAgrees, NEW e \in Executors, pc[e] \in {"list", "create", "enqueue"}
  PROVE  at[e] \in Services
BY DEF StatusAgrees, Looping

LEMMA FindTemplateCounts ==
  ASSUME IInv, NEW e \in Executors, FindTemplate(e)
  PROVE  CountsMatchRows' /\ NoRowForgotten'
<1> USE DEF IInv
<1>1. at[e] \in Services /\ pc[e] = "list" /\ Counted(e)
  BY InTheLoop DEF FindTemplate, Goto, CountsMatchRows
<1>2. UNCHANGED <<template, deploy>>
  BY DEF FindTemplate, rowVars
<1>3. \A f \in Executors \ {e} : Counted(f)'
  <2> SUFFICES ASSUME NEW f \in Executors \ {e}  PROVE Counted(f)'
    OBVIOUS
  <2>1. /\ pc'[f] = pc[f] /\ at'[f] = at[f] /\ completed'[f] = completed[f]
        /\ failed'[f] = failed[f] /\ deploy'[f] = deploy[f]
    BY DEF FindTemplate, Goto, CountFailed, TypeOK
  <2> QED  BY <2>1, OthersCounted
<1>4. Counted(e)'
  <2>1. CASE CountFailed(e)
    BY <2>1, <1>1, <1>2, Skipped
  <2>2. CASE UNCHANGED <<at, completed, failed>>
    <3>1. Rows(e)' = Rows(e) /\ at[e] \notin Rows(e)
      BY <1>1, <1>2 DEF Rows, Counted
    <3> QED  BY <2>2, <3>1, <1>1 DEF Counted
  <2> QED  BY <2>1, <2>2 DEF FindTemplate
<1>5. NoRowForgotten'
  <2>1. \A n \in Services : deploy[e][n] = "row" /\ template[n] = "cluster" => FALSE
    BY <1>1 DEF NoRowForgotten
  <2>2. \A f \in Executors \ {e} : pc'[f] = pc[f] /\ at'[f] = at[f]
    BY DEF FindTemplate, Goto, CountFailed, TypeOK
  <2> QED  BY <1>2, <2>1, <2>2 DEF NoRowForgotten
<1> QED  BY <1>3, <1>4, <1>5 DEF CountsMatchRows

LEMMA CreateDeploymentCounts ==
  ASSUME IInv, NEW e \in Executors, CreateDeployment(e)
  PROVE  CountsMatchRows' /\ NoRowForgotten'
<1> USE DEF IInv
<1>1. at[e] \in Services /\ pc[e] = "create" /\ Counted(e)
  BY InTheLoop DEF CreateDeployment, Goto, CountsMatchRows
<1>2. /\ UNCHANGED template
      /\ \/ UNCHANGED deploy /\ CountFailed(e)
         \/ /\ deploy' = [deploy EXCEPT ![e][at[e]] = "row"]
            /\ \/ CountCompleted(e) /\ template[at[e]] = "bare"
               \/ UNCHANGED <<at, completed, failed>> /\ pc'[e] = "enqueue"
  BY DEF CreateDeployment, Goto, rowVars, TypeOK
<1>3. \A f \in Executors \ {e} :
        /\ pc'[f] = pc[f] /\ at'[f] = at[f] /\ completed'[f] = completed[f]
        /\ failed'[f] = failed[f] /\ deploy'[f] = deploy[f]
  <2>1. \A f \in Executors \ {e} : pc'[f] = pc[f]
    BY DEF CreateDeployment, Goto, TypeOK
  <2>2. \A f \in Executors \ {e} :
          at'[f] = at[f] /\ completed'[f] = completed[f] /\ failed'[f] = failed[f]
    BY <1>2 DEF CountFailed, CountCompleted, TypeOK
  <2>3. \A f \in Executors \ {e} : deploy'[f] = deploy[f]
    BY <1>2 DEF TypeOK
  <2> QED  BY <2>1, <2>2, <2>3
<1>4. \A f \in Executors \ {e} : Counted(f)'
  BY <1>3, OthersCounted
<1>5. Counted(e)'
  <2>1. CASE UNCHANGED deploy /\ CountFailed(e)
    BY <2>1, <1>1, Skipped
  <2>2. CASE deploy' = [deploy EXCEPT ![e][at[e]] = "row"]
    <3>1. Rows(e)' = Rows(e) \union {at[e]}
      BY <2>2, <1>1, RowsAfter
    <3> QED  BY <3>1, <2>2, <1>1, <1>2, Deployed, Inserted, Skipped
  <2> QED  BY <2>1, <2>2, <1>2
<1>6. NoRowForgotten'
  <2>1. \A n \in Services : deploy[e][n] = "row" /\ template[n] = "cluster" => FALSE
    BY <1>1 DEF NoRowForgotten
  <2>2. \A n \in Services : deploy'[e][n] = "row" => deploy[e][n] = "row" \/ n = at[e]
    BY <1>2 DEF TypeOK
  <2>3. \A n \in Services : deploy'[e][n] = "row" /\ template'[n] = "cluster" =>
          n = at'[e] /\ pc'[e] \in {"enqueue", "lost"}
    BY <1>2, <2>1, <2>2
  <2>4. \A f \in Executors \ {e}, n \in Services :
          deploy'[f][n] = "row" /\ template'[n] = "cluster" =>
            n = at'[f] /\ pc'[f] \in {"enqueue", "lost"}
    BY <1>2, <1>3 DEF NoRowForgotten
  <2> QED  BY <2>3, <2>4 DEF NoRowForgotten
<1> QED  BY <1>4, <1>5, <1>6 DEF CountsMatchRows

LEMMA EnqueueCounts ==
  ASSUME IInv, NEW e \in Executors, Enqueue(e)
  PROVE  CountsMatchRows' /\ NoRowForgotten'
<1> USE DEF IInv
<1>1. at[e] \in Services /\ Counted(e)
  BY InTheLoop DEF Enqueue, Goto, CountsMatchRows
<1>2. /\ UNCHANGED template /\ CountCompleted(e)
      /\ pc' = [pc EXCEPT ![e] = "ask"]
  BY DEF Enqueue, Goto, rowVars
<1>3. PICK v \in {"job", "direct"} : deploy' = [deploy EXCEPT ![e][at[e]] = v]
  BY DEF Enqueue
<1>4. \A f \in Executors \ {e} :
        /\ pc'[f] = pc[f] /\ at'[f] = at[f] /\ completed'[f] = completed[f]
        /\ failed'[f] = failed[f] /\ deploy'[f] = deploy[f]
  <2>1. \A f \in Executors \ {e} :
          /\ pc'[f] = pc[f] /\ at'[f] = at[f] /\ completed'[f] = completed[f]
          /\ failed'[f] = failed[f]
    BY <1>2 DEF CountCompleted, TypeOK
  <2>2. \A f \in Executors \ {e} : deploy'[f] = deploy[f]
    BY <1>3 DEF TypeOK
  <2> QED  BY <2>1, <2>2
<1>5. \A f \in Executors \ {e} : Counted(f)'
  BY <1>4, OthersCounted
<1>6. Counted(e)'
  BY <1>1, <1>2, <1>3, RowsAfter, Deployed
<1>7. NoRowForgotten'
  <2>1. \A n \in Services : deploy'[e][n] = "row" => deploy[e][n] = "row" /\ n # at[e]
    BY <1>3 DEF TypeOK
  <2>2. \A n \in Services : ~(deploy'[e][n] = "row" /\ template'[n] = "cluster")
    BY <1>2, <2>1 DEF NoRowForgotten
  <2>3. \A f \in Executors \ {e}, n \in Services :
          deploy'[f][n] = "row" /\ template'[n] = "cluster" =>
            n = at'[f] /\ pc'[f] \in {"enqueue", "lost"}
    BY <1>2, <1>4 DEF NoRowForgotten
  <2> QED  BY <2>2, <2>3 DEF NoRowForgotten
<1> QED  BY <1>5, <1>6, <1>7 DEF CountsMatchRows

-----------------------------------------------------------------------------
(* The status *)

LEMMA ReadRowStartsNone ==
  ASSUME IInv, NEW e \in Executors, ReadRow(e), NEW f \in Executors, Deploying(f)'
  PROVE  Deploying(f)
<1>1. pc'[f] # pc[f] => pc'[f] \in {"mark", "done"}
  BY DEF ReadRow, Goto, IInv, TypeOK
<1>2. Rows(f)' = Rows(f)
  BY DEF ReadRow, Rows
<1> QED  BY <1>1, <1>2 DEF Deploying, Looping

LEMMA AskStartsNone ==
  ASSUME IInv, NEW e \in Executors, Ask(e), NEW f \in Executors, Deploying(f)'
  PROVE  Deploying(f)
<1>1. CASE f = e
  BY <1>1 DEF Ask, Goto, Deploying, Looping
<1>2. CASE f # e
  <2>1. pc'[f] = pc[f] /\ deploy'[f] = deploy[f]
    BY <1>2 DEF Ask, Goto, IInv, TypeOK
  <2> QED  BY <2>1 DEF Deploying, Rows
<1> QED  BY <1>1, <1>2

LEMMA AskedAllStartsNone ==
  ASSUME IInv, NEW e \in Executors, AskedAll(e), NEW f \in Executors, Deploying(f)'
  PROVE  Deploying(f)
<1>1. CASE f = e
  BY <1>1 DEF AskedAll, Goto, Deploying, Looping
<1>2. CASE f # e
  <2>1. pc'[f] = pc[f] /\ deploy'[f] = deploy[f]
    BY <1>2 DEF AskedAll, Goto, IInv, TypeOK
  <2> QED  BY <2>1 DEF Deploying, Rows
<1> QED  BY <1>1, <1>2

LEMMA FindTemplateStartsNone ==
  ASSUME IInv, NEW e \in Executors, FindTemplate(e), NEW f \in Executors, Deploying(f)'
  PROVE  Deploying(f)
<1>1. CASE f = e
  BY <1>1 DEF FindTemplate, Goto, Deploying, Looping
<1>2. CASE f # e
  <2>1. pc'[f] = pc[f] /\ deploy'[f] = deploy[f]
    BY <1>2 DEF FindTemplate, Goto, IInv, TypeOK
  <2> QED  BY <2>1 DEF Deploying, Rows
<1> QED  BY <1>1, <1>2

LEMMA CreateDeploymentStartsNone ==
  ASSUME IInv, NEW e \in Executors, CreateDeployment(e), NEW f \in Executors, Deploying(f)'
  PROVE  Deploying(f)
<1>1. CASE f = e
  BY <1>1 DEF CreateDeployment, Goto, Deploying, Looping
<1>2. CASE f # e
  <2>1. pc'[f] = pc[f] /\ deploy'[f] = deploy[f]
    BY <1>2 DEF CreateDeployment, Goto, IInv, TypeOK
  <2> QED  BY <2>1 DEF Deploying, Rows
<1> QED  BY <1>1, <1>2

LEMMA EnqueueStartsNone ==
  ASSUME IInv, NEW e \in Executors, Enqueue(e), NEW f \in Executors, Deploying(f)'
  PROVE  Deploying(f)
<1>1. CASE f = e
  BY <1>1 DEF Enqueue, Goto, Deploying, Looping
<1>2. CASE f # e
  <2>1. pc'[f] = pc[f] /\ deploy'[f] = deploy[f]
    BY <1>2 DEF Enqueue, Goto, IInv, TypeOK
  <2> QED  BY <2>1 DEF Deploying, Rows
<1> QED  BY <1>1, <1>2

LEMMA FinishStartsNone ==
  ASSUME IInv, NEW e \in Executors, Finish(e), NEW f \in Executors, Deploying(f)'
  PROVE  Deploying(f)
<1>1. CASE f = e
  BY <1>1 DEF Finish, Goto, Deploying, Looping
<1>2. CASE f # e
  <2>1. pc'[f] = pc[f] /\ deploy'[f] = deploy[f]
    BY <1>2 DEF Finish, Goto, IInv, TypeOK
  <2> QED  BY <2>1 DEF Deploying, Rows
<1> QED  BY <1>1, <1>2

LEMMA ReadRowStatus ==
  ASSUME IInv, NEW e \in Executors, ReadRow(e)
  PROVE  DeployedOnceUnlessRaced' /\ CancelStops' /\ StatusAgrees'
<1> USE DEF IInv
<1>1. \A f \in Executors : Deploying(f)' => Deploying(f)
  BY ReadRowStartsNone
<1>2. DeployedOnceUnlessRaced'
  BY <1>1 DEF DeployedOnceUnlessRaced, TypeOK, StatusAgrees, MayExecute, ReadRow, Goto, rowVars
<1>3. CancelStops'
  BY DEF CancelStops, TypeOK, StatusAgrees, InFlight, Looping, ReadRow, Goto, rowVars
<1>4. StatusAgrees'
  BY <1>1 DEF StatusAgrees, TypeOK, InFlight, Looping, MayExecute, CancelStops, ReadRow, Goto, rowVars
<1> QED  BY <1>2, <1>3, <1>4

LEMMA AskStatus ==
  ASSUME IInv, NEW e \in Executors, Ask(e)
  PROVE  DeployedOnceUnlessRaced' /\ CancelStops' /\ StatusAgrees'
<1> USE DEF IInv
<1>1. \A f \in Executors : Deploying(f)' => Deploying(f)
  BY AskStartsNone
<1>2. DeployedOnceUnlessRaced'
  BY <1>1 DEF DeployedOnceUnlessRaced, TypeOK, StatusAgrees, MayExecute, Ask, Goto, rowVars, historyVars
<1>3. CancelStops'
  BY DEF CancelStops, TypeOK, StatusAgrees, InFlight, Looping, Ask, Goto, rowVars, historyVars
<1>4. StatusAgrees'
  BY <1>1 DEF StatusAgrees, TypeOK, InFlight, Looping, MayExecute, CancelStops, Ask, Goto, rowVars, historyVars
<1> QED  BY <1>2, <1>3, <1>4

LEMMA AskedAllStatus ==
  ASSUME IInv, NEW e \in Executors, AskedAll(e)
  PROVE  DeployedOnceUnlessRaced' /\ CancelStops' /\ StatusAgrees'
<1> USE DEF IInv
<1>1. \A f \in Executors : Deploying(f)' => Deploying(f)
  BY AskedAllStartsNone
<1>2. DeployedOnceUnlessRaced'
  BY <1>1 DEF DeployedOnceUnlessRaced, TypeOK, StatusAgrees, MayExecute, AskedAll, Goto, rowVars, historyVars
<1>3. CancelStops'
  BY DEF CancelStops, TypeOK, StatusAgrees, InFlight, Looping, AskedAll, Goto, rowVars, historyVars
<1>4. StatusAgrees'
  BY <1>1 DEF StatusAgrees, TypeOK, InFlight, Looping, MayExecute, CancelStops, AskedAll, Goto, rowVars, historyVars
<1> QED  BY <1>2, <1>3, <1>4

LEMMA FindTemplateStatus ==
  ASSUME IInv, NEW e \in Executors, FindTemplate(e)
  PROVE  DeployedOnceUnlessRaced' /\ CancelStops' /\ StatusAgrees'
<1> USE DEF IInv
<1>1. \A f \in Executors : Deploying(f)' => Deploying(f)
  BY FindTemplateStartsNone
<1>2. DeployedOnceUnlessRaced'
  BY <1>1 DEF DeployedOnceUnlessRaced, TypeOK, StatusAgrees, MayExecute, FindTemplate, Goto, CountFailed, rowVars, historyVars
<1>3. CancelStops'
  BY DEF CancelStops, TypeOK, StatusAgrees, InFlight, Looping, FindTemplate, Goto, CountFailed, rowVars, historyVars
<1>4. StatusAgrees'
  BY <1>1 DEF StatusAgrees, TypeOK, InFlight, Looping, MayExecute, CancelStops, FindTemplate, Goto, CountFailed, rowVars, historyVars
<1> QED  BY <1>2, <1>3, <1>4

LEMMA CreateDeploymentStatus ==
  ASSUME IInv, NEW e \in Executors, CreateDeployment(e)
  PROVE  DeployedOnceUnlessRaced' /\ CancelStops' /\ StatusAgrees'
<1> USE DEF IInv
<1>1. \A f \in Executors : Deploying(f)' => Deploying(f)
  BY CreateDeploymentStartsNone
<1>2. UNCHANGED <<status, cancel, raced>> /\ pc[e] = "create"
  BY DEF CreateDeployment, Goto, rowVars, historyVars
<1>3. \/ pc' = [pc EXCEPT ![e] = "ask"]
      \/ pc' = [pc EXCEPT ![e] = "enqueue"] /\ at' = at
  BY DEF CreateDeployment, Goto
<1>4. \A f \in Executors \ {e} : pc'[f] = pc[f] /\ at'[f] = at[f] /\ late'[f] = late[f]
  <2>1. \A f \in Executors \ {e} : pc'[f] = pc[f]
    BY <1>3 DEF TypeOK
  <2>2. \A f \in Executors \ {e} : at'[f] = at[f]
    BY DEF CreateDeployment, CountCompleted, CountFailed, TypeOK
  <2>3. \A f \in Executors \ {e} : late'[f] = late[f]
    BY DEF CreateDeployment, historyVars, TypeOK
  <2> QED  BY <2>1, <2>2, <2>3
<1>5. status = "cancelled" => late[e] = 0 /\ late'[e] <= 1
  <2>1. status = "cancelled" => late[e] = 0
    BY <1>2 DEF StatusAgrees
  <2> QED  BY <2>1 DEF CreateDeployment, historyVars, TypeOK
<1>6. DeployedOnceUnlessRaced'
  BY <1>1, <1>2 DEF DeployedOnceUnlessRaced
<1>7. CancelStops'
  BY <1>2, <1>4, <1>5 DEF CancelStops
<1>8. StatusAgrees'
  <2>1. pc'[e] \in {"ask", "enqueue"} /\ (pc'[e] = "enqueue" => at'[e] = at[e])
    BY <1>3 DEF TypeOK
  <2>2. at[e] \in Services
    BY <1>2, InTheLoop
  <2> QED
    BY <1>1, <1>2, <1>4, <2>1, <2>2 DEF StatusAgrees, InFlight, Looping
<1> QED  BY <1>6, <1>7, <1>8

LEMMA EnqueueStatus ==
  ASSUME IInv, NEW e \in Executors, Enqueue(e)
  PROVE  DeployedOnceUnlessRaced' /\ CancelStops' /\ StatusAgrees'
<1> USE DEF IInv
<1>1. \A f \in Executors : Deploying(f)' => Deploying(f)
  BY EnqueueStartsNone
<1>2. DeployedOnceUnlessRaced'
  BY <1>1 DEF DeployedOnceUnlessRaced, TypeOK, StatusAgrees, MayExecute, Enqueue, Goto, CountCompleted, rowVars, historyVars
<1>3. CancelStops'
  BY DEF CancelStops, TypeOK, StatusAgrees, InFlight, Looping, Enqueue, Goto, CountCompleted, rowVars, historyVars
<1>4. StatusAgrees'
  BY <1>1 DEF StatusAgrees, TypeOK, InFlight, Looping, MayExecute, CancelStops, Enqueue, Goto, CountCompleted, rowVars, historyVars
<1> QED  BY <1>2, <1>3, <1>4

LEMMA FinishStatus ==
  ASSUME IInv, NEW e \in Executors, Finish(e)
  PROVE  DeployedOnceUnlessRaced' /\ CancelStops' /\ StatusAgrees'
<1> USE DEF IInv
<1>1. \A f \in Executors : Deploying(f)' => Deploying(f)
  BY FinishStartsNone
<1>2. DeployedOnceUnlessRaced'
  BY <1>1 DEF DeployedOnceUnlessRaced, TypeOK, StatusAgrees, MayExecute, Finish, Goto, historyVars
<1>3. CancelStops'
  BY DEF CancelStops, TypeOK, StatusAgrees, InFlight, Looping, Finish, Goto, historyVars
<1>4. StatusAgrees'
  BY <1>1 DEF StatusAgrees, TypeOK, InFlight, Looping, MayExecute, CancelStops, Finish, Goto, historyVars
<1> QED  BY <1>2, <1>3, <1>4

LEMMA MarkRunningStatus ==
  ASSUME IInv, NEW e \in Executors, MarkRunning(e)
  PROVE  DeployedOnceUnlessRaced' /\ CancelStops' /\ StatusAgrees'
<1> USE DEF IInv
<1>1. /\ pc[e] = "mark" /\ UNCHANGED <<at, late, cancel, raced>>
      /\ \/ pc' = [pc EXCEPT ![e] = "ask"] /\ status' = "running"
         \/ pc' = [pc EXCEPT ![e] = "done"] /\ UNCHANGED status
  BY DEF MarkRunning, Goto, rowVars, historyVars
<1>2. cancel # "quiet"
  BY <1>1 DEF StatusAgrees, InFlight
<1>3. \A f \in Executors : pc'[f] # pc[f] => f = e
  BY <1>1 DEF TypeOK
<1>4. \A f \in Executors : Deploying(f)' => Deploying(f) \/ f = e
  <2>1. deploy' = deploy
    BY DEF MarkRunning
  <2> QED  BY <1>3, <2>1 DEF Deploying, Rows
<1>5. pc'[e] = "done" => ~Deploying(e)'
  <2>1. Rows(e) = {} /\ deploy' = deploy
    BY <1>1 DEF StatusAgrees, Deploying, MarkRunning
  <2> QED  BY <2>1 DEF Deploying, Rows, Looping
<1>6. pc'[e] \in {"ask", "done"}
  BY <1>1 DEF TypeOK
<1>7. ~raced => \A f \in Executors : pc[f] = "mark" \/ Deploying(f) => f = e
  BY <1>1 DEF StatusAgrees
<1>8. DeployedOnceUnlessRaced'
  BY <1>1, <1>4, <1>7 DEF DeployedOnceUnlessRaced
<1>9. CancelStops'
  BY <1>1, <1>2 DEF CancelStops
<1>10. StatusAgrees'
  <2>1. status' = "pending" => \A f \in Executors : ~Deploying(f)'
    BY <1>1, <1>4, <1>5, <1>6 DEF StatusAgrees, TypeOK
  <2>2. \A f \in Executors : pc'[f] \in {"idle", "mark"} => at'[f] = 1 /\ ~Deploying(f)'
    BY <1>1, <1>3, <1>4, <1>6 DEF StatusAgrees
  <2>3. status' = "cancelled" => \A f \in Executors :
          pc'[f] \in {"list", "create"} => late'[f] = 0
    BY <1>1, <1>3, <1>6 DEF StatusAgrees
  <2>4. \A f \in Executors : pc'[f] \in Looping \ {"ask"} => at'[f] \in Services
    BY <1>1, <1>3, <1>6 DEF StatusAgrees, Looping
  <2>5. ~raced' => \A f, g \in Executors :
          pc'[f] = "mark" /\ (pc'[g] = "mark" \/ Deploying(g)') => f = g
    BY <1>1, <1>3, <1>6, <1>7
  <2> QED  BY <1>1, <1>2, <2>1, <2>2, <2>3, <2>4, <2>5 DEF StatusAgrees
<1> QED  BY <1>8, <1>9, <1>10

LEMMA CancelBatchStatus ==
  ASSUME IInv, CancelBatch
  PROVE  DeployedOnceUnlessRaced' /\ CancelStops' /\ StatusAgrees'
<1> USE DEF IInv
<1>1. /\ status' = "cancelled" /\ UNCHANGED <<pc, at, deploy, raced>>
      /\ \A f \in Executors : late'[f] = 0
      /\ cancel' = "quiet" => \A f \in Executors : pc[f] \notin InFlight
  BY DEF CancelBatch, execVars
<1>2. \A f \in Executors : Deploying(f)' = Deploying(f)
  BY <1>1 DEF Deploying, Rows
<1>3. DeployedOnceUnlessRaced'
  BY <1>1, <1>2 DEF DeployedOnceUnlessRaced
<1>4. CancelStops'
  BY <1>1 DEF CancelStops
<1>5. StatusAgrees'
  BY <1>1, <1>2 DEF StatusAgrees
<1> QED  BY <1>3, <1>4, <1>5

LEMMA CrashStatus ==
  ASSUME IInv, Crash
  PROVE  DeployedOnceUnlessRaced' /\ CancelStops' /\ StatusAgrees'
<1> USE DEF IInv
<1>1. /\ UNCHANGED <<status, at, deploy, late, cancel, raced>>
      /\ \A f \in Executors : pc'[f] = IF pc[f] \in InFlight THEN "lost" ELSE pc[f]
  BY DEF Crash, rowVars, historyVars
<1>2. \A f \in Executors : Deploying(f)' => Deploying(f)
  BY <1>1 DEF Deploying, Rows, Looping
<1>3. DeployedOnceUnlessRaced'
  BY <1>1, <1>2 DEF DeployedOnceUnlessRaced
<1>4. CancelStops'
  BY <1>1 DEF CancelStops
<1>5. StatusAgrees'
  BY <1>1, <1>2 DEF StatusAgrees, InFlight, Looping
<1> QED  BY <1>3, <1>4, <1>5

-----------------------------------------------------------------------------
(* The invariant *)

LEMMA ExecutorStep ==
  ASSUME IInv, NEW e \in Executors, ReadRow(e) \/ Execution(e)
  PROVE  IInv'
<1> USE DEF IInv
<1>1. CASE ReadRow(e)
  <2>1. /\ UNCHANGED <<template, at, completed, failed, deploy>>
        /\ \A f \in Executors : pc[f] \in {"enqueue", "lost"} => pc'[f] \in {"enqueue", "lost"}
    BY <1>1 DEF ReadRow, Goto, rowVars, TypeOK
  <2> QED  BY <1>1, <2>1, CountsKept, ReadRowType, ReadRowStatus
<1>2. CASE MarkRunning(e)
  <2>1. /\ UNCHANGED <<template, at, completed, failed, deploy>>
        /\ \A f \in Executors : pc[f] \in {"enqueue", "lost"} => pc'[f] \in {"enqueue", "lost"}
    BY <1>2 DEF MarkRunning, Goto, rowVars, TypeOK
  <2> QED  BY <1>2, <2>1, CountsKept, MarkRunningType, MarkRunningStatus
<1>3. CASE Ask(e)
  <2>1. /\ UNCHANGED <<template, at, completed, failed, deploy>>
        /\ \A f \in Executors : pc[f] \in {"enqueue", "lost"} => pc'[f] \in {"enqueue", "lost"}
    BY <1>3 DEF Ask, Goto, rowVars, TypeOK
  <2> QED  BY <1>3, <2>1, CountsKept, AskType, AskStatus
<1>4. CASE AskedAll(e)
  <2>1. /\ UNCHANGED <<template, at, completed, failed, deploy>>
        /\ \A f \in Executors : pc[f] \in {"enqueue", "lost"} => pc'[f] \in {"enqueue", "lost"}
    BY <1>4 DEF AskedAll, Goto, rowVars, TypeOK
  <2> QED  BY <1>4, <2>1, CountsKept, AskedAllType, AskedAllStatus
<1>5. CASE FindTemplate(e)
  BY <1>5, FindTemplateType, FindTemplateCounts, FindTemplateStatus
<1>6. CASE CreateDeployment(e)
  BY <1>6, CreateDeploymentType, CreateDeploymentCounts, CreateDeploymentStatus
<1>7. CASE Enqueue(e)
  BY <1>7, EnqueueType, EnqueueCounts, EnqueueStatus
<1>8. CASE Finish(e)
  <2>1. /\ UNCHANGED <<template, at, completed, failed, deploy>>
        /\ \A f \in Executors : pc[f] \in {"enqueue", "lost"} => pc'[f] \in {"enqueue", "lost"}
    BY <1>8 DEF Finish, Goto, rowVars, TypeOK
  <2> QED  BY <1>8, <2>1, CountsKept, FinishType, FinishStatus
<1> QED  BY <1>1, <1>2, <1>3, <1>4, <1>5, <1>6, <1>7, <1>8 DEF Execution

LEMMA CancelBatchStep ==
  ASSUME IInv, CancelBatch
  PROVE  IInv'
<1>1. TypeOK'
  BY DEF IInv, TypeOK, CancelBatch, execVars
<1>2. CountsMatchRows' /\ NoRowForgotten'
  BY CountsKept DEF IInv, CancelBatch, execVars
<1> QED  BY <1>1, <1>2, CancelBatchStatus DEF IInv

LEMMA CrashStep ==
  ASSUME IInv, Crash
  PROVE  IInv'
<1>1. TypeOK'
  <2>1. pc' \in [Executors -> InFlight \union {"idle", "done", "lost"}]
    BY DEF IInv, TypeOK, Crash
  <2> QED  BY <2>1 DEF IInv, TypeOK, Crash, Fault, rowVars, historyVars
<1>2. /\ UNCHANGED <<template, at, completed, failed, deploy>>
      /\ \A f \in Executors : pc[f] \in {"enqueue", "lost"} => pc'[f] \in {"enqueue", "lost"}
  BY DEF Crash, rowVars, InFlight
<1>3. CountsMatchRows' /\ NoRowForgotten'
  BY <1>2, CountsKept DEF IInv
<1> QED  BY <1>1, <1>3, CrashStatus DEF IInv

LEMMA StutterStep ==
  ASSUME IInv, UNCHANGED vars
  PROVE  IInv'
<1> USE DEF vars, rowVars, execVars, historyVars
<1>1. TypeOK'
  BY DEF IInv, TypeOK
<1>2. CountsMatchRows' /\ NoRowForgotten'
  BY CountsKept DEF IInv
<1>3. \A f \in Executors : Deploying(f)' = Deploying(f)
  BY DEF Deploying, Rows
<1>4. DeployedOnceUnlessRaced' /\ CancelStops' /\ StatusAgrees'
  BY <1>3 DEF IInv, DeployedOnceUnlessRaced, CancelStops, StatusAgrees
<1> QED  BY <1>1, <1>2, <1>4 DEF IInv

LEMMA InitIInv == Init => IInv
<1> SUFFICES ASSUME Init  PROVE IInv
  OBVIOUS
<1>1. TypeOK
  <2>1. at \in [Executors -> 1..(N + 1)] /\ faults \in 0..MaxFaults
    BY DEF Init
  <2>2. deploy \in [Executors -> [Services -> {"none", "row", "job", "direct"}]]
    BY DEF Init
  <2>3. stored \in Counts
    BY DEF Init, Counts
  <2> QED  BY <2>1, <2>2, <2>3 DEF Init, TypeOK
<1>2. \A e \in Executors : Rows(e) = {} /\ pc[e] = "idle" /\ at[e] = 1
  BY DEF Init, Rows
<1>3. CountsMatchRows
  <2> SUFFICES ASSUME NEW e \in Executors  PROVE Counted(e)
    BY DEF CountsMatchRows
  <2>1. Cardinality(Rows(e) \ {at[e]}) = 0
    BY <1>2, FS_EmptySet
  <2> QED  BY <1>2, <2>1 DEF Counted, Init
<1>4. NoRowForgotten
  BY DEF Init, NoRowForgotten
<1>5. \A e \in Executors : ~Deploying(e)
  BY <1>2 DEF Deploying, Looping
<1>6. DeployedOnceUnlessRaced /\ CancelStops
  BY <1>5 DEF Init, DeployedOnceUnlessRaced, CancelStops
<1>7. StatusAgrees
  BY <1>2, <1>5 DEF Init, StatusAgrees, Looping
<1> QED  BY <1>1, <1>3, <1>4, <1>6, <1>7 DEF IInv

\* Whatever the number of services and of requests, and wherever statements
\* fail and processes die.
THEOREM BatchInvariance == Spec => []IInv
<1>1. IInv /\ [Next]_vars => IInv'
  BY ExecutorStep, CancelBatchStep, CrashStep, StutterStep DEF Next
<1> QED  BY <1>1, InitIInv, PTL DEF Spec

\* At most one execution deploys the batch, unless two read the row before
\* either marked it (ExecuteBatchOperation).
THEOREM DeploysOnce == Spec => []DeployedOnceUnlessRaced
<1>1. IInv => DeployedOnceUnlessRaced
  BY DEF IInv
<1> QED  BY <1>1, BatchInvariance, PTL

\* A cancel ends each execution after one more service, and stands for good
\* when no execution is at work (CancelBatchOperation).
THEOREM CancelStopsBatch == Spec => []CancelStops
<1>1. IInv => CancelStops
  BY DEF IInv
<1> QED  BY <1>1, BatchInvariance, PTL
=============================================================================
