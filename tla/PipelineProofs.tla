--------------------------- MODULE PipelineProofs ---------------------------
(***************************************************************************)
(* Proofs about PipelineRuns for every set of runs, triggers, requests and *)
(* source types: the inductive invariant that its run checks, and that an  *)
(* outcome is announced.                                                   *)
(***************************************************************************)
EXTENDS PipelineRuns, TLAPS

USE PipelineAssumption

-----------------------------------------------------------------------------
(* Types *)

LEMMA RemoteStartType ==
  ASSUME TypeOK, NEW x \in Runs, RemoteStart(x)
  PROVE  TypeOK'
BY DEF TypeOK, RemoteStart, FirstState, ciVars, historyVars, RemoteStates, InFlight,
       Snapshot, ExternalIds, Statuses, RowIds

LEMMA RemoteRunType ==
  ASSUME TypeOK, NEW x \in Runs, RemoteRun(x)
  PROVE  TypeOK'
BY DEF TypeOK, RemoteRun, ciVars, historyVars, RemoteStates, InFlight,
       Snapshot, ExternalIds, Statuses, RowIds

LEMMA RemoteEndType ==
  ASSUME TypeOK, NEW x \in Runs, RemoteEnd(x)
  PROVE  TypeOK'
BY DEF TypeOK, RemoteEnd, Outcomes, ciVars, historyVars, RemoteStates, InFlight,
       Snapshot, ExternalIds, Statuses, RowIds

LEMMA ForgetType ==
  ASSUME TypeOK, NEW x \in Runs, Forget(x)
  PROVE  TypeOK'
BY DEF TypeOK, Forget, ciVars, historyVars, RemoteStates, InFlight,
       Snapshot, ExternalIds, Statuses, RowIds

LEMMA CreateType ==
  ASSUME TypeOK, NEW t \in Triggers, Create(t)
  PROVE  TypeOK'
BY DEF TypeOK, Create, Goto, NoId, Id, ciVars, historyVars, RemoteStates, InFlight,
       Snapshot, ExternalIds, Statuses, RowIds

LEMMA AgentCreateType ==
  ASSUME TypeOK, NEW t \in Triggers, AgentCreate(t)
  PROVE  TypeOK'
BY DEF TypeOK, AgentCreate, Goto, NoId, Id, ciVars, historyVars, RemoteStates, InFlight,
       Snapshot, ExternalIds, Statuses, RowIds

LEMMA SendType ==
  ASSUME TypeOK, NEW t \in Triggers, NEW x \in Runs, Send(t, x)
  PROVE  TypeOK'
BY DEF TypeOK, Send, Goto, FirstState, ciVars, historyVars, RemoteStates, InFlight,
       Snapshot, ExternalIds, Statuses, RowIds

LEMMA DeadlineType ==
  ASSUME TypeOK, NEW t \in Triggers, Deadline(t)
  PROVE  TypeOK'
BY DEF TypeOK, Deadline, Goto, AfterRecord, ciVars, historyVars, RemoteStates, InFlight,
       Snapshot, ExternalIds, Statuses, RowIds

LEMMA StatementFailsType ==
  ASSUME TypeOK, NEW t \in Triggers, StatementFails(t)
  PROVE  TypeOK'
BY DEF TypeOK, StatementFails, Goto, AfterRecord, ciVars, historyVars, RemoteStates, InFlight,
       Snapshot, ExternalIds, Statuses, RowIds

LEMMA AnnounceType ==
  ASSUME TypeOK, NEW t \in Triggers, Announce(t)
  PROVE  TypeOK'
BY DEF TypeOK, Announce, Goto, ciVars, historyVars, RemoteStates, InFlight,
       Snapshot, ExternalIds, Statuses, RowIds

LEMMA TriggerFailsType ==
  ASSUME TypeOK, NEW t \in Triggers, TriggerFails(t)
  PROVE  TypeOK'
BY DEF TypeOK, TriggerFails, NoId, Id, ciVars, historyVars, RemoteStates, InFlight,
       Snapshot, ExternalIds, Statuses, RowIds

LEMMA RecordType ==
  ASSUME TypeOK, NEW t \in Triggers, Record(t)
  PROVE  TypeOK'
BY DEF TypeOK, Record, Goto, AfterRecord, Update, ciVars, historyVars, RemoteStates, InFlight,
       Snapshot, ExternalIds, Statuses, RowIds

LEMMA RestartType ==
  ASSUME TypeOK, Restart
  PROVE  TypeOK'
BY DEF TypeOK, Restart, Idle, NoRow, NoId, Id, Request, ciVars, historyVars, RemoteStates, InFlight,
       Snapshot, ExternalIds, Statuses, RowIds

\* What the helpers return.
LEMMA StatusOfType == \A state \in RemoteStates : StatusOf(state) \in Statuses
BY DEF StatusOf, RemoteStates, Statuses

LEMMA ReplyType ==
  ASSUME TypeOK, NEW e \in ExternalIds, e.run \in Runs
  PROVE  StatusReply(e) \in Snapshot
<1>1. remote[e.run] \in RemoteStates
  BY DEF TypeOK
<1>2. StatusOf(remote[e.run]) \in Statuses
  BY <1>1, StatusOfType
<1>3. Build(e.run) \in ExternalIds
  BY DEF Build, Id, ExternalIds
<1> QED  BY <1>2, <1>3 DEF StatusReply, ItemOrBuild, Snapshot, Statuses

LEMMA RepliesType ==
  ASSUME TypeOK, NEW t \in Triggers, NEW reply \in Replies(t)
  PROVE  /\ reply \in Snapshot
         /\ [reply EXCEPT !.status = Recorded(reply.status)] \in Snapshot
<1>1. reply \in Snapshot /\ reply.status \in {"pending", "success", "failed"}
  <2>1. started[t] \in Runs \union {NoRun} /\ source \in {"gitlab", "github", "jenkins", "local"}
    BY DEF TypeOK
  <2>2. CASE source = "gitlab"
    BY <2>1, <2>2 DEF Replies, GitLabReplies, Build, Id, Snapshot, ExternalIds, Statuses
  <2>3. CASE source = "jenkins"
    BY <2>1, <2>3 DEF Replies, JenkinsReplies, Queue, Id, Snapshot, ExternalIds, Statuses
  <2>4. CASE source = "local"
    BY <2>1, <2>4 DEF Replies, LocalReplies, Build, Id, Snapshot, ExternalIds, Statuses
  <2>5. CASE source = "github"
    BY <2>1, <2>5 DEF Replies, GitHubReplies, Build, NotFound, Id, Snapshot, ExternalIds, Statuses
  <2> QED  BY <2>1, <2>2, <2>3, <2>4, <2>5
<1>2. Recorded(reply.status) \in Statuses
  BY <1>1 DEF Recorded, Statuses
<1> QED  BY <1>1, <1>2 DEF Snapshot

LEMMA AnswerType ==
  ASSUME TypeOK, NEW t \in Triggers, Answer(t)
  PROVE  TypeOK'
<1>1. PICK reply \in Replies(t) :
        claim' = [claim EXCEPT ![t] = [reply EXCEPT !.status = Recorded(reply.status)]]
  BY DEF Answer
<1>2. claim' \in [Triggers -> Snapshot]
  BY <1>1, RepliesType DEF TypeOK
<1> QED  BY <1>2 DEF TypeOK, Answer, Goto, ciVars, historyVars, InFlight

LEMMA IdleType == Idle \in Request /\ NoRow \in Snapshot
BY DEF Idle, Request, NoRow, NoId, Id, Snapshot, ExternalIds, Statuses

LEMMA RequestFailsType ==
  ASSUME TypeOK, NEW q \in Requests, RequestFails(q)
  PROVE  TypeOK'
<1>1. req' \in [Requests -> Request]
  BY IdleType DEF TypeOK, RequestFails, Release, Request, RowIds, Snapshot, ExternalIds, Statuses
<1> QED  BY <1>1 DEF TypeOK, RequestFails, Release, ciVars, historyVars, RowIds, Request, RemoteStates

LEMMA ReadForRefreshType ==
  ASSUME TypeOK, NEW q \in Requests, NEW r \in RowIds, ReadForRefresh(q, r)
  PROVE  TypeOK'
<1>1. req' \in [Requests -> Request]
  BY IdleType DEF TypeOK, ReadForRefresh, Holding, Request, RowIds, Snapshot, ExternalIds, Statuses
<1> QED  BY <1>1 DEF TypeOK, ReadForRefresh, Holding, ciVars, historyVars, RowIds, Request, RemoteStates

LEMMA ReadForCancelType ==
  ASSUME TypeOK, NEW q \in Requests, NEW r \in RowIds, ReadForCancel(q, r)
  PROVE  TypeOK'
<1>1. req' \in [Requests -> Request]
  BY IdleType DEF TypeOK, ReadForCancel, Holding, Request, RowIds, Snapshot, ExternalIds, Statuses
<1> QED  BY <1>1 DEF TypeOK, ReadForCancel, Holding, ciVars, historyVars, RowIds, Request, RemoteStates

LEMMA SaveType ==
  ASSUME TypeOK, NEW q \in Requests, Save(q)
  PROVE  TypeOK'
<1>1. req' \in [Requests -> Request]
  BY IdleType DEF TypeOK, Save, Update, Holding, Request, RowIds, Snapshot, ExternalIds, Statuses
<1> QED  BY <1>1 DEF TypeOK, Save, Update, Holding, ciVars, historyVars, RowIds, Request, RemoteStates

LEMMA AnnounceRefreshType ==
  ASSUME TypeOK, NEW q \in Requests, AnnounceRefresh(q)
  PROVE  TypeOK'
<1>1. req' \in [Requests -> Request]
  BY IdleType DEF TypeOK, AnnounceRefresh, Release, Request, RowIds, Snapshot, ExternalIds, Statuses
<1> QED  BY <1>1 DEF TypeOK, AnnounceRefresh, Release, ciVars, historyVars, RowIds, Request, RemoteStates

LEMMA ListRemoteType ==
  ASSUME TypeOK, NEW q \in Requests, NEW x \in Runs, ListRemote(q, x)
  PROVE  TypeOK'
<1>1. req' \in [Requests -> Request]
  BY IdleType, StatusOfType DEF TypeOK, ListRemote, Holding, Build, Id, Request, RowIds, Snapshot, ExternalIds, Statuses
<1> QED  BY <1>1 DEF TypeOK, ListRemote, Holding, Build, Id, ciVars, historyVars, RowIds, Request, RemoteStates

LEMMA AskCancelType ==
  ASSUME TypeOK, NEW q \in Requests, AskCancel(q)
  PROVE  TypeOK'
<1>1. req' \in [Requests -> Request]
  BY IdleType DEF TypeOK, AskCancel, Holding, Request, RowIds, Snapshot, ExternalIds, Statuses
<1> QED  BY <1>1 DEF TypeOK, AskCancel, StateAfterCancel, Holding, ciVars, historyVars, RowIds,
                          Request, RemoteStates

LEMMA AskStatusType ==
  ASSUME TypeOK, NEW q \in Requests, AskStatus(q)
  PROVE  TypeOK'
<1>1. req[q].copy.ext \in ExternalIds /\ req[q].copy.ext.run \in Runs
  BY DEF TypeOK, AskStatus, Request, Snapshot, ExternalIds
<1>2. StatusReply(req[q].copy.ext) \in Snapshot
  BY <1>1, ReplyType
<1>3. req' \in [Requests -> Request]
  BY <1>2 DEF TypeOK, AskStatus, Holding, Request
<1> QED  BY <1>3 DEF TypeOK, AskStatus, ciVars, historyVars

LEMMA RowOfIsRow ==
  ASSUME TypeOK, NEW x \in Runs
  PROVE  /\ RowOf(x) \in RowIds
         /\ \A s \in RowIds : row[s].ext = Build(x) => row[RowOf(x)].ext = Build(x)
         /\ row[RowOf(x)].ext = Build(x) \/ RowOf(x) = x
BY DEF RowOf, RowIds

LEMMA SyncType ==
  ASSUME TypeOK, NEW q \in Requests, req[q].id \in Runs, Sync(q)
  PROVE  TypeOK'
<1>1. req' \in [Requests -> Request]
  BY IdleType DEF TypeOK, Sync, Release
<1>2. row' \in [RowIds -> Snapshot]
  BY RowOfIsRow DEF TypeOK, Sync, Request
<1> QED  BY <1>1, <1>2 DEF TypeOK, Sync, ciVars

-----------------------------------------------------------------------------
(* What no step undoes: an outcome, once the CI system has it, what a local *)
(* adapter has forgotten, and the run a trigger has started.                *)

Steady == /\ source' = source
          /\ forgotten \subseteq forgotten'
          /\ \A x \in Runs : remote[x] \in {"success", "failed", "warning"} =>
                               remote'[x] = remote[x]
          /\ \A t \in Triggers : started[t] \in {NoRun, started'[t]}

LEMMA CiUnchanged == UNCHANGED ciVars => Steady
BY DEF Steady, ciVars

LEMMA RemoteStepSteady ==
  ASSUME TypeOK, NEW x \in Runs, RemoteStep(x)
  PROVE  Steady
<1>1. CASE RemoteStart(x)
  BY <1>1 DEF TypeOK, RemoteStart, FirstState, Steady
<1>2. CASE RemoteRun(x)
  BY <1>2 DEF TypeOK, RemoteRun, Steady
<1>3. CASE RemoteEnd(x)
  BY <1>3 DEF TypeOK, RemoteEnd, Steady
<1>4. CASE Forget(x)
  BY <1>4 DEF TypeOK, Forget, Steady
<1> QED  BY <1>1, <1>2, <1>3, <1>4 DEF RemoteStep

LEMMA SendSteady ==
  ASSUME TypeOK, RepliesReal, NEW t \in Triggers, NEW x \in Runs, Send(t, x)
  PROVE  Steady
BY DEF TypeOK, RepliesReal, Send, Goto, FirstState, Steady

LEMMA AskCancelSteady ==
  ASSUME TypeOK, NEW q \in Requests, AskCancel(q)
  PROVE  Steady
<1>1. CASE UNCHANGED remote
  BY <1>1, CiUnchanged DEF AskCancel, ciVars
<1>2. CASE ~UNCHANGED remote
  BY <1>2 DEF TypeOK, AskCancel, StateAfterCancel, Steady
<1> QED  BY <1>1, <1>2

LEMMA RestartSteady ==
  ASSUME TypeOK, Restart
  PROVE  Steady
BY DEF TypeOK, Restart, Steady

\* NamesOwn and Real of the state a step leads to, for a row of either state.
OwnAfter(r, e) == IF r \in Triggers
                  THEN source' # "github" => e.run \in {NoRun, started'[r]}
                  ELSE e = Build(r)

RealAfter(r, snap) ==
  snap.status \in {"success", "failed", "warning"} =>
    \/ snap.ext.run \in Runs /\ remote'[snap.ext.run] = snap.status
    \/ /\ snap.status = "success"
       /\ \/ r \in Triggers /\ source' \in {"gitlab", "github"}
          \/ snap.ext.run \in forgotten'

\* So what is true of a copy of a row, or of a reply, stays true of it.
LEMMA TruthStays ==
  Steady => \A r \in RowIds, snap \in Snapshot :
              /\ NamesOwn(r, snap.ext) => OwnAfter(r, snap.ext)
              /\ Real(r, snap) => RealAfter(r, snap)
<1> SUFFICES ASSUME Steady, NEW r \in RowIds, NEW snap \in Snapshot
             PROVE  /\ NamesOwn(r, snap.ext) => OwnAfter(r, snap.ext)
                    /\ Real(r, snap) => RealAfter(r, snap)
  OBVIOUS
<1>1. NamesOwn(r, snap.ext) => OwnAfter(r, snap.ext)
  BY DEF Steady, NamesOwn, OwnAfter
<1>2. Real(r, snap) => RealAfter(r, snap)
  BY DEF Steady, Real, RealAfter, Presumed, Snapshot, ExternalIds
<1> QED  BY <1>1, <1>2

-----------------------------------------------------------------------------
(* The rows, whoever writes them *)

RowsTrue == RowsNameTheirRun /\ OutcomeIsReal

LEMMA RowsUntouched ==
  ASSUME TypeOK, RowsTrue, Steady, row' = row
  PROVE  RowsTrue'
<1>1. ASSUME NEW r \in RowIds
      PROVE  /\ row'[r].ext # NoId => OwnAfter(r, row'[r].ext)
             /\ RealAfter(r, row'[r])
  <2>1. row'[r] = row[r] /\ row[r] \in Snapshot
    BY DEF TypeOK
  <2>2. (row[r].ext # NoId => NamesOwn(r, row[r].ext)) /\ Real(r, row[r])
    BY DEF RowsTrue, RowsNameTheirRun, OutcomeIsReal
  <2> QED  BY <2>1, <2>2, TruthStays
<1> QED  BY <1>1 DEF RowsTrue, RowsNameTheirRun, OutcomeIsReal, NamesOwn, OwnAfter,
                     Real, RealAfter, Presumed, Build, NoId, Id

LEMMA RowWritten ==
  ASSUME TypeOK, RowsTrue, Steady, NEW r0 \in RowIds, NEW snap \in Snapshot,
         snap.ext # NoId => NamesOwn(r0, snap.ext),
         Real(r0, snap),
         row' = [row EXCEPT ![r0] = snap]
  PROVE  RowsTrue'
<1>1. ASSUME NEW r \in RowIds
      PROVE  /\ row'[r].ext # NoId => OwnAfter(r, row'[r].ext)
             /\ RealAfter(r, row'[r])
  <2>1. CASE r = r0
    <3>1. row'[r] = snap
      BY <2>1 DEF TypeOK
    <3> QED  BY <2>1, <3>1, TruthStays
  <2>2. CASE r # r0
    <3>1. row'[r] = row[r] /\ row[r] \in Snapshot
      BY <2>2 DEF TypeOK
    <3>2. (row[r].ext # NoId => NamesOwn(r, row[r].ext)) /\ Real(r, row[r])
      BY DEF RowsTrue, RowsNameTheirRun, OutcomeIsReal
    <3> QED  BY <3>1, <3>2, TruthStays
  <2> QED  BY <2>1, <2>2
<1> QED  BY <1>1 DEF RowsTrue, RowsNameTheirRun, OutcomeIsReal, NamesOwn, OwnAfter, Real, RealAfter,
                Presumed, Build, NoId, Id

LEMMA OneRowWritten ==
  ASSUME TypeOK, OneRowPerRun, NEW r0 \in RowIds, NEW snap \in Snapshot,
         ~Taken(r0, snap.ext), row' = [row EXCEPT ![r0] = snap]
  PROVE  OneRowPerRun'
BY DEF TypeOK, OneRowPerRun, Taken, NoId, Id

LEMMA UpdateKeepsOneRow ==
  ASSUME TypeOK, OneRowPerRun, NEW r0 \in RowIds, NEW snap \in Snapshot, Update(r0, snap)
  PROVE  OneRowPerRun'
<1>1. CASE Taken(r0, snap.ext)
  BY <1>1 DEF Update, OneRowPerRun, NoId, Id
<1>2. CASE ~Taken(r0, snap.ext)
  BY <1>2, OneRowWritten DEF Update
<1> QED  BY <1>1, <1>2

LEMMA UpdateKeepsTruth ==
  ASSUME TypeOK, RowsTrue, Steady, NEW r0 \in RowIds, NEW snap \in Snapshot,
         NamesOwn(r0, snap.ext), Real(r0, snap), Update(r0, snap)
  PROVE  RowsTrue'
<1>1. CASE Taken(r0, snap.ext)
  BY <1>1, RowsUntouched DEF Update
<1>2. CASE ~Taken(r0, snap.ext)
  BY <1>2, RowWritten DEF Update
<1> QED  BY <1>1, <1>2

-----------------------------------------------------------------------------
(* Replies and copies *)

LEMMA RepliesKept ==
  ASSUME TypeOK, RepliesReal, Steady, claim' = claim, started' = started,
         \A t \in Triggers : \/ pc'[t] = pc[t]
                             \/ pc'[t] \notin {"new", "calling", "sent"}
                             \/ pc[t] = "new" /\ pc'[t] = "calling"
  PROVE  RepliesReal'
<1>1. ASSUME NEW t \in Triggers
      PROVE  /\ OwnAfter(t, claim'[t].ext) /\ RealAfter(t, claim'[t])
             /\ pc'[t] = "sent" => started'[t] \in Runs
             /\ pc'[t] \in {"new", "calling"} => started'[t] = NoRun
  <2>1. claim[t] \in Snapshot /\ t \in RowIds /\ claim'[t] = claim[t]
    BY DEF TypeOK, RowIds
  <2>2. NamesOwn(t, claim[t].ext) /\ Real(t, claim[t])
    BY DEF RepliesReal
  <2>3. OwnAfter(t, claim'[t].ext) /\ RealAfter(t, claim'[t])
    BY <2>1, <2>2, TruthStays
  <2>4. /\ pc'[t] = "sent" => started'[t] \in Runs
        /\ pc'[t] \in {"new", "calling"} => started'[t] = NoRun
    BY DEF RepliesReal
  <2> QED  BY <2>3, <2>4
<1> QED  BY <1>1 DEF RepliesReal, NamesOwn, OwnAfter, Real, RealAfter,
                Presumed, Build, Id

\* A request that holds something true of its row, or nothing.
TrueCopy(held) ==
  held.op \notin {"idle", "announce"} =>
    /\ held.id \in RowIds
    /\ held.op = "sync" => held.id \in Runs
    /\ NamesOwn(held.id, held.copy.ext)
    /\ Real(held.id, held.copy)

LEMMA CopiesUntouched ==
  ASSUME TypeOK, CopiesReal, Steady, req' = req
  PROVE  CopiesReal'
<1>1. ASSUME NEW q \in Requests, req'[q].op \notin {"idle", "announce"}
      PROVE  /\ req'[q].id \in RowIds
             /\ req'[q].op = "sync" => req'[q].id \in Runs
             /\ OwnAfter(req'[q].id, req'[q].copy.ext)
             /\ RealAfter(req'[q].id, req'[q].copy)
  <2>1. req[q].copy \in Snapshot
    BY DEF TypeOK, Request
  <2>2. /\ req[q].id \in RowIds /\ (req[q].op = "sync" => req[q].id \in Runs)
        /\ NamesOwn(req[q].id, req[q].copy.ext) /\ Real(req[q].id, req[q].copy)
    BY <1>1 DEF CopiesReal
  <2> QED  BY <2>1, <2>2, TruthStays
<1> QED  BY <1>1 DEF CopiesReal, NamesOwn, OwnAfter, Real, RealAfter,
                Presumed, Build, Id

LEMMA CopyTaken ==
  ASSUME TypeOK, CopiesReal, Steady, NEW q0 \in Requests, NEW held \in Request,
         TrueCopy(held), req' = [req EXCEPT ![q0] = held]
  PROVE  CopiesReal'
<1>1. ASSUME NEW q \in Requests, req'[q].op \notin {"idle", "announce"}
      PROVE  /\ req'[q].id \in RowIds
             /\ req'[q].op = "sync" => req'[q].id \in Runs
             /\ OwnAfter(req'[q].id, req'[q].copy.ext)
             /\ RealAfter(req'[q].id, req'[q].copy)
  <2>1. req'[q] \in Request /\ TrueCopy(req'[q])
    BY DEF TypeOK, CopiesReal, TrueCopy
  <2>2. /\ req'[q].id \in RowIds /\ (req'[q].op = "sync" => req'[q].id \in Runs)
        /\ NamesOwn(req'[q].id, req'[q].copy.ext) /\ Real(req'[q].id, req'[q].copy)
    BY <1>1, <2>1 DEF TrueCopy
  <2>3. req'[q].copy \in Snapshot
    BY <2>1 DEF Request
  <2> QED  BY <2>2, <2>3, TruthStays
<1> QED  BY <1>1 DEF CopiesReal, NamesOwn, OwnAfter, Real, RealAfter,
                Presumed, Build, Id

LEMMA OneRowUntouched ==
  ASSUME OneRowPerRun, row' = row
  PROVE  OneRowPerRun'
BY DEF OneRowPerRun, NoId, Id

\* What does not touch a row, a reply, a goroutine or a request.
LEMMA NothingWritten ==
  ASSUME TruthInv, TypeOK', Steady, UNCHANGED <<row, claim, started, pc, req>>
  PROVE  TruthInv'
<1>1. RowsTrue' /\ OneRowPerRun'
  BY RowsUntouched, OneRowUntouched DEF TruthInv, RowsTrue
<1>2. RepliesReal'
  BY RepliesKept DEF TruthInv
<1>3. CopiesReal'
  BY CopiesUntouched DEF TruthInv
<1> QED  BY <1>1, <1>2, <1>3 DEF TruthInv, RowsTrue

\* A request that only takes a copy, or gives it up.
LEMMA OnlyCopyTaken ==
  ASSUME TruthInv, TypeOK', Steady, UNCHANGED <<row, claim, started, pc>>,
         NEW q0 \in Requests, NEW held \in Request,
         TrueCopy(held), req' = [req EXCEPT ![q0] = held]
  PROVE  TruthInv'
<1>1. RowsTrue' /\ OneRowPerRun'
  BY RowsUntouched, OneRowUntouched DEF TruthInv, RowsTrue
<1>2. RepliesReal'
  BY RepliesKept DEF TruthInv
<1>3. CopiesReal'
  BY CopyTaken DEF TruthInv
<1> QED  BY <1>1, <1>2, <1>3 DEF TruthInv, RowsTrue

-----------------------------------------------------------------------------
(* The CI system *)

LEMMA RemoteStepKeeps ==
  ASSUME TruthInv, NEW x \in Runs, RemoteStep(x)
  PROVE  TruthInv'
<1>1. Steady
  BY RemoteStepSteady DEF TruthInv
<1>2. TypeOK'
  BY RemoteStartType, RemoteRunType, RemoteEndType, ForgetType DEF TruthInv, RemoteStep
<1>3. UNCHANGED <<row, claim, started, pc, req>>
  BY DEF RemoteStep, RemoteStart, RemoteRun, RemoteEnd, Forget
<1> QED  BY <1>1, <1>2, <1>3, NothingWritten

(* The goroutine *)

LEMMA CreateKeeps ==
  ASSUME TruthInv, NEW t \in Triggers, Create(t) \/ AgentCreate(t)
  PROVE  TruthInv'
<1>1. PICK status \in {"running", "pending"} :
        row' = [row EXCEPT ![t] = [ext |-> NoId, status |-> status]]
  BY DEF Create, AgentCreate
<1>2. t \in RowIds /\ [ext |-> NoId, status |-> status] \in Snapshot
  BY <1>1 DEF RowIds, Snapshot, ExternalIds, NoId, Id, Statuses
<1>3. Steady
  BY CiUnchanged DEF Create, AgentCreate
<1>4. TypeOK'
  BY CreateType, AgentCreateType DEF TruthInv
<1>5. RowsTrue'
  BY <1>1, <1>2, <1>3, RowWritten DEF TruthInv, RowsTrue, Real
<1>6. OneRowPerRun'
  BY <1>1, <1>2, OneRowWritten DEF TruthInv, Taken
<1>7. RepliesReal'
  BY <1>3, RepliesKept DEF TruthInv, TypeOK, Create, AgentCreate, Goto, ciVars
<1>8. CopiesReal'
  BY <1>3, CopiesUntouched DEF TruthInv, Create, AgentCreate
<1> QED  BY <1>4, <1>5, <1>6, <1>7, <1>8 DEF TruthInv, RowsTrue

LEMMA SendKeeps ==
  ASSUME TruthInv, NEW t \in Triggers, NEW x \in Runs, Send(t, x)
  PROVE  TruthInv'
<1>1. Steady
  BY SendSteady DEF TruthInv
<1>2. TypeOK'
  BY SendType DEF TruthInv
<1>3. RowsTrue' /\ OneRowPerRun'
  BY <1>1, RowsUntouched, OneRowUntouched DEF TruthInv, RowsTrue, Send
<1>4. CopiesReal'
  BY <1>1, CopiesUntouched DEF TruthInv, Send
<1>5. ASSUME NEW u \in Triggers
      PROVE  /\ OwnAfter(u, claim'[u].ext) /\ RealAfter(u, claim'[u])
             /\ pc'[u] = "sent" => started'[u] \in Runs
             /\ pc'[u] \in {"new", "calling"} => started'[u] = NoRun
  <2>1. claim[u] \in Snapshot /\ u \in RowIds /\ claim'[u] = claim[u]
    BY DEF TruthInv, TypeOK, RowIds, Send
  <2>2. NamesOwn(u, claim[u].ext) /\ Real(u, claim[u])
    BY DEF TruthInv, RepliesReal
  <2>3. OwnAfter(u, claim'[u].ext) /\ RealAfter(u, claim'[u])
    BY <1>1, <2>1, <2>2, TruthStays
  <2>4. CASE u = t
    BY <2>3, <2>4 DEF TruthInv, TypeOK, Send, Goto
  <2>5. CASE u # t
    BY <2>3, <2>5 DEF TruthInv, TypeOK, RepliesReal, Send, Goto
  <2> QED  BY <2>4, <2>5
<1>6. RepliesReal'
  BY <1>5 DEF RepliesReal, NamesOwn, OwnAfter, Real, RealAfter, Presumed, Build, Id
<1> QED  BY <1>2, <1>3, <1>4, <1>6 DEF TruthInv, RowsTrue

\* A reply tells the truth of the run it names.
LEMMA ReplyIsTrue ==
  ASSUME TruthInv, NEW t \in Triggers, pc[t] = "sent", NEW reply \in Replies(t)
  PROVE  /\ NamesOwn(t, reply.ext)
         /\ Real(t, [reply EXCEPT !.status = Recorded(reply.status)])
<1>1. started[t] \in Runs /\ source \in {"gitlab", "github", "jenkins", "local"}
  BY DEF TruthInv, TypeOK, RepliesReal
<1>2. CASE source = "gitlab"
  BY <1>1, <1>2 DEF Replies, GitLabReplies, Recorded, Build, Id, NamesOwn, Real, Presumed
<1>3. CASE source = "jenkins"
  BY <1>1, <1>3 DEF Replies, JenkinsReplies, Recorded, Queue, Id, NamesOwn, Real, Presumed
<1>4. CASE source = "local"
  <2>1. PICK s \in {remote[started[t]]} \intersect {"success", "failed"} :
          reply = [ext |-> Build(started[t]), status |-> s]
    BY <1>4 DEF Replies, LocalReplies
  <2> QED  BY <1>1, <1>4, <2>1 DEF Recorded, Build, Id, NamesOwn, Real
<1>5. CASE source = "github"
  BY <1>1, <1>5 DEF Replies, GitHubReplies, Recorded, Build, NotFound, Id, NamesOwn, Real, Presumed
<1> QED  BY <1>1, <1>2, <1>3, <1>4, <1>5

LEMMA ClaimMade ==
  ASSUME TruthInv, TypeOK', NEW t \in Triggers, NEW snap \in Snapshot,
         NamesOwn(t, snap.ext), Real(t, snap), claim' = [claim EXCEPT ![t] = snap],
         pc' = [pc EXCEPT ![t] = "answered"], UNCHANGED <<ciVars, row, req>>
  PROVE  TruthInv'
<1>1. Steady
  BY CiUnchanged
<1>2. RowsTrue' /\ OneRowPerRun' /\ CopiesReal'
  BY <1>1, RowsUntouched, OneRowUntouched, CopiesUntouched DEF TruthInv, RowsTrue
<1>3. ASSUME NEW u \in Triggers
      PROVE  /\ OwnAfter(u, claim'[u].ext) /\ RealAfter(u, claim'[u])
             /\ pc'[u] = "sent" => started'[u] \in Runs
             /\ pc'[u] \in {"new", "calling"} => started'[u] = NoRun
  <2>1. claim'[u] \in Snapshot /\ u \in RowIds
    BY DEF TypeOK, RowIds
  <2>2. NamesOwn(u, claim'[u].ext) /\ Real(u, claim'[u])
    BY DEF TruthInv, TypeOK, RepliesReal
  <2>3. OwnAfter(u, claim'[u].ext) /\ RealAfter(u, claim'[u])
    BY <1>1, <2>1, <2>2, TruthStays
  <2> QED  BY <2>3 DEF TruthInv, TypeOK, RepliesReal, ciVars
<1>4. RepliesReal'
  BY <1>3 DEF RepliesReal, NamesOwn, OwnAfter, Real, RealAfter, Presumed, Build, Id
<1> QED  BY <1>2, <1>4 DEF TruthInv, RowsTrue

LEMMA AnswerKeeps ==
  ASSUME TruthInv, NEW t \in Triggers, Answer(t)
  PROVE  TruthInv'
<1>1. PICK reply \in Replies(t) :
        claim' = [claim EXCEPT ![t] = [reply EXCEPT !.status = Recorded(reply.status)]]
  BY DEF Answer
<1> DEFINE snap == [reply EXCEPT !.status = Recorded(reply.status)]
<1>2. reply \in Snapshot /\ snap \in Snapshot
  BY RepliesType DEF TruthInv
<1>3. snap.ext = reply.ext
  BY <1>2 DEF Snapshot
<1>4. NamesOwn(t, snap.ext) /\ Real(t, snap)
  BY <1>3, ReplyIsTrue DEF Answer, Goto
<1>5. TypeOK'
  BY AnswerType DEF TruthInv
<1> HIDE DEF snap
<1> QED  BY <1>1, <1>2, <1>4, <1>5, ClaimMade DEF Answer, Goto, snap

LEMMA TriggerFailsKeeps ==
  ASSUME TruthInv, NEW t \in Triggers, TriggerFails(t)
  PROVE  TruthInv'
<1> DEFINE snap == [ext |-> NoId, status |-> "error"]
<1>1. snap \in Snapshot /\ NamesOwn(t, snap.ext) /\ Real(t, snap)
  BY DEF Snapshot, ExternalIds, Statuses, NoId, Id, NamesOwn, Real
<1>2. TypeOK'
  BY TriggerFailsType DEF TruthInv
<1> QED  BY <1>1, <1>2, ClaimMade DEF TriggerFails

LEMMA RecordKeeps ==
  ASSUME TruthInv, NEW t \in Triggers, Record(t)
  PROVE  TruthInv'
<1>1. Steady /\ TypeOK'
  BY CiUnchanged, RecordType DEF TruthInv, Record
<1>2. t \in RowIds /\ claim[t] \in Snapshot /\ NamesOwn(t, claim[t].ext) /\ Real(t, claim[t])
  BY DEF TruthInv, TypeOK, RowIds, RepliesReal
<1>3. OneRowPerRun'
  BY <1>2, UpdateKeepsOneRow DEF TruthInv, Record
<1>4. RowsTrue'
  BY <1>1, <1>2, UpdateKeepsTruth DEF TruthInv, RowsTrue, Record
<1>5. RepliesReal'
  BY <1>1, RepliesKept DEF TruthInv, TypeOK, Record, Goto, AfterRecord, ciVars
<1>6. CopiesReal'
  BY <1>1, CopiesUntouched DEF TruthInv, Record
<1> QED  BY <1>1, <1>3, <1>4, <1>5, <1>6 DEF TruthInv, RowsTrue

LEMMA GoroutineMoves ==
  ASSUME TruthInv, NEW t \in Triggers,
         Deadline(t) \/ StatementFails(t) \/ Announce(t)
  PROVE  TruthInv'
<1>1. Steady /\ TypeOK'
  BY CiUnchanged, DeadlineType, StatementFailsType, AnnounceType
     DEF TruthInv, Deadline, StatementFails, Announce
<1>2. RowsTrue' /\ OneRowPerRun' /\ CopiesReal'
  BY <1>1, RowsUntouched, OneRowUntouched, CopiesUntouched
     DEF TruthInv, RowsTrue, Deadline, StatementFails, Announce
<1>3. RepliesReal'
  BY <1>1, RepliesKept DEF TruthInv, TypeOK, Deadline, StatementFails, Announce, Goto, AfterRecord,
                               ciVars
<1> QED  BY <1>1, <1>2, <1>3 DEF TruthInv, RowsTrue

-----------------------------------------------------------------------------
(* The requests *)

LEMMA IdleHoldsNothing == TrueCopy(Idle)
BY DEF TrueCopy, Idle

LEMMA GivesUpKeeps ==
  ASSUME TruthInv, NEW q \in Requests, RequestFails(q) \/ AnnounceRefresh(q)
  PROVE  TruthInv'
<1>1. Steady /\ TypeOK'
  BY CiUnchanged, RequestFailsType, AnnounceRefreshType DEF TruthInv, RequestFails, AnnounceRefresh
<1> QED  BY <1>1, IdleType, IdleHoldsNothing, OnlyCopyTaken
            DEF RequestFails, AnnounceRefresh, Release, ciVars

\* A row with an id is true of itself, and so is a copy of it.
LEMMA ReadKeeps ==
  ASSUME TruthInv, NEW q \in Requests, NEW r \in RowIds,
         ReadForRefresh(q, r) \/ ReadForCancel(q, r)
  PROVE  TruthInv'
<1>1. PICK op \in {"refresh", "cancel"} : req' = [req EXCEPT ![q] = Holding(op, r, row[r])]
  BY DEF ReadForRefresh, ReadForCancel
<1>2. Steady /\ TypeOK'
  BY CiUnchanged, ReadForRefreshType, ReadForCancelType DEF TruthInv, ReadForRefresh, ReadForCancel
<1>3. Holding(op, r, row[r]) \in Request
  BY <1>1 DEF Holding, Request, TruthInv, TypeOK
<1>4. TrueCopy(Holding(op, r, row[r]))
  BY <1>1 DEF TrueCopy, Holding, TruthInv, RowsNameTheirRun, OutcomeIsReal,
              ReadForRefresh, ReadForCancel
<1> QED  BY <1>1, <1>2, <1>3, <1>4, OnlyCopyTaken DEF ReadForRefresh, ReadForCancel, ciVars

LEMMA ListRemoteKeeps ==
  ASSUME TruthInv, NEW q \in Requests, NEW x \in Runs, ListRemote(q, x)
  PROVE  TruthInv'
<1> DEFINE held == Holding("sync", x, [ext |-> Build(x), status |-> StatusOf(remote[x])])
<1>1. Steady /\ TypeOK'
  BY CiUnchanged, ListRemoteType DEF TruthInv, ListRemote
<1>2. held \in Request
  BY StatusOfType DEF TruthInv, TypeOK, Holding, Request, Snapshot, ExternalIds, Build, Id, RowIds
<1>3. TrueCopy(held)
  BY PipelineAssumption DEF TrueCopy, Holding, NamesOwn, Real, Build, Id, StatusOf, RowIds
<1> QED  BY <1>1, <1>2, <1>3, OnlyCopyTaken DEF ListRemote, ciVars

LEMMA AskStatusKeeps ==
  ASSUME TruthInv, NEW q \in Requests, AskStatus(q)
  PROVE  TruthInv'
<1> DEFINE reply == StatusReply(req[q].copy.ext)
<1>1. PICK op \in {"complete", "save"} : req' = [req EXCEPT ![q] = Holding(op, req[q].id, reply)]
  BY DEF AskStatus
<1>2. Steady /\ TypeOK'
  BY CiUnchanged, AskStatusType DEF TruthInv, AskStatus
<1>3. /\ req[q].copy.ext \in ExternalIds /\ req[q].copy.ext.run \in Runs
      /\ req[q].id \in RowIds /\ NamesOwn(req[q].id, req[q].copy.ext)
  BY DEF TruthInv, TypeOK, CopiesReal, AskStatus, Request, Snapshot, ExternalIds
<1>4. reply \in Snapshot
  BY <1>3, ReplyType DEF TruthInv
<1>5. Holding(op, req[q].id, reply) \in Request
  BY <1>1, <1>3, <1>4 DEF Holding, Request
<1>6. reply.ext.run = req[q].copy.ext.run
  BY <1>3 DEF StatusReply, ItemOrBuild, Build, Id
<1>7. NamesOwn(req[q].id, reply.ext)
  BY <1>3, <1>6 DEF NamesOwn, StatusReply, ItemOrBuild, Build, Id
<1>8. Real(req[q].id, reply)
  BY <1>3, <1>6 DEF Real, Presumed, StatusReply, ItemOrBuild, StatusOf
<1>9. TrueCopy(Holding(op, req[q].id, reply))
  BY <1>1, <1>3, <1>7, <1>8 DEF TrueCopy, Holding
<1> QED  BY <1>1, <1>2, <1>5, <1>9, OnlyCopyTaken DEF AskStatus, ciVars

LEMMA AskCancelKeeps ==
  ASSUME TruthInv, NEW q \in Requests, AskCancel(q)
  PROVE  TruthInv'
<1> DEFINE snap == [ext |-> req[q].copy.ext, status |-> "cancelled"]
           held == Holding("save", req[q].id, snap)
<1>1. Steady /\ TypeOK'
  BY AskCancelSteady, AskCancelType DEF TruthInv
<1>2. /\ req[q].copy.ext \in ExternalIds
      /\ req[q].id \in RowIds /\ NamesOwn(req[q].id, req[q].copy.ext)
  BY DEF TruthInv, TypeOK, CopiesReal, AskCancel, Request, Snapshot
<1>3. held \in Request
  BY <1>2 DEF Holding, Request, Snapshot, Statuses
<1>4. TrueCopy(held)
  BY <1>2 DEF TrueCopy, Holding, Real
<1>5. req' = [req EXCEPT ![q] = held]
  BY DEF AskCancel
<1> HIDE DEF held
<1> QED  BY <1>1, <1>3, <1>4, <1>5, OnlyCopyTaken DEF AskCancel

\* The statement stores a true copy, or fails.
LEMMA SaveKeeps ==
  ASSUME TruthInv, NEW q \in Requests, Save(q)
  PROVE  TruthInv'
<1> DEFINE held == IF req[q].op = "save" THEN Idle ELSE Holding("announce", req[q].id, NoRow)
<1>1. Steady /\ TypeOK'
  BY CiUnchanged, SaveType DEF TruthInv, Save
<1>2. /\ req[q].id \in RowIds /\ req[q].copy \in Snapshot
      /\ NamesOwn(req[q].id, req[q].copy.ext) /\ Real(req[q].id, req[q].copy)
  BY DEF TruthInv, TypeOK, CopiesReal, Save, Request
<1>3. OneRowPerRun' /\ RowsTrue'
  <2>1. CASE Update(req[q].id, req[q].copy)
    BY <1>1, <1>2, <2>1, UpdateKeepsOneRow, UpdateKeepsTruth DEF TruthInv, RowsTrue
  <2>2. CASE UNCHANGED row
    BY <1>1, <2>2, RowsUntouched, OneRowUntouched DEF TruthInv, RowsTrue
  <2> QED  BY <2>1, <2>2 DEF Save
<1>4. RepliesReal'
  BY <1>1, RepliesKept DEF TruthInv, Save, ciVars
<1>5. held \in Request /\ TrueCopy(held)
  BY <1>2, IdleType DEF Holding, Request, TrueCopy, Idle
<1>6. req' = [req EXCEPT ![q] = held]
  BY DEF Save
<1> HIDE DEF held
<1>7. CopiesReal'
  BY <1>1, <1>5, <1>6, CopyTaken DEF TruthInv
<1> QED  BY <1>1, <1>3, <1>4, <1>7 DEF TruthInv, RowsTrue

\* What was listed is true of the run, so of any row that names the run; and a
\* row that does not name it yet is the run's own.
LEMMA SyncKeeps ==
  ASSUME TruthInv, NEW q \in Requests, Sync(q)
  PROVE  TruthInv'
<1> DEFINE x == req[q].id
           r == RowOf(x)
           snap == req[q].copy
<1>1. /\ x \in Runs /\ snap \in Snapshot
      /\ NamesOwn(x, snap.ext) /\ Real(x, snap)
  BY DEF TruthInv, TypeOK, CopiesReal, Sync, Request
<1>2. Steady /\ TypeOK'
  BY <1>1, CiUnchanged, SyncType DEF TruthInv, Sync
<1>3. x \notin Triggers
  BY <1>1, PipelineAssumption
<1>4. snap.ext = Build(x) /\ snap.ext # NoId
  BY <1>1, <1>3 DEF NamesOwn, Build, NoId, Id
<1>5. /\ r \in RowIds
      /\ \A s \in RowIds : row[s].ext = Build(x) => row[r].ext = Build(x)
      /\ row[r].ext = Build(x) \/ r = x
  BY <1>1, RowOfIsRow DEF TruthInv
<1>6. NamesOwn(r, snap.ext)
  <2>1. CASE row[r].ext = Build(x)
    BY <1>4, <1>5, <2>1 DEF TruthInv, RowsNameTheirRun
  <2>2. CASE r = x
    BY <1>1, <2>2
  <2> QED  BY <1>5, <2>1, <2>2
<1>7. Real(r, snap)
  BY <1>1, <1>3 DEF Real, Presumed
<1>8. ~Taken(r, snap.ext)
  BY <1>4, <1>5 DEF Taken, TruthInv, OneRowPerRun
<1>9. OneRowPerRun' /\ RowsTrue'
  <2>1. CASE UNCHANGED row
    BY <1>2, <2>1, RowsUntouched, OneRowUntouched DEF TruthInv, RowsTrue
  <2>2. CASE row' = [row EXCEPT ![r] = snap]
    BY <1>1, <1>2, <1>5, <1>6, <1>7, <1>8, <2>2, OneRowWritten, RowWritten
       DEF TruthInv, RowsTrue
  <2> QED  BY <2>1, <2>2 DEF Sync
<1>10. RepliesReal'
  BY <1>2, RepliesKept DEF TruthInv, Sync, ciVars
<1>11. CopiesReal'
  BY <1>2, IdleType, IdleHoldsNothing, CopyTaken DEF TruthInv, Sync, Release
<1> QED  BY <1>2, <1>9, <1>10, <1>11 DEF TruthInv, RowsTrue

LEMMA RestartKeeps ==
  ASSUME TruthInv, Restart
  PROVE  TruthInv'
<1>1. Steady /\ TypeOK'
  BY RestartSteady, RestartType DEF TruthInv
<1>2. OneRowPerRun' /\ RowsTrue'
  BY <1>1, RowsUntouched, OneRowUntouched DEF TruthInv, RowsTrue, Restart
<1>3. RepliesReal'
  BY <1>1, RepliesKept DEF TruthInv, TypeOK, Restart, InFlight
<1>4. CopiesReal'
  BY DEF CopiesReal, Restart, Idle
<1> QED  BY <1>1, <1>2, <1>3, <1>4 DEF TruthInv, RowsTrue

-----------------------------------------------------------------------------
(* The invariant *)

LEMMA InitTruthInv == Init => TruthInv
<1> SUFFICES ASSUME Init PROVE TruthInv
  OBVIOUS
<1>1. NoRow \in Snapshot /\ Idle \in Request
  BY IdleType
<1>2. TypeOK
  BY <1>1, PipelineAssumption DEF Init, TypeOK, RemoteStates
<1>3. OneRowPerRun /\ RowsNameTheirRun /\ OutcomeIsReal
  BY DEF Init, OneRowPerRun, RowsNameTheirRun, OutcomeIsReal, NoRow, Real
<1>4. RepliesReal
  BY DEF Init, RepliesReal, NoRow, NoId, Id, NamesOwn, Real
<1>5. CopiesReal
  BY DEF Init, CopiesReal, Idle
<1> QED  BY <1>2, <1>3, <1>4, <1>5 DEF TruthInv

LEMMA NextTruthInv == TruthInv /\ [Next]_vars => TruthInv'
<1> SUFFICES ASSUME TruthInv, [Next]_vars PROVE TruthInv'
  OBVIOUS
<1>1. ASSUME NEW x \in Runs, RemoteStep(x)
      PROVE  TruthInv'
  BY <1>1, RemoteStepKeeps
<1>2. ASSUME NEW t \in Triggers, Create(t) \/ AgentCreate(t) \/ GoroutineStep(t) \/ Deadline(t)
      PROVE  TruthInv'
  BY <1>2, CreateKeeps, SendKeeps, AnswerKeeps, TriggerFailsKeeps, RecordKeeps,
     GoroutineMoves DEF GoroutineStep
<1>3. ASSUME NEW q \in Requests, RequestStep(q)
      PROVE  TruthInv'
  BY <1>3, GivesUpKeeps, ReadKeeps, ListRemoteKeeps, AskStatusKeeps, AskCancelKeeps,
     SaveKeeps, SyncKeeps DEF RequestStep
<1>4. CASE UNCHANGED vars
  <2>1. Steady /\ TypeOK'
    BY <1>4, CiUnchanged DEF vars, ciVars, historyVars, TruthInv, TypeOK
  <2> QED  BY <1>4, <2>1, NothingWritten DEF vars, ciVars
<1> QED  BY <1>1, <1>2, <1>3, <1>4, RestartKeeps DEF Next

-----------------------------------------------------------------------------
(* Every outcome is announced.  OutcomeAnnounced is not inductive: a request  *)
(* writes a status it read or was told some time ago.                         *)

\* An event that has been published, is about to be, or was lost stays so.
LEMMA StaysAccounted ==
  ASSUME TruthInv, Next, NEW t \in Triggers, AccountedFor(t)
  PROVE  AccountedFor(t)'
<1>1. ASSUME NEW x \in Runs, RemoteStep(x)
      PROVE  AccountedFor(t)'
  BY <1>1 DEF RemoteStep, RemoteStart, RemoteRun, RemoteEnd, Forget, AccountedFor,
              Announcing, historyVars
<1>2. ASSUME NEW u \in Triggers, Create(u) \/ AgentCreate(u) \/ GoroutineStep(u) \/ Deadline(u)
      PROVE  AccountedFor(t)'
  <2>1. reported \subseteq reported' /\ dropped \subseteq dropped' /\ req' = req
    BY <1>2 DEF Create, AgentCreate, GoroutineStep, Send, Answer, TriggerFails, Record,
                Announce, StatementFails, Deadline, historyVars
  <2>2. Announcing(t) => Announcing(t)'
    BY <2>1 DEF Announcing
  <2>3. pc[t] = "announce" => pc'[t] = "announce" \/ t \in reported'
    BY <1>2 DEF TruthInv, TypeOK, Create, AgentCreate, GoroutineStep, Send, Answer,
                TriggerFails, Record, Announce, StatementFails, Deadline, Goto
  <2> QED  BY <2>1, <2>2, <2>3 DEF AccountedFor
<1>3. ASSUME NEW q \in Requests, RequestStep(q)
      PROVE  AccountedFor(t)'
  <2>1. reported \subseteq reported' /\ dropped' = dropped /\ pc' = pc
    BY <1>3 DEF RequestStep, ReadForRefresh, ReadForCancel, ListRemote, AskStatus, AskCancel,
                Save, AnnounceRefresh, Sync, RequestFails, historyVars
  <2>2. req[q].op = "announce" => AnnounceRefresh(q)
    BY <1>3 DEF RequestStep, ReadForRefresh, ReadForCancel, ListRemote, AskStatus, AskCancel,
                Save, Sync, RequestFails
  <2>3. \A p \in Requests : p # q => req'[p] = req[p]
    BY <1>3 DEF TruthInv, TypeOK, RequestStep, ReadForRefresh, ReadForCancel, ListRemote,
                AskStatus, AskCancel, Save, AnnounceRefresh, Sync, RequestFails, Release
  <2>4. Announcing(t) => Announcing(t)' \/ t \in reported'
    BY <2>2, <2>3 DEF Announcing, AnnounceRefresh
  <2> QED  BY <2>1, <2>4 DEF AccountedFor
<1>4. CASE Restart
  BY <1>4 DEF AccountedFor, Restart, Announcing, InFlight, Idle
<1> QED  BY <1>1, <1>2, <1>3, <1>4 DEF Next

\* What leaves the rows and the requests alone leaves both accounted for.
LEMMA AccountsUntouched ==
  ASSUME TruthInv, AnnounceInv, Next, row' = row, req' = req
  PROVE  AnnounceInv'
BY StaysAccounted DEF AnnounceInv, OutcomeAnnounced, CopiesAccounted

\* A request that takes a copy of something accounted for.
LEMMA AccountedCopy ==
  ASSUME TruthInv, AnnounceInv, Next, row' = row, NEW q0 \in Requests, NEW held \in Request,
         \A t \in Triggers : /\ held.op \in {"refresh", "cancel", "save"}
                             /\ held.id = t /\ held.copy.status \in Over
                             => AccountedFor(t),
         req' = [req EXCEPT ![q0] = held]
  PROVE  AnnounceInv'
<1>1. OutcomeAnnounced'
  BY StaysAccounted DEF AnnounceInv, OutcomeAnnounced
<1>2. ASSUME NEW q \in Requests, NEW t \in Triggers,
             req'[q].op \in {"refresh", "cancel", "save"}, req'[q].id = t,
             req'[q].copy.status \in Over
      PROVE  AccountedFor(t)
  <2>1. CASE q = q0
    BY <1>2, <2>1 DEF TruthInv, TypeOK
  <2>2. CASE q # q0
    BY <1>2, <2>2 DEF TruthInv, TypeOK, AnnounceInv, CopiesAccounted
  <2> QED  BY <2>1, <2>2
<1>3. CopiesAccounted'
  BY <1>2, StaysAccounted DEF CopiesAccounted
<1> QED  BY <1>1, <1>3 DEF AnnounceInv

\* A row that is written keeps the others' accounts, and a request that has
\* finished needs none.
LEMMA AccountedRow ==
  ASSUME TruthInv, AnnounceInv, Next, NEW r \in RowIds, NEW snap \in Snapshot,
         row' = row \/ row' = [row EXCEPT ![r] = snap],
         \A t \in Triggers : row' # row /\ t = r /\ snap.status \in Over => AccountedFor(t)',
         \A q \in Requests : req'[q] = req[q] \/ req'[q].op \in {"idle", "announce"}
  PROVE  AnnounceInv'
<1>1. ASSUME NEW t \in Triggers, row'[t].status \in Over
      PROVE  AccountedFor(t)'
  <2>1. CASE row'[t] = row[t]
    BY <1>1, <2>1, StaysAccounted DEF AnnounceInv, OutcomeAnnounced
  <2>2. CASE row'[t] # row[t]
    <3>1. t = r /\ row'[t] = snap /\ row' # row
      BY <2>2 DEF TruthInv, TypeOK, RowIds
    <3> QED  BY <1>1, <3>1
  <2> QED  BY <2>1, <2>2
<1>2. ASSUME NEW q \in Requests, NEW t \in Triggers,
             req'[q].op \in {"refresh", "cancel", "save"}, req'[q].id = t,
             req'[q].copy.status \in Over
      PROVE  AccountedFor(t)'
  BY <1>2, StaysAccounted DEF AnnounceInv, CopiesAccounted
<1> QED  BY <1>1, <1>2 DEF AnnounceInv, OutcomeAnnounced, CopiesAccounted

LEMMA GoroutineAccounts ==
  ASSUME TruthInv, AnnounceInv, Next, NEW t \in Triggers,
         Create(t) \/ AgentCreate(t) \/ GoroutineStep(t) \/ Deadline(t)
  PROVE  AnnounceInv'
<1>1. t \in RowIds
  BY DEF RowIds
<1>2. ASSUME NEW status \in {"running", "pending"}, req' = req,
             row' = [row EXCEPT ![t] = [ext |-> NoId, status |-> status]]
      PROVE  AnnounceInv'
  <2>1. [ext |-> NoId, status |-> status] \in Snapshot
    BY DEF Snapshot, ExternalIds, NoId, Id, Statuses
  <2> QED  BY <1>1, <1>2, <2>1, AccountedRow DEF Over
<1>3. CASE Create(t)
  BY <1>2, <1>3 DEF Create
<1>4. CASE AgentCreate(t)
  BY <1>2, <1>4 DEF AgentCreate
<1>5. CASE Record(t)
  <2>1. claim[t] \in Snapshot
    BY DEF TruthInv, TypeOK
  <2>2. claim[t].status \in Over => AccountedFor(t)'
    BY <1>5 DEF Record, Goto, AfterRecord, Over, AccountedFor, TruthInv, TypeOK
  <2>3. row' = row \/ row' = [row EXCEPT ![t] = claim[t]]
    BY <1>5 DEF Record, Update
  <2>4. req' = req
    BY <1>5 DEF Record
  <2> QED  BY <1>1, <2>1, <2>2, <2>3, <2>4, AccountedRow
<1>6. CASE Deadline(t) \/ StatementFails(t) \/ Announce(t) \/ Answer(t) \/ TriggerFails(t)
           \/ \E x \in Runs : Send(t, x)
  BY <1>6, AccountsUntouched DEF Deadline, StatementFails, Announce, Answer, TriggerFails, Send
<1> QED  BY <1>3, <1>4, <1>5, <1>6 DEF GoroutineStep

LEMMA RequestAccounts ==
  ASSUME TruthInv, AnnounceInv, Next, NEW q \in Requests, RequestStep(q)
  PROVE  AnnounceInv'
<1>1. ASSUME NEW r \in RowIds, ReadForRefresh(q, r) \/ ReadForCancel(q, r)
      PROVE  AnnounceInv'
  <2>1. PICK op \in {"refresh", "cancel"} : req' = [req EXCEPT ![q] = Holding(op, r, row[r])]
    BY <1>1 DEF ReadForRefresh, ReadForCancel
  <2>2. Holding(op, r, row[r]) \in Request
    BY <2>1 DEF Holding, Request, TruthInv, TypeOK
  <2>3. \A t \in Triggers : r = t /\ row[r].status \in Over => AccountedFor(t)
    BY DEF AnnounceInv, OutcomeAnnounced
  <2>4. row' = row
    BY <1>1 DEF ReadForRefresh, ReadForCancel
  <2> QED  BY <2>1, <2>2, <2>3, <2>4, AccountedCopy DEF Holding
<1>2. ASSUME NEW x \in Runs, ListRemote(q, x)
      PROVE  AnnounceInv'
  <2> DEFINE held == Holding("sync", x, [ext |-> Build(x), status |-> StatusOf(remote[x])])
  <2>1. held \in Request
    BY StatusOfType DEF TruthInv, TypeOK, Holding, Request, Snapshot, ExternalIds, Build, Id, RowIds
  <2>2. held.op = "sync"
    BY DEF Holding
  <2>3. row' = row /\ req' = [req EXCEPT ![q] = held]
    BY <1>2 DEF ListRemote
  <2> HIDE DEF held
  <2> QED  BY <2>1, <2>2, <2>3, AccountedCopy
<1>3. CASE AskStatus(q)
  <2> DEFINE reply == StatusReply(req[q].copy.ext)
             op == IF JustCompleted(req[q].copy.status, reply.status)
                   THEN "complete" ELSE "save"
             held == Holding(op, req[q].id, reply)
  <2>1. reply \in Snapshot /\ req[q].id \in RowIds
    BY <1>3, ReplyType DEF TruthInv, TypeOK, CopiesReal, AskStatus, Request, Snapshot, ExternalIds
  <2>2. ASSUME NEW t \in Triggers, op = "save", req[q].id = t, reply.status \in Over
        PROVE  AccountedFor(t)
    <3>1. req[q].copy.status = reply.status
      BY <2>2 DEF JustCompleted, Terminal, Over
    <3> QED  BY <1>3, <2>2, <3>1 DEF AskStatus, AnnounceInv, CopiesAccounted
  <2>3. op \in {"complete", "save"}
    OBVIOUS
  <2>4. req' = [req EXCEPT ![q] = held] /\ row' = row
    BY <1>3 DEF AskStatus
  <2> HIDE DEF reply, op
  <2>5. held \in Request
    BY <2>1, <2>3 DEF Holding, Request
  <2>6. held.op = op /\ held.id = req[q].id /\ held.copy = reply
    BY DEF Holding
  <2> HIDE DEF held
  <2> QED  BY <2>2, <2>3, <2>4, <2>5, <2>6, AccountedCopy
<1>4. CASE AskCancel(q)
  <2> DEFINE held == Holding("save", req[q].id,
                             [ext |-> req[q].copy.ext, status |-> "cancelled"])
  <2>1. held \in Request
    BY <1>4 DEF AskCancel, TruthInv, TypeOK, CopiesReal, Holding, Request, Snapshot, Statuses
  <2>2. held.copy.status \notin Over
    BY DEF Holding, Over
  <2>3. req' = [req EXCEPT ![q] = held] /\ row' = row
    BY <1>4 DEF AskCancel
  <2> HIDE DEF held
  <2> QED  BY <2>1, <2>2, <2>3, AccountedCopy
<1>5. CASE AnnounceRefresh(q) \/ RequestFails(q)
  <2>1. req' = [req EXCEPT ![q] = Idle] /\ row' = row
    BY <1>5 DEF AnnounceRefresh, RequestFails, Release
  <2>2. Idle \in Request /\ Idle.op = "idle"
    BY IdleType DEF Idle
  <2> HIDE DEF Idle
  <2> QED  BY <2>1, <2>2, AccountedCopy
<1>6. CASE Save(q)
  <2>1. req[q].id \in RowIds /\ req[q].copy \in Snapshot
    BY <1>6 DEF TruthInv, TypeOK, CopiesReal, Save, Request
  <2>2. row' = row \/ row' = [row EXCEPT ![req[q].id] = req[q].copy]
    BY <1>6 DEF Save, Update
  <2>3. ASSUME NEW t \in Triggers, t = req[q].id, req[q].copy.status \in Over
        PROVE  AccountedFor(t)'
    <3>1. CASE req[q].op = "save"
      BY <2>3, <3>1, StaysAccounted DEF AnnounceInv, CopiesAccounted
    <3>2. CASE req[q].op = "complete"
      <4>1. req'[q] = Holding("announce", req[q].id, NoRow)
        BY <1>6, <3>2 DEF Save, TruthInv, TypeOK
      <4> QED  BY <2>3, <4>1 DEF AccountedFor, Announcing, Holding
    <3> QED  BY <1>6, <3>1, <3>2 DEF Save
  <2>4. \A p \in Requests : req'[p] = req[p] \/ req'[p].op \in {"idle", "announce"}
    BY <1>6 DEF Save, TruthInv, TypeOK, Idle, Holding
  <2> QED  BY <2>1, <2>2, <2>3, <2>4, AccountedRow
<1>7. CASE Sync(q)
  <2> DEFINE r == RowOf(req[q].id)
  <2>1. r \in RowIds /\ req[q].copy \in Snapshot
    BY <1>7, RowOfIsRow DEF TruthInv, TypeOK, CopiesReal, Sync, Request
  <2>2. row' = row \/ row' = [row EXCEPT ![r] = req[q].copy]
    BY <1>7 DEF Sync
  <2>3. \A t \in Triggers : row' # row /\ t = r => AccountedFor(t)'
    BY <1>7 DEF Sync, AccountedFor
  <2>4. \A p \in Requests : req'[p] = req[p] \/ req'[p].op \in {"idle", "announce"}
    BY <1>7 DEF Sync, Release, TruthInv, TypeOK, Idle
  <2> HIDE DEF r
  <2> QED  BY <2>1, <2>2, <2>3, <2>4, AccountedRow
<1> QED  BY <1>1, <1>2, <1>3, <1>4, <1>5, <1>6, <1>7 DEF RequestStep

LEMMA NextAnnounceInv == TruthInv /\ AnnounceInv /\ [Next]_vars => AnnounceInv'
<1> SUFFICES ASSUME TruthInv, AnnounceInv, [Next]_vars PROVE AnnounceInv'
  OBVIOUS
<1>1. ASSUME Next, NEW x \in Runs, RemoteStep(x)
      PROVE  AnnounceInv'
  BY <1>1, AccountsUntouched DEF RemoteStep, RemoteStart, RemoteRun, RemoteEnd, Forget
<1>2. CASE Next /\ Restart
  <2>1. OutcomeAnnounced'
    BY <1>2, StaysAccounted DEF AnnounceInv, OutcomeAnnounced, Restart
  <2>2. CopiesAccounted'
    BY <1>2 DEF CopiesAccounted, Restart, Idle
  <2> QED  BY <2>1, <2>2 DEF AnnounceInv
<1>3. CASE UNCHANGED vars
  BY <1>3 DEF vars, ciVars, historyVars, AnnounceInv, OutcomeAnnounced, CopiesAccounted,
              AccountedFor, Announcing
<1> QED  BY <1>1, <1>2, <1>3, GoroutineAccounts, RequestAccounts DEF Next

-----------------------------------------------------------------------------
(* Every reply is recorded, if nothing comes between.  TriggerRecorded is not *)
(* inductive: the row must keep its id whoever writes it, and a row that has  *)
(* taken the id must keep it too.                                             *)

\* A row that has an id keeps one; only a Jenkins item's becomes another.
IdsStay ==
  \A r \in RowIds :
    row[r].ext # NoId => /\ row'[r].ext # NoId
                         /\ source # "jenkins" => row'[r].ext = row[r].ext

LEMMA RowsUntouchedIds == row' = row => IdsStay
BY DEF IdsStay

LEMMA RowWrittenIds ==
  ASSUME TypeOK, NEW r0 \in RowIds, NEW snap \in Snapshot,
         row' = row \/ row' = [row EXCEPT ![r0] = snap],
         row[r0].ext # NoId => /\ snap.ext # NoId
                               /\ source # "jenkins" => snap.ext = row[r0].ext
  PROVE  IdsStay
BY DEF IdsStay, TypeOK, NoId, Id

\* What a sync finds is the row with the run's id, or the run's own without one.
LEMMA SyncIds ==
  ASSUME TruthInv, NEW q \in Requests, Sync(q)
  PROVE  /\ RowOf(req[q].id) \in RowIds /\ req[q].copy \in Snapshot
         /\ req[q].copy.ext = Build(req[q].id)
         /\ row[RowOf(req[q].id)].ext \in {NoId, Build(req[q].id)}
         /\ row[RowOf(req[q].id)].ext = NoId => RowOf(req[q].id) \in Runs
<1> DEFINE x == req[q].id
<1>1. x \in Runs /\ x \in RowIds /\ x \notin Triggers /\ NamesOwn(x, req[q].copy.ext)
  BY DEF TruthInv, CopiesReal, Sync, RowIds
<1>2. req[q].copy \in Snapshot /\ req[q].copy.ext = Build(x)
  BY <1>1 DEF TruthInv, TypeOK, Request, NamesOwn
<1>3. RowOf(x) \in RowIds /\ (row[RowOf(x)].ext = Build(x) \/ RowOf(x) = x)
  BY <1>1, RowOfIsRow DEF TruthInv
<1>4. row[x].ext \in {NoId, Build(x)}
  BY <1>1 DEF TruthInv, RowsNameTheirRun, NamesOwn
<1>5. Build(x) # NoId
  BY DEF Build, NoId, Id
<1> QED  BY <1>1, <1>2, <1>3, <1>4, <1>5

LEMMA StepKeepsIds ==
  ASSUME TruthInv, RecordInv, [Next]_vars
  PROVE  IdsStay
<1>1. ASSUME NEW x \in Runs, RemoteStep(x)
      PROVE  IdsStay
  BY <1>1, RowsUntouchedIds DEF RemoteStep, RemoteStart, RemoteRun, RemoteEnd, Forget
<1>2. ASSUME NEW t \in Triggers, Create(t) \/ AgentCreate(t) \/ GoroutineStep(t) \/ Deadline(t)
      PROVE  IdsStay
  <2>1. t \in RowIds
    BY DEF RowIds
  <2>2. CASE Create(t) \/ AgentCreate(t)
    <3>1. PICK status \in {"running", "pending"} :
            row' = [row EXCEPT ![t] = [ext |-> NoId, status |-> status]]
      BY <2>2 DEF Create, AgentCreate
    <3>2. [ext |-> NoId, status |-> status] \in Snapshot
      BY <3>1 DEF Snapshot, ExternalIds, NoId, Id, Statuses
    <3>3. row[t].ext = NoId
      BY <2>2 DEF Create, AgentCreate, Goto, RecordInv, IdsKnown
    <3> QED  BY <2>1, <3>1, <3>2, <3>3, RowWrittenIds DEF TruthInv
  <2>3. CASE Record(t)
    <3>1. row[t].ext = NoId /\ claim[t] \in Snapshot
      BY <2>3 DEF Record, Goto, RecordInv, IdsKnown, TruthInv, TypeOK
    <3> QED  BY <2>1, <2>3, <3>1, RowWrittenIds DEF Record, Update, TruthInv
  <2>4. CASE row' = row
    BY <2>4, RowsUntouchedIds
  <2> QED  BY <1>2, <2>2, <2>3, <2>4 DEF GoroutineStep, Send, Answer, TriggerFails, Announce, StatementFails, Deadline
<1>3. ASSUME NEW q \in Requests, RequestStep(q)
      PROVE  IdsStay
  <2>1. CASE Save(q)
    <3>1. req[q].id \in RowIds /\ req[q].copy \in Snapshot
      BY <2>1 DEF TruthInv, TypeOK, CopiesReal, Save, Request
    <3>2. req[q].copy.ext # NoId /\ (source # "jenkins" => req[q].copy.ext = row[req[q].id].ext)
      BY <2>1 DEF Save, RecordInv, IdsKnown
    <3>3. row' = row \/ row' = [row EXCEPT ![req[q].id] = req[q].copy]
      BY <2>1 DEF Save, Update
    <3> QED  BY <3>1, <3>2, <3>3, RowWrittenIds DEF TruthInv
  <2>2. CASE Sync(q)
    <3>1. row' = row \/ row' = [row EXCEPT ![RowOf(req[q].id)] = req[q].copy]
      BY <2>2 DEF Sync
    <3> QED  BY <2>2, <3>1, SyncIds, RowWrittenIds DEF TruthInv
  <2>3. CASE row' = row
    BY <2>3, RowsUntouchedIds
  <2> QED  BY <1>3, <2>1, <2>2, <2>3 DEF RequestStep, ReadForRefresh, ReadForCancel, ListRemote,
              AskStatus, AskCancel, AnnounceRefresh, RequestFails
<1>4. CASE Restart \/ UNCHANGED vars
  BY <1>4, RowsUntouchedIds DEF Restart, vars
<1> QED  BY <1>1, <1>2, <1>3, <1>4 DEF Next

\* A triggered row without an id is written when it is made and when its reply
\* is recorded, and at no other time.
LEMMA NamelessRow ==
  ASSUME TruthInv, RecordInv, [Next]_vars, NEW t \in Triggers, row[t].ext = NoId
  PROVE  \/ row'[t] = row[t]
         \/ pc[t] = "new" /\ row'[t].ext = NoId
         \/ Record(t)
<1>1. t \in RowIds /\ t \notin Runs
  BY DEF RowIds
<1>2. ASSUME NEW x \in Runs, RemoteStep(x)
      PROVE  row' = row
  BY <1>2 DEF RemoteStep, RemoteStart, RemoteRun, RemoteEnd, Forget
<1>3. ASSUME NEW u \in Triggers, Create(u) \/ AgentCreate(u) \/ GoroutineStep(u) \/ Deadline(u)
      PROVE  \/ row'[t] = row[t]
             \/ pc[t] = "new" /\ row'[t].ext = NoId
             \/ Record(t)
  <2>1. CASE u = t
    <3>1. CASE Create(t) \/ AgentCreate(t)
      BY <1>1, <3>1 DEF Create, AgentCreate, Goto, TruthInv, TypeOK
    <3> QED  BY <1>3, <2>1, <3>1 DEF GoroutineStep, Send, Answer, TriggerFails, Announce, StatementFails, Deadline
  <2>2. CASE u # t
    <3>1. row' = row \/ \E snap \in Snapshot : row' = [row EXCEPT ![u] = snap]
      <4>1. CASE Create(u) \/ AgentCreate(u)
        <5>1. \A status \in {"running", "pending"} : [ext |-> NoId, status |-> status] \in Snapshot
          BY DEF Snapshot, ExternalIds, NoId, Id, Statuses
        <5> QED  BY <4>1, <5>1 DEF Create, AgentCreate
      <4>2. CASE Record(u)
        BY <4>2 DEF Record, Update, TruthInv, TypeOK
      <4> QED  BY <1>3, <4>1, <4>2
               DEF GoroutineStep, Send, Answer, TriggerFails, Announce, StatementFails, Deadline
    <3> QED  BY <1>1, <2>2, <3>1 DEF TruthInv, TypeOK
  <2> QED  BY <2>1, <2>2
<1>4. ASSUME NEW q \in Requests, RequestStep(q)
      PROVE  row'[t] = row[t]
  <2>1. CASE Save(q)
    <3>1. req[q].id # t
      BY <2>1 DEF Save, RecordInv, IdsKnown
    <3>2. row' = row \/ row' = [row EXCEPT ![req[q].id] = req[q].copy]
      BY <2>1 DEF Save, Update
    <3> QED  BY <1>1, <3>1, <3>2 DEF TruthInv, TypeOK
  <2>2. CASE Sync(q)
    <3>1. RowOf(req[q].id) # t
      BY <1>1, <2>2, SyncIds DEF Build, NoId, Id
    <3>2. row' = row \/ row' = [row EXCEPT ![RowOf(req[q].id)] = req[q].copy]
      BY <2>2 DEF Sync
    <3> QED  BY <1>1, <3>1, <3>2 DEF TruthInv, TypeOK
  <2> QED  BY <1>4, <2>1, <2>2 DEF RequestStep, ReadForRefresh, ReadForCancel, ListRemote,
              AskStatus, AskCancel, AnnounceRefresh, RequestFails
<1>5. CASE Restart \/ UNCHANGED vars
  BY <1>5 DEF Restart, vars
<1> QED  BY <1>2, <1>3, <1>4, <1>5 DEF Next

\* Where a goroutine goes.
Excused == dropped \union unstored

Moves(t) ==
  \/ pc'[t] = pc[t]
  \/ pc[t] = "new" /\ (Create(t) \/ AgentCreate(t))
  \/ pc[t] = "calling" /\ pc'[t] \in {"sent", "answered"}
  \/ pc[t] = "sent" /\ pc'[t] = "answered"
  \/ pc[t] = "answered" /\ Record(t)
  \/ pc[t] = "answered" /\ t \in Excused' /\ (Deadline(t) \/ StatementFails(t))
  \/ pc[t] = "announce" /\ pc'[t] = "done"
  \/ pc[t] \notin {"new", "done"} /\ pc'[t] = "lost"

ClaimStays(t) == claim'[t] # claim[t] => pc[t] \in {"calling", "sent"} /\ pc'[t] = "answered"

LEMMA GoroutineMove ==
  ASSUME TruthInv, [Next]_vars, NEW t \in Triggers
  PROVE  Moves(t) /\ ClaimStays(t) /\ Excused \subseteq Excused'
<1>1. ASSUME NEW x \in Runs, RemoteStep(x)
      PROVE  UNCHANGED <<pc, claim, Excused>>
  BY <1>1 DEF RemoteStep, RemoteStart, RemoteRun, RemoteEnd, Forget, Excused, historyVars
<1>2. ASSUME NEW q \in Requests, RequestStep(q)
      PROVE  UNCHANGED <<pc, claim, Excused>>
  BY <1>2 DEF RequestStep, ReadForRefresh, ReadForCancel, ListRemote, AskStatus, AskCancel,
              Save, AnnounceRefresh, Sync, RequestFails, Excused, historyVars
<1>3. CASE Restart
  <2>1. pc'[t] # pc[t] => pc[t] \in InFlight /\ pc'[t] = "lost"
    BY <1>3 DEF Restart
  <2>2. claim' = claim /\ Excused \subseteq Excused'
    BY <1>3 DEF Restart, Excused
  <2> QED  BY <2>1, <2>2 DEF InFlight, Moves, ClaimStays
<1>4. ASSUME NEW u \in Triggers, u # t,
             Create(u) \/ AgentCreate(u) \/ GoroutineStep(u) \/ Deadline(u)
      PROVE  pc'[t] = pc[t] /\ claim'[t] = claim[t] /\ Excused \subseteq Excused'
  BY <1>4 DEF Create, AgentCreate, GoroutineStep, Send, Answer, TriggerFails, Record, Announce,
              StatementFails, Deadline, Goto, Excused, historyVars, TruthInv, TypeOK
<1>5. CASE Create(t) \/ AgentCreate(t) \/ Record(t)
  BY <1>5 DEF Moves, ClaimStays, Create, AgentCreate, Record, Goto, Excused, historyVars
<1>6. CASE Deadline(t) \/ StatementFails(t)
  BY <1>6 DEF Moves, ClaimStays, Deadline, StatementFails, Excused, Goto, TruthInv, TypeOK
<1>7. CASE Announce(t) \/ Answer(t) \/ TriggerFails(t) \/ \E x \in Runs : Send(t, x)
  BY <1>7 DEF Moves, ClaimStays, Announce, Answer, TriggerFails, Send, Goto, Excused, historyVars,
              TruthInv, TypeOK
<1>8. CASE UNCHANGED vars
  BY <1>8 DEF vars, Excused, historyVars, Moves, ClaimStays
<1>9. ASSUME NEW u \in Triggers, Create(u) \/ AgentCreate(u) \/ GoroutineStep(u) \/ Deadline(u)
      PROVE  Moves(t) /\ ClaimStays(t) /\ Excused \subseteq Excused'
  <2>1. CASE u = t
    BY <1>5, <1>6, <1>7, <1>9, <2>1 DEF GoroutineStep
  <2>2. CASE u # t
    BY <1>4, <1>9, <2>2 DEF Moves, ClaimStays
  <2> QED  BY <2>1, <2>2
<1> QED  BY <1>1, <1>2, <1>3, <1>8, <1>9 DEF Next, Moves, ClaimStays

\* A row that has the id another wanted keeps it; with Jenkins nobody wants one
\* that another has.
LEMMA TakenStays ==
  ASSUME TruthInv, RecordInv, [Next]_vars, NEW t \in Triggers, claim'[t] = claim[t],
         Taken(t, claim[t].ext)
  PROVE  Taken(t, claim[t].ext)'
<1>1. PICK s \in RowIds \ {t} : claim[t].ext # NoId /\ row[s].ext = claim[t].ext
  BY DEF Taken
<1>2. source # "jenkins"
  <2> SUFFICES ASSUME source = "jenkins" PROVE FALSE
    OBVIOUS
  <2>1. started[t] \in Runs /\ row[s].ext = Queue(started[t])
    BY <1>1 DEF RecordInv, ClaimsKnown
  <2>2. row[s].ext # NoId /\ row[s].ext # Build(s) /\ row[s].ext.run = started[t]
    BY <2>1 DEF Queue, Build, NoId, Id
  <2>3. s \in Triggers /\ started[t] \in {NoRun, started[s]}
    BY <2>2 DEF TruthInv, RowsNameTheirRun, NamesOwn
  <2>4. started[s] # started[t]
    BY <2>1, <2>3 DEF RecordInv, ClaimsKnown
  <2> QED  BY <2>1, <2>3, <2>4, PipelineAssumption
<1>3. row'[s].ext = row[s].ext
  BY <1>1, <1>2, StepKeepsIds DEF IdsStay
<1> QED  BY <1>1, <1>3 DEF Taken, NoId, Id

LEMMA NextTriggerRecorded ==
  ASSUME TruthInv, RecordInv, [Next]_vars
  PROVE  TriggerRecorded'
<1> SUFFICES ASSUME NEW t \in Triggers, pc'[t] \in {"announce", "done"}, claim'[t] # NoRow
             PROVE  ReplyStored(t)' \/ t \in Excused' \/ Taken(t, claim[t].ext)'
                    \/ claim'[t] # claim[t]
  <2>1. ASSUME NEW t \in Triggers, pc'[t] \in {"announce", "done"}
        PROVE  claim'[t] = claim[t]
    BY <2>1, GoroutineMove DEF ClaimStays
  <2> QED  BY <2>1 DEF TriggerRecorded, Excused, Taken, NoRow, NoId, Id
<1>0. t \in RowIds /\ claim'[t] = claim[t]
  BY GoroutineMove DEF RowIds, ClaimStays
<1>1. CASE pc[t] \in {"announce", "done"}
  <2>1. ReplyStored(t) \/ t \in Excused \/ Taken(t, claim[t].ext)
    BY <1>0, <1>1 DEF RecordInv, TriggerRecorded, Excused
  <2>2. CASE row[t].ext # NoId
    BY <1>0, <2>2, StepKeepsIds DEF IdsStay, ReplyStored, NoId, Id
  <2>3. CASE row[t].status = "error" /\ row[t].ext = NoId
    BY <1>1, <2>3, NamelessRow DEF ReplyStored, Record, Goto
  <2>4. CASE t \in Excused
    BY <2>4, GoroutineMove
  <2>5. CASE Taken(t, claim[t].ext)
    BY <1>0, <2>5, TakenStays
  <2> QED  BY <2>1, <2>2, <2>3, <2>4, <2>5 DEF ReplyStored
<1>2. CASE Record(t)
  <2>1. CASE Taken(t, claim[t].ext)
    BY <1>0, <2>1, TakenStays
  <2>2. CASE ~Taken(t, claim[t].ext)
    <3>1. row'[t] = claim[t]
      BY <1>0, <1>2, <2>2 DEF Record, Update, TruthInv, TypeOK
    <3>2. claim[t].ext = NoId => claim[t].status = "error"
      BY <1>0 DEF RecordInv, ClaimsKnown
    <3> QED  BY <3>1, <3>2 DEF ReplyStored, NoId, Id
  <2> QED  BY <2>1, <2>2
<1>3. CASE t \in Excused'
  BY <1>3
<1>4. CASE AgentCreate(t)
  BY <1>0, <1>4 DEF AgentCreate, Goto, RecordInv, ClaimsKnown
<1> QED  BY <1>1, <1>2, <1>3, <1>4, GoroutineMove DEF Moves, Create, Goto, TruthInv, TypeOK

\* What a request holds of its row: one it takes now, or one it had.
KnownCopy(held) ==
  held.op \in {"refresh", "cancel", "save", "complete"} =>
    /\ held.id \in RowIds
    /\ row[held.id].ext # NoId /\ held.copy.ext # NoId
    /\ source # "jenkins" => held.copy.ext = row[held.id].ext

LEMMA RequestMove ==
  ASSUME TruthInv, RecordInv, [Next]_vars, NEW q \in Requests
  PROVE  KnownCopy(req'[q])
<1>1. KnownCopy(req[q])
  BY DEF KnownCopy, TruthInv, CopiesReal, RecordInv, IdsKnown
<1>2. ASSUME req'[q] = req[q]
      PROVE  KnownCopy(req'[q])
  BY <1>1, <1>2
<1>3. ASSUME req'[q].op \in {"idle", "announce", "sync"}
      PROVE  KnownCopy(req'[q])
  BY <1>3 DEF KnownCopy
<1>4. ASSUME NEW p \in Requests, RequestStep(p)
      PROVE  KnownCopy(req'[q])
  <2>1. CASE p # q
    <3>1. req'[q] = req[q]
      BY <1>4, <2>1 DEF RequestStep, ReadForRefresh, ReadForCancel, ListRemote, AskStatus,
                        AskCancel, Save, AnnounceRefresh, Sync, RequestFails, Release,
                        TruthInv, TypeOK
    <3> QED  BY <1>2, <3>1
  <2>2. ASSUME p = q, NEW r \in RowIds, ReadForRefresh(q, r) \/ ReadForCancel(q, r)
        PROVE  KnownCopy(req'[q])
    <3>1. PICK op \in {"refresh", "cancel"} : req'[q] = Holding(op, r, row[r])
      BY <2>2 DEF ReadForRefresh, ReadForCancel, TruthInv, TypeOK
    <3>2. row[r].ext # NoId
      BY <2>2 DEF ReadForRefresh, ReadForCancel
    <3> QED  BY <3>1, <3>2 DEF KnownCopy, Holding
  <2>3. CASE p = q /\ AskStatus(q)
    <3> DEFINE e == req[q].copy.ext
    <3>1. PICK op \in {"complete", "save"} : req'[q] = Holding(op, req[q].id, StatusReply(e))
      BY <2>3 DEF AskStatus, TruthInv, TypeOK
    <3>2. /\ req[q].id \in RowIds /\ row[req[q].id].ext # NoId /\ e # NoId
          /\ source # "jenkins" => e = row[req[q].id].ext
      BY <1>1, <2>3 DEF AskStatus, KnownCopy
    <3>3. StatusReply(e).ext = ItemOrBuild(e)
      BY DEF StatusReply
    <3>4. ItemOrBuild(e) # NoId
      BY <3>2 DEF ItemOrBuild, Build, NoId, Id
    <3>5. source # "jenkins" => ItemOrBuild(e) = e
      BY <3>2 DEF ItemOrBuild, RecordInv, IdsKnown
    <3> HIDE DEF e
    <3> QED  BY <3>1, <3>2, <3>3, <3>4, <3>5 DEF KnownCopy, Holding
  <2>4. CASE p = q /\ AskCancel(q)
    <3>1. req'[q] = Holding("save", req[q].id, [ext |-> req[q].copy.ext, status |-> "cancelled"])
      BY <2>4 DEF AskCancel, TruthInv, TypeOK
    <3> QED  BY <1>1, <2>4, <3>1 DEF AskCancel, KnownCopy, Holding
  <2>5. CASE p = q /\ (Save(q) \/ Sync(q) \/ AnnounceRefresh(q) \/ RequestFails(q))
    <3>1. req'[q].op \in {"idle", "announce"}
      BY <2>5 DEF Save, Sync, AnnounceRefresh, RequestFails, Release, Idle, Holding,
                  TruthInv, TypeOK
    <3> QED  BY <1>3, <3>1
  <2>6. ASSUME p = q, NEW x \in Runs, ListRemote(q, x)
        PROVE  KnownCopy(req'[q])
    <3>1. req'[q].op = "sync"
      BY <2>6 DEF ListRemote, Holding, TruthInv, TypeOK
    <3> QED  BY <1>3, <3>1
  <2> QED  BY <1>4, <2>1, <2>2, <2>3, <2>4, <2>5, <2>6 DEF RequestStep
<1>5. CASE Restart
  <2>1. req'[q].op = "idle"
    BY <1>5 DEF Restart, Idle
  <2> QED  BY <1>3, <2>1
<1>6. CASE req' = req
  BY <1>2, <1>6
<1>7. ASSUME NEW x \in Runs, RemoteStep(x)
      PROVE  req' = req
  BY <1>7 DEF RemoteStep, RemoteStart, RemoteRun, RemoteEnd, Forget
<1>8. ASSUME NEW t \in Triggers, Create(t) \/ AgentCreate(t) \/ GoroutineStep(t) \/ Deadline(t)
      PROVE  req' = req
  BY <1>8 DEF Create, AgentCreate, GoroutineStep, Send, Answer, TriggerFails, Record, Announce,
              StatementFails, Deadline
<1>9. CASE UNCHANGED vars
  BY <1>2, <1>9 DEF vars
<1> QED  BY <1>4, <1>5, <1>6, <1>7, <1>8, <1>9 DEF Next

\* Only a Jenkins source's rows have items.
LEMMA RowIdsAfter ==
  ASSUME TruthInv, RecordInv, [Next]_vars, NEW r \in RowIds, source # "jenkins"
  PROVE  row'[r].ext.kind # "queue"
<1>1. row[r].ext.kind # "queue"
  BY DEF RecordInv, IdsKnown
<1>2. CASE row'[r] = row[r]
  BY <1>1, <1>2
<1>3. CASE row[r].ext # NoId
  <2>1. row'[r].ext = row[r].ext
    BY <1>3, StepKeepsIds DEF IdsStay
  <2> QED  BY <1>1, <2>1
<1>4. CASE row[r].ext = NoId /\ r \in Triggers
  <2>1. CASE Record(r)
    <3>1. row'[r] \in {row[r], claim[r]}
      BY <2>1 DEF Record, Update, TruthInv, TypeOK
    <3>2. claim[r].ext.kind # "queue"
      BY <1>4 DEF RecordInv, ClaimsKnown
    <3> QED  BY <1>1, <3>1, <3>2
  <2>2. CASE row'[r].ext = NoId
    BY <2>2 DEF NoId, Id
  <2> QED  BY <1>2, <1>4, <2>1, <2>2, NamelessRow
<1>5. CASE r \in Runs
  <2>1. ASSUME TruthInv'
        PROVE  row'[r].ext = NoId \/ row'[r].ext = Build(r)
    BY <1>5, <2>1, PipelineAssumption DEF TruthInv, RowsNameTheirRun, NamesOwn, Build, NoId, Id
  <2>2. TruthInv'
    BY NextTruthInv
  <2> QED  BY <2>1, <2>2 DEF Build, NoId, Id
<1> QED  BY <1>3, <1>4, <1>5 DEF RowIds

LEMMA SourceStays ==
  ASSUME TruthInv, [Next]_vars
  PROVE  source' = source
<1>1. ASSUME NEW x \in Runs, RemoteStep(x)
      PROVE  source' = source
  BY <1>1 DEF RemoteStep, RemoteStart, RemoteRun, RemoteEnd, Forget
<1>2. ASSUME NEW t \in Triggers, Create(t) \/ AgentCreate(t) \/ GoroutineStep(t) \/ Deadline(t)
      PROVE  source' = source
  BY <1>2 DEF Create, AgentCreate, GoroutineStep, Send, Answer, TriggerFails, Record, Announce,
              StatementFails, Deadline, ciVars
<1>3. ASSUME NEW q \in Requests, RequestStep(q)
      PROVE  source' = source
  BY <1>3 DEF RequestStep, ReadForRefresh, ReadForCancel, ListRemote, AskStatus, AskCancel,
              Save, AnnounceRefresh, Sync, RequestFails, ciVars
<1> QED  BY <1>1, <1>2, <1>3 DEF Next, Restart, vars, ciVars

LEMMA NextIdsKnown ==
  ASSUME TruthInv, RecordInv, [Next]_vars
  PROVE  IdsKnown'
<1>1. ASSUME NEW t \in Triggers, pc'[t] \in {"new", "calling", "sent", "answered"}
      PROVE  row'[t].ext = NoId
  <2>1. pc[t] \in {"new", "calling", "sent", "answered"} /\ ~Record(t)
    BY <1>1, GoroutineMove
    DEF Moves, Record, AfterRecord, Goto, TruthInv, TypeOK, InFlight
  <2>2. row[t].ext = NoId
    BY <2>1 DEF RecordInv, IdsKnown
  <2> QED  BY <2>1, <2>2, NamelessRow
<1>2. ASSUME NEW q \in Requests, req'[q].op \in {"refresh", "cancel", "save", "complete"}
      PROVE  /\ row'[req'[q].id].ext # NoId /\ req'[q].copy.ext # NoId
             /\ source' # "jenkins" => req'[q].copy.ext = row'[req'[q].id].ext
  BY <1>2, RequestMove, StepKeepsIds, SourceStays DEF KnownCopy, IdsStay
<1>3. source' # "jenkins" => \A r \in RowIds : row'[r].ext.kind # "queue"
  BY RowIdsAfter, SourceStays
<1> QED  BY <1>1, <1>2, <1>3 DEF IdsKnown, NoId, Id

\* A run that exists goes on existing.
LEMMA RunsStay ==
  ASSUME TruthInv, [Next]_vars, NEW x \in Runs, remote[x] # "absent"
  PROVE  remote'[x] # "absent"
<1>1. ASSUME NEW y \in Runs, RemoteStep(y)
      PROVE  remote'[x] # "absent"
  BY <1>1 DEF RemoteStep, RemoteStart, RemoteRun, RemoteEnd, Forget, FirstState, Outcomes,
              TruthInv, TypeOK
<1>2. ASSUME NEW t \in Triggers, Create(t) \/ AgentCreate(t) \/ GoroutineStep(t) \/ Deadline(t)
      PROVE  remote'[x] # "absent"
  BY <1>2 DEF Create, AgentCreate, GoroutineStep, Send, FirstState, Answer, TriggerFails, Record,
              Announce, StatementFails, Deadline, ciVars, TruthInv, TypeOK
<1>3. ASSUME NEW q \in Requests, RequestStep(q)
      PROVE  remote'[x] # "absent"
  <2>1. CASE AskCancel(q)
    BY <2>1 DEF AskCancel, StateAfterCancel, TruthInv, TypeOK
  <2> QED  BY <1>3, <2>1 DEF RequestStep, ReadForRefresh, ReadForCancel, ListRemote, AskStatus,
              Save, AnnounceRefresh, Sync, RequestFails, ciVars
<1> QED  BY <1>1, <1>2, <1>3 DEF Next, Restart, vars, ciVars

\* A trigger starts one run, which was nobody's.
LEMMA StartMove ==
  ASSUME TruthInv, [Next]_vars
  PROVE  \/ started' = started
         \/ \E t \in Triggers, x \in Runs : Send(t, x)
<1>1. ASSUME NEW x \in Runs, RemoteStep(x)
      PROVE  started' = started
  BY <1>1 DEF RemoteStep, RemoteStart, RemoteRun, RemoteEnd, Forget
<1>2. ASSUME NEW t \in Triggers, Create(t) \/ AgentCreate(t) \/ GoroutineStep(t) \/ Deadline(t)
      PROVE  started' = started \/ \E x \in Runs : Send(t, x)
  BY <1>2 DEF Create, AgentCreate, GoroutineStep, Answer, TriggerFails, Record, Announce,
              StatementFails, Deadline, ciVars
<1>3. ASSUME NEW q \in Requests, RequestStep(q)
      PROVE  started' = started
  BY <1>3 DEF RequestStep, ReadForRefresh, ReadForCancel, ListRemote, AskStatus, AskCancel,
              Save, AnnounceRefresh, Sync, RequestFails, ciVars
<1> QED  BY <1>1, <1>2, <1>3 DEF Next, Restart, vars, ciVars

\* The id and the status an answer leaves behind.
ClaimKnown(snap, x) ==
  /\ snap.ext = NoId => snap.status = "error"
  /\ IF source # "jenkins" THEN snap.ext.kind # "queue"
     ELSE snap.ext # NoId => x \in Runs /\ snap.ext = Queue(x)

LEMMA ReplyKnown ==
  ASSUME TruthInv, NEW t \in Triggers, pc[t] = "sent", NEW reply \in Replies(t)
  PROVE  ClaimKnown([reply EXCEPT !.status = Recorded(reply.status)], started[t])
<1>1. started[t] \in Runs /\ source \in {"gitlab", "github", "jenkins", "local"}
  BY DEF TruthInv, TypeOK, RepliesReal
<1>2. reply.ext # NoId
      /\ IF source # "jenkins" THEN reply.ext.kind # "queue" ELSE reply.ext = Queue(started[t])
  <2>1. CASE source = "gitlab"
    BY <2>1 DEF Replies, GitLabReplies, Build, NoId, Id
  <2>2. CASE source = "jenkins"
    BY <2>2 DEF Replies, JenkinsReplies, Queue, NoId, Id
  <2>3. CASE source = "local"
    BY <2>3 DEF Replies, LocalReplies, Build, NoId, Id
  <2>4. CASE source = "github"
    BY <2>4 DEF Replies, GitHubReplies, Build, NotFound, NoId, Id
  <2> QED  BY <1>1, <2>1, <2>2, <2>3, <2>4
<1>3. [reply EXCEPT !.status = Recorded(reply.status)].ext = reply.ext
  BY RepliesType DEF TruthInv, Snapshot
<1> HIDE DEF Recorded
<1> QED  BY <1>1, <1>2, <1>3 DEF ClaimKnown

LEMMA ClaimMove ==
  ASSUME TruthInv, [Next]_vars, NEW t \in Triggers, claim'[t] # claim[t]
  PROVE  ClaimKnown(claim'[t], started[t]) /\ started'[t] = started[t]
<1>1. Answer(t) \/ TriggerFails(t)
  <2>1. pc[t] \in {"calling", "sent"} /\ pc'[t] = "answered"
    BY GoroutineMove DEF ClaimStays
  <2>2. ASSUME NEW x \in Runs, RemoteStep(x)
        PROVE  claim' = claim
    BY <2>2 DEF RemoteStep, RemoteStart, RemoteRun, RemoteEnd, Forget
  <2>3. ASSUME NEW q \in Requests, RequestStep(q)
        PROVE  claim' = claim
    BY <2>3 DEF RequestStep, ReadForRefresh, ReadForCancel, ListRemote, AskStatus, AskCancel,
                Save, AnnounceRefresh, Sync, RequestFails
  <2>4. ASSUME NEW u \in Triggers, Create(u) \/ AgentCreate(u) \/ GoroutineStep(u) \/ Deadline(u)
        PROVE  claim'[t] = claim[t] \/ Answer(t) \/ TriggerFails(t)
    BY <2>4 DEF Create, AgentCreate, GoroutineStep, Send, Answer, TriggerFails, Record, Announce,
                StatementFails, Deadline, TruthInv, TypeOK
  <2> QED  BY <2>2, <2>3, <2>4 DEF Next, Restart, vars
<1>2. CASE Answer(t)
  <2>1. PICK reply \in Replies(t) :
          claim' = [claim EXCEPT ![t] = [reply EXCEPT !.status = Recorded(reply.status)]]
    BY <1>2 DEF Answer
  <2>2. claim'[t] = [reply EXCEPT !.status = Recorded(reply.status)]
    BY <2>1 DEF TruthInv, TypeOK
  <2> QED  BY <1>2, <2>2, ReplyKnown DEF Answer, Goto, ciVars
<1>3. CASE TriggerFails(t)
  <2>1. claim'[t] = [ext |-> NoId, status |-> "error"]
    BY <1>3 DEF TriggerFails, TruthInv, TypeOK
  <2> QED  BY <1>3, <2>1 DEF TriggerFails, ClaimKnown, NoId, Id, ciVars
<1> QED  BY <1>1, <1>2, <1>3

LEMMA NextClaimsKnown ==
  ASSUME TruthInv, RecordInv, [Next]_vars
  PROVE  ClaimsKnown'
<1> SUFFICES ASSUME NEW t \in Triggers
             PROVE  /\ pc'[t] \in {"new", "calling", "sent"} => claim'[t] = NoRow
                    /\ claim'[t].ext = NoId => claim'[t] = NoRow \/ claim'[t].status = "error"
                    /\ IF source # "jenkins" THEN claim'[t].ext.kind # "queue"
                       ELSE claim'[t].ext # NoId =>
                              started'[t] \in Runs /\ claim'[t].ext = Queue(started'[t])
                    /\ started'[t] \in Runs =>
                         /\ remote'[started'[t]] # "absent"
                         /\ \A u \in Triggers \ {t} : started'[u] # started'[t]
  BY SourceStays DEF ClaimsKnown, NoRow, NoId, Queue, Id
<1>1. /\ pc[t] \in {"new", "calling", "sent"} => claim[t] = NoRow
      /\ claim[t].ext = NoId => claim[t] = NoRow \/ claim[t].status = "error"
      /\ IF source # "jenkins" THEN claim[t].ext.kind # "queue"
         ELSE claim[t].ext # NoId => started[t] \in Runs /\ claim[t].ext = Queue(started[t])
      /\ started[t] \in Runs =>
           remote[started[t]] # "absent" /\ \A u \in Triggers \ {t} : started[u] # started[t]
  BY DEF RecordInv, ClaimsKnown
<1>2. pc'[t] \in {"new", "calling", "sent"} => claim'[t] = NoRow
  <2>1. ASSUME pc'[t] \in {"new", "calling", "sent"}
        PROVE  pc[t] \in {"new", "calling", "sent"} /\ claim'[t] = claim[t]
    BY <2>1, GoroutineMove
    DEF Moves, ClaimStays, Record, AfterRecord, Deadline, StatementFails, Goto, TruthInv, TypeOK, InFlight
  <2> QED  BY <1>1, <2>1
<1>3. /\ started[t] # NoRun => started'[t] = started[t]
      /\ started'[t] \in Runs =>
           /\ remote'[started'[t]] # "absent"
           /\ \A u \in Triggers \ {t} : started'[u] # started'[t]
  <2>1. CASE started' = started
    BY <1>1, <2>1, RunsStay
  <2>2. ASSUME NEW v \in Triggers, NEW x \in Runs, Send(v, x)
        PROVE  /\ started[t] # NoRun => started'[t] = started[t]
               /\ started'[t] \in Runs =>
                    /\ remote'[started'[t]] # "absent"
                    /\ \A u \in Triggers \ {t} : started'[u] # started'[t]
    <3>1. /\ remote[x] = "absent" /\ remote'[x] # "absent"
          /\ started[v] = NoRun /\ started'[v] = x
          /\ \A u \in Triggers \ {v} : started'[u] = started[u]
      BY <2>2 DEF Send, Goto, FirstState, TruthInv, TypeOK, RepliesReal
    <3>2. \A u \in Triggers : started[u] # x
      BY <2>2, <3>1 DEF RecordInv, ClaimsKnown
    <3>3. CASE t = v
      BY <3>1, <3>2, <3>3
    <3>4. CASE t # v
      <4>1. started'[t] = started[t] /\ started[t] # x
        BY <3>1, <3>2, <3>4
      <4> QED  BY <1>1, <3>1, <4>1, RunsStay
    <3> QED  BY <3>3, <3>4
  <2> QED  BY <2>1, <2>2, StartMove
<1>4. CASE claim'[t] # claim[t]
  BY <1>2, <1>3, <1>4, ClaimMove DEF ClaimKnown
<1>5. CASE claim'[t] = claim[t]
  <2>1. started[t] \in Runs => started'[t] = started[t]
    BY <1>3, PipelineAssumption
  <2> QED  BY <1>1, <1>2, <1>3, <1>5, <2>1
<1> QED  BY <1>4, <1>5

-----------------------------------------------------------------------------
(* The theorems *)

LEMMA InitIInv == Init => IInv
<1> SUFFICES ASSUME Init PROVE IInv
  OBVIOUS
<1>1. TruthInv
  BY InitTruthInv
<1>2. AnnounceInv
  BY DEF Init, AnnounceInv, OutcomeAnnounced, CopiesAccounted, NoRow, Idle, Over, RowIds
<1>3. NoRow.ext = NoId /\ NoId.kind # "queue"
  BY DEF NoRow, NoId, Id
<1>4. TriggerRecorded /\ IdsKnown /\ ClaimsKnown
  BY <1>3, PipelineAssumption DEF Init, TriggerRecorded, IdsKnown, ClaimsKnown, Idle, RowIds
<1> QED  BY <1>1, <1>2, <1>4 DEF IInv, RecordInv

LEMMA NextIInv == IInv /\ [Next]_vars => IInv'
<1> SUFFICES ASSUME IInv, [Next]_vars PROVE IInv'
  OBVIOUS
<1>1. TruthInv' /\ AnnounceInv'
  BY NextTruthInv, NextAnnounceInv DEF IInv
<1>2. RecordInv'
  BY NextTriggerRecorded, NextIdsKnown, NextClaimsKnown DEF IInv, RecordInv
<1> QED  BY <1>1, <1>2 DEF IInv

\* However a trigger, refreshes, cancels, syncs, deadlines and restarts overlap:
\* no two rows name one run, a row names its own run, and an outcome it claims
\* is the one the CI system had, or one that the code presumes.
THEOREM PipelineInvariance == Spec => []IInv
<1>1. IInv /\ [Next]_vars => IInv'
  BY NextIInv
<1> QED  BY InitIInv, <1>1, PTL DEF Spec

\* The event pipeline_run.completed of a triggered run that is over was or is
\* being published, unless a sync found out, or a deadline or crash came between:
\* no refresh that stores what another has already stored can leave it out.
THEOREM OutcomesAnnounced == Spec => []OutcomeAnnounced
<1>1. IInv => OutcomeAnnounced
  BY DEF IInv, AnnounceInv
<1> QED  BY <1>1, PipelineInvariance, PTL

\* A trigger's goroutine that ended in time, with no statement of it failed, left
\* its reply in the row, unless another row has the id: no refresh, cancel or
\* sync undoes what it stored (triggerPipelineRun's goroutine,
\* PipelineRunRepository.Update).
THEOREM TriggersRecorded == Spec => []TriggerRecorded
<1>1. IInv => TriggerRecorded
  BY DEF IInv, RecordInv
<1> QED  BY <1>1, PipelineInvariance, PTL

=============================================================================
