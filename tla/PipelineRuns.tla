---------------------------- MODULE PipelineRuns ----------------------------
(***************************************************************************)
(* The rows of pipeline_runs that belong to one pipeline source, and those *)
(* who write them (internal/api/rest/pipeline_handlers.go,                 *)
(* internal/repository/pipeline_repo.go, internal/pipeline): the goroutine *)
(* each trigger leaves behind, and refresh, cancel and sync requests.      *)
(*                                                                         *)
(* A source is of one type.  GitLab, GitHub and Jenkins run the pipeline   *)
(* elsewhere; "local" stands for Ansible, Terraform, Trivy and the         *)
(* security scan, whose Trigger runs it to the end.  A row's external id   *)
(* names a run, a Jenkins queue item, the word GitHub's adapter uses when  *)
(* it found no run, or nothing.  Logs, times, parameters and jobs are left *)
(* out; so is the deletion of the source.  A run that is over on the CI    *)
(* system stays as it ended: that GitLab can retry one, and GitHub run one *)
(* again, is left out too.                                                 *)
(***************************************************************************)
EXTENDS Naturals, FiniteSets

CONSTANTS Runs,        \* runs on the CI system
          Triggers,    \* trigger requests; each names the row it creates
          Requests,    \* refresh, cancel and sync requests, used over and over
          SourceTypes, \* a subset of the types below
          NoRun,
          MaxForeign   \* bound: runs that others start on the CI system

ASSUME PipelineAssumption ==
  /\ SourceTypes \subseteq {"gitlab", "github", "jenkins", "local"}
  /\ Runs \intersect Triggers = {}
  /\ NoRun \notin Runs \union Triggers
  /\ MaxForeign \in Nat

VARIABLES source,    \* the source's type
          remote,    \* what the CI system says of each run
          started,   \* the run a trigger's provider call started
          forgotten, \* local runs whose adapter no longer remembers them
          row,       \* the table: external id and status
          pc,        \* where each trigger's goroutine is
          claim,     \* what its provider call returned
          req,       \* the requests in flight
          reported,  \* history: triggers with an event pipeline_run.completed,
                     \* or whose row a sync has written
          dropped,   \* history: triggers whose result or event met a deadline
                     \* or a crash
          unstored   \* history: triggers whose goroutine had a statement fail

ciVars == <<source, remote, started, forgotten>>
historyVars == <<reported, dropped, unstored>>
vars == <<ciVars, row, pc, claim, req, historyVars>>

RowIds == Runs \union Triggers

Id(kind, x) == [kind |-> kind, run |-> x]
NoId == Id("none", NoRun)
NotFound == Id("pending", NoRun)
Queue(x) == Id("queue", x)
Build(x) == Id("run", x)
ExternalIds == [kind : {"none", "pending", "queue", "run"}, run : Runs \union {NoRun}]

RemoteStates == {"absent", "queued", "running", "success", "failed", "warning",
                 "cancelled", "dropped"}
Statuses == {"absent", "pending", "running", "success", "failed", "warning",
             "cancelled", "error"}
Terminal == {"success", "failed", "cancelled", "error"}

Snapshot == [ext : ExternalIds, status : Statuses]
NoRow == [ext |-> NoId, status |-> "absent"]

\* What a request does next, the row it is about, and its copy of that row.
Request == [op : {"idle", "refresh", "cancel", "save", "complete", "announce", "sync"},
            id : RowIds \union {NoRun}, copy : Snapshot]
Idle == [op |-> "idle", id |-> NoRun, copy |-> NoRow]
Holding(op, r, snap) == [op |-> op, id |-> r, copy |-> snap]

InFlight == {"calling", "sent", "answered", "announce"}

TypeOK == /\ source \in SourceTypes
          /\ remote \in [Runs -> RemoteStates]
          /\ started \in [Triggers -> Runs \union {NoRun}]
          /\ forgotten \subseteq Runs
          /\ row \in [RowIds -> Snapshot]
          /\ pc \in [Triggers -> InFlight \union {"new", "done", "lost"}]
          /\ claim \in [Triggers -> Snapshot]
          /\ req \in [Requests -> Request]
          /\ reported \subseteq Triggers
          /\ dropped \subseteq Triggers
          /\ unstored \subseteq Triggers

Init == /\ source \in SourceTypes
        /\ remote = [x \in Runs |-> "absent"]
        /\ started = [t \in Triggers |-> NoRun]
        /\ forgotten = {}
        /\ row = [r \in RowIds |-> NoRow]
        /\ pc = [t \in Triggers |-> "new"]
        /\ claim = [t \in Triggers |-> NoRow]
        /\ req = [q \in Requests |-> Idle]
        /\ reported = {}
        /\ dropped = {}
        /\ unstored = {}

\* The unique index on (source_id, external_run_id), for ids that are not empty.
Taken(r, e) == e # NoId /\ \E s \in RowIds \ {r} : row[s].ext = e

\* PipelineRunRepository.Update; its callers ignore the error.
Update(r, snap) ==
  row' = IF Taken(r, snap.ext) THEN row ELSE [row EXCEPT ![r] = snap]

-----------------------------------------------------------------------------
(* The CI system *)

Foreign == {x \in Runs : remote[x] # "absent" /\ \A t \in Triggers : started[t] # x}

\* A Jenkins item waits before it becomes a build; that others' runs may wait
\* too makes no difference here.
FirstState == IF source = "jenkins" THEN "queued" ELSE "running"

\* A run somebody else started, by a push for example.
RemoteStart(x) ==
  /\ source # "local"
  /\ remote[x] = "absent"
  /\ Cardinality(Foreign) < MaxForeign
  /\ remote' = [remote EXCEPT ![x] = FirstState]
  /\ UNCHANGED <<source, started, forgotten, row, pc, claim, req, historyVars>>

RemoteRun(x) ==
  /\ remote[x] = "queued"
  /\ remote' = [remote EXCEPT ![x] = "running"]
  /\ UNCHANGED <<source, started, forgotten, row, pc, claim, req, historyVars>>

\* UNSTABLE builds, and GitHub's neutral and stale runs, are over with a status
\* that the platform does not take for final; one that timed out counts as failed.
Outcomes == {"success", "failed"}
            \union (IF source = "local" THEN {} ELSE {"cancelled"})
            \union (IF source \in {"jenkins", "github"} THEN {"warning"} ELSE {})

RemoteEnd(x) ==
  /\ remote[x] = "running"
  /\ \E o \in Outcomes : remote' = [remote EXCEPT ![x] = o]
  /\ UNCHANGED <<source, started, forgotten, row, pc, claim, req, historyVars>>

\* The local adapters drop what has been over for some minutes.
Forget(x) ==
  /\ source = "local"
  /\ remote[x] \in Outcomes
  /\ forgotten' = forgotten \union {x}
  /\ UNCHANGED <<source, remote, started, row, pc, claim, req, historyVars>>

StatusOf(state) == CASE state = "queued"  -> "pending"
                     [] state = "dropped" -> "cancelled"
                     [] OTHER             -> state

\* Jenkins answers with the build's number once a queued item has one.
ItemOrBuild(e) == IF e.kind = "queue" /\ remote[e.run] \notin {"queued", "dropped"}
                  THEN Build(e.run) ELSE e

\* Provider.Status.  A local adapter says success of what it does not know.
StatusReply(e) ==
  [ext    |-> ItemOrBuild(e),
   status |-> IF e.run \in forgotten THEN "success" ELSE StatusOf(remote[e.run])]

\* What ListRemoteRuns says of a run.  Jenkins lists builds, not queued items.
Listed(x) == remote[x] # "absent" /\ ~(source = "jenkins" /\ remote[x] \in {"queued", "dropped"})

-----------------------------------------------------------------------------
(* A trigger request and the goroutine it leaves behind *)

Goto(t, from, to) == pc[t] = from /\ pc' = [pc EXCEPT ![t] = to]

Create(t) ==
  /\ Goto(t, "new", "calling")
  /\ row' = [row EXCEPT ![t] = [ext |-> NoId, status |-> "running"]]
  /\ UNCHANGED <<ciVars, claim, req, historyVars>>

\* The assistant's tool inserts a row and calls no provider.
AgentCreate(t) ==
  /\ Goto(t, "new", "done")
  /\ row' = [row EXCEPT ![t] = [ext |-> NoId, status |-> "pending"]]
  /\ UNCHANGED <<ciVars, claim, req, historyVars>>

\* Provider.Trigger has an effect on the CI system, or runs the command.
Send(t, x) ==
  /\ Goto(t, "calling", "sent")
  /\ remote[x] = "absent"
  /\ remote' = [remote EXCEPT ![x] = FirstState]
  /\ started' = [started EXCEPT ![t] = x]
  /\ UNCHANGED <<source, forgotten, row, claim, req, historyVars>>

\* What the handler makes of the reply: pending and running count only when
\* they come from Jenkins; of the others only "failed" is not a success.
Recorded(status) == IF source = "jenkins" THEN status
                    ELSE IF status = "failed" THEN "failed" ELSE "success"

\* What each adapter's Trigger returns of the run x it started.  GitLab says what
\* it has made of it by then.
GitLabReplies(x) ==
  {[ext |-> Build(x), status |-> s] :
     s \in {"pending"} \union ({remote[x]} \intersect {"success", "failed"})}

JenkinsReplies(x) == {[ext |-> Queue(x), status |-> "pending"]}

\* A local run is over when Trigger returns.
LocalReplies(x) ==
  {[ext |-> Build(x), status |-> s] : s \in {remote[x]} \intersect {"success", "failed"}}

\* GitHub does not say which run a dispatch started: the adapter takes the
\* latest, which may be another's, or finds none.
GitHubReplies ==
  {[ext |-> NotFound, status |-> "pending"]} \union
  {[ext |-> Build(y), status |-> "pending"] : y \in {z \in Runs : remote[z] # "absent"}}

Replies(t) == CASE source = "gitlab"  -> GitLabReplies(started[t])
                [] source = "jenkins" -> JenkinsReplies(started[t])
                [] source = "local"   -> LocalReplies(started[t])
                [] source = "github"  -> GitHubReplies

Answer(t) ==
  /\ Goto(t, "sent", "answered")
  /\ \E reply \in Replies(t) :
       claim' = [claim EXCEPT ![t] = [reply EXCEPT !.status = Recorded(reply.status)]]
  /\ UNCHANGED <<ciVars, row, req, historyVars>>

\* An error before the pipeline was started or after it.
TriggerFails(t) ==
  /\ pc[t] \in {"calling", "sent"}
  /\ pc' = [pc EXCEPT ![t] = "answered"]
  /\ claim' = [claim EXCEPT ![t] = [ext |-> NoId, status |-> "error"]]
  /\ UNCHANGED <<ciVars, row, req, historyVars>>

\* The goroutine reads the row and stores the reply; a Jenkins run that is
\* only queued is not announced.  Nobody else writes a row without an id.
AfterRecord(t) == IF claim[t].status = "pending" THEN "done" ELSE "announce"

\* A slip: a queued Jenkins run is returned from before it is stored.
RecordAfterReturn(t) ==
  /\ Goto(t, "answered", AfterRecord(t))
  /\ IF claim[t].status = "pending" THEN UNCHANGED row ELSE Update(t, claim[t])
  /\ UNCHANGED <<ciVars, claim, req, historyVars>>

Record(t) ==
  /\ Goto(t, "answered", AfterRecord(t))
  /\ Update(t, claim[t])
  /\ UNCHANGED <<ciVars, claim, req, historyVars>>

\* The goroutine's thirty minutes end during the provider call or before the
\* row is read, and it returns; or they end before the update, and it goes on.
Deadline(t) ==
  /\ \/ pc[t] \in {"calling", "sent", "answered"} /\ pc' = [pc EXCEPT ![t] = "lost"]
     \/ Goto(t, "answered", AfterRecord(t))
  /\ dropped' = dropped \union {t}
  /\ UNCHANGED <<ciVars, row, claim, req, reported, unstored>>

\* In time, the read fails and the goroutine returns; or the update fails and it
\* goes on, for its error is ignored.
StatementFails(t) ==
  /\ \/ Goto(t, "answered", "lost")
     \/ Goto(t, "answered", AfterRecord(t))
  /\ unstored' = unstored \union {t}
  /\ UNCHANGED <<ciVars, row, claim, req, reported, dropped>>

\* Publish's error is ignored: announced is what was handed to the event bus.
Announce(t) ==
  /\ Goto(t, "announce", "done")
  /\ reported' = reported \union {t}
  /\ UNCHANGED <<ciVars, row, claim, req, dropped, unstored>>

-----------------------------------------------------------------------------
(* Requests *)

Release(q) == req' = [req EXCEPT ![q] = Idle]

\* A request that gives up: the provider answers with an error, or not at all.
RequestFails(q) ==
  /\ req[q].op \in {"refresh", "cancel"}
  /\ Release(q)
  /\ UNCHANGED <<ciVars, row, pc, claim, historyVars>>

ReadForRefresh(q, r) ==
  /\ req[q].op = "idle"
  /\ row[r].ext # NoId
  /\ req' = [req EXCEPT ![q] = Holding("refresh", r, row[r])]
  /\ UNCHANGED <<ciVars, row, pc, claim, historyVars>>

\* A slip: the status is compared after the reply has replaced it.
JustCompletedNever(prevStatus, status) == status \in Terminal /\ status # status

\* The reply goes into the copy; a status that was not the copy's own and is a
\* terminal one makes it a run that has just completed.
JustCompleted(prevStatus, status) == status \in Terminal /\ prevStatus # status

AskStatus(q) ==
  LET prevStatus == req[q].copy.status
      reply == StatusReply(req[q].copy.ext)
  IN  /\ req[q].op = "refresh"
      /\ req[q].copy.ext.run # NoRun
      /\ req' = [req EXCEPT ![q] = Holding(
                   IF JustCompleted(prevStatus, reply.status) THEN "complete" ELSE "save",
                   req[q].id, reply)]
      /\ UNCHANGED <<ciVars, row, pc, claim, historyVars>>

ReadForCancel(q, r) ==
  /\ req[q].op = "idle"
  /\ row[r].status \in {"pending", "running"}
  /\ row[r].ext # NoId
  /\ req' = [req EXCEPT ![q] = Holding("cancel", r, row[r])]
  /\ UNCHANGED <<ciVars, row, pc, claim, historyVars>>

\* A Jenkins item that is still queued is dropped and never becomes a build;
\* what has become one is stopped.
StateAfterCancel(e) ==
  IF e.kind = "queue" /\ remote[e.run] = "queued" THEN "dropped" ELSE "cancelled"

\* Provider.Cancel is accepted: the run stops, or is past stopping.
AskCancel(q) ==
  LET e == req[q].copy.ext IN
  /\ req[q].op = "cancel"
  /\ e.run # NoRun
  /\ req' = [req EXCEPT ![q] = Holding("save", req[q].id,
                                       [ext |-> e, status |-> "cancelled"])]
  /\ \/ UNCHANGED remote
     \/ /\ remote[e.run] \in {"queued", "running"}
        /\ remote' = [remote EXCEPT ![e.run] = StateAfterCancel(e)]
  /\ UNCHANGED <<source, started, forgotten, row, pc, claim, historyVars>>

\* A refresh or a cancel stores the whole copy, whatever the row says by now.
\* An error of the statement is ignored, and a completion is announced anyway.
Save(q) ==
  /\ req[q].op \in {"save", "complete"}
  /\ \/ Update(req[q].id, req[q].copy)
     \/ UNCHANGED row
  /\ req' = [req EXCEPT ![q] = IF req[q].op = "save" THEN Idle
                               ELSE Holding("announce", req[q].id, NoRow)]
  /\ UNCHANGED <<ciVars, pc, claim, historyVars>>

AnnounceRefresh(q) ==
  /\ req[q].op = "announce"
  /\ reported' = reported \union ({req[q].id} \intersect Triggers)
  /\ Release(q)
  /\ UNCHANGED <<ciVars, row, pc, claim, dropped, unstored>>

\* The turns of a sync's loop are independent and differ in how old the list
\* is by then: each is a request of its own, from the list to its own run.
ListRemote(q, x) ==
  /\ req[q].op = "idle"
  /\ source # "local"
  /\ Listed(x)
  /\ req' = [req EXCEPT ![q] =
               Holding("sync", x, [ext |-> Build(x), status |-> StatusOf(remote[x])])]
  /\ UNCHANGED <<ciVars, row, pc, claim, historyVars>>

\* A slip: a row is inserted whether or not another has the run's id.
RowOfNew(x) == x

\* The row with the run's id, or the id a new one gets: UUID v5 of the run.
RowOf(x) == IF \E r \in RowIds : row[r].ext = Build(x)
            THEN CHOOSE r \in RowIds : row[r].ext = Build(x)
            ELSE x

\* Nothing is done for a run whose row already has this terminal status; else
\* it is inserted or its status updated, unless the statement fails.
Sync(q) ==
  LET r == RowOf(req[q].id) IN
  /\ req[q].op = "sync"
  /\ Release(q)
  /\ \/ /\ ~(row[r] = req[q].copy /\ row[r].status \in Terminal)
        /\ row' = [row EXCEPT ![r] = req[q].copy]
        /\ reported' = reported \union ({r} \intersect Triggers)
     \/ UNCHANGED <<row, reported>>
  /\ UNCHANGED <<ciVars, pc, claim, dropped, unstored>>

-----------------------------------------------------------------------------

\* A refresh is about to publish that the trigger's run has completed.
Announcing(t) == \E q \in Requests : req[q].op = "announce" /\ req[q].id = t

\* The API server stops: goroutines, requests and the adapters' tables are gone.
Restart ==
  /\ dropped' = dropped \union {t \in Triggers : pc[t] \in InFlight \/ Announcing(t)}
  /\ pc' = [t \in Triggers |-> IF pc[t] \in InFlight THEN "lost" ELSE pc[t]]
  /\ req' = [q \in Requests |-> Idle]
  /\ forgotten' = IF source = "local" THEN Runs ELSE forgotten
  /\ UNCHANGED <<source, remote, started, row, claim, reported, unstored>>

GoroutineStep(t) == \/ \E x \in Runs : Send(t, x)
                    \/ Answer(t) \/ TriggerFails(t) \/ Record(t) \/ Announce(t)
                    \/ StatementFails(t)

RemoteStep(x) == RemoteStart(x) \/ RemoteRun(x) \/ RemoteEnd(x) \/ Forget(x)

RequestStep(q) ==
  \/ \E r \in RowIds : ReadForRefresh(q, r) \/ ReadForCancel(q, r)
  \/ \E x \in Runs : ListRemote(q, x)
  \/ AskStatus(q) \/ AskCancel(q) \/ Save(q) \/ AnnounceRefresh(q) \/ Sync(q)
  \/ RequestFails(q)

Next == \/ \E x \in Runs : RemoteStep(x)
        \/ \E t \in Triggers : Create(t) \/ AgentCreate(t) \/ GoroutineStep(t) \/ Deadline(t)
        \/ \E q \in Requests : RequestStep(q)
        \/ Restart

Spec == Init /\ [][Next]_vars

-----------------------------------------------------------------------------
(* Properties *)

\* No two rows name the same run: the index holds whoever writes, and in
\* whatever order a trigger and a sync find the run.
OneRowPerRun ==
  \A r, s \in RowIds : r # s /\ row[r].ext # NoId => row[r].ext # row[s].ext

\* Except with GitHub, whose adapter has to guess, a triggered row names the
\* run its own trigger started; a synced row names the run it was made for.
NamesOwn(r, e) == IF r \in Triggers
                  THEN source # "github" => e.run \in {NoRun, started[r]}
                  ELSE e = Build(r)

RowsNameTheirRun ==
  \A r \in RowIds : row[r].ext # NoId => NamesOwn(r, row[r].ext)

\* What is presumed a success without having been seen to be one: a triggered
\* GitLab or GitHub run that was merely accepted, and a local run whose
\* adapter has forgotten it.
Presumed(r, e) == \/ r \in Triggers /\ source \in {"gitlab", "github"}
                  \/ e.run \in forgotten

Real(r, snap) ==
  snap.status \in {"success", "failed", "warning"} =>
    \/ snap.ext.run \in Runs /\ remote[snap.ext.run] = snap.status
    \/ snap.status = "success" /\ Presumed(r, snap.ext)

\* A row claims an outcome only if its run had that outcome, however late,
\* repeated or overtaken the refreshes and syncs are that write it; what is
\* presumed is only ever a success.
OutcomeIsReal == \A r \in RowIds : Real(r, row[r])

\* The same of what is still on its way to a row: replies and stale copies.
RepliesReal ==
  \A t \in Triggers :
    /\ NamesOwn(t, claim[t].ext) /\ Real(t, claim[t])
    /\ pc[t] = "sent" => started[t] \in Runs
    /\ pc[t] \in {"new", "calling"} => started[t] = NoRun

CopiesReal ==
  \A q \in Requests :
    req[q].op \notin {"idle", "announce"} =>
      /\ req[q].id \in RowIds
      /\ req[q].op = "sync" => req[q].id \in Runs
      /\ NamesOwn(req[q].id, req[q].copy.ext)
      /\ Real(req[q].id, req[q].copy)

TruthInv == TypeOK /\ OneRowPerRun /\ RowsNameTheirRun /\ OutcomeIsReal
            /\ RepliesReal /\ CopiesReal

AccountedFor(t) == \/ t \in reported \/ pc[t] = "announce"
                   \/ Announcing(t) \/ t \in dropped

Over == {"success", "failed", "error"}

\* When a triggered row says its run is over and succeeded or failed, the event
\* pipeline_run.completed was or is being handed to the event bus, unless it was
\* a sync that wrote the row, or a deadline or a crash came between.
OutcomeAnnounced == \A t \in Triggers : row[t].status \in Over => AccountedFor(t)

\* A copy that says the run is over was taken from a row that said so, unless
\* it is the copy of a refresh that will announce it.
CopiesAccounted ==
  \A q \in Requests, t \in Triggers :
    /\ req[q].op \in {"refresh", "cancel", "save"}
    /\ req[q].id = t
    /\ req[q].copy.status \in Over
    => AccountedFor(t)

AnnounceInv == OutcomeAnnounced /\ CopiesAccounted

\* A trigger's goroutine that has ended left what the provider replied, unless
\* its deadline came first, its update failed or another row has the id: such a
\* row alone stays running for ever, without the id by which to refresh or
\* cancel it.
ReplyStored(t) == row[t].status = "error" \/ row[t].ext # NoId

TriggerRecorded ==
  \A t \in Triggers :
    pc[t] \in {"announce", "done"} /\ claim[t] # NoRow =>
      ReplyStored(t) \/ t \in dropped \union unstored \/ Taken(t, claim[t].ext)

\* Nobody but its goroutine gives a triggered row its id, and a request that
\* is about a row knows the id the row has: only a Jenkins item's changes, and
\* only Jenkins has items.
IdsKnown ==
  /\ \A t \in Triggers : pc[t] \in {"new", "calling", "sent", "answered"} => row[t].ext = NoId
  /\ \A q \in Requests :
       req[q].op \in {"refresh", "cancel", "save", "complete"} =>
         /\ row[req[q].id].ext # NoId /\ req[q].copy.ext # NoId
         /\ source # "jenkins" => req[q].copy.ext = row[req[q].id].ext
  /\ source # "jenkins" => \A r \in RowIds : row[r].ext.kind # "queue"

\* A reply without an id is an error; with Jenkins the id is that of an item
\* no other trigger queued.
ClaimsKnown ==
  \A t \in Triggers :
    /\ pc[t] \in {"new", "calling", "sent"} => claim[t] = NoRow
    /\ claim[t].ext = NoId => claim[t] = NoRow \/ claim[t].status = "error"
    /\ IF source # "jenkins" THEN claim[t].ext.kind # "queue"
       ELSE claim[t].ext # NoId => started[t] \in Runs /\ claim[t].ext = Queue(started[t])
    /\ started[t] \in Runs =>
         remote[started[t]] # "absent" /\ \A u \in Triggers \ {t} : started[u] # started[t]

RecordInv == TriggerRecorded /\ IdsKnown /\ ClaimsKnown

IInv == TruthInv /\ AnnounceInv /\ RecordInv
=============================================================================
