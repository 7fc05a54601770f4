------------------------------ MODULE ScanRuns ------------------------------
(***************************************************************************)
(* RunScan and CancelScan (internal/security/scanner.go): every scan is a  *)
(* goroutine that waits for one of the few slots, keeps a row in           *)
(* `scan_runs`, and leaves a cancel function in a map under its row's id.  *)
(* A cancel request calls that function, if it finds it, and then writes   *)
(* the row back from a copy it read; it tests the status of the copy only. *)
(*                                                                         *)
(* The results of a scan, the severities it counts and the target's last   *)
(* status are left out.  The steps are composed with the schedule they     *)
(* belong to in ScanScheduler, which has the specification.                *)
(***************************************************************************)
EXTENDS Naturals, FiniteSets

CONSTANTS Scheduled,  \* scans the scheduler starts
          Manual,     \* scans of triggerScan, ScanAllEnabled, the webhook
          Slots,      \* maxConcurrentScans, 3 in the code
          Cancels,    \* cancel requests
          NoRun,      \* what an idle one is for
          MaxFaults   \* bound: failed database calls and dead processes

Runs == Scheduled \union Manual

ASSUME RunsAssumption == /\ IsFiniteSet(Runs)
                         /\ Scheduled \intersect Manual = {}
                         /\ NoRun \notin Runs
                         /\ Slots \in Nat \ {0}
                         /\ MaxFaults \in Nat

VARIABLES pc,        \* where each scan's goroutine is
          row,       \* scan_runs.status of its row; "none" before the INSERT
          slot,      \* the scans that hold a slot of s.sem
          cancels,   \* the scans whose cancel function is in s.cancels
          told,      \* the scans whose context is cancelled
          request,   \* where each cancel request is
          aim,       \* the scan it is for
          stopped,   \* history: scans told before they looked
          faults     \* history: faults so far

requestVars == <<request, aim>>
scanVars == <<row, slot, cancels, told, requestVars, stopped, faults>>

Active == {"pending", "running"}
Final == {"finished", "cancelled"}  \* "finished" is completed or failed
\* Where a scan's cancel function is in the map, and where it holds a slot.
Registered == {"mark", "scan", "leave"} \union Final
InSlot == {"load", "register", "return"} \union Registered
ScanPCs == {"idle", "waiting", "returned", "ended", "lost"} \union InSlot

ScanInit == /\ row = [r \in Runs |-> "none"]
            /\ slot = {}
            /\ cancels = {}
            /\ told = {}
            /\ request = [q \in Cancels |-> "idle"]
            /\ aim = [q \in Cancels |-> NoRun]
            /\ stopped = {}
            /\ faults = 0

Fault == faults < MaxFaults /\ faults' = faults + 1
Move(r, from, to) == pc[r] = from /\ pc' = [pc EXCEPT ![r] = to]

-----------------------------------------------------------------------------
(* RunScan *)

\* triggerScan and its like start a goroutine.
Trigger(r) ==
  /\ r \in Manual
  /\ Move(r, "idle", "waiting")
  /\ UNCHANGED scanVars

Acquire(r) ==
  /\ Cardinality(slot) < Slots
  /\ Move(r, "waiting", "load")
  /\ slot' = slot \union {r}
  /\ UNCHANGED <<row, cancels, told, requestVars, stopped, faults>>

\* A slip: the row is inserted as running.
LoadAsRunning(r) ==
  /\ \/ Move(r, "load", "register") /\ row' = [row EXCEPT ![r] = "running"]
     \/ Move(r, "load", "return") /\ UNCHANGED row
  /\ UNCHANGED <<slot, cancels, told, requestVars, stopped, faults>>

\* The target is read and the row inserted; a target that is gone, an unknown
\* key in its configuration or a failed INSERT ends it.
Load(r) ==
  /\ \/ Move(r, "load", "register") /\ row' = [row EXCEPT ![r] = "pending"]
     \/ Move(r, "load", "return") /\ UNCHANGED row
  /\ UNCHANGED <<slot, cancels, told, requestVars, stopped, faults>>

Register(r) ==
  /\ Move(r, "register", "mark")
  /\ cancels' = cancels \union {r}
  /\ UNCHANGED <<row, slot, told, requestVars, stopped, faults>>

\* The row is written back from the copy of the INSERT, whatever it says now.
MarkRunning(r) ==
  /\ \/ Move(r, "mark", "scan") /\ UNCHANGED faults
        /\ row' = [row EXCEPT ![r] = "running"]
     \/ Move(r, "mark", "leave") /\ Fault /\ UNCHANGED row
  /\ UNCHANGED <<slot, cancels, told, requestVars, stopped>>

\* A slip: the context is not asked, only the scan's error.
ScanEndsUnasked(r) ==
  /\ Move(r, "scan", "finished")
  /\ UNCHANGED scanVars

\* The scan is over, or was killed, and scanCtx.Err() is looked at.
ScanEnds(r) ==
  /\ Move(r, "scan", IF r \in told THEN "cancelled" ELSE "finished")
  /\ UNCHANGED scanVars

Store(r) ==
  /\ \E outcome \in Final :
       /\ Move(r, outcome, "leave")
       /\ \/ row' = [row EXCEPT ![r] = outcome] /\ UNCHANGED faults
          \/ Fault /\ UNCHANGED row
  /\ UNCHANGED <<slot, cancels, told, requestVars, stopped>>

\* The deferred functions: the map's entry goes and the context with it ...
Leave(r) ==
  /\ Move(r, "leave", "return")
  /\ cancels' = cancels \ {r}
  /\ told' = told \ {r}
  /\ UNCHANGED <<row, slot, requestVars, stopped, faults>>

\* A slip: the slot is only given back where the row was written.
ReturnWithoutRow(r) ==
  /\ Move(r, "return", IF r \in Scheduled THEN "returned" ELSE "ended")
  /\ slot' = IF row[r] = "none" THEN slot ELSE slot \ {r}
  /\ UNCHANGED <<row, cancels, told, requestVars, stopped, faults>>

\* ... and the slot last.
Return(r) ==
  /\ Move(r, "return", IF r \in Scheduled THEN "returned" ELSE "ended")
  /\ slot' = slot \ {r}
  /\ UNCHANGED <<row, cancels, told, requestVars, stopped, faults>>

RunScan(r) == \/ Acquire(r) \/ Load(r) \/ Register(r) \/ MarkRunning(r)
              \/ ScanEnds(r) \/ Store(r) \/ Leave(r) \/ Return(r)

-----------------------------------------------------------------------------
(* CancelScan *)

Step(q, from, to) == request[q] = from /\ request' = [request EXCEPT ![q] = to]

\* The function is looked up under the mutex and called after it.
CancelCall(q, r) ==
  /\ row[r] # "none"
  /\ Step(q, "idle", "read")
  /\ aim' = [aim EXCEPT ![q] = r]
  /\ told' = told \union (cancels \intersect {r})
  /\ stopped' = IF r \in cancels /\ pc[r] \in {"mark", "scan"}
                  THEN stopped \union {r} ELSE stopped
  /\ UNCHANGED <<pc, row, slot, cancels, faults>>

\* A row that is over is refused.
CancelRead(q) ==
  /\ request[q] = "read"
  /\ IF row[aim[q]] \in Active
       THEN Step(q, "read", "write") /\ UNCHANGED aim
       ELSE Step(q, "read", "done") /\ aim' = [aim EXCEPT ![q] = NoRun]
  /\ UNCHANGED <<pc, row, slot, cancels, told, stopped, faults>>

CancelWrite(q) ==
  /\ Step(q, "write", "done")
  /\ \/ row' = [row EXCEPT ![aim[q]] = "cancelled"] /\ UNCHANGED faults
     \/ Fault /\ UNCHANGED row
  /\ aim' = [aim EXCEPT ![q] = NoRun]
  /\ UNCHANGED <<pc, slot, cancels, told, stopped>>

CancelScan(q) == (\E r \in Runs : CancelCall(q, r)) \/ CancelRead(q) \/ CancelWrite(q)

\* The process ends: its goroutines, its map and its slots are gone, and the
\* rows stay as they are.
LoseAll ==
  /\ pc' = [r \in Runs |-> IF pc[r] \in {"idle", "ended"} THEN pc[r] ELSE "lost"]
  /\ request' = [q \in Cancels |-> IF request[q] = "idle" THEN "idle" ELSE "done"]
  /\ slot' = {}
  /\ cancels' = {}
  /\ told' = {}
  /\ aim' = [q \in Cancels |-> NoRun]
  /\ UNCHANGED <<row, stopped>>

-----------------------------------------------------------------------------

\* The slots and the map's entries are those of the scans at work, and there
\* are no more than the limit: no path through RunScan keeps either.
SlotsInUse == /\ slot = {r \in Runs : pc[r] \in InSlot}
              /\ cancels = {r \in Runs : pc[r] \in Registered}
              /\ Cardinality(slot) <= Slots

\* A row that says running can be cancelled: its function is registered.  The
\* exceptions need a fault: the goroutine died, or its last write failed.
RunningIsCancellable ==
  \A r \in Runs : row[r] = "running" => (r \in cancels \/ faults > 0)

\* A cancel that found the function before the scan was over is not lost: when
\* the scan has returned its row says cancelled, although "running" may have
\* been stored over what the request wrote.
CancelInTimeSticks ==
  \A r \in stopped : pc[r] \in {"return", "returned", "ended"} =>
                       row[r] = "cancelled" \/ faults > 0

\* What the two need to be inductive: a request in progress is for a scan with
\* a row, a scan without a row has none of the above, and where a scan is that
\* was stopped.
RequestsHaveRows ==
  \A q \in Cancels : request[q] \in {"read", "write"} =>
                        (aim[q] \in Runs /\ row[aim[q]] # "none")
RowsFollow ==
  \A r \in Runs :
    /\ (pc[r] \in {"idle", "waiting", "load"}) => (row[r] = "none")
    /\ (row[r] = "running") => pc[r] \in {"scan"} \union Final \/ faults > 0
    /\ (pc[r] = "lost") => faults > 0
StoppedFollow ==
  \A r \in stopped :
    \/ pc[r] \in {"mark", "scan"} /\ r \in told
    \/ pc[r] \in {"cancelled", "lost"}
    \/ /\ pc[r] \in {"leave", "return", "returned", "ended"}
       /\ row[r] = "cancelled" \/ faults > 0

ScanInv == /\ SlotsInUse
           /\ RunningIsCancellable
           /\ CancelInTimeSticks
           /\ RequestsHaveRows
           /\ RowsFollow
           /\ StoppedFollow
=============================================================================
