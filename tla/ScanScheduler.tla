---------------------------- MODULE ScanScheduler ----------------------------
(***************************************************************************)
(* One schedule row, the loop that starts its runs when it is due, and the *)
(* requests that edit it: the security scan scheduler (internal/security/  *)
(* scheduler.go) and the drift scheduler (internal/gitops/                 *)
(* drift_scheduler.go), which differ in what a run is.  A scan takes the   *)
(* steps of ScanRuns and outlives the scheduler's context; a detection is  *)
(* one step and its last write is made under that context.                 *)
(*                                                                         *)
(* Both loops hand each due row, as it was read, to a goroutine, which     *)
(* advances next_run_at when its run is over by storing the whole row.     *)
(* Time is reduced to `due`: next_run_at has passed.  The sleep until then,*)
(* its caps of one hour and five minutes and the reload channel decide     *)
(* when the loop looks, which here is any time.                            *)
(***************************************************************************)
EXTENDS ScanRuns

CONSTANT Edits  \* update requests and manual drift runs

VARIABLES kind,     \* "scan" | "drift": which of the two schedulers
          loop,     \* "on", or "off" once its context is cancelled
          enabled,  \* the row's columns
          due,      \* next_run_at <= now()
          exists,   \* the row has not been deleted
          edit,     \* where each edit is
          copy,     \* the row as the edit read it
          wanted,   \* history: enabled as the last edit stored it
          alone     \* history: nobody else held a copy when it did

rowVars == <<enabled, due, exists>>
editVars == <<edit, copy>>
historyVars == <<wanted, alone>>
scheduleVars == <<kind, loop, rowVars, editVars, historyVars>>
vars == <<pc, scanVars, scheduleVars>>

Editing == {"toggle", "cron", "run"}
NoCopy == [enabled |-> TRUE, due |-> FALSE]

TypeOK == /\ pc \in [Runs -> ScanPCs \union {"detect"}]
          /\ row \in [Runs -> {"none"} \union Active \union Final]
          /\ slot \subseteq Runs
          /\ cancels \subseteq Runs
          /\ told \subseteq Runs
          /\ request \in [Cancels -> {"idle", "read", "write", "done"}]
          /\ aim \in [Cancels -> Runs \union {NoRun}]
          /\ stopped \subseteq Runs
          /\ faults \in 0..MaxFaults
          /\ kind \in {"scan", "drift"}
          /\ loop \in {"on", "off"}
          /\ {enabled, due, exists, wanted, alone} \subseteq BOOLEAN
          /\ edit \in [Edits -> {"idle", "done"} \union Editing]
          /\ copy \in [Edits -> [enabled : BOOLEAN, due : BOOLEAN]]

Init == /\ ScanInit
        /\ pc = [r \in Runs |-> "idle"]
        /\ kind \in {"scan", "drift"}
        /\ loop = "on"
        /\ enabled = TRUE
        /\ due = FALSE
        /\ exists = TRUE
        /\ edit = [e \in Edits |-> "idle"]
        /\ copy = [e \in Edits |-> NoCopy]
        /\ wanted = TRUE
        /\ alone = TRUE

-----------------------------------------------------------------------------
(* The loop and the goroutines it starts *)

\* next_run_at passes; bound: only while there is a run left to start.
BecomeDue ==
  /\ exists /\ ~due
  /\ \E r \in Scheduled : pc[r] = "idle"
  /\ due' = TRUE
  /\ UNCHANGED <<pc, scanVars, kind, loop, enabled, exists, editVars, historyVars>>

\* The runs that hold the row as they read it.
InFlight == {r \in Scheduled : pc[r] \notin {"idle", "ended", "lost"}}

\* A slip: GetDueSchedules does not ask for enabled rows.
IsDueDisabledToo == exists /\ due

\* GetDueSchedules.
IsDue == exists /\ enabled /\ due

\* The timer fires and processDueSchedules starts a goroutine for the row.  A
\* failed query starts nothing.
ProcessDue ==
  /\ loop = "on"
  /\ IsDue
  /\ \E r \in Scheduled :
       Move(r, "idle", IF kind = "scan" THEN "waiting" ELSE "detect")
  /\ UNCHANGED <<scanVars, scheduleVars>>

\* The drift scheduler's detection; its error is a result like another.
Detect(r) ==
  /\ Move(r, "detect", "returned")
  /\ UNCHANGED <<scanVars, scheduleVars>>

\* The whole row is stored as it was when the run was started, which is
\* enabled, with a new next_run_at.  A deleted row is not matched; under a
\* cancelled context the drift scheduler's statement fails.
WriteBack(r) ==
  /\ Move(r, "returned", "ended")
  /\ \/ /\ exists /\ (kind = "scan" \/ loop = "on")
        /\ enabled' = TRUE
        /\ due' = FALSE
        /\ UNCHANGED faults
     \/ /\ ~exists \/ (kind = "drift" /\ loop = "off")
        /\ UNCHANGED <<enabled, due, faults>>
     \/ Fault /\ UNCHANGED <<enabled, due>>
  /\ UNCHANGED <<row, slot, cancels, told, requestVars, stopped, kind, loop,
                 exists, editVars, historyVars>>

Shutdown ==
  /\ loop = "on"
  /\ Fault
  /\ loop' = "off"
  /\ UNCHANGED <<pc, row, slot, cancels, told, requestVars, stopped, kind,
                 rowVars, editVars, historyVars>>

\* The process ends, on its own or after a shutdown, and starts again.
Restart ==
  /\ \/ loop = "off" /\ UNCHANGED faults
     \/ loop = "on" /\ Fault
  /\ LoseAll
  /\ loop' = "on"
  /\ edit' = [e \in Edits |-> IF edit[e] = "idle" THEN "idle" ELSE "done"]
  /\ copy' = [e \in Edits |-> NoCopy]
  /\ UNCHANGED <<kind, rowVars, historyVars>>

-----------------------------------------------------------------------------
(* The row's handlers *)

\* updateScanSchedule and gitopsUpdateDriftSchedule read the row, change the
\* switch or the cron expression; RunManualDrift reads it and runs.
EditRead(e) ==
  /\ exists
  /\ edit[e] = "idle"
  /\ \E what \in {"toggle", "cron"} \union (IF kind = "drift" THEN {"run"} ELSE {}) :
       edit' = [edit EXCEPT ![e] = what]
  /\ copy' = [copy EXCEPT ![e] = [enabled |-> enabled, due |-> due]]
  /\ UNCHANGED <<pc, scanVars, kind, loop, rowVars, historyVars>>

\* ... and store all of it.
EditWrite(e) ==
  /\ edit[e] \in Editing
  /\ copy' = [copy EXCEPT ![e] = NoCopy]
  /\ edit' = [edit EXCEPT ![e] = "done"]
  /\ exists
  /\ enabled' = IF edit[e] = "toggle" THEN ~copy[e].enabled ELSE copy[e].enabled
  /\ due' = (edit[e] = "toggle" /\ copy[e].due)
  /\ wanted' = IF edit[e] = "toggle" THEN enabled' ELSE wanted
  /\ alone' = /\ InFlight = {}
              /\ \A f \in Edits \ {e} : edit[f] \notin Editing
              /\ edit[e] = "toggle" \/ alone
  /\ UNCHANGED <<pc, scanVars, kind, loop, exists>>

Delete ==
  /\ exists
  /\ exists' = FALSE
  /\ UNCHANGED <<pc, scanVars, kind, loop, enabled, due, editVars, historyVars>>

-----------------------------------------------------------------------------

Next == \/ BecomeDue \/ ProcessDue \/ Shutdown \/ Restart \/ Delete
        \/ \E r \in Runs : \/ Trigger(r) /\ kind = "scan" /\ UNCHANGED scheduleVars
                           \/ RunScan(r) /\ UNCHANGED scheduleVars
                           \/ Detect(r) \/ WriteBack(r)
        \/ \E q \in Cancels : CancelScan(q) /\ UNCHANGED scheduleVars
        \/ \E e \in Edits : EditRead(e) \/ EditWrite(e)

Spec == Init /\ [][Next]_vars

\* The loop's timer fires, a stopped process comes back, and a goroutine goes
\* on: every scanner is killed when its context or its timeout ends, and
\* waiting scans get the slots in turn.
FairSpec ==
  /\ Spec
  /\ WF_vars(ProcessDue)
  /\ WF_vars(loop = "off" /\ Restart)
  /\ \A r \in Runs : /\ WF_vars(RunScan(r) /\ UNCHANGED scheduleVars)
                     /\ WF_vars(Detect(r) \/ WriteBack(r))

-----------------------------------------------------------------------------

\* A schedule that is due and enabled is run and gets its next time, or is
\* switched off: no slot is lost on an early return or a cancel and no run
\* ends without its write (failed calls and dead processes aside).
DueIsServed == (IsDue ~> (~IsDue \/ faults > 0))

\* What a user set stays set unless a run, a manual run or another edit held a
\* copy of the row when it was stored: the only way an edit is undone.
EditSticksWhenAlone == alone => enabled = wanted

\* What that needs to be inductive: then every copy agrees with the row.
CopiesAgree == alone => /\ InFlight # {} => enabled
                        /\ \A e \in Edits : edit[e] \in Editing =>
                                               copy[e].enabled = enabled

\* Only runs the loop started write a schedule back, and only a shutdown, which
\* counts as a fault, stops the loop.
OnlyScheduledWriteBack ==
  \A r \in Runs : pc[r] \in {"detect", "returned"} => r \in Scheduled
LoopStopsByFault == loop = "off" => faults > 0

IInv == /\ TypeOK
        /\ ScanInv
        /\ EditSticksWhenAlone
        /\ CopiesAgree
        /\ OnlyScheduledWriteBack
        /\ LoopStopsByFault
=============================================================================
