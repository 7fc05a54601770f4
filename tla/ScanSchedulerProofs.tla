------------------------ MODULE ScanSchedulerProofs ------------------------
(***************************************************************************)
(* Proofs about ScanScheduler, and with it about ScanRuns, for any number  *)
(* of scans, slots, cancel requests and edits: IInv is inductive.          *)
(***************************************************************************)
EXTENDS ScanScheduler, FiniteSetTheorems, TLAPS

\* The part of the invariant that is about the schedule's row.
ScheduleInv == /\ EditSticksWhenAlone
               /\ CopiesAgree
               /\ OnlyScheduledWriteBack
               /\ LoopStopsByFault

\* Two parts of ScanInv follow from the others.
LEMMA ScanInvParts ==
  ASSUME SlotsInUse, RequestsHaveRows, RowsFollow, StoppedFollow
  PROVE  ScanInv
<1>1. RunningIsCancellable
  BY DEF SlotsInUse, RowsFollow, RunningIsCancellable, Registered
<1>2. CancelInTimeSticks
  BY DEF StoppedFollow, CancelInTimeSticks
<1> QED  BY <1>1, <1>2 DEF ScanInv

LEMMA ScanInvPartsPrime ==
  ASSUME SlotsInUse', RequestsHaveRows', RowsFollow', StoppedFollow'
  PROVE  ScanInv'
<1>1. RunningIsCancellable'
  BY DEF SlotsInUse, RowsFollow, RunningIsCancellable, Registered
<1>2. CancelInTimeSticks'
  BY DEF StoppedFollow, CancelInTimeSticks
<1> QED  BY <1>1, <1>2 DEF ScanInv

LEMMA SlotsFinite == TypeOK => IsFiniteSet(slot) /\ Cardinality(slot) \in Nat
<1> SUFFICES ASSUME TypeOK
             PROVE  IsFiniteSet(slot) /\ Cardinality(slot) \in Nat
  OBVIOUS
<1>1. slot \in SUBSET Runs
  BY DEF TypeOK
<1>2. IsFiniteSet(slot)
  BY <1>1, FS_Subset, RunsAssumption
<1> QED  BY <1>2, FS_CardinalityType

LEMMA InitIInv == Init => IInv
<1> SUFFICES ASSUME Init
             PROVE  IInv
  OBVIOUS
<1> USE DEF Init, ScanInit
<1>1. TypeOK
  <2>1. pc \in [Runs -> ScanPCs \union {"detect"}]
    BY DEF ScanPCs
  <2>2. row \in [Runs -> {"none"} \union Active \union Final]
    OBVIOUS
  <2>3. aim \in [Cancels -> Runs \union {NoRun}]
    OBVIOUS
  <2>4. copy \in [Edits -> [enabled : BOOLEAN, due : BOOLEAN]]
    BY DEF NoCopy
  <2>5. edit \in [Edits -> {"idle", "done"} \union Editing]
    OBVIOUS
  <2>6. request \in [Cancels -> {"idle", "read", "write", "done"}]
    OBVIOUS
  <2>7. slot \subseteq Runs /\ cancels \subseteq Runs /\ told \subseteq Runs /\ stopped \subseteq Runs
    OBVIOUS
  <2>8. faults \in 0..MaxFaults
    BY RunsAssumption
  <2>9. /\ kind \in {"scan", "drift"} /\ loop \in {"on", "off"}
        /\ {enabled, due, exists, wanted, alone} \subseteq BOOLEAN
    OBVIOUS
  <2> HIDE DEF Init, ScanInit
  <2> QED  BY <2>1, <2>2, <2>3, <2>4, <2>5, <2>6, <2>7, <2>8, <2>9 DEF TypeOK
<1>2. SlotsInUse
  <2>1. Cardinality(slot) <= Slots
    BY FS_EmptySet, RunsAssumption
  <2> QED  BY <2>1 DEF SlotsInUse, InSlot, Registered, Final
<1>3. RequestsHaveRows /\ RowsFollow /\ StoppedFollow
  BY DEF RequestsHaveRows, RowsFollow, StoppedFollow
<1>4. ScheduleInv
  BY DEF ScheduleInv, EditSticksWhenAlone, CopiesAgree, OnlyScheduledWriteBack,
         LoopStopsByFault, InFlight, Editing
<1> QED  BY <1>1, <1>2, <1>3, <1>4, ScanInvParts DEF IInv, ScheduleInv

-----------------------------------------------------------------------------
(* What a step of one goroutine leaves alone *)

\* A scan that goes on: the schedule's part of the invariant does not see it.
LEMMA ScheduleUnmoved ==
  ASSUME IInv, NEW r \in Runs, UNCHANGED scheduleVars,
         \A s \in Runs \ {r} : pc'[s] = pc[s],
         pc[r] # "idle" \/ r \notin Scheduled,
         pc[r] \notin {"ended", "lost"},
         pc'[r] \in {"detect", "returned"} => r \in Scheduled,
         faults' \in Nat, faults' >= faults
  PROVE  ScheduleInv'
<1> USE DEF IInv
<1>1. UNCHANGED <<loop, enabled, edit, copy, wanted, alone>>
  BY DEF scheduleVars, rowVars, editVars, historyVars
<1>2. InFlight' \subseteq InFlight
  BY DEF InFlight, Runs
<1>3. EditSticksWhenAlone' /\ CopiesAgree'
  BY <1>1, <1>2 DEF EditSticksWhenAlone, CopiesAgree
<1>4. OnlyScheduledWriteBack'
  BY DEF OnlyScheduledWriteBack
<1>5. LoopStopsByFault'
  BY <1>1 DEF LoopStopsByFault, TypeOK
<1> QED  BY <1>3, <1>4, <1>5 DEF ScheduleInv

\* A cancel request moves no goroutine.
LEMMA ScheduleUntouched ==
  ASSUME IInv, UNCHANGED <<pc, scheduleVars>>, faults' \in Nat, faults' >= faults
  PROVE  ScheduleInv'
<1> USE DEF IInv
<1>1. UNCHANGED <<pc, loop, enabled, edit, copy, wanted, alone>>
  BY DEF scheduleVars, rowVars, editVars, historyVars
<1>2. InFlight' = InFlight
  BY <1>1 DEF InFlight
<1>3. EditSticksWhenAlone' /\ CopiesAgree'
  BY <1>1, <1>2 DEF EditSticksWhenAlone, CopiesAgree
<1>4. OnlyScheduledWriteBack'
  BY <1>1 DEF OnlyScheduledWriteBack
<1>5. LoopStopsByFault'
  BY <1>1 DEF LoopStopsByFault, TypeOK
<1> QED  BY <1>3, <1>4, <1>5 DEF ScheduleInv

\* What the steps of the schedule leave alone of a scan.
LEMMA ScansUntouched ==
  ASSUME IInv, UNCHANGED <<pc, row, slot, cancels, told, requestVars, stopped>>,
         faults' \in Nat, faults' >= faults
  PROVE  ScanInv'
<1> USE DEF IInv, ScanInv
<1>1. UNCHANGED <<request, aim>>
  BY DEF requestVars
<1>2. SlotsInUse' /\ RequestsHaveRows'
  BY <1>1 DEF SlotsInUse, RequestsHaveRows
<1>3. RowsFollow' /\ StoppedFollow'
  BY DEF RowsFollow, StoppedFollow, TypeOK
<1> QED  BY <1>2, <1>3, ScanInvPartsPrime DEF ScanInv

-----------------------------------------------------------------------------
(* RunScan *)

LEMMA AcquireStep ==
  ASSUME IInv, NEW r \in Runs, Acquire(r), UNCHANGED scheduleVars
  PROVE  IInv'
<1> USE DEF IInv, ScanInv
<1>1. TypeOK'
  <2>1. pc' \in [Runs -> ScanPCs \union {"detect"}]
    BY DEF Acquire, Move, TypeOK, ScanPCs, InSlot, Registered, Final
  <2>2. row' \in [Runs -> {"none"} \union Active \union Final]
    BY DEF Acquire, TypeOK, Active, Final, scanVars
  <2>3. slot' \subseteq Runs /\ cancels' \subseteq Runs /\ told' \subseteq Runs /\ stopped' \subseteq Runs
    BY DEF Acquire, TypeOK, scanVars
  <2>4. UNCHANGED <<request, aim>> /\ UNCHANGED <<kind, loop, enabled, due, exists, wanted, alone, edit, copy>>
    BY DEF Acquire, scanVars, requestVars, scheduleVars, rowVars, editVars, historyVars
  <2>5. faults' \in 0..MaxFaults
    BY RunsAssumption DEF Acquire, TypeOK, scanVars, Fault
  <2> QED  BY <2>1, <2>2, <2>3, <2>4, <2>5 DEF TypeOK
<1>2. /\ pc[r] = "waiting" /\ pc'[r] = "load" /\ row'[r] = row[r]
      /\ slot' = slot \union {r} /\ UNCHANGED <<cancels, told, stopped>>
      /\ Cardinality(slot) < Slots
  BY RunsAssumption DEF Acquire, Move, Fault, TypeOK, scanVars, requestVars
<1>3. \A s \in Runs \ {r} : pc'[s] = pc[s] /\ row'[s] = row[s]
  BY DEF Acquire, Move, TypeOK, scanVars
<1>4. UNCHANGED <<request, aim>>
  BY DEF Acquire, scanVars, requestVars
<1>f. faults \in Nat /\ faults' \in Nat /\ faults' >= faults
  BY RunsAssumption DEF Acquire, TypeOK, scanVars, Fault
<1>5. SlotsInUse'
  <2>1. IsFiniteSet(slot) /\ Cardinality(slot) \in Nat
    BY SlotsFinite
  <2>2. Cardinality(slot') <= Slots
    <3>1. Cardinality(slot \union {r}) = IF r \in slot THEN Cardinality(slot) ELSE Cardinality(slot) + 1
      BY <2>1, FS_AddElement
    <3> QED  BY <1>2, <2>1, <3>1, RunsAssumption
  <2>3. slot' = {s \in Runs : pc'[s] \in InSlot}
    BY <1>1, <1>2, <1>3 DEF SlotsInUse, InSlot, Registered, Final, TypeOK
  <2>4. cancels' = {s \in Runs : pc'[s] \in Registered}
    BY <1>1, <1>2, <1>3 DEF SlotsInUse, InSlot, Registered, Final, TypeOK
  <2> QED  BY <2>2, <2>3, <2>4 DEF SlotsInUse
<1>6. RequestsHaveRows'
  <2>1. \A s \in Runs : row[s] # "none" => row'[s] # "none"
    BY <1>2, <1>3 DEF Final
  <2> QED  BY <1>4, <2>1 DEF RequestsHaveRows
<1>7. RowsFollow'
  BY <1>2, <1>3, <1>f DEF RowsFollow, Final
<1>8. StoppedFollow'
  BY <1>1, <1>2, <1>3, <1>f DEF StoppedFollow, Final, TypeOK
<1>9. ScheduleInv'
  BY <1>1, <1>2, <1>3, <1>f, ScheduleUnmoved DEF Final
<1> QED  BY <1>1, <1>5, <1>6, <1>7, <1>8, <1>9, ScanInvPartsPrime DEF ScheduleInv

LEMMA LoadStep ==
  ASSUME IInv, NEW r \in Runs, Load(r), UNCHANGED scheduleVars
  PROVE  IInv'
<1> USE DEF IInv, ScanInv
<1>1. TypeOK'
  <2>1. pc' \in [Runs -> ScanPCs \union {"detect"}]
    BY DEF Load, Move, TypeOK, ScanPCs, InSlot, Registered, Final
  <2>2. row' \in [Runs -> {"none"} \union Active \union Final]
    BY DEF Load, TypeOK, Active, Final, scanVars
  <2>3. slot' \subseteq Runs /\ cancels' \subseteq Runs /\ told' \subseteq Runs /\ stopped' \subseteq Runs
    BY DEF Load, TypeOK, scanVars
  <2>4. UNCHANGED <<request, aim>> /\ UNCHANGED <<kind, loop, enabled, due, exists, wanted, alone, edit, copy>>
    BY DEF Load, scanVars, requestVars, scheduleVars, rowVars, editVars, historyVars
  <2>5. faults' \in 0..MaxFaults
    BY RunsAssumption DEF Load, TypeOK, scanVars, Fault
  <2> QED  BY <2>1, <2>2, <2>3, <2>4, <2>5 DEF TypeOK
<1>2. /\ pc[r] = "load"
      /\ \/ pc'[r] = "register" /\ row'[r] = "pending"
         \/ pc'[r] = "return" /\ row'[r] = row[r]
      /\ UNCHANGED <<slot, cancels, told, stopped>>
  BY RunsAssumption DEF Load, Move, Fault, TypeOK, scanVars, requestVars
<1>3. \A s \in Runs \ {r} : pc'[s] = pc[s] /\ row'[s] = row[s]
  BY DEF Load, Move, TypeOK, scanVars
<1>4. UNCHANGED <<request, aim>>
  BY DEF Load, scanVars, requestVars
<1>f. faults \in Nat /\ faults' \in Nat /\ faults' >= faults
  BY RunsAssumption DEF Load, TypeOK, scanVars, Fault
<1>5. SlotsInUse'
  <2>1. slot' = slot
    BY <1>2
  <2>2. Cardinality(slot') <= Slots
    BY <2>1 DEF SlotsInUse
  <2>3. slot' = {s \in Runs : pc'[s] \in InSlot}
    BY <1>1, <1>2, <1>3 DEF SlotsInUse, InSlot, Registered, Final, TypeOK
  <2>4. cancels' = {s \in Runs : pc'[s] \in Registered}
    BY <1>1, <1>2, <1>3 DEF SlotsInUse, InSlot, Registered, Final, TypeOK
  <2> QED  BY <2>2, <2>3, <2>4 DEF SlotsInUse
<1>6. RequestsHaveRows'
  <2>1. \A s \in Runs : row[s] # "none" => row'[s] # "none"
    BY <1>2, <1>3 DEF Final
  <2> QED  BY <1>4, <2>1 DEF RequestsHaveRows
<1>7. RowsFollow'
  BY <1>2, <1>3, <1>f DEF RowsFollow, Final
<1>8. StoppedFollow'
  BY <1>1, <1>2, <1>3, <1>f DEF StoppedFollow, Final, TypeOK
<1>9. ScheduleInv'
  BY <1>1, <1>2, <1>3, <1>f, ScheduleUnmoved DEF Final
<1> QED  BY <1>1, <1>5, <1>6, <1>7, <1>8, <1>9, ScanInvPartsPrime DEF ScheduleInv

LEMMA RegisterStep ==
  ASSUME IInv, NEW r \in Runs, Register(r), UNCHANGED scheduleVars
  PROVE  IInv'
<1> USE DEF IInv, ScanInv
<1>1. TypeOK'
  <2>1. pc' \in [Runs -> ScanPCs \union {"detect"}]
    BY DEF Register, Move, TypeOK, ScanPCs, InSlot, Registered, Final
  <2>2. row' \in [Runs -> {"none"} \union Active \union Final]
    BY DEF Register, TypeOK, Active, Final, scanVars
  <2>3. slot' \subseteq Runs /\ cancels' \subseteq Runs /\ told' \subseteq Runs /\ stopped' \subseteq Runs
    BY DEF Register, TypeOK, scanVars
  <2>4. UNCHANGED <<request, aim>> /\ UNCHANGED <<kind, loop, enabled, due, exists, wanted, alone, edit, copy>>
    BY DEF Register, scanVars, requestVars, scheduleVars, rowVars, editVars, historyVars
  <2>5. faults' \in 0..MaxFaults
    BY RunsAssumption DEF Register, TypeOK, scanVars, Fault
  <2> QED  BY <2>1, <2>2, <2>3, <2>4, <2>5 DEF TypeOK
<1>2. /\ pc[r] = "register" /\ pc'[r] = "mark" /\ row'[r] = row[r]
      /\ cancels' = cancels \union {r} /\ UNCHANGED <<slot, told, stopped>>
  BY RunsAssumption DEF Register, Move, Fault, TypeOK, scanVars, requestVars
<1>3. \A s \in Runs \ {r} : pc'[s] = pc[s] /\ row'[s] = row[s]
  BY DEF Register, Move, TypeOK, scanVars
<1>4. UNCHANGED <<request, aim>>
  BY DEF Register, scanVars, requestVars
<1>f. faults \in Nat /\ faults' \in Nat /\ faults' >= faults
  BY RunsAssumption DEF Register, TypeOK, scanVars, Fault
<1>5. SlotsInUse'
  <2>1. slot' = slot
    BY <1>2
  <2>2. Cardinality(slot') <= Slots
    BY <2>1 DEF SlotsInUse
  <2>3. slot' = {s \in Runs : pc'[s] \in InSlot}
    BY <1>1, <1>2, <1>3 DEF SlotsInUse, InSlot, Registered, Final, TypeOK
  <2>4. cancels' = {s \in Runs : pc'[s] \in Registered}
    BY <1>1, <1>2, <1>3 DEF SlotsInUse, InSlot, Registered, Final, TypeOK
  <2> QED  BY <2>2, <2>3, <2>4 DEF SlotsInUse
<1>6. RequestsHaveRows'
  <2>1. \A s \in Runs : row[s] # "none" => row'[s] # "none"
    BY <1>2, <1>3 DEF Final
  <2> QED  BY <1>4, <2>1 DEF RequestsHaveRows
<1>7. RowsFollow'
  BY <1>2, <1>3, <1>f DEF RowsFollow, Final
<1>8. StoppedFollow'
  BY <1>1, <1>2, <1>3, <1>f DEF StoppedFollow, Final, TypeOK
<1>9. ScheduleInv'
  BY <1>1, <1>2, <1>3, <1>f, ScheduleUnmoved DEF Final
<1> QED  BY <1>1, <1>5, <1>6, <1>7, <1>8, <1>9, ScanInvPartsPrime DEF ScheduleInv

LEMMA MarkRunningStep ==
  ASSUME IInv, NEW r \in Runs, MarkRunning(r), UNCHANGED scheduleVars
  PROVE  IInv'
<1> USE DEF IInv, ScanInv
<1>1. TypeOK'
  <2>1. pc' \in [Runs -> ScanPCs \union {"detect"}]
    BY DEF MarkRunning, Move, TypeOK, ScanPCs, InSlot, Registered, Final
  <2>2. row' \in [Runs -> {"none"} \union Active \union Final]
    BY DEF MarkRunning, TypeOK, Active, Final, scanVars
  <2>3. slot' \subseteq Runs /\ cancels' \subseteq Runs /\ told' \subseteq Runs /\ stopped' \subseteq Runs
    BY DEF MarkRunning, TypeOK, scanVars
  <2>4. UNCHANGED <<request, aim>> /\ UNCHANGED <<kind, loop, enabled, due, exists, wanted, alone, edit, copy>>
    BY DEF MarkRunning, scanVars, requestVars, scheduleVars, rowVars, editVars, historyVars
  <2>5. faults' \in 0..MaxFaults
    BY RunsAssumption DEF MarkRunning, TypeOK, scanVars, Fault
  <2> QED  BY <2>1, <2>2, <2>3, <2>4, <2>5 DEF TypeOK
<1>2. /\ pc[r] = "mark"
      /\ \/ pc'[r] = "scan" /\ row'[r] = "running"
         \/ pc'[r] = "leave" /\ row'[r] = row[r] /\ faults' > 0
      /\ UNCHANGED <<slot, cancels, told, stopped>>
  BY RunsAssumption DEF MarkRunning, Move, Fault, TypeOK, scanVars, requestVars
<1>3. \A s \in Runs \ {r} : pc'[s] = pc[s] /\ row'[s] = row[s]
  BY DEF MarkRunning, Move, TypeOK, scanVars
<1>4. UNCHANGED <<request, aim>>
  BY DEF MarkRunning, scanVars, requestVars
<1>f. faults \in Nat /\ faults' \in Nat /\ faults' >= faults
  BY RunsAssumption DEF MarkRunning, TypeOK, scanVars, Fault
<1>5. SlotsInUse'
  <2>1. slot' = slot
    BY <1>2
  <2>2. Cardinality(slot') <= Slots
    BY <2>1 DEF SlotsInUse
  <2>3. slot' = {s \in Runs : pc'[s] \in InSlot}
    BY <1>1, <1>2, <1>3 DEF SlotsInUse, InSlot, Registered, Final, TypeOK
  <2>4. cancels' = {s \in Runs : pc'[s] \in Registered}
    BY <1>1, <1>2, <1>3 DEF SlotsInUse, InSlot, Registered, Final, TypeOK
  <2> QED  BY <2>2, <2>3, <2>4 DEF SlotsInUse
<1>6. RequestsHaveRows'
  <2>1. \A s \in Runs : row[s] # "none" => row'[s] # "none"
    BY <1>2, <1>3 DEF Final
  <2> QED  BY <1>4, <2>1 DEF RequestsHaveRows
<1>7. RowsFollow'
  BY <1>2, <1>3, <1>f DEF RowsFollow, Final
<1>8. StoppedFollow'
  BY <1>1, <1>2, <1>3, <1>f DEF StoppedFollow, Final, TypeOK
<1>9. ScheduleInv'
  BY <1>1, <1>2, <1>3, <1>f, ScheduleUnmoved DEF Final
<1> QED  BY <1>1, <1>5, <1>6, <1>7, <1>8, <1>9, ScanInvPartsPrime DEF ScheduleInv

LEMMA ScanEndsStep ==
  ASSUME IInv, NEW r \in Runs, ScanEnds(r), UNCHANGED scheduleVars
  PROVE  IInv'
<1> USE DEF IInv, ScanInv
<1>1. TypeOK'
  <2>1. pc' \in [Runs -> ScanPCs \union {"detect"}]
    BY DEF ScanEnds, Move, TypeOK, ScanPCs, InSlot, Registered, Final
  <2>2. row' \in [Runs -> {"none"} \union Active \union Final]
    BY DEF ScanEnds, TypeOK, Active, Final, scanVars
  <2>3. slot' \subseteq Runs /\ cancels' \subseteq Runs /\ told' \subseteq Runs /\ stopped' \subseteq Runs
    BY DEF ScanEnds, TypeOK, scanVars
  <2>4. UNCHANGED <<request, aim>> /\ UNCHANGED <<kind, loop, enabled, due, exists, wanted, alone, edit, copy>>
    BY DEF ScanEnds, scanVars, requestVars, scheduleVars, rowVars, editVars, historyVars
  <2>5. faults' \in 0..MaxFaults
    BY RunsAssumption DEF ScanEnds, TypeOK, scanVars, Fault
  <2> QED  BY <2>1, <2>2, <2>3, <2>4, <2>5 DEF TypeOK
<1>2. /\ pc[r] = "scan" /\ row'[r] = row[r]
      /\ pc'[r] = IF r \in told THEN "cancelled" ELSE "finished"
      /\ UNCHANGED <<slot, cancels, told, stopped>>
  BY RunsAssumption DEF ScanEnds, Move, Fault, TypeOK, scanVars, requestVars
<1>3. \A s \in Runs \ {r} : pc'[s] = pc[s] /\ row'[s] = row[s]
  BY DEF ScanEnds, Move, TypeOK, scanVars
<1>4. UNCHANGED <<request, aim>>
  BY DEF ScanEnds, scanVars, requestVars
<1>f. faults \in Nat /\ faults' \in Nat /\ faults' >= faults
  BY RunsAssumption DEF ScanEnds, TypeOK, scanVars, Fault
<1>5. SlotsInUse'
  <2>1. slot' = slot
    BY <1>2
  <2>2. Cardinality(slot') <= Slots
    BY <2>1 DEF SlotsInUse
  <2>3. slot' = {s \in Runs : pc'[s] \in InSlot}
    BY <1>1, <1>2, <1>3 DEF SlotsInUse, InSlot, Registered, Final, TypeOK
  <2>4. cancels' = {s \in Runs : pc'[s] \in Registered}
    BY <1>1, <1>2, <1>3 DEF SlotsInUse, InSlot, Registered, Final, TypeOK
  <2> QED  BY <2>2, <2>3, <2>4 DEF SlotsInUse
<1>6. RequestsHaveRows'
  <2>1. \A s \in Runs : row[s] # "none" => row'[s] # "none"
    BY <1>2, <1>3 DEF Final
  <2> QED  BY <1>4, <2>1 DEF RequestsHaveRows
<1>7. RowsFollow'
  BY <1>2, <1>3, <1>f DEF RowsFollow, Final
<1>8. StoppedFollow'
  BY <1>1, <1>2, <1>3, <1>f DEF StoppedFollow, Final, TypeOK
<1>9. ScheduleInv'
  BY <1>1, <1>2, <1>3, <1>f, ScheduleUnmoved DEF Final
<1> QED  BY <1>1, <1>5, <1>6, <1>7, <1>8, <1>9, ScanInvPartsPrime DEF ScheduleInv

LEMMA StoreStep ==
  ASSUME IInv, NEW r \in Runs, Store(r), UNCHANGED scheduleVars
  PROVE  IInv'
<1> USE DEF IInv, ScanInv
<1>1. TypeOK'
  <2>1. pc' \in [Runs -> ScanPCs \union {"detect"}]
    BY DEF Store, Move, TypeOK, ScanPCs, InSlot, Registered, Final
  <2>2. row' \in [Runs -> {"none"} \union Active \union Final]
    BY DEF Store, TypeOK, Active, Final, scanVars
  <2>3. slot' \subseteq Runs /\ cancels' \subseteq Runs /\ told' \subseteq Runs /\ stopped' \subseteq Runs
    BY DEF Store, TypeOK, scanVars
  <2>4. UNCHANGED <<request, aim>> /\ UNCHANGED <<kind, loop, enabled, due, exists, wanted, alone, edit, copy>>
    BY DEF Store, scanVars, requestVars, scheduleVars, rowVars, editVars, historyVars
  <2>5. faults' \in 0..MaxFaults
    BY RunsAssumption DEF Store, TypeOK, scanVars, Fault
  <2> QED  BY <2>1, <2>2, <2>3, <2>4, <2>5 DEF TypeOK
<1>2. /\ pc[r] \in Final /\ pc'[r] = "leave"
      /\ row'[r] = pc[r] \/ (row'[r] = row[r] /\ faults' > 0)
      /\ UNCHANGED <<slot, cancels, told, stopped>>
  BY RunsAssumption DEF Store, Move, Fault, TypeOK, scanVars, requestVars
<1>3. \A s \in Runs \ {r} : pc'[s] = pc[s] /\ row'[s] = row[s]
  BY DEF Store, Move, TypeOK, scanVars
<1>4. UNCHANGED <<request, aim>>
  BY DEF Store, scanVars, requestVars
<1>f. faults \in Nat /\ faults' \in Nat /\ faults' >= faults
  BY RunsAssumption DEF Store, TypeOK, scanVars, Fault
<1>5. SlotsInUse'
  <2>1. slot' = slot
    BY <1>2
  <2>2. Cardinality(slot') <= Slots
    BY <2>1 DEF SlotsInUse
  <2>3. slot' = {s \in Runs : pc'[s] \in InSlot}
    BY <1>1, <1>2, <1>3 DEF SlotsInUse, InSlot, Registered, Final, TypeOK
  <2>4. cancels' = {s \in Runs : pc'[s] \in Registered}
    BY <1>1, <1>2, <1>3 DEF SlotsInUse, InSlot, Registered, Final, TypeOK
  <2> QED  BY <2>2, <2>3, <2>4 DEF SlotsInUse
<1>6. RequestsHaveRows'
  <2>1. \A s \in Runs : row[s] # "none" => row'[s] # "none"
    BY <1>2, <1>3 DEF Final
  <2> QED  BY <1>4, <2>1 DEF RequestsHaveRows
<1>7. RowsFollow'
  BY <1>2, <1>3, <1>f DEF RowsFollow, Final
<1>8. StoppedFollow'
  BY <1>1, <1>2, <1>3, <1>f DEF StoppedFollow, Final, TypeOK
<1>9. ScheduleInv'
  BY <1>1, <1>2, <1>3, <1>f, ScheduleUnmoved DEF Final
<1> QED  BY <1>1, <1>5, <1>6, <1>7, <1>8, <1>9, ScanInvPartsPrime DEF ScheduleInv

LEMMA LeaveStep ==
  ASSUME IInv, NEW r \in Runs, Leave(r), UNCHANGED scheduleVars
  PROVE  IInv'
<1> USE DEF IInv, ScanInv
<1>1. TypeOK'
  <2>1. pc' \in [Runs -> ScanPCs \union {"detect"}]
    BY DEF Leave, Move, TypeOK, ScanPCs, InSlot, Registered, Final
  <2>2. row' \in [Runs -> {"none"} \union Active \union Final]
    BY DEF Leave, TypeOK, Active, Final, scanVars
  <2>3. slot' \subseteq Runs /\ cancels' \subseteq Runs /\ told' \subseteq Runs /\ stopped' \subseteq Runs
    BY DEF Leave, TypeOK, scanVars
  <2>4. UNCHANGED <<request, aim>> /\ UNCHANGED <<kind, loop, enabled, due, exists, wanted, alone, edit, copy>>
    BY DEF Leave, scanVars, requestVars, scheduleVars, rowVars, editVars, historyVars
  <2>5. faults' \in 0..MaxFaults
    BY RunsAssumption DEF Leave, TypeOK, scanVars, Fault
  <2> QED  BY <2>1, <2>2, <2>3, <2>4, <2>5 DEF TypeOK
<1>2. /\ pc[r] = "leave" /\ pc'[r] = "return" /\ row'[r] = row[r]
      /\ cancels' = cancels \ {r} /\ told' = told \ {r} /\ UNCHANGED <<slot, stopped>>
  BY RunsAssumption DEF Leave, Move, Fault, TypeOK, scanVars, requestVars
<1>3. \A s \in Runs \ {r} : pc'[s] = pc[s] /\ row'[s] = row[s]
  BY DEF Leave, Move, TypeOK, scanVars
<1>4. UNCHANGED <<request, aim>>
  BY DEF Leave, scanVars, requestVars
<1>f. faults \in Nat /\ faults' \in Nat /\ faults' >= faults
  BY RunsAssumption DEF Leave, TypeOK, scanVars, Fault
<1>5. SlotsInUse'
  <2>1. slot' = slot
    BY <1>2
  <2>2. Cardinality(slot') <= Slots
    BY <2>1 DEF SlotsInUse
  <2>3. slot' = {s \in Runs : pc'[s] \in InSlot}
    BY <1>1, <1>2, <1>3 DEF SlotsInUse, InSlot, Registered, Final, TypeOK
  <2>4. cancels' = {s \in Runs : pc'[s] \in Registered}
    BY <1>1, <1>2, <1>3 DEF SlotsInUse, InSlot, Registered, Final, TypeOK
  <2> QED  BY <2>2, <2>3, <2>4 DEF SlotsInUse
<1>6. RequestsHaveRows'
  <2>1. \A s \in Runs : row[s] # "none" => row'[s] # "none"
    BY <1>2, <1>3 DEF Final
  <2> QED  BY <1>4, <2>1 DEF RequestsHaveRows
<1>7. RowsFollow'
  BY <1>2, <1>3, <1>f DEF RowsFollow, Final
<1>8. StoppedFollow'
  BY <1>1, <1>2, <1>3, <1>f DEF StoppedFollow, Final, TypeOK
<1>9. ScheduleInv'
  BY <1>1, <1>2, <1>3, <1>f, ScheduleUnmoved DEF Final
<1> QED  BY <1>1, <1>5, <1>6, <1>7, <1>8, <1>9, ScanInvPartsPrime DEF ScheduleInv

LEMMA ReturnStep ==
  ASSUME IInv, NEW r \in Runs, Return(r), UNCHANGED scheduleVars
  PROVE  IInv'
<1> USE DEF IInv, ScanInv
<1>1. TypeOK'
  <2>1. pc' \in [Runs -> ScanPCs \union {"detect"}]
    BY DEF Return, Move, TypeOK, ScanPCs, InSlot, Registered, Final
  <2>2. row' \in [Runs -> {"none"} \union Active \union Final]
    BY DEF Return, TypeOK, Active, Final, scanVars
  <2>3. slot' \subseteq Runs /\ cancels' \subseteq Runs /\ told' \subseteq Runs /\ stopped' \subseteq Runs
    BY DEF Return, TypeOK, scanVars
  <2>4. UNCHANGED <<request, aim>> /\ UNCHANGED <<kind, loop, enabled, due, exists, wanted, alone, edit, copy>>
    BY DEF Return, scanVars, requestVars, scheduleVars, rowVars, editVars, historyVars
  <2>5. faults' \in 0..MaxFaults
    BY RunsAssumption DEF Return, TypeOK, scanVars, Fault
  <2> QED  BY <2>1, <2>2, <2>3, <2>4, <2>5 DEF TypeOK
<1>2. /\ pc[r] = "return" /\ row'[r] = row[r]
      /\ pc'[r] = IF r \in Scheduled THEN "returned" ELSE "ended"
      /\ slot' = slot \ {r} /\ UNCHANGED <<cancels, told, stopped>>
  BY RunsAssumption DEF Return, Move, Fault, TypeOK, scanVars, requestVars
<1>3. \A s \in Runs \ {r} : pc'[s] = pc[s] /\ row'[s] = row[s]
  BY DEF Return, Move, TypeOK, scanVars
<1>4. UNCHANGED <<request, aim>>
  BY DEF Return, scanVars, requestVars
<1>f. faults \in Nat /\ faults' \in Nat /\ faults' >= faults
  BY RunsAssumption DEF Return, TypeOK, scanVars, Fault
<1>5. SlotsInUse'
  <2>1. IsFiniteSet(slot) /\ Cardinality(slot) \in Nat
    BY SlotsFinite
  <2>2. Cardinality(slot') <= Slots
    <3>1. Cardinality(slot') = IF r \in slot THEN Cardinality(slot) - 1 ELSE Cardinality(slot)
      BY <1>2, <2>1, FS_RemoveElement
    <3> QED  BY <2>1, <3>1, RunsAssumption DEF SlotsInUse
  <2>3. slot' = {s \in Runs : pc'[s] \in InSlot}
    BY <1>1, <1>2, <1>3 DEF SlotsInUse, InSlot, Registered, Final, TypeOK
  <2>4. cancels' = {s \in Runs : pc'[s] \in Registered}
    BY <1>1, <1>2, <1>3 DEF SlotsInUse, InSlot, Registered, Final, TypeOK
  <2> QED  BY <2>2, <2>3, <2>4 DEF SlotsInUse
<1>6. RequestsHaveRows'
  <2>1. \A s \in Runs : row[s] # "none" => row'[s] # "none"
    BY <1>2, <1>3 DEF Final
  <2> QED  BY <1>4, <2>1 DEF RequestsHaveRows
<1>7. RowsFollow'
  BY <1>2, <1>3, <1>f DEF RowsFollow, Final
<1>8. StoppedFollow'
  BY <1>1, <1>2, <1>3, <1>f DEF StoppedFollow, Final, TypeOK
<1>9. ScheduleInv'
  BY <1>1, <1>2, <1>3, <1>f, ScheduleUnmoved DEF Final
<1> QED  BY <1>1, <1>5, <1>6, <1>7, <1>8, <1>9, ScanInvPartsPrime DEF ScheduleInv

LEMMA TriggerStep ==
  ASSUME IInv, NEW r \in Runs, Trigger(r), UNCHANGED scheduleVars
  PROVE  IInv'
<1> USE DEF IInv, ScanInv
<1>1. TypeOK'
  <2>1. pc' \in [Runs -> ScanPCs \union {"detect"}]
    BY DEF Trigger, Move, TypeOK, ScanPCs, InSlot, Registered, Final
  <2>2. row' \in [Runs -> {"none"} \union Active \union Final]
    BY DEF Trigger, TypeOK, Active, Final, scanVars
  <2>3. slot' \subseteq Runs /\ cancels' \subseteq Runs /\ told' \subseteq Runs /\ stopped' \subseteq Runs
    BY DEF Trigger, TypeOK, scanVars
  <2>4. UNCHANGED <<request, aim>> /\ UNCHANGED <<kind, loop, enabled, due, exists, wanted, alone, edit, copy>>
    BY DEF Trigger, scanVars, requestVars, scheduleVars, rowVars, editVars, historyVars
  <2>5. faults' \in 0..MaxFaults
    BY RunsAssumption DEF Trigger, TypeOK, scanVars, Fault
  <2> QED  BY <2>1, <2>2, <2>3, <2>4, <2>5 DEF TypeOK
<1>2. /\ r \in Manual /\ r \notin Scheduled /\ pc[r] = "idle" /\ pc'[r] = "waiting" /\ row'[r] = row[r]
      /\ UNCHANGED <<slot, cancels, told, stopped>>
  BY RunsAssumption DEF Trigger, Move, Fault, TypeOK, scanVars, requestVars
<1>3. \A s \in Runs \ {r} : pc'[s] = pc[s] /\ row'[s] = row[s]
  BY DEF Trigger, Move, TypeOK, scanVars
<1>4. UNCHANGED <<request, aim>>
  BY DEF Trigger, scanVars, requestVars
<1>f. faults \in Nat /\ faults' \in Nat /\ faults' >= faults
  BY RunsAssumption DEF Trigger, TypeOK, scanVars, Fault
<1>5. SlotsInUse'
  <2>1. slot' = slot
    BY <1>2
  <2>2. Cardinality(slot') <= Slots
    BY <2>1 DEF SlotsInUse
  <2>3. slot' = {s \in Runs : pc'[s] \in InSlot}
    BY <1>1, <1>2, <1>3 DEF SlotsInUse, InSlot, Registered, Final, TypeOK
  <2>4. cancels' = {s \in Runs : pc'[s] \in Registered}
    BY <1>1, <1>2, <1>3 DEF SlotsInUse, InSlot, Registered, Final, TypeOK
  <2> QED  BY <2>2, <2>3, <2>4 DEF SlotsInUse
<1>6. RequestsHaveRows'
  <2>1. \A s \in Runs : row[s] # "none" => row'[s] # "none"
    BY <1>2, <1>3 DEF Final
  <2> QED  BY <1>4, <2>1 DEF RequestsHaveRows
<1>7. RowsFollow'
  BY <1>2, <1>3, <1>f DEF RowsFollow, Final
<1>8. StoppedFollow'
  BY <1>1, <1>2, <1>3, <1>f DEF StoppedFollow, Final, TypeOK
<1>9. ScheduleInv'
  BY <1>1, <1>2, <1>3, <1>f, ScheduleUnmoved DEF Final
<1> QED  BY <1>1, <1>5, <1>6, <1>7, <1>8, <1>9, ScanInvPartsPrime DEF ScheduleInv

-----------------------------------------------------------------------------
(* CancelScan *)

LEMMA CancelCallStep ==
  ASSUME IInv, NEW q \in Cancels, NEW r \in Runs, CancelCall(q, r), UNCHANGED scheduleVars
  PROVE  IInv'
<1> USE DEF IInv, ScanInv
<1>1. TypeOK'
  <2>1. request' \in [Cancels -> {"idle", "read", "write", "done"}]
    BY DEF CancelCall, Step, TypeOK
  <2>2. aim' \in [Cancels -> Runs \union {NoRun}]
    BY DEF CancelCall, TypeOK
  <2>3. told' \subseteq Runs /\ stopped' \subseteq Runs
    BY DEF CancelCall, TypeOK
  <2>4. UNCHANGED <<pc, row, slot, cancels, faults, kind, loop, enabled, due, exists, wanted, alone, edit, copy>>
    BY DEF CancelCall, scheduleVars, rowVars, editVars, historyVars
  <2> QED  BY <2>1, <2>2, <2>3, <2>4 DEF TypeOK
<1>2. /\ UNCHANGED <<pc, row, slot, cancels, faults>>
      /\ row[r] # "none" /\ told' = told \union (cancels \intersect {r})
      /\ stopped' = IF r \in cancels /\ pc[r] \in {"mark", "scan"} THEN stopped \union {r} ELSE stopped
  BY DEF CancelCall
<1>3. /\ aim'[q] = r
      /\ \A p \in Cancels \ {q} : request'[p] = request[p] /\ aim'[p] = aim[p]
  BY DEF CancelCall, Step, TypeOK
<1>5. SlotsInUse'
  BY <1>2 DEF SlotsInUse
<1>6. RequestsHaveRows'
  BY <1>2, <1>3 DEF RequestsHaveRows
<1>7. RowsFollow'
  BY <1>2 DEF RowsFollow
<1>8. StoppedFollow'
  BY <1>2 DEF StoppedFollow
<1>9. ScheduleInv'
  BY <1>1, <1>2, ScheduleUntouched, RunsAssumption DEF TypeOK
<1> QED  BY <1>1, <1>5, <1>6, <1>7, <1>8, <1>9, ScanInvPartsPrime DEF ScheduleInv

LEMMA CancelReadStep ==
  ASSUME IInv, NEW q \in Cancels, CancelRead(q), UNCHANGED scheduleVars
  PROVE  IInv'
<1> USE DEF IInv, ScanInv
<1>1. TypeOK'
  <2>1. request' \in [Cancels -> {"idle", "read", "write", "done"}]
    BY DEF CancelRead, Step, TypeOK
  <2>2. aim' \in [Cancels -> Runs \union {NoRun}]
    BY DEF CancelRead, TypeOK
  <2>4. UNCHANGED <<pc, row, slot, cancels, told, stopped, faults,
                    kind, loop, enabled, due, exists, wanted, alone, edit, copy>>
    BY DEF CancelRead, scheduleVars, rowVars, editVars, historyVars
  <2> QED  BY <2>1, <2>2, <2>4 DEF TypeOK
<1>2. UNCHANGED <<pc, row, slot, cancels, told, stopped, faults>>
  BY DEF CancelRead
<1>3. /\ request[q] = "read"
      /\ request'[q] = "done" \/ aim' = aim
      /\ \A p \in Cancels \ {q} : request'[p] = request[p] /\ aim'[p] = aim[p]
  BY DEF CancelRead, Step, TypeOK
<1>5. SlotsInUse'
  BY <1>2 DEF SlotsInUse
<1>6. RequestsHaveRows'
  BY <1>2, <1>3 DEF RequestsHaveRows
<1>7. RowsFollow' /\ StoppedFollow'
  BY <1>2 DEF RowsFollow, StoppedFollow
<1>9. ScheduleInv'
  BY <1>1, <1>2, ScheduleUntouched, RunsAssumption DEF TypeOK
<1> QED  BY <1>1, <1>5, <1>6, <1>7, <1>9, ScanInvPartsPrime DEF ScheduleInv

LEMMA CancelWriteStep ==
  ASSUME IInv, NEW q \in Cancels, CancelWrite(q), UNCHANGED scheduleVars
  PROVE  IInv'
<1> USE DEF IInv, ScanInv
<1>1. request[q] = "write" /\ aim[q] \in Runs /\ row[aim[q]] # "none"
  BY DEF CancelWrite, Step, RequestsHaveRows
<1>2. TypeOK'
  <2>1. request' \in [Cancels -> {"idle", "read", "write", "done"}]
    BY DEF CancelWrite, Step, TypeOK
  <2>2. aim' \in [Cancels -> Runs \union {NoRun}]
    BY DEF CancelWrite, TypeOK
  <2>3. row' \in [Runs -> {"none"} \union Active \union Final]
    BY DEF CancelWrite, TypeOK, Final
  <2>4. faults' \in 0..MaxFaults
    BY RunsAssumption DEF CancelWrite, TypeOK, Fault
  <2>5. UNCHANGED <<pc, slot, cancels, told, stopped,
                    kind, loop, enabled, due, exists, wanted, alone, edit, copy>>
    BY DEF CancelWrite, scheduleVars, rowVars, editVars, historyVars
  <2> QED  BY <2>1, <2>2, <2>3, <2>4, <2>5 DEF TypeOK
<1>3. /\ UNCHANGED <<pc, slot, cancels, told, stopped>>
      /\ \A s \in Runs : row'[s] = row[s] \/ (row[s] # "none" /\ row'[s] = "cancelled")
  BY <1>1 DEF CancelWrite, TypeOK
<1>4. /\ request'[q] = "done"
      /\ \A p \in Cancels \ {q} : request'[p] = request[p] /\ aim'[p] = aim[p]
  BY DEF CancelWrite, Step, TypeOK
<1>f. faults \in Nat /\ faults' \in Nat /\ faults' >= faults
  BY RunsAssumption DEF CancelWrite, TypeOK, Fault
<1>5. SlotsInUse'
  BY <1>3 DEF SlotsInUse
<1>6. RequestsHaveRows'
  BY <1>3, <1>4 DEF RequestsHaveRows
<1>7. RowsFollow'
  BY <1>3, <1>f DEF RowsFollow
<1>8. StoppedFollow'
  BY <1>3, <1>f DEF StoppedFollow, TypeOK
<1>9. ScheduleInv'
  BY <1>3, <1>f, ScheduleUntouched
<1> QED  BY <1>2, <1>5, <1>6, <1>7, <1>8, <1>9, ScanInvPartsPrime DEF ScheduleInv

-----------------------------------------------------------------------------
(* The loop *)

LEMMA BecomeDueStep ==
  ASSUME IInv, BecomeDue
  PROVE  IInv'
<1> USE DEF IInv, BecomeDue
<1>1. TypeOK'
  BY DEF TypeOK, scanVars, requestVars, editVars, historyVars
<1>2. ScanInv'
  BY ScansUntouched, RunsAssumption DEF scanVars, requestVars, TypeOK
<1>3. EditSticksWhenAlone' /\ CopiesAgree'
  BY DEF EditSticksWhenAlone, CopiesAgree, InFlight, editVars, historyVars
<1>4. OnlyScheduledWriteBack' /\ LoopStopsByFault'
  BY DEF OnlyScheduledWriteBack, LoopStopsByFault, scanVars
<1> QED  BY <1>1, <1>2, <1>3, <1>4

LEMMA ProcessDueStep ==
  ASSUME IInv, ProcessDue
  PROVE  IInv'
<1> USE DEF IInv, ScanInv
<1>1. PICK r \in Scheduled : Move(r, "idle", IF kind = "scan" THEN "waiting" ELSE "detect")
  BY DEF ProcessDue
<1>2. /\ r \in Runs /\ pc[r] = "idle" /\ pc'[r] \in {"waiting", "detect"}
      /\ \A s \in Runs \ {r} : pc'[s] = pc[s]
  BY <1>1 DEF Move, TypeOK, Runs
<1>3. /\ UNCHANGED <<row, slot, cancels, told, request, aim, stopped, faults>>
      /\ UNCHANGED <<kind, loop, enabled, due, exists, edit, copy, wanted, alone>>
  BY DEF ProcessDue, scanVars, requestVars, scheduleVars, rowVars, editVars, historyVars
<1>4. TypeOK'
  <2>1. pc' \in [Runs -> ScanPCs \union {"detect"}]
    BY <1>1, <1>2 DEF Move, TypeOK, ScanPCs
  <2> QED  BY <1>3, <2>1 DEF TypeOK
<1>5. SlotsInUse'
  BY <1>2, <1>3 DEF SlotsInUse, InSlot, Registered, Final
<1>6. RequestsHaveRows'
  BY <1>3 DEF RequestsHaveRows
<1>7. RowsFollow'
  BY <1>2, <1>3 DEF RowsFollow
<1>8. StoppedFollow'
  BY <1>2, <1>3 DEF StoppedFollow, TypeOK
<1>9. EditSticksWhenAlone' /\ CopiesAgree'
  <2>1. enabled
    BY DEF ProcessDue, IsDue
  <2> QED  BY <1>3, <2>1 DEF EditSticksWhenAlone, CopiesAgree
<1>10. OnlyScheduledWriteBack' /\ LoopStopsByFault'
  BY <1>1, <1>2, <1>3 DEF OnlyScheduledWriteBack, LoopStopsByFault
<1> QED  BY <1>4, <1>5, <1>6, <1>7, <1>8, <1>9, <1>10, ScanInvPartsPrime

\* A detection has neither a slot nor a row.
LEMMA DetectStep ==
  ASSUME IInv, NEW r \in Runs, Detect(r)
  PROVE  IInv'
<1> USE DEF IInv, ScanInv
<1>1. /\ pc[r] = "detect" /\ pc'[r] = "returned"
      /\ \A s \in Runs \ {r} : pc'[s] = pc[s]
  BY DEF Detect, Move, TypeOK
<1>3. /\ UNCHANGED <<row, slot, cancels, told, request, aim, stopped, faults>>
      /\ UNCHANGED scheduleVars
  BY DEF Detect, scanVars, requestVars
<1>4. TypeOK'
  <2>1. pc' \in [Runs -> ScanPCs \union {"detect"}]
    BY DEF Detect, Move, TypeOK, ScanPCs
  <2> QED  BY <1>3, <2>1 DEF TypeOK, scheduleVars, rowVars, editVars, historyVars
<1>5. SlotsInUse'
  BY <1>1, <1>3 DEF SlotsInUse, InSlot, Registered, Final
<1>6. RequestsHaveRows'
  BY <1>3 DEF RequestsHaveRows
<1>7. RowsFollow'
  BY <1>1, <1>3 DEF RowsFollow, Final
<1>8. StoppedFollow'
  BY <1>1, <1>3 DEF StoppedFollow, TypeOK
<1>9. r \in Scheduled
  BY <1>1 DEF OnlyScheduledWriteBack
<1>10. ScheduleInv'
  BY <1>1, <1>3, <1>9, ScheduleUnmoved, RunsAssumption DEF TypeOK
<1> QED  BY <1>4, <1>5, <1>6, <1>7, <1>8, <1>10, ScanInvPartsPrime DEF ScheduleInv

\* A run's last write.  While nobody else held a copy of the row, the row is
\* enabled, as the run read it, so the write changes nothing of the switch.
LEMMA WriteBackStep ==
  ASSUME IInv, NEW r \in Runs, WriteBack(r)
  PROVE  IInv'
<1> USE DEF IInv, ScanInv
<1>1. /\ pc[r] = "returned" /\ pc'[r] = "ended"
      /\ \A s \in Runs \ {r} : pc'[s] = pc[s]
  BY DEF WriteBack, Move, TypeOK
<1>2. /\ UNCHANGED <<row, slot, cancels, told, request, aim, stopped>>
      /\ UNCHANGED <<kind, loop, exists, edit, copy, wanted, alone>>
      /\ enabled' \in {TRUE, enabled} /\ due' \in {FALSE, due}
  BY DEF WriteBack, requestVars, editVars, historyVars
<1>f. faults \in Nat /\ faults' \in 0..MaxFaults /\ faults' >= faults
  BY RunsAssumption DEF WriteBack, TypeOK, Fault
<1>4. TypeOK'
  <2>1. pc' \in [Runs -> ScanPCs \union {"detect"}]
    BY DEF WriteBack, Move, TypeOK, ScanPCs
  <2> QED  BY <1>2, <1>f, <2>1 DEF TypeOK
<1>5. SlotsInUse'
  BY <1>1, <1>2 DEF SlotsInUse, InSlot, Registered, Final
<1>6. RequestsHaveRows'
  BY <1>2 DEF RequestsHaveRows
<1>7. RowsFollow'
  BY <1>1, <1>2, <1>f DEF RowsFollow, Final
<1>8. StoppedFollow'
  BY <1>1, <1>2, <1>f DEF StoppedFollow, TypeOK
<1>9. EditSticksWhenAlone' /\ CopiesAgree'
  <2>1. r \in InFlight
    BY <1>1 DEF OnlyScheduledWriteBack, InFlight
  <2>2. InFlight' \subseteq InFlight
    BY <1>1 DEF InFlight, Runs
  <2>3. alone => enabled' = enabled
    BY <1>2, <2>1 DEF CopiesAgree, TypeOK
  <2> QED  BY <1>2, <2>2, <2>3 DEF EditSticksWhenAlone, CopiesAgree
<1>10. OnlyScheduledWriteBack'
  BY <1>1 DEF OnlyScheduledWriteBack
<1>11. LoopStopsByFault'
  BY <1>2, <1>f DEF LoopStopsByFault
<1> QED  BY <1>4, <1>5, <1>6, <1>7, <1>8, <1>9, <1>10, <1>11, ScanInvPartsPrime

LEMMA ShutdownStep ==
  ASSUME IInv, Shutdown
  PROVE  IInv'
<1> USE DEF IInv, Shutdown
<1>f. faults \in Nat /\ faults' \in 0..MaxFaults /\ faults' > faults
  BY RunsAssumption DEF TypeOK, Fault
<1>1. TypeOK'
  BY <1>f DEF TypeOK, requestVars, rowVars, editVars, historyVars
<1>2. ScanInv'
  BY <1>f, ScansUntouched
<1>3. EditSticksWhenAlone' /\ CopiesAgree'
  BY DEF EditSticksWhenAlone, CopiesAgree, InFlight, rowVars, editVars, historyVars
<1>4. OnlyScheduledWriteBack' /\ LoopStopsByFault'
  BY <1>f DEF OnlyScheduledWriteBack, LoopStopsByFault
<1> QED  BY <1>1, <1>2, <1>3, <1>4

\* Nothing in memory outlives the process, and no row says it did.
LEMMA RestartStep ==
  ASSUME IInv, Restart
  PROVE  IInv'
<1> USE DEF IInv, ScanInv
<1>f. faults \in Nat /\ faults' \in 0..MaxFaults /\ faults' >= faults /\ faults' > 0
  BY RunsAssumption DEF Restart, Fault, TypeOK, LoopStopsByFault
<1>1. /\ \A r \in Runs : pc'[r] = IF pc[r] \in {"idle", "ended"} THEN pc[r] ELSE "lost"
      /\ slot' = {} /\ cancels' = {} /\ told' = {} /\ UNCHANGED <<row, stopped>>
      /\ \A q \in Cancels : request'[q] \in {"idle", "done"}
  BY DEF Restart, LoseAll
<1>2. /\ loop' = "on" /\ UNCHANGED <<kind, enabled, due, exists, wanted, alone>>
      /\ \A e \in Edits : edit'[e] \in {"idle", "done"}
  BY DEF Restart, rowVars, historyVars
<1>3. TypeOK'
  <2>1. pc' \in [Runs -> ScanPCs \union {"detect"}]
    BY DEF Restart, LoseAll, TypeOK, ScanPCs
  <2>2. request' \in [Cancels -> {"idle", "read", "write", "done"}]
    BY DEF Restart, LoseAll
  <2>3. aim' \in [Cancels -> Runs \union {NoRun}]
    BY DEF Restart, LoseAll
  <2>4. edit' \in [Edits -> {"idle", "done"} \union Editing]
    BY DEF Restart
  <2>5. copy' \in [Edits -> [enabled : BOOLEAN, due : BOOLEAN]]
    BY DEF Restart, NoCopy
  <2> QED  BY <1>f, <1>1, <1>2, <2>1, <2>2, <2>3, <2>4, <2>5 DEF TypeOK
<1>4. SlotsInUse'
  <2>1. Cardinality(slot') <= Slots
    BY <1>1, FS_EmptySet, RunsAssumption
  <2> QED  BY <1>1, <2>1 DEF SlotsInUse, InSlot, Registered, Final
<1>5. RequestsHaveRows'
  BY <1>1 DEF RequestsHaveRows
<1>6. RowsFollow'
  BY <1>f, <1>1 DEF RowsFollow
<1>7. StoppedFollow'
  BY <1>f, <1>1 DEF StoppedFollow, TypeOK
<1>8. EditSticksWhenAlone' /\ CopiesAgree'
  <2>1. InFlight' = {}
    BY <1>1 DEF InFlight, Runs
  <2> QED  BY <1>2, <2>1 DEF EditSticksWhenAlone, CopiesAgree, Editing
<1>9. OnlyScheduledWriteBack' /\ LoopStopsByFault'
  BY <1>1, <1>2 DEF OnlyScheduledWriteBack, LoopStopsByFault
<1> QED  BY <1>3, <1>4, <1>5, <1>6, <1>7, <1>8, <1>9, ScanInvPartsPrime

-----------------------------------------------------------------------------
(* The row's handlers *)

LEMMA EditReadStep ==
  ASSUME IInv, NEW e \in Edits, EditRead(e)
  PROVE  IInv'
<1> USE DEF IInv
<1>1. /\ UNCHANGED <<pc, row, slot, cancels, told, request, aim, stopped, faults>>
      /\ UNCHANGED <<kind, loop, enabled, due, exists, wanted, alone>>
  BY DEF EditRead, scanVars, requestVars, rowVars, historyVars
<1>2. /\ copy'[e].enabled = enabled
      /\ \A f \in Edits \ {e} : edit'[f] = edit[f] /\ copy'[f] = copy[f]
  <2>1. copy' = [copy EXCEPT ![e] = [enabled |-> enabled, due |-> due]]
    BY DEF EditRead
  <2> QED  BY <2>1 DEF EditRead, TypeOK
<1>3. TypeOK'
  <2>1. edit' \in [Edits -> {"idle", "done"} \union Editing]
    BY DEF EditRead, TypeOK, Editing
  <2>2. copy' \in [Edits -> [enabled : BOOLEAN, due : BOOLEAN]]
    BY DEF EditRead, TypeOK
  <2> QED  BY <1>1, <2>1, <2>2 DEF TypeOK
<1>4. ScanInv'
  BY <1>1, ScansUntouched, RunsAssumption DEF TypeOK, requestVars
<1>5. EditSticksWhenAlone' /\ CopiesAgree'
  <2>1. InFlight' = InFlight
    BY <1>1 DEF InFlight
  <2> QED  BY <1>1, <1>2, <2>1 DEF EditSticksWhenAlone, CopiesAgree
<1>6. OnlyScheduledWriteBack' /\ LoopStopsByFault'
  BY <1>1 DEF OnlyScheduledWriteBack, LoopStopsByFault
<1> QED  BY <1>3, <1>4, <1>5, <1>6

LEMMA EditWriteStep ==
  ASSUME IInv, NEW e \in Edits, EditWrite(e)
  PROVE  IInv'
<1> USE DEF IInv
<1>1. /\ UNCHANGED <<pc, row, slot, cancels, told, request, aim, stopped, faults>>
      /\ UNCHANGED <<kind, loop, exists>>
  BY DEF EditWrite, scanVars, requestVars
<1>2. /\ edit[e] \in Editing /\ edit'[e] = "done"
      /\ \A f \in Edits \ {e} : edit'[f] = edit[f] /\ copy'[f] = copy[f]
  BY DEF EditWrite, TypeOK
<1>3. copy[e].enabled \in BOOLEAN /\ copy[e].due \in BOOLEAN
  BY DEF TypeOK
<1>4. TypeOK'
  <2>1. edit' \in [Edits -> {"idle", "done"} \union Editing]
    BY DEF EditWrite, TypeOK
  <2>2. copy' \in [Edits -> [enabled : BOOLEAN, due : BOOLEAN]]
    BY DEF EditWrite, TypeOK, NoCopy
  <2>3. enabled' \in BOOLEAN /\ due' \in BOOLEAN /\ wanted' \in BOOLEAN
    BY <1>3 DEF EditWrite, TypeOK
  <2>4. alone' \in BOOLEAN
    BY DEF EditWrite
  <2> QED  BY <1>1, <2>1, <2>2, <2>3, <2>4 DEF TypeOK
<1>5. ScanInv'
  BY <1>1, ScansUntouched, RunsAssumption DEF TypeOK, requestVars
<1>6. alone' => /\ InFlight = {}
                /\ \A f \in Edits \ {e} : edit[f] \notin Editing
                /\ edit[e] = "toggle" \/ alone
  BY DEF EditWrite
<1>7. EditSticksWhenAlone'
  <2>1. CASE edit[e] = "toggle"
    BY <2>1 DEF EditWrite, EditSticksWhenAlone
  <2>2. CASE edit[e] # "toggle"
    <3>1. wanted' = wanted /\ enabled' = copy[e].enabled
      BY <2>2 DEF EditWrite
    <3>2. alone => copy[e].enabled = enabled
      BY <1>2 DEF CopiesAgree
    <3> QED  BY <1>6, <2>2, <3>1, <3>2 DEF EditSticksWhenAlone
  <2> QED  BY <2>1, <2>2
<1>8. CopiesAgree'
  <2>1. InFlight' = InFlight
    BY <1>1 DEF InFlight
  <2>2. alone' => \A f \in Edits : edit'[f] \notin Editing
    BY <1>2, <1>6 DEF Editing
  <2> QED  BY <1>6, <2>1, <2>2 DEF CopiesAgree
<1>9. OnlyScheduledWriteBack' /\ LoopStopsByFault'
  BY <1>1 DEF OnlyScheduledWriteBack, LoopStopsByFault
<1> QED  BY <1>4, <1>5, <1>7, <1>8, <1>9

LEMMA DeleteStep ==
  ASSUME IInv, Delete
  PROVE  IInv'
<1> USE DEF IInv, Delete
<1>1. TypeOK'
  BY DEF TypeOK, scanVars, requestVars, editVars, historyVars
<1>2. ScanInv'
  BY ScansUntouched, RunsAssumption DEF scanVars, requestVars, TypeOK
<1>3. EditSticksWhenAlone' /\ CopiesAgree'
  BY DEF EditSticksWhenAlone, CopiesAgree, InFlight, editVars, historyVars
<1>4. OnlyScheduledWriteBack' /\ LoopStopsByFault'
  BY DEF OnlyScheduledWriteBack, LoopStopsByFault, scanVars
<1> QED  BY <1>1, <1>2, <1>3, <1>4

LEMMA StutterStep == IInv /\ UNCHANGED vars => IInv'
<1> SUFFICES ASSUME IInv, UNCHANGED vars
             PROVE  IInv'
  OBVIOUS
<1> USE DEF IInv
<1>1. /\ UNCHANGED <<pc, row, slot, cancels, told, request, aim, stopped, faults>>
      /\ UNCHANGED <<kind, loop, enabled, due, exists, edit, copy, wanted, alone>>
  BY DEF vars, scanVars, requestVars, scheduleVars, rowVars, editVars, historyVars
<1>2. TypeOK'
  BY <1>1 DEF TypeOK
<1>3. ScanInv'
  BY <1>1, ScansUntouched, RunsAssumption DEF TypeOK, requestVars
<1>4. ScheduleInv'
  BY <1>1, ScheduleUntouched, RunsAssumption
     DEF TypeOK, scheduleVars, rowVars, editVars, historyVars
<1> QED  BY <1>2, <1>3, <1>4 DEF ScheduleInv

-----------------------------------------------------------------------------
(* Theorems *)

LEMMA NextIInv == IInv /\ [Next]_vars => IInv'
<1> SUFFICES ASSUME IInv, [Next]_vars
             PROVE  IInv'
  OBVIOUS
<1>1. CASE BecomeDue \/ ProcessDue \/ Shutdown \/ Restart \/ Delete
  BY <1>1, BecomeDueStep, ProcessDueStep, ShutdownStep, RestartStep, DeleteStep
<1>2. ASSUME NEW r \in Runs, Trigger(r) \/ RunScan(r), UNCHANGED scheduleVars
      PROVE  IInv'
  BY <1>2, TriggerStep, AcquireStep, LoadStep, RegisterStep, MarkRunningStep,
     ScanEndsStep, StoreStep, LeaveStep, ReturnStep DEF RunScan
<1>3. ASSUME NEW r \in Runs, Detect(r) \/ WriteBack(r)
      PROVE  IInv'
  BY <1>3, DetectStep, WriteBackStep
<1>4. ASSUME NEW q \in Cancels, CancelScan(q), UNCHANGED scheduleVars
      PROVE  IInv'
  BY <1>4, CancelCallStep, CancelReadStep, CancelWriteStep DEF CancelScan
<1>5. ASSUME NEW e \in Edits, EditRead(e) \/ EditWrite(e)
      PROVE  IInv'
  BY <1>5, EditReadStep, EditWriteStep
<1>6. CASE UNCHANGED vars
  BY <1>6, StutterStep
<1> QED  BY <1>1, <1>2, <1>3, <1>4, <1>5, <1>6 DEF Next

\* Slots and cancel functions are those of the scans at work, a running row
\* can be cancelled, and what a user set stays set, for any number of scans,
\* slots, requests and edits (scanner.go:178-360, scheduler.go:113-149).
THEOREM ScanInvariance == Spec => []IInv
<1>1. Init => IInv
  BY InitIInv
<1>2. IInv /\ [Next]_vars => IInv'
  BY NextIInv
<1> QED  BY <1>1, <1>2, PTL DEF Spec

\* A cancel that reached the scan before it was over is what its row says in
\* the end, unless a database call failed or the process died.
THEOREM CancelSticksInTime == Spec => []CancelInTimeSticks
<1>1. IInv => CancelInTimeSticks
  BY DEF IInv, ScanInv
<1> QED  BY <1>1, ScanInvariance, PTL

\* No more scans than slots are at work, and none of them holds two.
THEOREM SlotLimit == Spec => []SlotsInUse
<1>1. IInv => SlotsInUse
  BY DEF IInv, ScanInv
<1> QED  BY <1>1, ScanInvariance, PTL

\* An edit made while nobody else held a copy of the row is undone by nobody.
THEOREM EditsStick == Spec => []EditSticksWhenAlone
<1>1. IInv => EditSticksWhenAlone
  BY DEF IInv
<1> QED  BY <1>1, ScanInvariance, PTL
=============================================================================
