------------------------ MODULE PluginTablesProofs ------------------------
(***************************************************************************)
(* Proofs about PluginTables for every set of requests and calls and any   *)
(* number of faults: the inductive invariant that its run checks.          *)
(***************************************************************************)
EXTENDS PluginTables, TLAPS

USE PluginAssumption

-----------------------------------------------------------------------------
(* Types *)

LEMMA RowFacts ==
  /\ {Absent, [enabled |-> TRUE, status |-> "installed"],
      [enabled |-> TRUE, status |-> "running"],
      [enabled |-> FALSE, status |-> "uninstalled"]} \subseteq Rows
  /\ \A r \in Rows : [r EXCEPT !.enabled = FALSE] \in Rows
<1>1. /\ Absent \in Rows
      /\ [enabled |-> TRUE, status |-> "installed"] \in Rows
      /\ [enabled |-> TRUE, status |-> "running"] \in Rows
      /\ [enabled |-> FALSE, status |-> "uninstalled"] \in Rows
  BY DEF Rows, Absent
<1>2. \A r \in Rows : [r EXCEPT !.enabled = FALSE] \in Rows
  BY DEF Rows
<1> QED  BY <1>1, <1>2

LEMMA LoadPluginType ==
  ASSUME TypeOK, NEW a, NEW ok, NEW err, LoadPlugin(a, ok, err)
  PROVE  process' \in [id : Nat, on : BOOLEAN] /\ unkilled' \subseteq Nat /\ spawned' \in Nat
<1>1. CASE UNCHANGED managerVars
  BY <1>1 DEF TypeOK, managerVars
<1>2. CASE /\ process' = [id |-> spawned + 1, on |-> TRUE]
           /\ spawned' = spawned + 1
           /\ unkilled' = unkilled \union {spawned + 1}
  <2>1. spawned + 1 \in Nat
    BY DEF TypeOK
  <2> QED  BY <1>2, <2>1 DEF TypeOK
<1> QED  BY <1>1, <1>2 DEF LoadPlugin

LEMMA ReadRowType ==
  ASSUME TypeOK, NEW h \in Handlers, ReadRow(h)
  PROVE  TypeOK'
<1> USE DEF TypeOK, Actors
<1>1. row' \in Rows
  BY RowFacts DEF Ops, ReadRow, FirstStep, managerVars, registryVars, actorVars, historyVars
<1>2. process' \in [id : Nat, on : BOOLEAN] /\ unkilled' \subseteq Nat /\ spawned' \in Nat
  BY DEF ReadRow, FirstStep, managerVars, registryVars, actorVars, historyVars
<1>3. entry' \in [id : Nat, exec : Nat, on : BOOLEAN] /\ made' \in Nat
  BY DEF Rows, ReadRow, FirstStep, managerVars, registryVars, actorVars, historyVars
<1>4. op' \in [Actors -> Ops \union {"boot", "none"}]
  BY DEF ReadRow, FirstStep, managerVars, registryVars, actorVars, historyVars
<1>5. pc' \in [Actors -> Places]
  BY DEF Goto, Places, ReadRow, FirstStep, managerVars, registryVars, actorVars, historyVars
<1>6. copy' \in [Actors -> Rows]
  BY RowFacts DEF ReadRow, FirstStep, managerVars, registryVars, actorVars, historyVars
<1>7. held' \in [Actors -> Nat]
  BY DEF ReadRow, FirstStep, managerVars, registryVars, actorVars, historyVars
<1>8. call' \in [Calls -> CallStates] /\ cut' \subseteq Calls
  BY DEF CallStates, ReadRow, FirstStep, managerVars, registryVars, actorVars, historyVars
<1>9. faults' \in 0..MaxFaults /\ crashed' \subseteq Nat
  BY DEF Fault, ReadRow, FirstStep, managerVars, registryVars, actorVars, historyVars
<1>10. overlap' \in BOOLEAN
  BY DEF ReadRow, FirstStep, managerVars, registryVars, actorVars, historyVars
<1> QED  BY <1>1, <1>2, <1>3, <1>4, <1>5, <1>6, <1>7, <1>8, <1>9, <1>10

LEMMA WriteRowType ==
  ASSUME TypeOK, NEW h \in Handlers, WriteRow(h)
  PROVE  TypeOK'
<1> USE DEF TypeOK, Actors
<1>1. row' \in Rows
  <2>1. copy[h] \in Rows /\ [copy[h] EXCEPT !.enabled = FALSE] \in Rows
    BY RowFacts
  <2>2. NewRow(h) \in Rows
    BY <2>1, RowFacts DEF NewRow
  <2> QED  BY <2>2 DEF WriteRow
<1>2. process' \in [id : Nat, on : BOOLEAN] /\ unkilled' \subseteq Nat /\ spawned' \in Nat
  BY DEF WriteRow, NewRow, AfterWrite, managerVars, registryVars, actorVars, historyVars
<1>3. entry' \in [id : Nat, exec : Nat, on : BOOLEAN] /\ made' \in Nat
  BY DEF Rows, WriteRow, NewRow, AfterWrite, managerVars, registryVars, actorVars, historyVars
<1>4. op' \in [Actors -> Ops \union {"boot", "none"}]
  BY DEF WriteRow, NewRow, AfterWrite, managerVars, registryVars, actorVars, historyVars
<1>5. pc' \in [Actors -> Places]
  BY DEF Goto, Places, WriteRow, NewRow, AfterWrite, managerVars, registryVars, actorVars, historyVars
<1>6. copy' \in [Actors -> Rows]
  BY RowFacts DEF WriteRow, NewRow, AfterWrite, managerVars, registryVars, actorVars, historyVars
<1>7. held' \in [Actors -> Nat]
  BY DEF WriteRow, NewRow, AfterWrite, managerVars, registryVars, actorVars, historyVars
<1>8. call' \in [Calls -> CallStates] /\ cut' \subseteq Calls
  BY DEF CallStates, WriteRow, NewRow, AfterWrite, managerVars, registryVars, actorVars, historyVars
<1>9. faults' \in 0..MaxFaults /\ crashed' \subseteq Nat
  BY DEF Fault, WriteRow, NewRow, AfterWrite, managerVars, registryVars, actorVars, historyVars
<1>10. overlap' \in BOOLEAN
  BY DEF WriteRow, NewRow, AfterWrite, managerVars, registryVars, actorVars, historyVars
<1> QED  BY <1>1, <1>2, <1>3, <1>4, <1>5, <1>6, <1>7, <1>8, <1>9, <1>10

LEMMA MarkUninstalledType ==
  ASSUME TypeOK, NEW h \in Handlers, MarkUninstalled(h)
  PROVE  TypeOK'
<1> USE DEF TypeOK, Actors
<1>1. row' \in Rows
  BY RowFacts DEF Ops, MarkUninstalled, managerVars, registryVars, actorVars, historyVars
<1>2. process' \in [id : Nat, on : BOOLEAN] /\ unkilled' \subseteq Nat /\ spawned' \in Nat
  BY DEF MarkUninstalled, managerVars, registryVars, actorVars, historyVars
<1>3. entry' \in [id : Nat, exec : Nat, on : BOOLEAN] /\ made' \in Nat
  BY DEF Rows, MarkUninstalled, managerVars, registryVars, actorVars, historyVars
<1>4. op' \in [Actors -> Ops \union {"boot", "none"}]
  BY DEF MarkUninstalled, managerVars, registryVars, actorVars, historyVars
<1>5. pc' \in [Actors -> Places]
  BY DEF Goto, Places, MarkUninstalled, managerVars, registryVars, actorVars, historyVars
<1>6. copy' \in [Actors -> Rows]
  BY RowFacts DEF MarkUninstalled, managerVars, registryVars, actorVars, historyVars
<1>7. held' \in [Actors -> Nat]
  BY DEF MarkUninstalled, managerVars, registryVars, actorVars, historyVars
<1>8. call' \in [Calls -> CallStates] /\ cut' \subseteq Calls
  BY DEF CallStates, MarkUninstalled, managerVars, registryVars, actorVars, historyVars
<1>9. faults' \in 0..MaxFaults /\ crashed' \subseteq Nat
  BY DEF Fault, MarkUninstalled, managerVars, registryVars, actorVars, historyVars
<1>10. overlap' \in BOOLEAN
  BY DEF MarkUninstalled, managerVars, registryVars, actorVars, historyVars
<1> QED  BY <1>1, <1>2, <1>3, <1>4, <1>5, <1>6, <1>7, <1>8, <1>9, <1>10

LEMMA FindPluginType ==
  ASSUME TypeOK, NEW h \in Handlers, FindPlugin(h)
  PROVE  TypeOK'
<1> USE DEF TypeOK, Actors
<1>1. row' \in Rows
  BY RowFacts DEF Ops, FindPlugin, managerVars, registryVars, actorVars, historyVars
<1>2. process' \in [id : Nat, on : BOOLEAN] /\ unkilled' \subseteq Nat /\ spawned' \in Nat
  BY DEF FindPlugin, managerVars, registryVars, actorVars, historyVars
<1>3. entry' \in [id : Nat, exec : Nat, on : BOOLEAN] /\ made' \in Nat
  BY DEF Rows, FindPlugin, managerVars, registryVars, actorVars, historyVars
<1>4. op' \in [Actors -> Ops \union {"boot", "none"}]
  BY DEF FindPlugin, managerVars, registryVars, actorVars, historyVars
<1>5. pc' \in [Actors -> Places]
  BY DEF Goto, Places, FindPlugin, managerVars, registryVars, actorVars, historyVars
<1>6. copy' \in [Actors -> Rows]
  BY RowFacts DEF FindPlugin, managerVars, registryVars, actorVars, historyVars
<1>7. held' \in [Actors -> Nat]
  BY DEF FindPlugin, managerVars, registryVars, actorVars, historyVars
<1>8. call' \in [Calls -> CallStates] /\ cut' \subseteq Calls
  BY DEF CallStates, FindPlugin, managerVars, registryVars, actorVars, historyVars
<1>9. faults' \in 0..MaxFaults /\ crashed' \subseteq Nat
  BY DEF Fault, FindPlugin, managerVars, registryVars, actorVars, historyVars
<1>10. overlap' \in BOOLEAN
  BY DEF FindPlugin, managerVars, registryVars, actorVars, historyVars
<1> QED  BY <1>1, <1>2, <1>3, <1>4, <1>5, <1>6, <1>7, <1>8, <1>9, <1>10

LEMMA LoadBinaryType ==
  ASSUME TypeOK, NEW h \in Handlers, LoadBinary(h)
  PROVE  TypeOK'
<1> USE DEF TypeOK, Actors
<1>1. row' \in Rows
  BY RowFacts DEF Ops, LoadBinary, LoadPlugin, Activate, Ok, Err, managerVars, registryVars, actorVars, historyVars
<1>2. process' \in [id : Nat, on : BOOLEAN] /\ unkilled' \subseteq Nat /\ spawned' \in Nat
  <2>1. CASE Activate(h, Ok(h), Err(h))
    BY <2>1 DEF Activate
  <2> QED  BY <2>1, LoadPluginType DEF LoadBinary
<1>3. entry' \in [id : Nat, exec : Nat, on : BOOLEAN] /\ made' \in Nat
  BY DEF Rows, LoadBinary, LoadPlugin, Activate, Ok, Err, managerVars, registryVars, actorVars, historyVars
<1>4. op' \in [Actors -> Ops \union {"boot", "none"}]
  BY DEF LoadBinary, LoadPlugin, Activate, Ok, Err, managerVars, registryVars, actorVars, historyVars
<1>5. pc' \in [Actors -> Places]
  BY DEF Goto, Places, LoadBinary, LoadPlugin, Activate, Ok, Err, managerVars, registryVars, actorVars, historyVars
<1>6. copy' \in [Actors -> Rows]
  BY RowFacts DEF LoadBinary, LoadPlugin, Activate, Ok, Err, managerVars, registryVars, actorVars, historyVars
<1>7. held' \in [Actors -> Nat]
  BY DEF LoadBinary, LoadPlugin, Activate, Ok, Err, managerVars, registryVars, actorVars, historyVars
<1>8. call' \in [Calls -> CallStates] /\ cut' \subseteq Calls
  BY DEF CallStates, LoadBinary, LoadPlugin, Activate, Ok, Err, managerVars, registryVars, actorVars, historyVars
<1>9. faults' \in 0..MaxFaults /\ crashed' \subseteq Nat
  BY DEF Fault, LoadBinary, LoadPlugin, Activate, Ok, Err, managerVars, registryVars, actorVars, historyVars
<1>10. overlap' \in BOOLEAN
  BY DEF LoadBinary, LoadPlugin, Activate, Ok, Err, managerVars, registryVars, actorVars, historyVars
<1> QED  BY <1>1, <1>2, <1>3, <1>4, <1>5, <1>6, <1>7, <1>8, <1>9, <1>10

LEMMA PersistType ==
  ASSUME TypeOK, NEW a \in Actors, Persist(a)
  PROVE  TypeOK'
<1> USE DEF TypeOK, Actors
<1>1. row' \in Rows
  BY RowFacts DEF Ops, Persist, managerVars, registryVars, actorVars, historyVars
<1>2. process' \in [id : Nat, on : BOOLEAN] /\ unkilled' \subseteq Nat /\ spawned' \in Nat
  BY DEF Persist, managerVars, registryVars, actorVars, historyVars
<1>3. entry' \in [id : Nat, exec : Nat, on : BOOLEAN] /\ made' \in Nat
  BY DEF Rows, Persist, managerVars, registryVars, actorVars, historyVars
<1>4. op' \in [Actors -> Ops \union {"boot", "none"}]
  BY DEF Persist, managerVars, registryVars, actorVars, historyVars
<1>5. pc' \in [Actors -> Places]
  BY DEF Goto, Places, Persist, managerVars, registryVars, actorVars, historyVars
<1>6. copy' \in [Actors -> Rows]
  BY RowFacts DEF Persist, managerVars, registryVars, actorVars, historyVars
<1>7. held' \in [Actors -> Nat]
  BY DEF Persist, managerVars, registryVars, actorVars, historyVars
<1>8. call' \in [Calls -> CallStates] /\ cut' \subseteq Calls
  BY DEF CallStates, Persist, managerVars, registryVars, actorVars, historyVars
<1>9. faults' \in 0..MaxFaults /\ crashed' \subseteq Nat
  BY DEF Fault, Persist, managerVars, registryVars, actorVars, historyVars
<1>10. overlap' \in BOOLEAN
  BY DEF Persist, managerVars, registryVars, actorVars, historyVars
<1> QED  BY <1>1, <1>2, <1>3, <1>4, <1>5, <1>6, <1>7, <1>8, <1>9, <1>10

LEMMA DeactivateType ==
  ASSUME TypeOK, NEW a \in Actors, Deactivate(a)
  PROVE  TypeOK'
<1> USE DEF TypeOK, Actors
<1>1. row' \in Rows
  BY RowFacts DEF Ops, Deactivate, managerVars, registryVars, actorVars, historyVars
<1>2. process' \in [id : Nat, on : BOOLEAN] /\ unkilled' \subseteq Nat /\ spawned' \in Nat
  BY DEF Deactivate, managerVars, registryVars, actorVars, historyVars
<1>3. entry' \in [id : Nat, exec : Nat, on : BOOLEAN] /\ made' \in Nat
  BY DEF Rows, Deactivate, managerVars, registryVars, actorVars, historyVars
<1>4. op' \in [Actors -> Ops \union {"boot", "none"}]
  BY DEF Deactivate, managerVars, registryVars, actorVars, historyVars
<1>5. pc' \in [Actors -> Places]
  BY DEF Goto, Places, Deactivate, managerVars, registryVars, actorVars, historyVars
<1>6. copy' \in [Actors -> Rows]
  BY RowFacts DEF Deactivate, managerVars, registryVars, actorVars, historyVars
<1>7. held' \in [Actors -> Nat]
  BY DEF Deactivate, managerVars, registryVars, actorVars, historyVars
<1>8. call' \in [Calls -> CallStates] /\ cut' \subseteq Calls
  BY DEF CallStates, Deactivate, managerVars, registryVars, actorVars, historyVars
<1>9. faults' \in 0..MaxFaults /\ crashed' \subseteq Nat
  BY DEF Fault, Deactivate, managerVars, registryVars, actorVars, historyVars
<1>10. overlap' \in BOOLEAN
  BY DEF Deactivate, managerVars, registryVars, actorVars, historyVars
<1> QED  BY <1>1, <1>2, <1>3, <1>4, <1>5, <1>6, <1>7, <1>8, <1>9, <1>10

LEMMA UnloadPluginType ==
  ASSUME TypeOK, NEW a \in Actors, UnloadPlugin(a)
  PROVE  TypeOK'
<1> USE DEF TypeOK, Actors
<1>1. row' \in Rows
  BY RowFacts DEF Ops, UnloadPlugin, UnderWay, managerVars, registryVars, actorVars, historyVars
<1>2. process' \in [id : Nat, on : BOOLEAN] /\ unkilled' \subseteq Nat /\ spawned' \in Nat
  BY DEF UnloadPlugin, UnderWay, managerVars, registryVars, actorVars, historyVars
<1>3. entry' \in [id : Nat, exec : Nat, on : BOOLEAN] /\ made' \in Nat
  BY DEF Rows, UnloadPlugin, UnderWay, managerVars, registryVars, actorVars, historyVars
<1>4. op' \in [Actors -> Ops \union {"boot", "none"}]
  BY DEF UnloadPlugin, UnderWay, managerVars, registryVars, actorVars, historyVars
<1>5. pc' \in [Actors -> Places]
  BY DEF Goto, Places, UnloadPlugin, UnderWay, managerVars, registryVars, actorVars, historyVars
<1>6. copy' \in [Actors -> Rows]
  BY RowFacts DEF UnloadPlugin, UnderWay, managerVars, registryVars, actorVars, historyVars
<1>7. held' \in [Actors -> Nat]
  BY DEF UnloadPlugin, UnderWay, managerVars, registryVars, actorVars, historyVars
<1>8. call' \in [Calls -> CallStates] /\ cut' \subseteq Calls
  BY DEF CallStates, UnloadPlugin, UnderWay, managerVars, registryVars, actorVars, historyVars
<1>9. faults' \in 0..MaxFaults /\ crashed' \subseteq Nat
  BY DEF Fault, UnloadPlugin, UnderWay, managerVars, registryVars, actorVars, historyVars
<1>10. overlap' \in BOOLEAN
  BY DEF UnloadPlugin, UnderWay, managerVars, registryVars, actorVars, historyVars
<1> QED  BY <1>1, <1>2, <1>3, <1>4, <1>5, <1>6, <1>7, <1>8, <1>9, <1>10

LEMMA GetClientType ==
  ASSUME TypeOK, NEW a \in Actors, GetClient(a)
  PROVE  TypeOK'
<1> USE DEF TypeOK, Actors
<1>1. row' \in Rows
  BY RowFacts DEF Ops, GetClient, managerVars, registryVars, actorVars, historyVars
<1>2. process' \in [id : Nat, on : BOOLEAN] /\ unkilled' \subseteq Nat /\ spawned' \in Nat
  BY DEF GetClient, managerVars, registryVars, actorVars, historyVars
<1>3. entry' \in [id : Nat, exec : Nat, on : BOOLEAN] /\ made' \in Nat
  BY DEF Rows, GetClient, managerVars, registryVars, actorVars, historyVars
<1>4. op' \in [Actors -> Ops \union {"boot", "none"}]
  BY DEF GetClient, managerVars, registryVars, actorVars, historyVars
<1>5. pc' \in [Actors -> Places]
  BY DEF Goto, Places, GetClient, managerVars, registryVars, actorVars, historyVars
<1>6. copy' \in [Actors -> Rows]
  BY RowFacts DEF GetClient, managerVars, registryVars, actorVars, historyVars
<1>7. held' \in [Actors -> Nat]
  BY DEF GetClient, managerVars, registryVars, actorVars, historyVars
<1>8. call' \in [Calls -> CallStates] /\ cut' \subseteq Calls
  BY DEF CallStates, GetClient, managerVars, registryVars, actorVars, historyVars
<1>9. faults' \in 0..MaxFaults /\ crashed' \subseteq Nat
  BY DEF Fault, GetClient, managerVars, registryVars, actorVars, historyVars
<1>10. overlap' \in BOOLEAN
  BY DEF GetClient, managerVars, registryVars, actorVars, historyVars
<1> QED  BY <1>1, <1>2, <1>3, <1>4, <1>5, <1>6, <1>7, <1>8, <1>9, <1>10

LEMMA RegisterEntryType ==
  ASSUME TypeOK, NEW a \in Actors, RegisterEntry(a)
  PROVE  TypeOK'
<1> USE DEF TypeOK, Actors
<1>1. row' \in Rows
  BY RowFacts DEF Ops, RegisterEntry, managerVars, registryVars, actorVars, historyVars
<1>2. process' \in [id : Nat, on : BOOLEAN] /\ unkilled' \subseteq Nat /\ spawned' \in Nat
  BY DEF RegisterEntry, managerVars, registryVars, actorVars, historyVars
<1>3. entry' \in [id : Nat, exec : Nat, on : BOOLEAN] /\ made' \in Nat
  BY DEF Rows, RegisterEntry, managerVars, registryVars, actorVars, historyVars
<1>4. op' \in [Actors -> Ops \union {"boot", "none"}]
  BY DEF RegisterEntry, managerVars, registryVars, actorVars, historyVars
<1>5. pc' \in [Actors -> Places]
  BY DEF Goto, Places, RegisterEntry, managerVars, registryVars, actorVars, historyVars
<1>6. copy' \in [Actors -> Rows]
  BY RowFacts DEF RegisterEntry, managerVars, registryVars, actorVars, historyVars
<1>7. held' \in [Actors -> Nat]
  BY DEF RegisterEntry, managerVars, registryVars, actorVars, historyVars
<1>8. call' \in [Calls -> CallStates] /\ cut' \subseteq Calls
  BY DEF CallStates, RegisterEntry, managerVars, registryVars, actorVars, historyVars
<1>9. faults' \in 0..MaxFaults /\ crashed' \subseteq Nat
  BY DEF Fault, RegisterEntry, managerVars, registryVars, actorVars, historyVars
<1>10. overlap' \in BOOLEAN
  BY DEF RegisterEntry, managerVars, registryVars, actorVars, historyVars
<1> QED  BY <1>1, <1>2, <1>3, <1>4, <1>5, <1>6, <1>7, <1>8, <1>9, <1>10

LEMMA UnregisterType ==
  ASSUME TypeOK, NEW a \in Actors, Unregister(a)
  PROVE  TypeOK'
<1> USE DEF TypeOK, Actors
<1>1. row' \in Rows
  BY RowFacts DEF Ops, Unregister, NoEntry, managerVars, registryVars, actorVars, historyVars
<1>2. process' \in [id : Nat, on : BOOLEAN] /\ unkilled' \subseteq Nat /\ spawned' \in Nat
  BY DEF Unregister, NoEntry, managerVars, registryVars, actorVars, historyVars
<1>3. entry' \in [id : Nat, exec : Nat, on : BOOLEAN] /\ made' \in Nat
  BY DEF Rows, Unregister, NoEntry, managerVars, registryVars, actorVars, historyVars
<1>4. op' \in [Actors -> Ops \union {"boot", "none"}]
  BY DEF Unregister, NoEntry, managerVars, registryVars, actorVars, historyVars
<1>5. pc' \in [Actors -> Places]
  BY DEF Goto, Places, Unregister, NoEntry, managerVars, registryVars, actorVars, historyVars
<1>6. copy' \in [Actors -> Rows]
  BY RowFacts DEF Unregister, NoEntry, managerVars, registryVars, actorVars, historyVars
<1>7. held' \in [Actors -> Nat]
  BY DEF Unregister, NoEntry, managerVars, registryVars, actorVars, historyVars
<1>8. call' \in [Calls -> CallStates] /\ cut' \subseteq Calls
  BY DEF CallStates, Unregister, NoEntry, managerVars, registryVars, actorVars, historyVars
<1>9. faults' \in 0..MaxFaults /\ crashed' \subseteq Nat
  BY DEF Fault, Unregister, NoEntry, managerVars, registryVars, actorVars, historyVars
<1>10. overlap' \in BOOLEAN
  BY DEF Unregister, NoEntry, managerVars, registryVars, actorVars, historyVars
<1> QED  BY <1>1, <1>2, <1>3, <1>4, <1>5, <1>6, <1>7, <1>8, <1>9, <1>10

LEMMA GetEntryType ==
  ASSUME TypeOK, NEW a \in Actors, GetEntry(a)
  PROVE  TypeOK'
<1> USE DEF TypeOK, Actors
<1>1. row' \in Rows
  BY RowFacts DEF Ops, GetEntry, AfterEntry, managerVars, registryVars, actorVars, historyVars
<1>2. process' \in [id : Nat, on : BOOLEAN] /\ unkilled' \subseteq Nat /\ spawned' \in Nat
  BY DEF GetEntry, AfterEntry, managerVars, registryVars, actorVars, historyVars
<1>3. entry' \in [id : Nat, exec : Nat, on : BOOLEAN] /\ made' \in Nat
  BY DEF Rows, GetEntry, AfterEntry, managerVars, registryVars, actorVars, historyVars
<1>4. op' \in [Actors -> Ops \union {"boot", "none"}]
  BY DEF GetEntry, AfterEntry, managerVars, registryVars, actorVars, historyVars
<1>5. pc' \in [Actors -> Places]
  BY DEF Goto, Places, GetEntry, AfterEntry, managerVars, registryVars, actorVars, historyVars
<1>6. copy' \in [Actors -> Rows]
  BY RowFacts DEF GetEntry, AfterEntry, managerVars, registryVars, actorVars, historyVars
<1>7. held' \in [Actors -> Nat]
  BY DEF GetEntry, AfterEntry, managerVars, registryVars, actorVars, historyVars
<1>8. call' \in [Calls -> CallStates] /\ cut' \subseteq Calls
  BY DEF CallStates, GetEntry, AfterEntry, managerVars, registryVars, actorVars, historyVars
<1>9. faults' \in 0..MaxFaults /\ crashed' \subseteq Nat
  BY DEF Fault, GetEntry, AfterEntry, managerVars, registryVars, actorVars, historyVars
<1>10. overlap' \in BOOLEAN
  BY DEF GetEntry, AfterEntry, managerVars, registryVars, actorVars, historyVars
<1> QED  BY <1>1, <1>2, <1>3, <1>4, <1>5, <1>6, <1>7, <1>8, <1>9, <1>10

LEMMA SetEntryType ==
  ASSUME TypeOK, NEW a \in Actors, SetEntry(a)
  PROVE  TypeOK'
<1> USE DEF TypeOK, Actors
<1>1. row' \in Rows
  BY RowFacts DEF Ops, SetEntry, AfterEntry, managerVars, registryVars, actorVars, historyVars
<1>2. process' \in [id : Nat, on : BOOLEAN] /\ unkilled' \subseteq Nat /\ spawned' \in Nat
  BY DEF SetEntry, AfterEntry, managerVars, registryVars, actorVars, historyVars
<1>3. entry' \in [id : Nat, exec : Nat, on : BOOLEAN] /\ made' \in Nat
  BY DEF Rows, SetEntry, AfterEntry, managerVars, registryVars, actorVars, historyVars
<1>4. op' \in [Actors -> Ops \union {"boot", "none"}]
  BY DEF SetEntry, AfterEntry, managerVars, registryVars, actorVars, historyVars
<1>5. pc' \in [Actors -> Places]
  BY DEF Goto, Places, SetEntry, AfterEntry, managerVars, registryVars, actorVars, historyVars
<1>6. copy' \in [Actors -> Rows]
  BY RowFacts DEF SetEntry, AfterEntry, managerVars, registryVars, actorVars, historyVars
<1>7. held' \in [Actors -> Nat]
  BY DEF SetEntry, AfterEntry, managerVars, registryVars, actorVars, historyVars
<1>8. call' \in [Calls -> CallStates] /\ cut' \subseteq Calls
  BY DEF CallStates, SetEntry, AfterEntry, managerVars, registryVars, actorVars, historyVars
<1>9. faults' \in 0..MaxFaults /\ crashed' \subseteq Nat
  BY DEF Fault, SetEntry, AfterEntry, managerVars, registryVars, actorVars, historyVars
<1>10. overlap' \in BOOLEAN
  BY DEF SetEntry, AfterEntry, managerVars, registryVars, actorVars, historyVars
<1> QED  BY <1>1, <1>2, <1>3, <1>4, <1>5, <1>6, <1>7, <1>8, <1>9, <1>10

LEMMA DiscoverType ==
  ASSUME TypeOK, Discover
  PROVE  TypeOK'
<1> USE DEF TypeOK, Actors
<1>1. row' \in Rows
  BY RowFacts DEF Ops, Discover, LoadPlugin, managerVars, registryVars, actorVars, historyVars
<1>2. process' \in [id : Nat, on : BOOLEAN] /\ unkilled' \subseteq Nat /\ spawned' \in Nat
  BY LoadPluginType DEF Discover
<1>3. entry' \in [id : Nat, exec : Nat, on : BOOLEAN] /\ made' \in Nat
  BY DEF Rows, Discover, LoadPlugin, managerVars, registryVars, actorVars, historyVars
<1>4. op' \in [Actors -> Ops \union {"boot", "none"}]
  BY DEF Discover, LoadPlugin, managerVars, registryVars, actorVars, historyVars
<1>5. pc' \in [Actors -> Places]
  BY DEF Goto, Places, Discover, LoadPlugin, managerVars, registryVars, actorVars, historyVars
<1>6. copy' \in [Actors -> Rows]
  BY RowFacts DEF Discover, LoadPlugin, managerVars, registryVars, actorVars, historyVars
<1>7. held' \in [Actors -> Nat]
  BY DEF Discover, LoadPlugin, managerVars, registryVars, actorVars, historyVars
<1>8. call' \in [Calls -> CallStates] /\ cut' \subseteq Calls
  BY DEF CallStates, Discover, LoadPlugin, managerVars, registryVars, actorVars, historyVars
<1>9. faults' \in 0..MaxFaults /\ crashed' \subseteq Nat
  BY DEF Fault, Discover, LoadPlugin, managerVars, registryVars, actorVars, historyVars
<1>10. overlap' \in BOOLEAN
  BY DEF Discover, LoadPlugin, managerVars, registryVars, actorVars, historyVars
<1> QED  BY <1>1, <1>2, <1>3, <1>4, <1>5, <1>6, <1>7, <1>8, <1>9, <1>10

LEMMA ListRowsType ==
  ASSUME TypeOK, ListRows
  PROVE  TypeOK'
<1> USE DEF TypeOK, Actors
<1>1. row' \in Rows
  BY RowFacts DEF Ops, ListRows, managerVars, registryVars, actorVars, historyVars
<1>2. process' \in [id : Nat, on : BOOLEAN] /\ unkilled' \subseteq Nat /\ spawned' \in Nat
  BY DEF ListRows, managerVars, registryVars, actorVars, historyVars
<1>3. entry' \in [id : Nat, exec : Nat, on : BOOLEAN] /\ made' \in Nat
  BY DEF Rows, ListRows, managerVars, registryVars, actorVars, historyVars
<1>4. op' \in [Actors -> Ops \union {"boot", "none"}]
  BY DEF ListRows, managerVars, registryVars, actorVars, historyVars
<1>5. pc' \in [Actors -> Places]
  BY DEF Goto, Places, ListRows, managerVars, registryVars, actorVars, historyVars
<1>6. copy' \in [Actors -> Rows]
  BY RowFacts DEF ListRows, managerVars, registryVars, actorVars, historyVars
<1>7. held' \in [Actors -> Nat]
  BY DEF ListRows, managerVars, registryVars, actorVars, historyVars
<1>8. call' \in [Calls -> CallStates] /\ cut' \subseteq Calls
  BY DEF CallStates, ListRows, managerVars, registryVars, actorVars, historyVars
<1>9. faults' \in 0..MaxFaults /\ crashed' \subseteq Nat
  BY DEF Fault, ListRows, managerVars, registryVars, actorVars, historyVars
<1>10. overlap' \in BOOLEAN
  BY DEF ListRows, managerVars, registryVars, actorVars, historyVars
<1> QED  BY <1>1, <1>2, <1>3, <1>4, <1>5, <1>6, <1>7, <1>8, <1>9, <1>10

LEMMA SyncLoadedType ==
  ASSUME TypeOK, SyncLoaded
  PROVE  TypeOK'
<1> USE DEF TypeOK, Actors
<1>1. row' \in Rows
  BY RowFacts DEF Ops, SyncLoaded, managerVars, registryVars, actorVars, historyVars
<1>2. process' \in [id : Nat, on : BOOLEAN] /\ unkilled' \subseteq Nat /\ spawned' \in Nat
  BY DEF SyncLoaded, managerVars, registryVars, actorVars, historyVars
<1>3. entry' \in [id : Nat, exec : Nat, on : BOOLEAN] /\ made' \in Nat
  BY DEF Rows, SyncLoaded, managerVars, registryVars, actorVars, historyVars
<1>4. op' \in [Actors -> Ops \union {"boot", "none"}]
  BY DEF SyncLoaded, managerVars, registryVars, actorVars, historyVars
<1>5. pc' \in [Actors -> Places]
  BY DEF Goto, Places, SyncLoaded, managerVars, registryVars, actorVars, historyVars
<1>6. copy' \in [Actors -> Rows]
  BY RowFacts DEF SyncLoaded, managerVars, registryVars, actorVars, historyVars
<1>7. held' \in [Actors -> Nat]
  BY DEF SyncLoaded, managerVars, registryVars, actorVars, historyVars
<1>8. call' \in [Calls -> CallStates] /\ cut' \subseteq Calls
  BY DEF CallStates, SyncLoaded, managerVars, registryVars, actorVars, historyVars
<1>9. faults' \in 0..MaxFaults /\ crashed' \subseteq Nat
  BY DEF Fault, SyncLoaded, managerVars, registryVars, actorVars, historyVars
<1>10. overlap' \in BOOLEAN
  BY DEF SyncLoaded, managerVars, registryVars, actorVars, historyVars
<1> QED  BY <1>1, <1>2, <1>3, <1>4, <1>5, <1>6, <1>7, <1>8, <1>9, <1>10

LEMMA ReconcileType ==
  ASSUME TypeOK, Reconcile
  PROVE  TypeOK'
<1> USE DEF TypeOK, Actors
<1>1. row' \in Rows
  BY RowFacts DEF Ops, Reconcile, managerVars, registryVars, actorVars, historyVars
<1>2. process' \in [id : Nat, on : BOOLEAN] /\ unkilled' \subseteq Nat /\ spawned' \in Nat
  BY DEF Reconcile, managerVars, registryVars, actorVars, historyVars
<1>3. entry' \in [id : Nat, exec : Nat, on : BOOLEAN] /\ made' \in Nat
  BY DEF Rows, Reconcile, managerVars, registryVars, actorVars, historyVars
<1>4. op' \in [Actors -> Ops \union {"boot", "none"}]
  BY DEF Reconcile, managerVars, registryVars, actorVars, historyVars
<1>5. pc' \in [Actors -> Places]
  BY DEF Goto, Places, Reconcile, managerVars, registryVars, actorVars, historyVars
<1>6. copy' \in [Actors -> Rows]
  BY RowFacts DEF Reconcile, managerVars, registryVars, actorVars, historyVars
<1>7. held' \in [Actors -> Nat]
  BY DEF Reconcile, managerVars, registryVars, actorVars, historyVars
<1>8. call' \in [Calls -> CallStates] /\ cut' \subseteq Calls
  BY DEF CallStates, Reconcile, managerVars, registryVars, actorVars, historyVars
<1>9. faults' \in 0..MaxFaults /\ crashed' \subseteq Nat
  BY DEF Fault, Reconcile, managerVars, registryVars, actorVars, historyVars
<1>10. overlap' \in BOOLEAN
  BY DEF Reconcile, managerVars, registryVars, actorVars, historyVars
<1> QED  BY <1>1, <1>2, <1>3, <1>4, <1>5, <1>6, <1>7, <1>8, <1>9, <1>10

LEMMA RereadType ==
  ASSUME TypeOK, Reread
  PROVE  TypeOK'
<1> USE DEF TypeOK, Actors
<1>1. row' \in Rows
  BY RowFacts DEF Ops, Reread, managerVars, registryVars, actorVars, historyVars
<1>2. process' \in [id : Nat, on : BOOLEAN] /\ unkilled' \subseteq Nat /\ spawned' \in Nat
  BY DEF Reread, managerVars, registryVars, actorVars, historyVars
<1>3. entry' \in [id : Nat, exec : Nat, on : BOOLEAN] /\ made' \in Nat
  BY DEF Rows, Reread, managerVars, registryVars, actorVars, historyVars
<1>4. op' \in [Actors -> Ops \union {"boot", "none"}]
  BY DEF Reread, managerVars, registryVars, actorVars, historyVars
<1>5. pc' \in [Actors -> Places]
  BY DEF Goto, Places, Reread, managerVars, registryVars, actorVars, historyVars
<1>6. copy' \in [Actors -> Rows]
  BY RowFacts DEF Reread, managerVars, registryVars, actorVars, historyVars
<1>7. held' \in [Actors -> Nat]
  BY DEF Reread, managerVars, registryVars, actorVars, historyVars
<1>8. call' \in [Calls -> CallStates] /\ cut' \subseteq Calls
  BY DEF CallStates, Reread, managerVars, registryVars, actorVars, historyVars
<1>9. faults' \in 0..MaxFaults /\ crashed' \subseteq Nat
  BY DEF Fault, Reread, managerVars, registryVars, actorVars, historyVars
<1>10. overlap' \in BOOLEAN
  BY DEF Reread, managerVars, registryVars, actorVars, historyVars
<1> QED  BY <1>1, <1>2, <1>3, <1>4, <1>5, <1>6, <1>7, <1>8, <1>9, <1>10

LEMMA ActivateRereadType ==
  ASSUME TypeOK, ActivateReread
  PROVE  TypeOK'
<1> USE DEF TypeOK, Actors
<1>1. row' \in Rows
  BY RowFacts DEF Ops, ActivateReread, Activate, managerVars, registryVars, actorVars, historyVars
<1>2. process' \in [id : Nat, on : BOOLEAN] /\ unkilled' \subseteq Nat /\ spawned' \in Nat
  BY DEF ActivateReread, Activate, managerVars, registryVars, actorVars, historyVars
<1>3. entry' \in [id : Nat, exec : Nat, on : BOOLEAN] /\ made' \in Nat
  BY DEF Rows, ActivateReread, Activate, managerVars, registryVars, actorVars, historyVars
<1>4. op' \in [Actors -> Ops \union {"boot", "none"}]
  BY DEF ActivateReread, Activate, managerVars, registryVars, actorVars, historyVars
<1>5. pc' \in [Actors -> Places]
  BY DEF Goto, Places, ActivateReread, Activate, managerVars, registryVars, actorVars, historyVars
<1>6. copy' \in [Actors -> Rows]
  BY RowFacts DEF ActivateReread, Activate, managerVars, registryVars, actorVars, historyVars
<1>7. held' \in [Actors -> Nat]
  BY DEF ActivateReread, Activate, managerVars, registryVars, actorVars, historyVars
<1>8. call' \in [Calls -> CallStates] /\ cut' \subseteq Calls
  BY DEF CallStates, ActivateReread, Activate, managerVars, registryVars, actorVars, historyVars
<1>9. faults' \in 0..MaxFaults /\ crashed' \subseteq Nat
  BY DEF Fault, ActivateReread, Activate, managerVars, registryVars, actorVars, historyVars
<1>10. overlap' \in BOOLEAN
  BY DEF ActivateReread, Activate, managerVars, registryVars, actorVars, historyVars
<1> QED  BY <1>1, <1>2, <1>3, <1>4, <1>5, <1>6, <1>7, <1>8, <1>9, <1>10

LEMMA LookUpType ==
  ASSUME TypeOK, NEW c \in Calls, LookUp(c)
  PROVE  TypeOK'
<1> USE DEF TypeOK, Actors
<1>1. row' \in Rows
  BY RowFacts DEF Ops, LookUp, managerVars, registryVars, actorVars, historyVars
<1>2. process' \in [id : Nat, on : BOOLEAN] /\ unkilled' \subseteq Nat /\ spawned' \in Nat
  BY DEF LookUp, managerVars, registryVars, actorVars, historyVars
<1>3. entry' \in [id : Nat, exec : Nat, on : BOOLEAN] /\ made' \in Nat
  BY DEF Rows, LookUp, managerVars, registryVars, actorVars, historyVars
<1>4. op' \in [Actors -> Ops \union {"boot", "none"}]
  BY DEF LookUp, managerVars, registryVars, actorVars, historyVars
<1>5. pc' \in [Actors -> Places]
  BY DEF Goto, Places, LookUp, managerVars, registryVars, actorVars, historyVars
<1>6. copy' \in [Actors -> Rows]
  BY RowFacts DEF LookUp, managerVars, registryVars, actorVars, historyVars
<1>7. held' \in [Actors -> Nat]
  BY DEF LookUp, managerVars, registryVars, actorVars, historyVars
<1>8. call' \in [Calls -> CallStates] /\ cut' \subseteq Calls
  BY DEF CallStates, LookUp, managerVars, registryVars, actorVars, historyVars
<1>9. faults' \in 0..MaxFaults /\ crashed' \subseteq Nat
  BY DEF Fault, LookUp, managerVars, registryVars, actorVars, historyVars
<1>10. overlap' \in BOOLEAN
  BY DEF LookUp, managerVars, registryVars, actorVars, historyVars
<1> QED  BY <1>1, <1>2, <1>3, <1>4, <1>5, <1>6, <1>7, <1>8, <1>9, <1>10

LEMMA ExecuteType ==
  ASSUME TypeOK, NEW c \in Calls, Execute(c)
  PROVE  TypeOK'
<1> USE DEF TypeOK, Actors
<1>1. row' \in Rows
  BY RowFacts DEF Ops, Execute, managerVars, registryVars, actorVars, historyVars
<1>2. process' \in [id : Nat, on : BOOLEAN] /\ unkilled' \subseteq Nat /\ spawned' \in Nat
  BY DEF Execute, managerVars, registryVars, actorVars, historyVars
<1>3. entry' \in [id : Nat, exec : Nat, on : BOOLEAN] /\ made' \in Nat
  BY DEF Rows, Execute, managerVars, registryVars, actorVars, historyVars
<1>4. op' \in [Actors -> Ops \union {"boot", "none"}]
  BY DEF Execute, managerVars, registryVars, actorVars, historyVars
<1>5. pc' \in [Actors -> Places]
  BY DEF Goto, Places, Execute, managerVars, registryVars, actorVars, historyVars
<1>6. copy' \in [Actors -> Rows]
  BY RowFacts DEF Execute, managerVars, registryVars, actorVars, historyVars
<1>7. held' \in [Actors -> Nat]
  BY DEF Execute, managerVars, registryVars, actorVars, historyVars
<1>8. call' \in [Calls -> CallStates] /\ cut' \subseteq Calls
  BY DEF CallStates, Execute, managerVars, registryVars, actorVars, historyVars
<1>9. faults' \in 0..MaxFaults /\ crashed' \subseteq Nat
  BY DEF Fault, Execute, managerVars, registryVars, actorVars, historyVars
<1>10. overlap' \in BOOLEAN
  BY DEF Execute, managerVars, registryVars, actorVars, historyVars
<1> QED  BY <1>1, <1>2, <1>3, <1>4, <1>5, <1>6, <1>7, <1>8, <1>9, <1>10

-----------------------------------------------------------------------------
(* The steps *)

Safe == /\ NoProcessLeftBehind
        /\ DeadEntryNeedsOverlap
        /\ CallFailsOnlyAtUnload
        /\ UndisturbedSteps

\* A step of an actor that changes neither which subprocess runs nor where the
\* entry leads.
LEMMA Moved ==
  ASSUME StepInv, NEW a \in Actors, AtWork(a), pc[a] # "unregister",
         \A b \in Actors \ {a} : pc'[b] = pc[b] /\ held'[b] = held[b],
         UNCHANGED <<unkilled, crashed, spawned, call, historyVars>>,
         process'.id = process.id, entry'.id = entry.id, entry'.exec = entry.exec,
         entry'.on => entry.on \/ entry.id # 0,
         pc'[a] = "register" => overlap \/ held'[a] \in unkilled,
         pc'[a] = "set" => held'[a] # 0,
         a = Boot /\ pc'[a] \in BeforeEntry => pc[Boot] \in BeforeEntry
  PROVE  Safe'
<1> USE DEF StepInv
<1>1. \A b \in Actors : AtWork(b)' => AtWork(b)
  BY DEF AtWork
<1>2. Unregistering => Unregistering'
  BY DEF Unregistering
<1>3. NoProcessLeftBehind'
  BY DEF NoProcessLeftBehind, Loaded
<1>4. DeadEntryNeedsOverlap'
  BY <1>2 DEF DeadEntryNeedsOverlap, Running, historyVars
<1>5. CallFailsOnlyAtUnload'
  BY DEF CallFailsOnlyAtUnload, historyVars
<1>6. UndisturbedSteps'
  <2>1. entry'.on => entry'.id # 0
    BY DEF UndisturbedSteps
  <2>0. \A b \in Actors : pc'[b] = "set" => held'[b] # 0
    BY DEF UndisturbedSteps
  <2> SUFFICES ASSUME ~overlap'
               PROVE  /\ \A b, c \in Actors : AtWork(b)' /\ AtWork(c)' => b = c
                      /\ \A b \in Actors : pc'[b] = "register" => held'[b] \in unkilled'
                      /\ pc'[Boot] \in BeforeEntry => entry'.id = 0
                      /\ \A c \in UnderWay' : call'[c].exec \in unkilled' \/ c \in cut'
    BY <2>0, <2>1 DEF UndisturbedSteps
  <2>2. ~overlap
    BY DEF historyVars
  <2>3. \A b, c \in Actors : AtWork(b)' /\ AtWork(c)' => b = c
    BY <1>1, <2>2 DEF UndisturbedSteps
  <2>4. \A b \in Actors : pc'[b] = "register" => held'[b] \in unkilled'
    BY <2>2 DEF UndisturbedSteps
  <2>5. pc'[Boot] \in BeforeEntry => entry'.id = 0
    BY <2>2 DEF UndisturbedSteps, Actors
  <2>6. \A c \in UnderWay' : call'[c].exec \in unkilled' \/ c \in cut'
    BY <2>2 DEF UndisturbedSteps, UnderWay, historyVars
  <2> QED  BY <2>3, <2>4, <2>5, <2>6
<1> QED  BY <1>3, <1>4, <1>5, <1>6 DEF Safe

LEMMA WriteRowSafe ==
  ASSUME StepInv, NEW h \in Handlers, WriteRow(h)
  PROVE  Safe'
<1> USE DEF WriteRow, AfterWrite
<1>1. h \in Actors /\ AtWork(h) /\ pc[h] # "unregister"
  BY DEF Actors, Goto, AtWork
<1>2. /\ \A b \in Actors \ {h} : pc'[b] = pc[b]
      /\ pc'[h] # "register" /\ (h = Boot => pc'[h] \notin BeforeEntry)
      /\ pc'[h] = "set" => held'[h] # 0
  BY DEF Goto, BeforeEntry, StepInv, TypeOK, Actors
<1>3. /\ UNCHANGED <<unkilled, crashed, spawned, call, historyVars>>
      /\ process'.id = process.id /\ entry'.id = entry.id /\ entry'.exec = entry.exec
      /\ entry'.on => entry.on \/ entry.id # 0
  BY DEF StepInv, TypeOK, managerVars, registryVars, historyVars
<1>4. \A b \in Actors \ {h} : held'[b] = held[b]
  BY DEF StepInv, TypeOK
<1> QED  BY <1>1, <1>2, <1>3, <1>4, Moved

LEMMA MarkUninstalledSafe ==
  ASSUME StepInv, NEW h \in Handlers, MarkUninstalled(h)
  PROVE  Safe'
<1> USE DEF MarkUninstalled
<1>1. h \in Actors /\ AtWork(h) /\ pc[h] # "unregister"
  BY DEF Actors, Goto, AtWork
<1>2. /\ \A b \in Actors \ {h} : pc'[b] = pc[b]
      /\ pc'[h] # "register" /\ (h = Boot => pc'[h] \notin BeforeEntry)
      /\ pc'[h] = "set" => held'[h] # 0
  BY DEF Goto, BeforeEntry, StepInv, TypeOK, Actors
<1>3. /\ UNCHANGED <<unkilled, crashed, spawned, call, historyVars>>
      /\ process'.id = process.id /\ entry'.id = entry.id /\ entry'.exec = entry.exec
      /\ entry'.on => entry.on \/ entry.id # 0
  BY DEF StepInv, TypeOK, managerVars, registryVars, historyVars
<1>4. \A b \in Actors \ {h} : held'[b] = held[b]
  BY DEF StepInv, TypeOK
<1> QED  BY <1>1, <1>2, <1>3, <1>4, Moved

LEMMA FindPluginSafe ==
  ASSUME StepInv, NEW h \in Handlers, FindPlugin(h)
  PROVE  Safe'
<1> USE DEF FindPlugin
<1>1. h \in Actors /\ AtWork(h) /\ pc[h] # "unregister"
  BY DEF Actors, Goto, AtWork
<1>2. /\ \A b \in Actors \ {h} : pc'[b] = pc[b]
      /\ pc'[h] # "register" /\ (h = Boot => pc'[h] \notin BeforeEntry)
      /\ pc'[h] = "set" => held'[h] # 0
  BY DEF Goto, BeforeEntry, StepInv, TypeOK, Actors
<1>3. /\ UNCHANGED <<unkilled, crashed, spawned, call, historyVars>>
      /\ process'.id = process.id /\ entry'.id = entry.id /\ entry'.exec = entry.exec
      /\ entry'.on => entry.on \/ entry.id # 0
  BY DEF StepInv, TypeOK, managerVars, registryVars, historyVars
<1>4. \A b \in Actors \ {h} : held'[b] = held[b]
  BY DEF StepInv, TypeOK
<1> QED  BY <1>1, <1>2, <1>3, <1>4, Moved

LEMMA PersistSafe ==
  ASSUME StepInv, NEW a \in Actors, Persist(a)
  PROVE  Safe'
<1> USE DEF Persist
<1>1. a \in Actors /\ AtWork(a) /\ pc[a] # "unregister"
  BY DEF Actors, Goto, AtWork
<1>2. /\ \A b \in Actors \ {a} : pc'[b] = pc[b]
      /\ pc'[a] # "register" /\ (a = Boot => pc'[a] \notin BeforeEntry)
      /\ pc'[a] = "set" => held'[a] # 0
  BY DEF Goto, BeforeEntry, StepInv, TypeOK, Actors
<1>3. /\ UNCHANGED <<unkilled, crashed, spawned, call, historyVars>>
      /\ process'.id = process.id /\ entry'.id = entry.id /\ entry'.exec = entry.exec
      /\ entry'.on => entry.on \/ entry.id # 0
  BY DEF StepInv, TypeOK, managerVars, registryVars, historyVars
<1>4. \A b \in Actors \ {a} : held'[b] = held[b]
  BY DEF StepInv, TypeOK
<1> QED  BY <1>1, <1>2, <1>3, <1>4, Moved

LEMMA DeactivateSafe ==
  ASSUME StepInv, NEW a \in Actors, Deactivate(a)
  PROVE  Safe'
<1> USE DEF Deactivate
<1>1. a \in Actors /\ AtWork(a) /\ pc[a] # "unregister"
  BY DEF Actors, Goto, AtWork
<1>2. /\ \A b \in Actors \ {a} : pc'[b] = pc[b]
      /\ pc'[a] # "register" /\ (a = Boot => pc'[a] \notin BeforeEntry)
      /\ pc'[a] = "set" => held'[a] # 0
  BY DEF Goto, BeforeEntry, StepInv, TypeOK, Actors
<1>3. /\ UNCHANGED <<unkilled, crashed, spawned, call, historyVars>>
      /\ process'.id = process.id /\ entry'.id = entry.id /\ entry'.exec = entry.exec
      /\ entry'.on => entry.on \/ entry.id # 0
  BY DEF StepInv, TypeOK, managerVars, registryVars, historyVars
<1>4. \A b \in Actors \ {a} : held'[b] = held[b]
  BY DEF StepInv, TypeOK
<1> QED  BY <1>1, <1>2, <1>3, <1>4, Moved

LEMMA GetEntrySafe ==
  ASSUME StepInv, NEW a \in Actors, GetEntry(a)
  PROVE  Safe'
<1> USE DEF GetEntry, AfterEntry
<1>1. a \in Actors /\ AtWork(a) /\ pc[a] # "unregister"
  BY DEF Actors, Goto, AtWork
<1>2. /\ \A b \in Actors \ {a} : pc'[b] = pc[b]
      /\ pc'[a] # "register" /\ (a = Boot => pc'[a] \notin BeforeEntry)
      /\ pc'[a] = "set" => held'[a] # 0
  BY DEF Goto, BeforeEntry, StepInv, TypeOK, Actors
<1>3. /\ UNCHANGED <<unkilled, crashed, spawned, call, historyVars>>
      /\ process'.id = process.id /\ entry'.id = entry.id /\ entry'.exec = entry.exec
      /\ entry'.on => entry.on \/ entry.id # 0
  BY DEF StepInv, TypeOK, managerVars, registryVars, historyVars
<1>4. \A b \in Actors \ {a} : held'[b] = held[b]
  BY DEF StepInv, TypeOK
<1> QED  BY <1>1, <1>2, <1>3, <1>4, Moved

LEMMA SetEntrySafe ==
  ASSUME StepInv, NEW a \in Actors, SetEntry(a)
  PROVE  Safe'
<1> USE DEF SetEntry, AfterEntry
<1>1. a \in Actors /\ AtWork(a) /\ pc[a] # "unregister"
  BY DEF Actors, Goto, AtWork
<1>2. /\ \A b \in Actors \ {a} : pc'[b] = pc[b]
      /\ pc'[a] # "register" /\ (a = Boot => pc'[a] \notin BeforeEntry)
      /\ pc'[a] = "set" => held'[a] # 0
  BY DEF Goto, BeforeEntry, StepInv, TypeOK, Actors
<1>3. /\ UNCHANGED <<unkilled, crashed, spawned, call, historyVars>>
      /\ process'.id = process.id /\ entry'.id = entry.id /\ entry'.exec = entry.exec
      /\ entry'.on => entry.on \/ entry.id # 0
  BY DEF StepInv, TypeOK, managerVars, registryVars, historyVars, UndisturbedSteps, Goto
<1>4. \A b \in Actors \ {a} : held'[b] = held[b]
  BY DEF StepInv, TypeOK
<1> QED  BY <1>1, <1>2, <1>3, <1>4, Moved

LEMMA ListRowsSafe ==
  ASSUME StepInv, ListRows
  PROVE  Safe'
<1> USE DEF ListRows
<1>1. Boot \in Actors /\ AtWork(Boot) /\ pc[Boot] # "unregister"
  BY DEF Actors, Goto, AtWork
<1>2. /\ \A b \in Actors \ {Boot} : pc'[b] = pc[b]
      /\ pc'[Boot] \notin {"register", "set"}
      /\ pc'[Boot] \in BeforeEntry => pc[Boot] \in BeforeEntry
  BY <1>1 DEF Goto, BeforeEntry, StepInv, TypeOK
<1>3. /\ UNCHANGED <<unkilled, crashed, spawned, entry, call, held, historyVars>>
      /\ process'.id = process.id
  BY DEF StepInv, TypeOK, managerVars, registryVars, historyVars
<1>4. entry.on => entry.id # 0
  BY DEF StepInv, UndisturbedSteps
<1> QED  BY <1>1, <1>2, <1>3, <1>4, Moved

LEMMA SyncLoadedSafe ==
  ASSUME StepInv, SyncLoaded
  PROVE  Safe'
<1> USE DEF SyncLoaded
<1>1. Boot \in Actors /\ AtWork(Boot) /\ pc[Boot] # "unregister"
  BY DEF Actors, Goto, AtWork
<1>2. /\ \A b \in Actors \ {Boot} : pc'[b] = pc[b]
      /\ pc'[Boot] \notin {"register", "set"}
      /\ pc'[Boot] \in BeforeEntry => pc[Boot] \in BeforeEntry
  BY <1>1 DEF Goto, BeforeEntry, StepInv, TypeOK
<1>3. /\ UNCHANGED <<unkilled, crashed, spawned, entry, call, held, historyVars>>
      /\ process'.id = process.id
  BY DEF StepInv, TypeOK, managerVars, registryVars, historyVars
<1>4. entry.on => entry.id # 0
  BY DEF StepInv, UndisturbedSteps
<1> QED  BY <1>1, <1>2, <1>3, <1>4, Moved

LEMMA ReconcileSafe ==
  ASSUME StepInv, Reconcile
  PROVE  Safe'
<1> USE DEF Reconcile
<1>1. Boot \in Actors /\ AtWork(Boot) /\ pc[Boot] # "unregister"
  BY DEF Actors, Goto, AtWork
<1>2. /\ \A b \in Actors \ {Boot} : pc'[b] = pc[b]
      /\ pc'[Boot] \notin {"register", "set"}
      /\ pc'[Boot] \in BeforeEntry => pc[Boot] \in BeforeEntry
  BY <1>1 DEF Goto, BeforeEntry, StepInv, TypeOK
<1>3. /\ UNCHANGED <<unkilled, crashed, spawned, entry, call, held, historyVars>>
      /\ process'.id = process.id
  BY DEF StepInv, TypeOK, managerVars, registryVars, historyVars
<1>4. entry.on => entry.id # 0
  BY DEF StepInv, UndisturbedSteps
<1> QED  BY <1>1, <1>2, <1>3, <1>4, Moved

LEMMA RereadSafe ==
  ASSUME StepInv, Reread
  PROVE  Safe'
<1> USE DEF Reread
<1>1. Boot \in Actors /\ AtWork(Boot) /\ pc[Boot] # "unregister"
  BY DEF Actors, Goto, AtWork
<1>2. /\ \A b \in Actors \ {Boot} : pc'[b] = pc[b]
      /\ pc'[Boot] \notin {"register", "set"}
      /\ pc'[Boot] \in BeforeEntry => pc[Boot] \in BeforeEntry
  BY <1>1 DEF Goto, BeforeEntry, StepInv, TypeOK
<1>3. /\ UNCHANGED <<unkilled, crashed, spawned, entry, call, held, historyVars>>
      /\ process'.id = process.id
  BY DEF StepInv, TypeOK, managerVars, registryVars, historyVars
<1>4. entry.on => entry.id # 0
  BY DEF StepInv, UndisturbedSteps
<1> QED  BY <1>1, <1>2, <1>3, <1>4, Moved

LEMMA ActivateRereadSafe ==
  ASSUME StepInv, ActivateReread
  PROVE  Safe'
<1> USE DEF ActivateReread, Activate
<1>1. Boot \in Actors /\ AtWork(Boot) /\ pc[Boot] # "unregister"
  BY DEF Actors, Goto, AtWork
<1>2. /\ \A b \in Actors \ {Boot} : pc'[b] = pc[b]
      /\ pc'[Boot] \notin {"register", "set"}
      /\ pc'[Boot] \in BeforeEntry => pc[Boot] \in BeforeEntry
  BY <1>1 DEF Goto, BeforeEntry, StepInv, TypeOK
<1>3. /\ UNCHANGED <<unkilled, crashed, spawned, entry, call, held, historyVars>>
      /\ process'.id = process.id
  BY DEF StepInv, TypeOK, managerVars, registryVars, historyVars
<1>4. entry.on => entry.id # 0
  BY DEF StepInv, UndisturbedSteps
<1> QED  BY <1>1, <1>2, <1>3, <1>4, Moved

LEMMA GetClientSafe ==
  ASSUME StepInv, NEW a \in Actors, GetClient(a)
  PROVE  Safe'
<1>1. AtWork(a) /\ pc[a] = "client"
  BY DEF GetClient, Goto, AtWork
<1>2. /\ \A b \in Actors \ {a} : pc'[b] = pc[b] /\ held'[b] = held[b]
      /\ pc'[a] = "register" => held'[a] \in unkilled
      /\ pc'[a] # "set"
  BY DEF GetClient, Goto, StepInv, TypeOK, NoProcessLeftBehind
<1>3. /\ UNCHANGED <<unkilled, crashed, spawned, entry, call, historyVars>>
      /\ process'.id = process.id
  BY DEF GetClient, managerVars, registryVars
<1>4. entry.on => entry.id # 0
  BY DEF StepInv, UndisturbedSteps
<1> QED  BY <1>1, <1>2, <1>3, <1>4, Moved DEF BeforeEntry

LEMMA EnablesSafe ==
  ASSUME StepInv, NEW h \in Handlers, Activate(h, Ok(h), Err(h)), LoadBinary(h)
  PROVE  Safe'
<1>1. h \in Actors /\ h # Boot /\ AtWork(h) /\ pc[h] = "activate"
  BY DEF Activate, Goto, AtWork, Actors
<1>2. /\ \A b \in Actors \ {h} : pc'[b] = pc[b]
      /\ pc'[h] \notin {"register", "set"}
  BY <1>1 DEF Activate, Goto, Ok, Err, StepInv, TypeOK
<1>3. /\ UNCHANGED <<unkilled, crashed, spawned, entry, call, held, historyVars>>
      /\ process'.id = process.id
  BY DEF Activate, LoadBinary, registryVars, StepInv, TypeOK
<1>4. entry.on => entry.id # 0
  BY DEF StepInv, UndisturbedSteps
<1> QED  BY <1>1, <1>2, <1>3, <1>4, Moved

\* A subprocess is started only where none runs.
LEMMA LoadSafe ==
  ASSUME StepInv, NEW a \in Actors, pc[a] \in {"load", "discover"}, NEW ok, NEW err,
         LoadPlugin(a, ok, err),
         {ok, err} \subseteq {"get", "client", "done", "list"},
         a = Boot => pc[a] = "discover",
         UNCHANGED <<crashed, entry, held, call, historyVars>>
  PROVE  Safe'
<1> USE DEF StepInv
<1>1. /\ AtWork(a) /\ pc[a] # "unregister"
      /\ \A b \in Actors \ {a} : pc'[b] = pc[b]
      /\ pc'[a] \in {"get", "client", "done", "list"}
  BY DEF LoadPlugin, Goto, AtWork, TypeOK
<1>2. entry.on => entry.id # 0
  BY DEF UndisturbedSteps
<1>3. CASE UNCHANGED managerVars
  <2>1. UNCHANGED <<unkilled, crashed, spawned>> /\ process'.id = process.id
    BY <1>3 DEF managerVars
  <2> QED  BY <1>1, <1>2, <2>1, Moved DEF BeforeEntry
<1>4. CASE ~Loaded /\ process' = [id |-> spawned + 1, on |-> TRUE]
           /\ spawned' = spawned + 1 /\ unkilled' = unkilled \union {spawned + 1}
  <2>1. unkilled = {} /\ unkilled' = {process'.id} /\ process'.id = spawned + 1 /\ spawned \in Nat
    BY <1>4 DEF NoProcessLeftBehind, TypeOK
  <2>2. NoProcessLeftBehind'
    BY <1>4, <2>1 DEF NoProcessLeftBehind, Loaded
  <2>3. Unregistering => Unregistering'
    BY <1>1 DEF Unregistering
  <2>4. DeadEntryNeedsOverlap'
    BY <2>1, <2>3 DEF DeadEntryNeedsOverlap, Running, historyVars
  <2>5. CallFailsOnlyAtUnload'
    BY DEF CallFailsOnlyAtUnload, historyVars
  <2>6. UndisturbedSteps'
    <3>1. \A b \in Actors : AtWork(b)' => AtWork(b)
      BY <1>1 DEF AtWork
    <3>2. \A b \in Actors : pc'[b] = "set" => held'[b] # 0
      BY <1>1 DEF UndisturbedSteps
    <3>3. ~overlap => \A b \in Actors : pc'[b] # "register"
      BY <1>1, <2>1 DEF UndisturbedSteps
    <3>4. ~overlap /\ pc'[Boot] \in BeforeEntry => entry.id = 0
      BY <1>1 DEF UndisturbedSteps, BeforeEntry, Actors
    <3>5. ~overlap => \A c \in UnderWay' : c \in cut'
      BY <2>1 DEF UndisturbedSteps, UnderWay, historyVars
    <3> QED  BY <1>2, <3>1, <3>2, <3>3, <3>4, <3>5 DEF UndisturbedSteps, historyVars
  <2> QED  BY <2>2, <2>4, <2>5, <2>6 DEF Safe
<1> QED  BY <1>3, <1>4 DEF LoadPlugin

LEMMA LoadBinarySafe ==
  ASSUME StepInv, NEW h \in Handlers, LoadBinary(h)
  PROVE  Safe'
<1>1. CASE Activate(h, Ok(h), Err(h))
  BY <1>1, EnablesSafe
<1>2. CASE pc[h] = "load" /\ LoadPlugin(h, Ok(h), Err(h))
  <2>1. h \in Actors /\ h # Boot /\ {Ok(h), Err(h)} \subseteq {"get", "client", "done", "list"}
    BY DEF Actors, Ok, Err
  <2>2. UNCHANGED <<crashed, entry, held, call, historyVars>>
    BY DEF LoadBinary, registryVars
  <2> QED  BY <1>2, <2>1, <2>2, LoadSafe
<1> QED  BY <1>1, <1>2 DEF LoadBinary

LEMMA DiscoverSafe ==
  ASSUME StepInv, Discover
  PROVE  Safe'
BY LoadSafe DEF Discover, Actors, registryVars

\* The entry of what is unloaded is about to go, or there is none.
LEMMA UnloadPluginSafe ==
  ASSUME StepInv, NEW a \in Actors, UnloadPlugin(a)
  PROVE  Safe'
<1> USE DEF StepInv
<1>1. /\ AtWork(a) /\ pc[a] \in {"unload", "drop"}
      /\ pc[a] = "drop" => a = Boot
      /\ pc[a] = "unload" => pc'[a] = "unregister"
      /\ pc'[a] \in {"unregister", "reconcile"}
      /\ \A b \in Actors \ {a} : pc'[b] = pc[b]
  BY DEF UnloadPlugin, Goto, AtWork, TypeOK
<1>2. /\ UNCHANGED <<crashed, spawned, entry, held, call, overlap>>
      /\ process' = [id |-> 0, on |-> FALSE]
      /\ cut' = IF Loaded THEN cut \union UnderWay ELSE cut
  BY DEF UnloadPlugin, registryVars
<1>3. unkilled' = {}
  BY DEF UnloadPlugin, NoProcessLeftBehind
<1>4. NoProcessLeftBehind'
  BY <1>2, <1>3 DEF NoProcessLeftBehind, Loaded, TypeOK
<1>5. DeadEntryNeedsOverlap'
  <2>1. Unregistering \/ pc[a] = "unload" => Unregistering'
    BY <1>1 DEF Unregistering
  <2>2. pc[a] = "drop" => overlap \/ entry.id = 0
    BY <1>1 DEF UndisturbedSteps, BeforeEntry
  <2> QED  BY <1>1, <1>2, <2>1, <2>2 DEF DeadEntryNeedsOverlap, Running
<1>6. CallFailsOnlyAtUnload'
  BY <1>2 DEF CallFailsOnlyAtUnload
<1>7. UndisturbedSteps'
  <2>1. /\ entry'.on => entry'.id # 0
        /\ \A b \in Actors : pc'[b] = "set" => held'[b] # 0
    BY <1>1, <1>2 DEF UndisturbedSteps
  <2>2. \A b \in Actors : AtWork(b)' => AtWork(b)
    BY <1>1 DEF AtWork
  <2>3. ~overlap => \A b \in Actors : pc'[b] # "register"
    BY <1>1 DEF UndisturbedSteps, AtWork
  <2>4. ~overlap /\ pc'[Boot] \in BeforeEntry => entry.id = 0
    BY <1>1 DEF UndisturbedSteps, BeforeEntry, Actors
  <2>5. ~overlap => \A c \in UnderWay' : c \in cut'
    BY <1>2 DEF UndisturbedSteps, UnderWay, NoProcessLeftBehind
  <2> QED  BY <1>2, <2>1, <2>2, <2>3, <2>4, <2>5 DEF UndisturbedSteps
<1> QED  BY <1>4, <1>5, <1>6, <1>7 DEF Safe

LEMMA UnregisterSafe ==
  ASSUME StepInv, NEW a \in Actors, Unregister(a)
  PROVE  Safe'
<1> USE DEF StepInv
<1>1. /\ AtWork(a) /\ pc[a] = "unregister" /\ pc'[a] \in {"done", "mark"}
      /\ \A b \in Actors \ {a} : pc'[b] = pc[b]
  BY DEF Unregister, Goto, AtWork, TypeOK
<1>2. UNCHANGED <<process, unkilled, crashed, spawned, held, call, overlap, cut>>
  BY DEF Unregister, managerVars, historyVars
<1>3. entry'.id = 0 /\ ~entry'.on
  BY DEF Unregister, NoEntry
<1>4. NoProcessLeftBehind'
  BY <1>2 DEF NoProcessLeftBehind, Loaded
<1>5. DeadEntryNeedsOverlap'
  BY <1>3 DEF DeadEntryNeedsOverlap, Running
<1>6. CallFailsOnlyAtUnload'
  BY <1>2 DEF CallFailsOnlyAtUnload
<1>7. UndisturbedSteps'
  <2>1. \A b \in Actors : AtWork(b)' => AtWork(b)
    BY <1>1 DEF AtWork
  <2>2. UnderWay' = UnderWay
    BY <1>2 DEF UnderWay
  <2>3. \A b \in Actors : pc'[b] \in {"set", "register"} => pc[b] = pc'[b]
    BY <1>1
  <2> QED  BY <1>2, <1>3, <2>1, <2>2, <2>3 DEF UndisturbedSteps
<1> QED  BY <1>4, <1>5, <1>6, <1>7 DEF Safe

LEMMA RegisterEntrySafe ==
  ASSUME StepInv, NEW a \in Actors, RegisterEntry(a)
  PROVE  Safe'
<1> USE DEF StepInv
<1>1. /\ AtWork(a) /\ pc[a] = "register"
      /\ pc'[a] \in {"persist", "reconcile", "disable"}
      /\ \A b \in Actors \ {a} : pc'[b] = pc[b]
  BY DEF RegisterEntry, Goto, AtWork, TypeOK
<1>2. UNCHANGED <<process, unkilled, crashed, spawned, held, call, overlap, cut>>
  BY DEF RegisterEntry, managerVars, historyVars
<1>3. entry'.id # 0 /\ entry'.exec = held[a]
  BY DEF RegisterEntry, TypeOK
<1>4. overlap \/ held[a] \in unkilled
  BY <1>1 DEF UndisturbedSteps
<1>5. NoProcessLeftBehind'
  BY <1>2 DEF NoProcessLeftBehind, Loaded
<1>6. DeadEntryNeedsOverlap'
  BY <1>2, <1>3, <1>4 DEF DeadEntryNeedsOverlap, Running
<1>7. CallFailsOnlyAtUnload'
  BY <1>2 DEF CallFailsOnlyAtUnload
<1>8. UndisturbedSteps'
  <2>1. \A b \in Actors : AtWork(b)' => AtWork(b)
    BY <1>1 DEF AtWork
  <2>2. UnderWay' = UnderWay
    BY <1>2 DEF UnderWay
  <2>3. \A b \in Actors : pc'[b] \in {"set", "register"} => pc[b] = pc'[b]
    BY <1>1
  <2>4. ~overlap => pc'[Boot] \notin BeforeEntry
    BY <1>1 DEF UndisturbedSteps, BeforeEntry, AtWork, Actors
  <2> QED  BY <1>2, <1>3, <2>1, <2>2, <2>3, <2>4 DEF UndisturbedSteps
<1> QED  BY <1>5, <1>6, <1>7, <1>8 DEF Safe

\* An actor that starts while another is at work ends all that is said of
\* actors that work alone.
LEMMA ReadRowSafe ==
  ASSUME StepInv, NEW h \in Handlers, ReadRow(h)
  PROVE  Safe'
<1> USE DEF StepInv
<1>1. /\ h \in Actors /\ pc[h] = "idle" /\ pc'[h] \in {"write", "unload", "done"}
      /\ \A b \in Actors \ {h} : pc'[b] = pc[b]
  BY DEF ReadRow, FirstStep, Goto, TypeOK, Actors
<1>2. UNCHANGED <<process, unkilled, crashed, spawned, entry, held, call, cut>>
  BY DEF ReadRow, managerVars, registryVars
<1>3. overlap' = (overlap \/ \E b \in Actors : AtWork(b))
  BY DEF ReadRow
<1>4. NoProcessLeftBehind'
  BY <1>2 DEF NoProcessLeftBehind, Loaded
<1>5. DeadEntryNeedsOverlap'
  <2>1. Unregistering => Unregistering'
    BY <1>1 DEF Unregistering
  <2> QED  BY <1>2, <1>3, <2>1 DEF DeadEntryNeedsOverlap, Running
<1>6. CallFailsOnlyAtUnload'
  BY <1>2, <1>3 DEF CallFailsOnlyAtUnload
<1>7. UndisturbedSteps'
  <2>1. ~overlap' => ~overlap /\ \A b \in Actors : AtWork(b)' => b = h
    BY <1>1, <1>3 DEF AtWork
  <2>2. UnderWay' = UnderWay
    BY <1>2 DEF UnderWay
  <2>3. \A b \in Actors : pc'[b] \in {"set", "register"} => pc[b] = pc'[b]
    BY <1>1
  <2>4. Boot # h /\ pc'[Boot] = pc[Boot]
    BY <1>1 DEF Actors
  <2> QED  BY <1>2, <2>1, <2>2, <2>3, <2>4 DEF UndisturbedSteps
<1> QED  BY <1>4, <1>5, <1>6, <1>7 DEF Safe

LEMMA LookUpSafe ==
  ASSUME StepInv, NEW c \in Calls, LookUp(c)
  PROVE  Safe'
<1> USE DEF StepInv
<1>1. /\ UNCHANGED <<process, unkilled, crashed, spawned, entry, pc, held, overlap>>
      /\ call'[c] = [at |-> "under way", exec |-> entry.exec]
      /\ \A d \in Calls \ {c} : call'[d] = call[d]
      /\ cut' = IF Unregistering THEN cut \union {c} ELSE cut
  BY DEF LookUp, managerVars, registryVars, actorVars, TypeOK
<1>2. entry.exec \in unkilled \/ c \in cut' \/ overlap
  BY <1>1 DEF LookUp, UndisturbedSteps, DeadEntryNeedsOverlap, Running
<1>3. NoProcessLeftBehind' /\ DeadEntryNeedsOverlap'
  BY <1>1 DEF NoProcessLeftBehind, DeadEntryNeedsOverlap, Running, Loaded, Unregistering
<1>a. call'[c].at = "under way" /\ call'[c].exec = entry.exec
  <2>1. call'[c] = [at |-> "under way", exec |-> entry.exec]
    BY <1>1
  <2>2. /\ [at |-> "under way", exec |-> entry.exec].at = "under way"
        /\ [at |-> "under way", exec |-> entry.exec].exec = entry.exec
    OBVIOUS
  <2> QED  BY <2>1, <2>2, Zenon
<1>b. cut \subseteq cut'
  BY <1>1
<1>4. CallFailsOnlyAtUnload'
  <2>1. SUFFICES ASSUME NEW d \in Calls, call'[d].at = "failed"
                 PROVE  d \in cut' \/ overlap' \/ call'[d].exec \in crashed'
    BY DEF CallFailsOnlyAtUnload
  <2>2. d # c
    BY <1>a, <2>1
  <2>3. call[d].at = "failed" /\ call'[d] = call[d]
    BY <1>1, <2>1, <2>2
  <2>4. d \in cut \/ overlap \/ call[d].exec \in crashed
    BY <2>3 DEF CallFailsOnlyAtUnload
  <2> QED  BY <1>1, <1>b, <2>3, <2>4
<1>5. UndisturbedSteps'
  <2>1. \A d \in UnderWay' : d = c \/ d \in UnderWay
    BY <1>1 DEF UnderWay
  <2>2. \A b \in Actors : AtWork(b)' = AtWork(b)
    BY <1>1 DEF AtWork
  <2>3. ~overlap => \A d \in UnderWay' : call'[d].exec \in unkilled' \/ d \in cut'
    <3>1. SUFFICES ASSUME ~overlap, NEW d \in UnderWay'
                   PROVE  call'[d].exec \in unkilled \/ d \in cut'
      BY <1>1
    <3>2. CASE d = c
      BY <1>2, <1>a, <3>1, <3>2
    <3>3. CASE d # c
      <4>1. d \in Calls \ {c} /\ d \in UnderWay
        BY <2>1, <3>1, <3>3 DEF UnderWay
      <4>2. call'[d] = call[d]
        BY <1>1, <4>1
      <4>3. call[d].exec \in unkilled \/ d \in cut
        BY <3>1, <4>1 DEF UndisturbedSteps
      <4> QED  BY <4>2, <4>3, <1>b
    <3> QED  BY <3>2, <3>3
  <2> QED  BY <1>1, <2>2, <2>3 DEF UndisturbedSteps
<1> QED  BY <1>3, <1>4, <1>5 DEF Safe

LEMMA ExecuteSafe ==
  ASSUME StepInv, NEW c \in Calls, Execute(c)
  PROVE  Safe'
<1> USE DEF StepInv
<1>1. /\ UNCHANGED <<process, unkilled, crashed, spawned, entry, pc, held, overlap, cut>>
      /\ call'[c].at = IF call[c].exec \in Running THEN "answered" ELSE "failed"
      /\ c \in UnderWay /\ call'[c].exec = call[c].exec
      /\ \A d \in Calls \ {c} : call'[d] = call[d]
  BY DEF Execute, managerVars, registryVars, actorVars, historyVars, TypeOK, CallStates, UnderWay
<1>2. NoProcessLeftBehind' /\ DeadEntryNeedsOverlap'
  BY <1>1 DEF NoProcessLeftBehind, DeadEntryNeedsOverlap, Running, Loaded, Unregistering
<1>3. call'[c].at = "failed" => c \in cut \/ overlap \/ call[c].exec \in crashed
  BY <1>1 DEF UndisturbedSteps, Running
<1>4. CallFailsOnlyAtUnload'
  BY <1>1, <1>3 DEF CallFailsOnlyAtUnload
<1>5. UndisturbedSteps'
  <2>1. \A d \in UnderWay' : d \in UnderWay /\ call'[d] = call[d]
    BY <1>1 DEF UnderWay
  <2>2. \A b \in Actors : AtWork(b)' = AtWork(b)
    BY <1>1 DEF AtWork
  <2> QED  BY <1>1, <2>1, <2>2 DEF UndisturbedSteps
<1> QED  BY <1>2, <1>4, <1>5 DEF Safe

\* A crash leaves to the manager and the registry what they have.
LEMMA CrashStep ==
  ASSUME StepInv, NEW p \in Running, Crash(p)
  PROVE  StepInv'
<1> USE DEF Crash, managerVars, registryVars, actorVars, historyVars, StepInv
<1>1. TypeOK'
  <2>1. crashed' \subseteq Nat
    BY DEF TypeOK, Running
  <2> QED  BY <2>1 DEF TypeOK
<1>2. NoProcessLeftBehind' /\ DeadEntryNeedsOverlap'
  BY DEF NoProcessLeftBehind, DeadEntryNeedsOverlap, Running, Loaded, Unregistering
<1>3. CallFailsOnlyAtUnload'
  BY DEF CallFailsOnlyAtUnload
<1>4. \A a \in Actors : AtWork(a)' = AtWork(a)
  BY DEF AtWork
<1>5. UndisturbedSteps'
  BY <1>4 DEF UndisturbedSteps, UnderWay
<1> QED  BY <1>1, <1>2, <1>3, <1>5

-----------------------------------------------------------------------------
(* The invariant *)

LEMMA InitStepInv == Init => StepInv
<1> SUFFICES ASSUME Init  PROVE StepInv
  OBVIOUS
<1>1. TypeOK
  <2>1. /\ process \in [id : Nat, on : BOOLEAN]
        /\ entry \in [id : Nat, exec : Nat, on : BOOLEAN]
        /\ unkilled \subseteq Nat /\ crashed \subseteq Nat /\ spawned \in Nat /\ made \in Nat
    BY DEF Init, NoEntry
  <2>2. op \in [Actors -> Ops \union {"boot", "none"}] /\ pc \in [Actors -> Places]
    BY DEF Init, Places
  <2>3. copy \in [Actors -> Rows] /\ held \in [Actors -> Nat]
    BY RowFacts DEF Init
  <2>4. call \in [Calls -> CallStates] /\ faults \in 0..MaxFaults
    BY DEF Init, CallStates
  <2> QED  BY <2>1, <2>2, <2>3, <2>4 DEF Init, TypeOK
<1>2. NoProcessLeftBehind /\ DeadEntryNeedsOverlap /\ CallFailsOnlyAtUnload
  BY DEF Init, NoProcessLeftBehind, DeadEntryNeedsOverlap, Running, CallFailsOnlyAtUnload, Loaded, NoEntry
<1>3. \A a \in Actors : pc[a] \notin {"set", "register"} /\ (AtWork(a) => a = Boot)
  BY DEF Init, AtWork
<1>4. UndisturbedSteps
  BY <1>3 DEF Init, UndisturbedSteps, UnderWay, NoEntry
<1> QED  BY <1>1, <1>2, <1>4 DEF StepInv

LEMMA StutterStep ==
  ASSUME StepInv, UNCHANGED vars
  PROVE  StepInv'
<1> USE DEF vars, managerVars, registryVars, actorVars, historyVars, StepInv
<1>1. TypeOK'
  BY DEF TypeOK
<1>2. NoProcessLeftBehind' /\ DeadEntryNeedsOverlap' /\ CallFailsOnlyAtUnload'
  BY DEF NoProcessLeftBehind, DeadEntryNeedsOverlap, Running, CallFailsOnlyAtUnload, Loaded, Unregistering
<1>3. \A a \in Actors : AtWork(a)' = AtWork(a)
  BY DEF AtWork
<1>4. UndisturbedSteps'
  BY <1>3 DEF UndisturbedSteps, UnderWay
<1> QED  BY <1>1, <1>2, <1>4

LEMMA NextStep ==
  ASSUME StepInv, [Next]_vars
  PROVE  StepInv'
<1>1. ASSUME NEW h \in Handlers, ReadRow(h) \/ Step(h)
      PROVE  StepInv'
  BY <1>1, ReadRowType, WriteRowType, MarkUninstalledType, FindPluginType, LoadBinaryType,
     ReadRowSafe, WriteRowSafe, MarkUninstalledSafe, FindPluginSafe, LoadBinarySafe
  DEF Step, Safe, StepInv
<1>2. ASSUME NEW a \in Actors, SharedStep(a)
      PROVE  StepInv'
  BY <1>2, PersistType, DeactivateType, UnloadPluginType, GetClientType, RegisterEntryType,
     UnregisterType, GetEntryType, SetEntryType, PersistSafe, DeactivateSafe,
     UnloadPluginSafe, GetClientSafe, RegisterEntrySafe, UnregisterSafe, GetEntrySafe,
     SetEntrySafe
  DEF SharedStep, Safe, StepInv
<1>3. CASE BootStep
  BY <1>3, DiscoverType, ListRowsType, SyncLoadedType, ReconcileType, RereadType,
     ActivateRereadType, DiscoverSafe, ListRowsSafe, SyncLoadedSafe, ReconcileSafe,
     RereadSafe, ActivateRereadSafe
  DEF BootStep, Safe, StepInv
<1>4. ASSUME NEW c \in Calls, LookUp(c) \/ Execute(c)
      PROVE  StepInv'
  BY <1>4, LookUpType, ExecuteType, LookUpSafe, ExecuteSafe DEF Safe, StepInv
<1>5. ASSUME NEW p \in Running, Crash(p)
      PROVE  StepInv'
  BY <1>5, CrashStep
<1>6. CASE UNCHANGED vars
  BY <1>6, StutterStep
<1> QED  BY <1>1, <1>2, <1>3, <1>4, <1>5, <1>6 DEF Next

-----------------------------------------------------------------------------
(* Actors that work alone *)

\* The part of an actor's task that its kind has.
Task(a) == IF a = Boot THEN BootTask ELSE HandlerTask(a)

Alone == StepInv /\ AloneTasks /\ ~overlap /\ faults = 0

\* What a step has to keep while nobody disturbs it.
KeepsTask(a) == Task(a)' /\ (~AtWork(a)' => Agreement')

LEMMA RestingTask ==
  ASSUME NEW a \in Actors, ~AtWork(a)
  PROVE  Task(a)
BY DEF AtWork, Task, HandlerTask, BootTask, BeforeEntry

LEMMA OthersRest ==
  ASSUME Alone, NEW a \in Actors, AtWork(a), NEW b \in Actors \ {a}
  PROVE  ~AtWork(b)
BY DEF Alone, StepInv, UndisturbedSteps

LEMMA OneAtWork ==
  ASSUME Alone, NEW a \in Actors, AtWork(a),
         \A b \in Actors \ {a} : pc'[b] = pc[b],
         KeepsTask(a)
  PROVE  TablesAgree' /\ AloneTasks'
<1>1. ASSUME NEW b \in Actors \ {a}
      PROVE  Task(b)'
  <2>1. ~AtWork(b)'
    BY <1>1, OthersRest DEF AtWork
  <2> QED  BY <2>1 DEF AtWork, Task, HandlerTask, BootTask, BeforeEntry
<1>2. \A b \in Actors : Task(b)'
  BY <1>1 DEF KeepsTask
<1>3. BootTask' /\ \A h \in Handlers : HandlerTask(h)'
  BY <1>2 DEF Task, Actors
<1>4. (\A b \in Actors : ~AtWork(b)') => Agreement'
  BY DEF KeepsTask
<1> QED  BY <1>3, <1>4 DEF TablesAgree, AloneTasks

LEMMA RowCases ==
  \A r \in Rows : /\ r.enabled \in BOOLEAN
                  /\ r.enabled => r.status \in {"installed", "running"}
BY DEF Rows

\* What is known of a handler and of the start-up when one of them moves.
LEMMA HandlerHas ==
  ASSUME Alone, NEW h \in Handlers
  PROVE  h \in Actors /\ h # Boot /\ HandlerTask(h) /\ faults = 0 /\ TypeOK
BY DEF Alone, AloneTasks, StepInv, TypeOK, Actors

LEMMA BootHas ==
  ASSUME Alone
  PROVE  Boot \in Actors /\ BootTask /\ faults = 0 /\ TypeOK
BY DEF Alone, AloneTasks, StepInv, Actors

LEMMA WriteRowAlone ==
  ASSUME Alone, NEW h \in Handlers, WriteRow(h), faults' = 0
  PROVE  KeepsTask(h)
<1>1. /\ h \in Actors /\ h # Boot
      /\ pc[h] = "write" /\ pc'[h] = AfterWrite(h) /\ row' = NewRow(h)
      /\ UNCHANGED <<process, entry, op, copy, held>>
  BY DEF WriteRow, Goto, Fault, Alone, StepInv, TypeOK, Actors, managerVars, registryVars
<1>2. /\ Agreement /\ copy[h] = row /\ op[h] \in Ops \ {"remove"}
      /\ IF op[h] = "install" THEN ~row.enabled ELSE row.status # "absent"
  BY <1>1 DEF Alone, AloneTasks, HandlerTask
<1>3. Linked' /\ row \in Rows /\ op'[h] = op[h]
  BY <1>1, <1>2 DEF Agreement, Linked, Loaded, Alone, StepInv, TypeOK
<1>4. CASE op[h] \in {"enable", "install"}
  <2>1. pc'[h] = "find" /\ row' = [enabled |-> TRUE, status |-> "installed"]
    BY <1>1, <1>4 DEF AfterWrite, NewRow
  <2> QED  BY <1>1, <1>3, <1>4, <2>1 DEF KeepsTask, Task, HandlerTask, AtWork
<1>5. CASE op[h] = "configure"
  <2>1. pc'[h] = "done" /\ row' = row
    BY <1>1, <1>2, <1>5 DEF AfterWrite, NewRow
  <2>2. Agreement'
    BY <1>1, <1>2, <2>1 DEF Agreement, Loaded
  <2> QED  BY <1>1, <2>1, <2>2 DEF KeepsTask, Task, HandlerTask
<1>6. CASE op[h] \in {"disable", "uninstall"}
  <2>1. pc'[h] = "deactivate"
    BY <1>1, <1>6 DEF AfterWrite
  <2>2. ~row'.enabled /\ row'.status # "absent"
    BY <1>1, <1>2, <1>3, <1>6 DEF NewRow, Rows
  <2> QED  BY <1>1, <1>3, <1>6, <2>1, <2>2 DEF KeepsTask, Task, HandlerTask, AtWork
<1> QED  BY <1>2, <1>4, <1>5, <1>6 DEF Ops

LEMMA MarkUninstalledAlone ==
  ASSUME Alone, NEW h \in Handlers, MarkUninstalled(h), faults' = 0
  PROVE  KeepsTask(h)
<1>1. /\ pc[h] = "mark" /\ pc'[h] = "done" /\ UNCHANGED <<process, entry>>
      /\ row' = [enabled |-> FALSE, status |-> "uninstalled"]
  BY HandlerHas DEF MarkUninstalled, Goto, Fault, managerVars, registryVars, TypeOK
<1>2. ~Loaded /\ entry = NoEntry
  BY <1>1, HandlerHas DEF HandlerTask
<1>3. Agreement'
  BY <1>1, <1>2 DEF Agreement, Loaded, NoEntry
<1> QED  BY <1>1, <1>3, HandlerHas DEF KeepsTask, Task, HandlerTask

LEMMA FindPluginAlone ==
  ASSUME Alone, NEW h \in Handlers, FindPlugin(h), faults' = 0
  PROVE  KeepsTask(h)
<1>1. /\ pc[h] = "find" /\ pc'[h] = IF Loaded THEN "activate" ELSE "load"
      /\ UNCHANGED <<row, process, entry, op>>
  BY HandlerHas DEF FindPlugin, Goto, managerVars, registryVars, TypeOK
<1>2. op[h] \in {"enable", "install"} /\ row.enabled /\ Linked
  BY <1>1, HandlerHas DEF HandlerTask
<1>3. UNCHANGED <<Loaded, Linked>>
  BY <1>1 DEF Loaded, Linked
<1> QED  BY <1>1, <1>2, <1>3, HandlerHas DEF KeepsTask, AtWork, Task, HandlerTask

LEMMA LoadBinaryAlone ==
  ASSUME Alone, NEW h \in Handlers, LoadBinary(h), faults' = 0
  PROVE  KeepsTask(h)
<1>1. /\ h \in Actors /\ h # Boot
      /\ pc[h] \in {"load", "activate"} /\ pc'[h] \in {Ok(h), Err(h)}
      /\ UNCHANGED <<row, entry, op, copy, held>>
  BY DEF LoadBinary, LoadPlugin, Activate, Goto, Alone, StepInv, TypeOK, Actors, registryVars
<1>2. /\ op[h] \in {"enable", "install"} /\ row.enabled /\ Linked
      /\ pc[h] = "load" => ~Loaded
      /\ pc[h] = "activate" => Loaded
  BY <1>1 DEF Alone, AloneTasks, HandlerTask
<1>3. pc'[h] = Ok(h) /\ Loaded' /\ process'.on /\ Linked'
  <2>1. CASE pc[h] = "load"
    <3>1. pc'[h] = Ok(h) /\ process' = [id |-> spawned + 1, on |-> TRUE]
      BY <1>2, <2>1 DEF LoadBinary, LoadPlugin, Activate, Goto, Fault, Alone, StepInv, TypeOK, Actors
    <3>2. entry.id = 0 /\ spawned \in Nat
      BY <1>2, <2>1 DEF Linked, Alone, StepInv, TypeOK
    <3> QED  BY <1>1, <3>1, <3>2 DEF Loaded, Linked
  <2>2. CASE pc[h] = "activate"
    <3>1. pc'[h] = Ok(h) /\ process' = [process EXCEPT !.on = TRUE]
      BY <1>2, <2>2 DEF LoadBinary, Activate, Goto, Alone, StepInv, TypeOK, Actors
    <3>2. process'.on /\ process'.id = process.id
      BY <3>1 DEF Alone, StepInv, TypeOK
    <3> QED  BY <1>1, <1>2, <2>2, <3>1, <3>2 DEF Loaded, Linked
  <2> QED  BY <1>1, <2>1, <2>2
<1>4. row.status # "absent" /\ row.enabled = TRUE /\ process'.on = TRUE
  BY <1>2, <1>3, RowCases DEF Alone, StepInv, TypeOK, LoadBinary, LoadPlugin, Activate
<1>5. CASE op[h] = "install"
  BY <1>1, <1>2, <1>3, <1>5 DEF Ok, KeepsTask, Task, HandlerTask, AtWork
<1>6. CASE op[h] = "enable"
  BY <1>1, <1>2, <1>3, <1>4, <1>6 DEF Ok, KeepsTask, Task, HandlerTask, AtWork
<1> QED  BY <1>2, <1>5, <1>6

LEMMA PersistAlone ==
  ASSUME Alone, NEW a \in Actors, Persist(a), faults' = 0
  PROVE  KeepsTask(a)
<1>1. /\ pc[a] = "persist" /\ pc'[a] = "done"
      /\ row' = [enabled |-> TRUE, status |-> "running"]
      /\ UNCHANGED <<process, entry>>
  BY DEF Persist, Goto, Fault, Alone, StepInv, TypeOK, managerVars, registryVars
<1>2. Loaded /\ process.on /\ Linked /\ (entry.id # 0 => entry.on)
  <2>1. CASE a = Boot
    BY <1>1, <2>1 DEF Alone, AloneTasks, BootTask
  <2>2. CASE a # Boot
    BY <1>1, <2>2 DEF Alone, AloneTasks, HandlerTask, Actors
  <2> QED  BY <2>1, <2>2
<1>3. row'.enabled = TRUE /\ row'.status = "running"
  BY <1>1
<1>4. process.on = TRUE /\ (entry.id # 0 => entry.on = TRUE)
  BY <1>2 DEF Alone, StepInv, TypeOK
<1>5. Agreement'
  BY <1>1, <1>2, <1>3, <1>4 DEF Agreement, Loaded, Linked
<1>6. ~AtWork(a)'
  BY <1>1 DEF AtWork
<1> QED  BY <1>5, <1>6 DEF KeepsTask, AtWork, Task, HandlerTask, BootTask, BeforeEntry

LEMMA DeactivateAlone ==
  ASSUME Alone, NEW a \in Actors, Deactivate(a), faults' = 0
  PROVE  KeepsTask(a)
<1>1. /\ UNCHANGED <<row, entry, op>>
      /\ process'.id = process.id /\ (Loaded => process'.on = FALSE)
      /\ \/ pc[a] = "deactivate" /\ pc'[a] = IF a = Boot THEN "done" ELSE "get"
         \/ pc[a] = "disable" /\ pc'[a] = "reconcile"
  BY BootHas DEF Deactivate, Goto, registryVars, TypeOK
<1>2. Loaded' = Loaded /\ Linked' = Linked /\ (Loaded' => process'.on = FALSE)
  BY <1>1 DEF Loaded, Linked
<1>3. CASE a = Boot
  <2>1. Loaded /\ ~Inactive(row) /\ Linked /\ ~row.enabled
    BY <1>1, <1>3, BootHas DEF BootTask
  <2>2. CASE pc[Boot] = "deactivate"
    <3>1. /\ entry'.on = FALSE /\ row'.enabled = FALSE
          /\ row'.status # "absent" /\ pc'[Boot] = "done"
      BY <1>1, <1>3, <2>1, <2>2, BootHas DEF BootTask, Inactive, TypeOK, Rows
    <3>2. Agreement'
      BY <1>2, <2>1, <3>1 DEF Agreement, Linked
    <3> QED  BY <1>3, <3>1, <3>2 DEF KeepsTask, Task, BootTask, BeforeEntry
  <2>3. CASE pc[Boot] = "disable"
    BY <1>1, <1>2, <1>3, <2>1, <2>3
       DEF KeepsTask, AtWork, Task, BootTask, BeforeEntry, Inactive
  <2> QED  BY <1>1, <1>3, <2>2, <2>3
<1>4. CASE a # Boot
  <2>1. a \in Handlers
    BY <1>4 DEF Actors
  <2>2. pc[a] = "deactivate" /\ pc'[a] = "get"
    BY <1>1, <1>4, <2>1, HandlerHas DEF HandlerTask
  <2>3. op[a] \in {"disable", "uninstall"} /\ ~row.enabled /\ row.status # "absent" /\ Linked
    BY <2>1, <2>2, HandlerHas DEF HandlerTask
  <2>4. row'.enabled = FALSE /\ op'[a] # "enable"
    BY <1>1, <2>3, BootHas, RowCases DEF TypeOK
  <2> QED  BY <1>1, <1>2, <1>4, <2>2, <2>3, <2>4 DEF KeepsTask, AtWork, Task, HandlerTask
<1> QED  BY <1>3, <1>4

LEMMA UnloadPluginAlone ==
  ASSUME Alone, NEW a \in Actors, UnloadPlugin(a), faults' = 0
  PROVE  KeepsTask(a)
<1>1. /\ UNCHANGED <<row, entry>> /\ ~Loaded'
      /\ \/ pc[a] = "unload" /\ pc'[a] = "unregister"
         \/ a = Boot /\ pc[a] = "drop" /\ pc'[a] = "reconcile"
  BY BootHas DEF UnloadPlugin, Goto, Loaded, registryVars, TypeOK
<1>2. CASE a = Boot
  <2>1. pc[Boot] = "drop" /\ pc'[Boot] = "reconcile"
    BY <1>1, <1>2, BootHas DEF BootTask
  <2>2. Inactive(row)' /\ entry' = NoEntry
    BY <1>1, <2>1, BootHas DEF BootTask, BeforeEntry, Inactive
  <2> QED  BY <1>1, <1>2, <2>1, <2>2 DEF KeepsTask, AtWork, Task, BootTask, BeforeEntry
<1>3. CASE a # Boot
  BY <1>1, <1>3 DEF KeepsTask, AtWork, Task, HandlerTask
<1> QED  BY <1>2, <1>3

LEMMA GetClientAlone ==
  ASSUME Alone, NEW a \in Actors, GetClient(a), faults' = 0
  PROVE  KeepsTask(a)
<1>1. /\ UNCHANGED <<row, process, entry, copy>>
      /\ pc[a] = "client" /\ held'[a] = process.id
      /\ pc'[a] = IF Loaded THEN "register" ELSE IF a = Boot THEN "reconcile" ELSE "persist"
  BY BootHas DEF GetClient, Goto, managerVars, registryVars, TypeOK
<1>2. UNCHANGED <<Loaded, Linked>>
  BY <1>1 DEF Loaded, Linked
<1>3. CASE a = Boot
  <2>1. Loaded /\ ~Inactive(row) /\ Linked /\ copy[Boot] = row /\ entry = NoEntry
    BY <1>1, <1>3, BootHas DEF BootTask, BeforeEntry
  <2> QED  BY <1>1, <1>2, <1>3, <2>1
           DEF KeepsTask, AtWork, Task, BootTask, BeforeEntry, Inactive
<1>4. CASE a # Boot
  <2>1. row.enabled /\ Loaded /\ process.on /\ Linked
    BY <1>1, <1>4, HandlerHas DEF HandlerTask, Actors
  <2> QED  BY <1>1, <1>2, <1>4, <2>1 DEF KeepsTask, AtWork, Task, HandlerTask
<1> QED  BY <1>3, <1>4

LEMMA RegisterEntryAlone ==
  ASSUME Alone, NEW a \in Actors, RegisterEntry(a), faults' = 0
  PROVE  KeepsTask(a)
<1>1. /\ pc[a] = "register" /\ UNCHANGED <<row, process, copy, held>>
      /\ entry' = [id |-> made + 1, exec |-> held[a], on |-> a # Boot \/ copy[a].enabled]
  BY DEF RegisterEntry, Goto, managerVars
<1>2. Loaded /\ held[a] = process.id
  <2>1. CASE a = Boot
    BY <1>1, <2>1 DEF Alone, AloneTasks, BootTask
  <2>2. CASE a # Boot
    BY <1>1, <2>2 DEF Alone, AloneTasks, HandlerTask, Actors
  <2> QED  BY <2>1, <2>2
<1>3. Linked' /\ Loaded'
  BY <1>1, <1>2 DEF Linked, Loaded
<1>4. CASE a = Boot
  <2>1. ~Inactive(row) /\ copy[Boot] = row
    BY <1>1, <1>4 DEF Alone, AloneTasks, BootTask
  <2>2. pc'[Boot] = IF row.enabled THEN "reconcile" ELSE "disable"
    BY <1>4, <2>1 DEF RegisterEntry, Goto, Alone, StepInv, TypeOK, Actors
  <2> QED  BY <1>1, <1>3, <1>4, <2>1, <2>2
           DEF KeepsTask, AtWork, Task, BootTask, BeforeEntry, Inactive
<1>5. CASE a # Boot
  <2>1. row.enabled /\ process.on
    BY <1>1, <1>5 DEF Alone, AloneTasks, HandlerTask, Actors
  <2>2. pc'[a] = "persist"
    BY <1>1, <1>5 DEF RegisterEntry, Goto, Alone, StepInv, TypeOK
  <2>3. entry'.on
    BY <1>1, <1>5, Zenon
  <2> QED  BY <1>1, <1>3, <1>5, <2>1, <2>2, <2>3 DEF KeepsTask, AtWork, Task, HandlerTask
<1> QED  BY <1>4, <1>5

LEMMA UnregisterAlone ==
  ASSUME Alone, NEW a \in Actors, Unregister(a), faults' = 0
  PROVE  KeepsTask(a)
<1>1. /\ pc[a] = "unregister" /\ pc'[a] = IF a = Boot THEN "done" ELSE "mark"
      /\ entry' = NoEntry /\ UNCHANGED <<row, process>>
  BY BootHas DEF Unregister, Goto, managerVars, TypeOK
<1>2. a # Boot
  BY <1>1, BootHas DEF BootTask
<1>3. ~Loaded'
  BY <1>1, <1>2, HandlerHas DEF HandlerTask, Loaded, Actors
<1> QED  BY <1>1, <1>2, <1>3 DEF KeepsTask, AtWork, Task, HandlerTask

LEMMA GetEntryAlone ==
  ASSUME Alone, NEW a \in Actors, GetEntry(a), faults' = 0
  PROVE  KeepsTask(a)
<1>1. /\ pc[a] = "get" /\ pc'[a] = IF entry.id = 0 THEN AfterEntry(a) ELSE "set"
      /\ UNCHANGED <<row, process, entry, op, copy>> /\ held'[a] = entry.id
  BY DEF GetEntry, Goto, Alone, StepInv, TypeOK, managerVars, registryVars
<1>2. entry.on => entry.id # 0
  BY DEF Alone, StepInv, UndisturbedSteps
<1>3. CASE a = Boot
  <2>1. Loaded /\ ~Inactive(row) /\ Linked /\ copy[Boot] = row
    BY <1>1, <1>3 DEF Alone, AloneTasks, BootTask
  <2>2. AfterEntry(a) = IF row.enabled THEN "activate" ELSE "deactivate"
    BY <1>3, <2>1 DEF AfterEntry
  <2>3. /\ UNCHANGED <<Loaded, Linked, Inactive(row), copy[Boot]>>
        /\ pc'[Boot] \in {"set", "activate", "deactivate"}
    BY <1>1, <1>3, <2>2 DEF Loaded, Linked, Inactive
  <2> QED  BY <1>1, <1>2, <1>3, <2>1, <2>2, <2>3 DEF KeepsTask, AtWork, Task, BootTask, BeforeEntry
<1>4. CASE a # Boot
  <2>1. /\ op[a] # "install" /\ row.status # "absent" /\ Linked
        /\ row.enabled = (op[a] = "enable")
        /\ row.enabled => Loaded
        /\ Loaded => process.on = row.enabled
    BY <1>1, <1>4 DEF Alone, AloneTasks, HandlerTask, Actors
  <2>2. UNCHANGED <<Loaded, Linked>> /\ pc'[a] = IF entry.id = 0 THEN "done" ELSE "set"
    BY <1>1, <1>4 DEF Loaded, Linked, AfterEntry
  <2>3. CASE entry.id = 0
    <3>1. Agreement'
      BY <1>1, <2>1, <2>2, <2>3 DEF Agreement
    <3> QED  BY <1>4, <2>2, <2>3, <3>1 DEF KeepsTask, AtWork, Task, HandlerTask
  <2>4. CASE entry.id # 0
    BY <1>1, <1>4, <2>1, <2>2, <2>4 DEF KeepsTask, AtWork, Task, HandlerTask
  <2> QED  BY <2>3, <2>4
<1> QED  BY <1>3, <1>4

LEMMA SetEntryAlone ==
  ASSUME Alone, NEW a \in Actors, SetEntry(a), faults' = 0
  PROVE  KeepsTask(a)
<1>1. pc[a] = "set" /\ pc'[a] = AfterEntry(a) /\ UNCHANGED <<row, process, op, copy>>
  BY DEF SetEntry, Goto, Alone, StepInv, TypeOK, managerVars
<1>2. held[a] = entry.id /\ Linked
  <2>1. CASE a = Boot
    BY <1>1, <2>1 DEF Alone, AloneTasks, BootTask
  <2>2. CASE a # Boot
    BY <1>1, <2>2 DEF Alone, AloneTasks, HandlerTask, Actors
  <2> QED  BY <2>1, <2>2
<1>3. /\ entry'.id = entry.id /\ entry'.exec = entry.exec
      /\ entry'.on = IF a = Boot THEN copy[a].enabled ELSE op[a] = "enable"
  BY <1>2 DEF SetEntry, Alone, StepInv, TypeOK
<1>4. UNCHANGED <<Loaded, Linked>>
  BY <1>1, <1>3 DEF Loaded, Linked
<1>5. CASE a = Boot
  <2>1. Loaded /\ ~Inactive(row) /\ copy[Boot] = row
    BY <1>1, <1>5 DEF Alone, AloneTasks, BootTask
  <2>2. pc'[Boot] = IF row.enabled THEN "activate" ELSE "deactivate"
    BY <1>1, <1>5, <2>1 DEF AfterEntry
  <2> QED  BY <1>1, <1>2, <1>3, <1>4, <1>5, <2>1, <2>2
           DEF KeepsTask, AtWork, Task, BootTask, BeforeEntry, Inactive
<1>6. CASE a # Boot
  <2>1. /\ row.status # "absent" /\ row.enabled = (op[a] = "enable")
        /\ row.enabled => Loaded
        /\ Loaded => process.on = row.enabled
    BY <1>1, <1>6 DEF Alone, AloneTasks, HandlerTask, Actors
  <2>2. pc'[a] = "done"
    BY <1>1, <1>6 DEF AfterEntry
  <2>3. entry'.on = row'.enabled
    BY <1>1, <1>3, <1>6, <2>1
  <2>4. Agreement'
    <3>1. /\ row'.enabled => Loaded'
          /\ Loaded' => process'.on = row'.enabled
          /\ row'.status # "absent"
      BY <1>1, <1>4, <2>1
    <3>2. entry'.id # 0 => Loaded' /\ entry'.exec = process'.id
      BY <1>2, <1>4 DEF Linked
    <3> QED  BY <2>3, <3>1, <3>2 DEF Agreement
  <2> QED  BY <1>6, <2>2, <2>4 DEF KeepsTask, AtWork, Task, HandlerTask
<1> QED  BY <1>5, <1>6

LEMMA DiscoverAlone ==
  ASSUME Alone, Discover, faults' = 0
  PROVE  KeepsTask(Boot)
<1>1. /\ pc[Boot] = "discover" /\ UNCHANGED <<row, entry>>
      /\ ~Loaded /\ entry = NoEntry
  BY BootHas DEF Discover, registryVars, BootTask, BeforeEntry
<1>2. pc'[Boot] = "list" /\ Loaded'
  <2>1. pc'[Boot] = "list" /\ process' = [id |-> spawned + 1, on |-> TRUE]
    BY <1>1, BootHas DEF Discover, LoadPlugin, Goto, Fault, TypeOK
  <2> QED  BY <2>1, BootHas DEF Loaded, TypeOK
<1> QED  BY <1>1, <1>2 DEF KeepsTask, AtWork, Task, BootTask, BeforeEntry

LEMMA ListRowsAlone ==
  ASSUME Alone, ListRows, faults' = 0
  PROVE  KeepsTask(Boot)
<1>1. /\ pc[Boot] = "list" /\ pc'[Boot] = "sync"
      /\ copy'[Boot] = row /\ UNCHANGED <<row, process, entry>>
  BY BootHas DEF ListRows, Goto, Fault, managerVars, registryVars, TypeOK
<1>2. Loaded' /\ entry' = NoEntry
  BY <1>1, BootHas DEF BootTask, BeforeEntry, Loaded
<1> QED  BY <1>1, <1>2 DEF KeepsTask, AtWork, Task, BootTask, BeforeEntry

LEMMA SyncLoadedAlone ==
  ASSUME Alone, SyncLoaded, faults' = 0
  PROVE  KeepsTask(Boot)
<1>1. pc[Boot] = "sync" /\ UNCHANGED <<row, process, entry, copy>>
  BY DEF SyncLoaded, Goto, managerVars, registryVars
<1>2. Loaded /\ entry = NoEntry /\ copy[Boot] = row
  BY <1>1, BootHas DEF BootTask, BeforeEntry
<1>3. pc'[Boot] = IF Inactive(row) THEN "drop" ELSE "client"
  BY <1>2, BootHas DEF SyncLoaded, Goto, TypeOK
<1>4. Loaded' /\ Inactive(row)' = Inactive(row) /\ Linked'
  BY <1>1, <1>2 DEF Loaded, Inactive, Linked, NoEntry
<1> QED  BY <1>1, <1>2, <1>3, <1>4 DEF KeepsTask, AtWork, Task, BootTask, BeforeEntry

LEMMA ReconcileAlone ==
  ASSUME Alone, Reconcile, faults' = 0
  PROVE  KeepsTask(Boot)
<1>1. /\ pc[Boot] = "reconcile" /\ pc'[Boot] = IF Loaded THEN "reread" ELSE "done"
      /\ UNCHANGED <<row, process, entry>>
  BY BootHas DEF Reconcile, Goto, managerVars, registryVars, TypeOK
<1>2. IF Loaded THEN ~Inactive(row) /\ Linked ELSE Inactive(row) /\ entry = NoEntry
  BY <1>1, BootHas DEF BootTask
<1>3. UNCHANGED <<Loaded, Linked, Inactive(row)>>
  BY <1>1 DEF Loaded, Linked, Inactive
<1>4. CASE Loaded
  BY <1>1, <1>2, <1>3, <1>4 DEF KeepsTask, AtWork, Task, BootTask, BeforeEntry
<1>5. CASE ~Loaded
  <2>1. ~row.enabled
    BY <1>2, <1>5, BootHas, RowCases DEF Inactive, TypeOK
  <2>2. Agreement'
    BY <1>1, <1>2, <1>3, <1>5, <2>1 DEF Agreement, NoEntry
  <2> QED  BY <1>1, <1>5, <2>2 DEF KeepsTask, Task, BootTask, BeforeEntry
<1> QED  BY <1>4, <1>5

LEMMA RereadAlone ==
  ASSUME Alone, Reread, faults' = 0
  PROVE  KeepsTask(Boot)
<1>1. /\ pc[Boot] = "reread" /\ UNCHANGED <<row, process, entry>>
      /\ copy'[Boot] = row /\ pc'[Boot] = IF Inactive(row) THEN "unload" ELSE "get"
  BY BootHas DEF Reread, Goto, Fault, managerVars, registryVars, TypeOK
<1>2. Loaded /\ ~Inactive(row) /\ Linked
  BY <1>1, BootHas DEF BootTask
<1>3. UNCHANGED <<Loaded, Linked, Inactive(row)>>
  BY <1>1 DEF Loaded, Linked, Inactive
<1> QED  BY <1>1, <1>2, <1>3 DEF KeepsTask, AtWork, Task, BootTask, BeforeEntry

LEMMA ActivateRereadAlone ==
  ASSUME Alone, ActivateReread, faults' = 0
  PROVE  KeepsTask(Boot)
<1>1. /\ pc[Boot] = "activate" /\ UNCHANGED <<row, entry>>
      /\ pc'[Boot] = IF copy[Boot].status = "running" THEN "done" ELSE "persist"
      /\ process' = IF Loaded THEN [process EXCEPT !.on = TRUE] ELSE process
  BY BootHas DEF ActivateReread, Activate, Goto, registryVars, TypeOK
<1>2. /\ Loaded /\ ~Inactive(row) /\ Linked /\ copy[Boot] = row
      /\ row.enabled /\ (entry.id # 0 => entry.on)
  BY <1>1, BootHas DEF BootTask
<1>3. /\ process'.id = process.id /\ process'.on
      /\ UNCHANGED <<Loaded, Linked, Inactive(row)>>
  BY <1>1, <1>2, BootHas DEF Loaded, Linked, Inactive
<1>4. Agreement'
  BY <1>1, <1>2, <1>3, BootHas DEF Agreement, Linked, Inactive
<1> QED  BY <1>1, <1>2, <1>3, <1>4 DEF KeepsTask, AtWork, Task, BootTask, BeforeEntry

\* A handler that begins when nobody is at work finds tables that agree.
LEMMA ReadRowAlone ==
  ASSUME StepInv, TablesAgree, AloneTasks, NEW h \in Handlers, ReadRow(h)
  PROVE  TablesAgree' /\ AloneTasks'
<1> SUFFICES ASSUME ~overlap', faults' = 0
             PROVE  Agreement' /\ BootTask' /\ \A b \in Handlers : HandlerTask(b)'
  BY DEF TablesAgree, AloneTasks
<1>1. ~overlap /\ faults = 0 /\ \A b \in Actors : ~AtWork(b)
  <2>1. overlap' = (overlap \/ \E b \in Actors : AtWork(b))
    BY DEF ReadRow
  <2>2. faults' = faults \/ faults' = faults + 1
    BY DEF ReadRow, Fault
  <2>3. faults = 0
    BY <2>2 DEF StepInv, TypeOK
  <2>4. ~overlap /\ \A b \in Actors : ~AtWork(b)
    BY <2>1, Zenon
  <2> QED  BY <2>3, <2>4
<1>2. Agreement
  BY <1>1 DEF TablesAgree
<1>3. /\ UNCHANGED <<row, process, entry>>
      /\ h # Boot /\ Boot \in Actors
      /\ pc[h] = "idle" /\ \A b \in Actors \ {h} : pc'[b] = pc[b]
  BY DEF ReadRow, Goto, managerVars, registryVars, StepInv, TypeOK, Actors
<1>4. Agreement'
  BY <1>2, <1>3 DEF Agreement, Loaded
<1>5. ASSUME NEW b \in Actors \ {h}
      PROVE  ~AtWork(b)'
  BY <1>1, <1>3, <1>5 DEF AtWork
<1>6. BootTask'
  BY <1>3, <1>5 DEF BootTask, BeforeEntry, AtWork
<1>7. ASSUME NEW b \in Handlers, b # h
      PROVE  HandlerTask(b)'
  BY <1>5, <1>7 DEF HandlerTask, AtWork, Actors
<1>8. HandlerTask(h)'
  <2>1. PICK o \in Ops :
          /\ op' = [op EXCEPT ![h] = o]
          /\ \/ /\ IF o = "install" THEN ~row.enabled ELSE row.status # "absent"
                /\ Goto(h, "idle", FirstStep(o))
                /\ copy' = [copy EXCEPT ![h] = row]
             \/ Goto(h, "idle", "done")
             \/ Fault
    BY DEF ReadRow
  <2>a. ~Fault
    BY <1>1 DEF Fault
  <2>b. CASE Goto(h, "idle", "done")
    BY <2>b DEF Goto, HandlerTask, StepInv, TypeOK, Actors
  <2>c. CASE /\ IF o = "install" THEN ~row.enabled ELSE row.status # "absent"
             /\ Goto(h, "idle", FirstStep(o))
             /\ copy' = [copy EXCEPT ![h] = row]
    <3>1. op'[h] = o /\ copy'[h] = row' /\ pc'[h] = FirstStep(o)
      BY <1>3, <2>1, <2>c DEF Goto, StepInv, TypeOK, Actors
    <3>2. CASE o = "remove"
      BY <3>1, <3>2 DEF FirstStep, HandlerTask
    <3>3. CASE o # "remove"
      BY <1>3, <1>4, <2>c, <3>1, <3>3 DEF FirstStep, HandlerTask
    <3> QED  BY <3>2, <3>3
  <2> QED  BY <2>1, <2>a, <2>b, <2>c
<1> QED  BY <1>4, <1>6, <1>7, <1>8

\* What the other steps of an actor leave alone.
LEMMA ActorStep ==
  ASSUME StepInv, NEW a \in Actors,
         \/ a \in Handlers /\ Step(a)
         \/ SharedStep(a)
         \/ a = Boot /\ BootStep
  PROVE  /\ AtWork(a) /\ overlap' = overlap
         /\ faults' = faults \/ faults' = faults + 1
         /\ \A b \in Actors \ {a} : pc'[b] = pc[b]
<1> USE DEF Goto, AtWork, Fault, historyVars, StepInv, TypeOK
<1>1. CASE a \in Handlers /\ Step(a)
  BY <1>1 DEF Step, WriteRow, MarkUninstalled, FindPlugin, LoadBinary, LoadPlugin, Activate
<1>2. CASE SharedStep(a)
  BY <1>2 DEF SharedStep, Persist, Deactivate, UnloadPlugin, GetClient, RegisterEntry,
              Unregister, GetEntry, SetEntry
<1>3. CASE a = Boot /\ BootStep
  BY <1>3 DEF BootStep, Discover, ListRows, SyncLoaded, Reconcile, Reread, ActivateReread,
              LoadPlugin, Activate
<1> QED  BY <1>1, <1>2, <1>3

LEMMA ActorStepAlone ==
  ASSUME StepInv, AloneTasks, NEW a \in Actors,
         \/ a \in Handlers /\ Step(a)
         \/ SharedStep(a)
         \/ a = Boot /\ BootStep
  PROVE  TablesAgree' /\ AloneTasks'
<1>1. CASE ~overlap' /\ faults' = 0
  <2>1. Alone
    BY <1>1, ActorStep DEF Alone, StepInv, TypeOK
  <2>2. KeepsTask(a)
    <3>1. CASE a \in Handlers /\ Step(a)
      BY <1>1, <2>1, <3>1, WriteRowAlone, MarkUninstalledAlone, FindPluginAlone, LoadBinaryAlone
      DEF Step
    <3>2. CASE SharedStep(a)
      BY <1>1, <2>1, <3>2, PersistAlone, DeactivateAlone, UnloadPluginAlone, GetClientAlone,
         RegisterEntryAlone, UnregisterAlone, GetEntryAlone, SetEntryAlone
      DEF SharedStep
    <3>3. CASE a = Boot /\ BootStep
      BY <1>1, <2>1, <3>3, DiscoverAlone, ListRowsAlone, SyncLoadedAlone, ReconcileAlone,
         RereadAlone, ActivateRereadAlone
      DEF BootStep
    <3> QED  BY <3>1, <3>2, <3>3
  <2> QED  BY <2>1, <2>2, ActorStep, OneAtWork
<1>2. CASE ~(~overlap' /\ faults' = 0)
  BY <1>2 DEF TablesAgree, AloneTasks
<1> QED  BY <1>1, <1>2

LEMMA TablesKept ==
  ASSUME StepInv, TablesAgree, AloneTasks,
         UNCHANGED <<row, managerVars, registryVars, actorVars, faults, overlap>>
  PROVE  TablesAgree' /\ AloneTasks'
<1> USE DEF managerVars, registryVars, actorVars
<1>1. Agreement' = Agreement /\ \A a \in Actors : AtWork(a)' = AtWork(a)
  BY DEF Agreement, Loaded, AtWork
<1>2. BootTask => BootTask'
  BY DEF BootTask, Loaded, Linked
<1>3. \A h \in Handlers : HandlerTask(h) => HandlerTask(h)'
  BY <1>1 DEF HandlerTask, Loaded, Linked
<1> QED  BY <1>1, <1>2, <1>3 DEF TablesAgree, AloneTasks

-----------------------------------------------------------------------------
(* The theorems *)

LEMMA InitIInv == Init => IInv
<1> SUFFICES ASSUME Init  PROVE IInv
  OBVIOUS
<1>1. pc[Boot] = "discover" /\ \A h \in Handlers : pc[h] = "idle"
  BY DEF Init, Actors
<1>2. AtWork(Boot) /\ Boot \in Actors
  BY <1>1 DEF AtWork, Actors
<1>3. BootTask
  BY <1>1 DEF Init, BootTask, BeforeEntry, Loaded
<1>4. \A h \in Handlers : HandlerTask(h)
  BY <1>1 DEF HandlerTask
<1> QED  BY <1>2, <1>3, <1>4, InitStepInv DEF IInv, TablesAgree, AloneTasks

LEMMA NextIInv ==
  ASSUME IInv, [Next]_vars
  PROVE  IInv'
<1>1. StepInv /\ TablesAgree /\ AloneTasks
  BY DEF IInv
<1>2. StepInv'
  BY <1>1, NextStep
<1>3. TablesAgree' /\ AloneTasks'
  <2>1. ASSUME NEW h \in Handlers, ReadRow(h) \/ Step(h)
        PROVE  TablesAgree' /\ AloneTasks'
    BY <1>1, <2>1, ReadRowAlone, ActorStepAlone DEF Actors
  <2>2. ASSUME NEW a \in Actors, SharedStep(a)
        PROVE  TablesAgree' /\ AloneTasks'
    BY <1>1, <2>2, ActorStepAlone
  <2>3. CASE BootStep
    BY <1>1, <2>3, ActorStepAlone DEF Actors
  <2>4. ASSUME NEW c \in Calls, LookUp(c) \/ Execute(c)
        PROVE  TablesAgree' /\ AloneTasks'
    BY <1>1, <2>4, TablesKept DEF LookUp, Execute, historyVars
  <2>5. ASSUME NEW p \in Running, Crash(p)
        PROVE  TablesAgree' /\ AloneTasks'
    BY <1>1, <2>5, TablesKept DEF Crash, historyVars
  <2>6. CASE UNCHANGED vars
    BY <1>1, <2>6, TablesKept DEF vars, historyVars
  <2> QED  BY <2>1, <2>2, <2>3, <2>4, <2>5, <2>6 DEF Next
<1> QED  BY <1>2, <1>3 DEF IInv

\* For every number of requests, calls and faults.
THEOREM PluginInvariance == Spec => []IInv
<1> QED  BY InitIInv, NextIInv, PTL DEF Spec

\* After start-up and requests that did not overlap, each without an error, the
\* row, the manager and the registry say the same of the plugin
\* (plugin_handlers.go, marketplace_handlers.go, internal/bootstrap).
THEOREM TablesAgreement == Spec => []TablesAgree
<1>1. IInv => TablesAgree
  BY DEF IInv
<1> QED  BY <1>1, PluginInvariance, PTL

\* Every subprocess that was started was killed or is the one the manager knows
\* (LoadPlugin, UnloadPlugin).
THEOREM OneProcess == Spec => []NoProcessLeftBehind
<1>1. IInv => NoProcessLeftBehind
  BY DEF IInv, StepInv
<1> QED  BY <1>1, PluginInvariance, PTL

\* The registry leads to a subprocess that does not run only while one is being
\* uninstalled, after two actors worked at once, or if it crashed and the manager
\* has it still (LoadPlugin, UnloadPlugin, Registry.Register).
THEOREM EntriesLive == Spec => []DeadEntryNeedsOverlap
<1>1. IInv => DeadEntryNeedsOverlap
  BY DEF IInv, StepInv
<1> QED  BY <1>1, PluginInvariance, PTL

\* Using the executor after the lock is released costs a call only what an
\* unload under way or a crash takes from it (Registry.ExecuteAction).
THEOREM CallsSurvive == Spec => []CallFailsOnlyAtUnload
<1>1. IInv => CallFailsOnlyAtUnload
  BY DEF IInv, StepInv
<1> QED  BY <1>1, PluginInvariance, PTL
=============================================================================
