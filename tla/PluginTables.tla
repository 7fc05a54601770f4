---------------------------- MODULE PluginTables ----------------------------
(***************************************************************************)
(* The three tables that say what state a plugin is in: its row in the     *)
(* database, the manager's subprocess (internal/plugin/engine/manager.go)  *)
(* and its entry in the provider registry (internal/provider/registry.go); *)
(* the handlers that bring them into a new state one after the other       *)
(* (internal/api/rest/plugin_handlers.go, marketplace_handlers.go), the    *)
(* start-up that brings them up from the row (internal/bootstrap), and the *)
(* calls that go through the registry.                                     *)
(*                                                                         *)
(* Plugins are independent: this is one, with a binary of its own.  Its    *)
(* subprocesses and its registry entries are numbered as they are made;    *)
(* number 0 is none.  A handler's registry entry is a pointer: it stays    *)
(* what it was when another entry takes its place.  Each operation of the  *)
(* manager and the registry is one step, for it holds the table's lock.    *)
(* A subprocess can crash at any time; nothing watches it, and both tables *)
(* keep it until it is unloaded.                                           *)
(***************************************************************************)
EXTENDS Naturals, FiniteSets

CONSTANTS Handlers,   \* requests that change the plugin
          Boot,       \* the start-up goroutine
          Calls,      \* executions through the registry
          MaxFaults,  \* bound: failed statements and loads
          MaxCrashes  \* bound: subprocesses that end by themselves

ASSUME PluginAssumption == /\ Boot \notin Handlers
                           /\ MaxFaults \in Nat
                           /\ MaxCrashes \in Nat

VARIABLES row,      \* the row's enabled and status
          process,  \* the manager's subprocess and its Enabled flag
          unkilled, \* the subprocesses that were started and not killed
          crashed,  \* the subprocesses that ended by themselves
          spawned,  \* number of subprocesses so far
          entry,    \* the registry's entry
          made,     \* number of entries so far
          op,       \* what each actor is doing
          pc,       \* where it is
          copy,     \* the row as it read or built it
          held,     \* the subprocess or entry it looked up
          call,     \* where each call is
          faults,
          overlap,  \* history: an actor started while another was at work
          cut       \* history: calls that an unload came upon

managerVars == <<process, unkilled, spawned>>
registryVars == <<entry, made>>
actorVars == <<op, pc, copy, held>>
historyVars == <<overlap, cut>>
vars == <<row, managerVars, crashed, registryVars, actorVars, call, faults, historyVars>>

Actors == Handlers \union {Boot}
Ops == {"enable", "disable", "uninstall", "install", "configure", "remove"}

Absent == [enabled |-> FALSE, status |-> "absent"]
Rows == [enabled : {FALSE}, status : {"absent", "installed", "running", "uninstalled"}]
          \union [enabled : {TRUE}, status : {"installed", "running"}]
CallStates == [at : {"idle", "under way", "answered", "failed"}, exec : Nat]

Places == {"idle", "write", "find", "load", "activate", "deactivate", "get", "set",
           "client", "register", "persist", "unload", "unregister", "mark", "discover",
           "list", "sync", "drop", "disable", "reconcile", "reread", "done"}

Inactive(r) == r.status \in {"absent", "uninstalled"}

NoEntry == [id |-> 0, exec |-> 0, on |-> FALSE]

TypeOK ==
  /\ row \in Rows
  /\ process \in [id : Nat, on : BOOLEAN]
  /\ unkilled \subseteq Nat
  /\ crashed \subseteq Nat
  /\ spawned \in Nat
  /\ entry \in [id : Nat, exec : Nat, on : BOOLEAN]
  /\ made \in Nat
  /\ op \in [Actors -> Ops \union {"boot", "none"}]
  /\ pc \in [Actors -> Places]
  /\ copy \in [Actors -> Rows]
  /\ held \in [Actors -> Nat]
  /\ call \in [Calls -> CallStates]
  /\ faults \in 0..MaxFaults
  /\ overlap \in BOOLEAN
  /\ cut \subseteq Calls

\* A process has just started: nothing is loaded or registered, and the row is
\* as an earlier process left it.
Init == /\ row \in Rows
        /\ process = [id |-> 0, on |-> FALSE]
        /\ unkilled = {}
        /\ crashed = {}
        /\ spawned = 0
        /\ entry = NoEntry
        /\ made = 0
        /\ op = [a \in Actors |-> IF a = Boot THEN "boot" ELSE "none"]
        /\ pc = [a \in Actors |-> IF a = Boot THEN "discover" ELSE "idle"]
        /\ copy = [a \in Actors |-> Absent]
        /\ held = [a \in Actors |-> 0]
        /\ call = [c \in Calls |-> [at |-> "idle", exec |-> 0]]
        /\ faults = 0
        /\ overlap = FALSE
        /\ cut = {}

Loaded == process.id # 0
Running == unkilled \ crashed
AtWork(a) == pc[a] \notin {"idle", "done"}
Fault == faults < MaxFaults /\ faults' = faults + 1
Goto(a, from, to) == pc[a] = from /\ pc' = [pc EXCEPT ![a] = to]

-----------------------------------------------------------------------------
(* The row *)

FirstStep(o) == IF o = "remove" THEN "unload" ELSE "write"

\* A handler reads the row; without one only an install goes on, and an install
\* goes on too when the read failed.
ReadRow(h) ==
  /\ \E o \in Ops :
       /\ op' = [op EXCEPT ![h] = o]
       /\ \/ /\ IF o = "install" THEN ~row.enabled ELSE row.status # "absent"
             /\ Goto(h, "idle", FirstStep(o))
             /\ copy' = [copy EXCEPT ![h] = row]
             /\ UNCHANGED faults
          \/ /\ ~(IF o = "install" THEN ~row.enabled ELSE row.status # "absent")
             /\ Goto(h, "idle", "done")
             /\ UNCHANGED <<copy, faults>>
          \/ /\ Goto(h, "idle", IF o = "install" THEN "write" ELSE "done")
             /\ Fault
             /\ UNCHANGED copy
  /\ overlap' = (overlap \/ \E a \in Actors : AtWork(a))
  /\ UNCHANGED <<crashed, row, managerVars, registryVars, held, call, cut>>

\* What each handler stores, from what it read.
NewRow(h) == CASE op[h] \in {"enable", "install"} -> [enabled |-> TRUE, status |-> "installed"]
               [] op[h] = "disable" -> [copy[h] EXCEPT !.enabled = FALSE]
               [] op[h] = "uninstall" -> [enabled |-> FALSE, status |-> "uninstalled"]
               [] OTHER -> copy[h]

AfterWrite(h) == CASE op[h] \in {"enable", "install"} -> "find"
                   [] op[h] = "configure" -> "done"
                   [] OTHER -> "deactivate"

\* PluginRepository.Register; an error ends the handler.
WriteRow(h) ==
  /\ \/ Goto(h, "write", AfterWrite(h)) /\ row' = NewRow(h) /\ UNCHANGED faults
     \/ Goto(h, "write", "done") /\ UNCHANGED row /\ Fault
  /\ UNCHANGED <<crashed, managerVars, registryVars, op, copy, held, call, historyVars>>

\* The last write of an install and of the start-up: the plugin is running.
\* The start-up stores the row it reread.  An error is logged.
Persist(a) ==
  /\ Goto(a, "persist", "done")
  /\ \/ row' = [enabled |-> TRUE, status |-> "running"] /\ UNCHANGED faults
     \/ UNCHANGED row /\ Fault
  /\ UNCHANGED <<crashed, managerVars, registryVars, op, copy, held, call, historyVars>>

\* The last write of a marketplace uninstall.
MarkUninstalled(h) ==
  /\ Goto(h, "mark", "done")
  /\ \/ row' = [enabled |-> FALSE, status |-> "uninstalled"] /\ UNCHANGED faults
     \/ UNCHANGED row /\ Fault
  /\ UNCHANGED <<crashed, managerVars, registryVars, op, copy, held, call, historyVars>>

-----------------------------------------------------------------------------
(* The manager *)

\* A slip: a plugin that is already loaded is loaded again.
LoadAgain(a, ok, err) ==
  \/ /\ Goto(a, pc[a], ok)
     /\ process' = [id |-> spawned + 1, on |-> TRUE]
     /\ spawned' = spawned + 1
     /\ unkilled' = unkilled \union {spawned + 1}
     /\ UNCHANGED faults
  \/ Goto(a, pc[a], err) /\ UNCHANGED managerVars /\ Fault

\* LoadPlugin: a second load is refused; a subprocess that does not answer is
\* killed again.
LoadPlugin(a, ok, err) ==
  \/ /\ ~Loaded
     /\ Goto(a, pc[a], ok)
     /\ process' = [id |-> spawned + 1, on |-> TRUE]
     /\ spawned' = spawned + 1
     /\ unkilled' = unkilled \union {spawned + 1}
     /\ UNCHANGED faults
  \/ Loaded /\ Goto(a, pc[a], err) /\ UNCHANGED <<managerVars, faults>>
  \/ ~Loaded /\ Goto(a, pc[a], err) /\ UNCHANGED managerVars /\ Fault

\* Enable; the manager's error is logged by enablePlugin and ends an install.
Activate(a, ok, err) ==
  /\ Goto(a, "activate", IF Loaded THEN ok ELSE err)
  /\ process' = IF Loaded THEN [process EXCEPT !.on = TRUE] ELSE process
  /\ UNCHANGED <<unkilled, spawned, faults>>

\* loadPluginBinary: enabled when it is loaded, else loaded.
FindPlugin(h) ==
  /\ Goto(h, "find", IF Loaded THEN "activate" ELSE "load")
  /\ UNCHANGED <<crashed, row, managerVars, registryVars, op, copy, held, call, faults, historyVars>>

Ok(h) == IF op[h] = "install" THEN "client" ELSE "get"
Err(h) == IF op[h] = "install" THEN "done" ELSE "get"

LoadBinary(h) ==
  /\ \/ pc[h] = "load" /\ LoadPlugin(h, Ok(h), Err(h))
     \/ Activate(h, Ok(h), Err(h))
  /\ UNCHANGED <<crashed, row, registryVars, op, copy, held, call, historyVars>>

\* Disable: the subprocess stays.
Deactivate(a) ==
  /\ \/ Goto(a, "deactivate", IF a = Boot THEN "done" ELSE "get")
     \/ Goto(a, "disable", "reconcile")
  /\ process' = IF Loaded THEN [process EXCEPT !.on = FALSE] ELSE process
  /\ UNCHANGED <<crashed, row, unkilled, spawned, registryVars, op, copy, held, call, faults, historyVars>>

UnderWay == {c \in Calls : call[c].at = "under way"}

\* UnloadPlugin: the subprocess is killed under the calls it serves.
UnloadPlugin(a) ==
  /\ \/ Goto(a, "unload", "unregister")
     \/ a = Boot /\ Goto(a, "drop", "reconcile")
  /\ unkilled' = unkilled \ {process.id}
  /\ process' = [id |-> 0, on |-> FALSE]
  /\ cut' = IF Loaded THEN cut \union UnderWay ELSE cut
  /\ UNCHANGED <<crashed, row, spawned, registryVars, op, copy, held, call, faults, overlap>>

\* GetPluginInfo and GetGRPCClient.
GetClient(a) ==
  /\ Goto(a, "client", IF Loaded THEN "register"
                       ELSE IF a = Boot THEN "reconcile" ELSE "persist")
  /\ held' = [held EXCEPT ![a] = process.id]
  /\ UNCHANGED <<crashed, row, managerVars, registryVars, op, copy, call, faults, historyVars>>

-----------------------------------------------------------------------------
(* The registry *)

\* Register, with the client looked up before.
RegisterEntry(a) ==
  /\ Goto(a, "register", IF a # Boot THEN "persist"
                         ELSE IF copy[a].enabled THEN "reconcile" ELSE "disable")
  /\ made' = made + 1
  /\ entry' = [id |-> made + 1, exec |-> held[a], on |-> a # Boot \/ copy[a].enabled]
  /\ UNCHANGED <<crashed, row, managerVars, op, copy, held, call, faults, historyVars>>

\* A slip: the entry of an uninstalled plugin stays.
KeepEntry(a) ==
  /\ Goto(a, "unregister", IF a = Boot THEN "done" ELSE "mark")
  /\ UNCHANGED <<crashed, row, managerVars, registryVars, op, copy, held, call, faults, historyVars>>

Unregister(a) ==
  /\ Goto(a, "unregister", IF a = Boot THEN "done" ELSE "mark")
  /\ entry' = NoEntry
  /\ UNCHANGED <<crashed, row, managerVars, made, op, copy, held, call, faults, historyVars>>

AfterEntry(a) == IF a # Boot THEN "done"
                 ELSE IF copy[a].enabled THEN "activate" ELSE "deactivate"

\* Get; what it returns is set outside the registry's lock.
GetEntry(a) ==
  /\ Goto(a, "get", IF entry.id = 0 THEN AfterEntry(a) ELSE "set")
  /\ held' = [held EXCEPT ![a] = entry.id]
  /\ UNCHANGED <<crashed, row, managerVars, registryVars, op, copy, call, faults, historyVars>>

\* The entry's Enabled flag, of an entry that may have been replaced meanwhile.
SetEntry(a) ==
  /\ Goto(a, "set", AfterEntry(a))
  /\ entry' = IF entry.id # held[a] THEN entry
              ELSE [entry EXCEPT !.on = IF a = Boot THEN copy[a].enabled ELSE op[a] = "enable"]
  /\ UNCHANGED <<crashed, row, managerVars, made, op, copy, held, call, faults, historyVars>>

-----------------------------------------------------------------------------
(* The start-up *)

\* DiscoverAndLoad, as far as this plugin goes.
Discover ==
  /\ pc[Boot] = "discover"
  /\ LoadPlugin(Boot, "list", "list")
  /\ UNCHANGED <<crashed, row, registryVars, op, copy, held, call, historyVars>>

\* The rows are listed; after an error no plugin is taken to be installed.
ListRows ==
  /\ Goto(Boot, "list", "sync")
  /\ \/ copy' = [copy EXCEPT ![Boot] = row] /\ UNCHANGED faults
     \/ copy' = [copy EXCEPT ![Boot] = Absent] /\ Fault
  /\ UNCHANGED <<crashed, row, managerVars, registryVars, op, held, call, historyVars>>

\* ListLoadedPlugins: a plugin that is not installed is unloaded again.
SyncLoaded ==
  /\ Goto(Boot, "sync", IF ~Loaded THEN "reconcile"
                        ELSE IF Inactive(copy[Boot]) THEN "drop" ELSE "client")
  /\ UNCHANGED <<crashed, row, managerVars, registryVars, op, copy, held, call, faults, historyVars>>

\* AutoRegisterPlugins goes through the plugins that are loaded now.
Reconcile ==
  /\ Goto(Boot, "reconcile", IF Loaded THEN "reread" ELSE "done")
  /\ UNCHANGED <<crashed, row, managerVars, registryVars, op, copy, held, call, faults, historyVars>>

\* It reads the row again; after an error the plugin is not installed.
Reread ==
  /\ \E r \in {row, Absent} :
       /\ IF r = row THEN UNCHANGED faults ELSE Fault
       /\ copy' = [copy EXCEPT ![Boot] = r]
       /\ Goto(Boot, "reread", IF Inactive(r) THEN "unload" ELSE "get")
  /\ UNCHANGED <<crashed, row, managerVars, registryVars, op, held, call, historyVars>>

\* It enables the plugin, and stores that it runs where the row says otherwise.
ActivateReread ==
  /\ LET next == IF copy[Boot].status = "running" THEN "done" ELSE "persist"
     IN Activate(Boot, next, next)
  /\ UNCHANGED <<crashed, row, registryVars, op, copy, held, call, historyVars>>

-----------------------------------------------------------------------------
(* The calls *)

\* The subprocess is gone and its entry is about to go.
Unregistering == \E a \in Actors : pc[a] = "unregister"

\* Registry.ExecuteAction, up to where it has the entry's executor.
LookUp(c) ==
  /\ call[c].at = "idle"
  /\ entry.on
  /\ call' = [call EXCEPT ![c] = [at |-> "under way", exec |-> entry.exec]]
  /\ cut' = IF Unregistering THEN cut \union {c} ELSE cut
  /\ UNCHANGED <<crashed, row, managerVars, registryVars, actorVars, faults, overlap>>

\* The executor answers, or its subprocess is gone.
Execute(c) ==
  /\ call[c].at = "under way"
  /\ call' = [call EXCEPT ![c].at = IF call[c].exec \in Running THEN "answered" ELSE "failed"]
  /\ UNCHANGED <<crashed, row, managerVars, registryVars, actorVars, faults, historyVars>>

\* The plugin's program exits or is killed from outside: the manager keeps its
\* record and the registry its entry.
Crash(p) ==
  /\ Cardinality(crashed) < MaxCrashes
  /\ crashed' = crashed \union {p}
  /\ UNCHANGED <<row, managerVars, registryVars, actorVars, call, faults, historyVars>>

Step(h) == \/ WriteRow(h) \/ MarkUninstalled(h) \/ FindPlugin(h) \/ LoadBinary(h)

SharedStep(a) == \/ Persist(a) \/ Deactivate(a) \/ UnloadPlugin(a) \/ GetClient(a)
                 \/ RegisterEntry(a) \/ Unregister(a) \/ GetEntry(a) \/ SetEntry(a)

BootStep == Discover \/ ListRows \/ SyncLoaded \/ Reconcile \/ Reread \/ ActivateReread

Next == \/ \E h \in Handlers : ReadRow(h) \/ Step(h)
        \/ \E a \in Actors : SharedStep(a)
        \/ BootStep
        \/ \E c \in Calls : LookUp(c) \/ Execute(c)
        \/ \E p \in Running : Crash(p)

Spec == Init /\ [][Next]_vars

-----------------------------------------------------------------------------
(* Properties *)

\* However loads, unloads and the start-up interleave, the only subprocess that
\* was started and not killed is the one the manager knows: none is left behind
\* that no unload would ever kill.
NoProcessLeftBehind ==
  /\ unkilled = IF Loaded THEN {process.id} ELSE {}
  /\ process.id <= spawned

\* An entry whose subprocess does not run takes two actors that worked at once,
\* or a crash of the very subprocess the manager still has: a single uninstall
\* passes through that state, and an install, an enable or the start-up that
\* nobody disturbs never leaves an entry for a subprocess that was killed.
DeadEntryNeedsOverlap ==
  entry.id # 0 /\ entry.exec \notin Running =>
    overlap \/ Unregistering \/ entry.exec \in unkilled \intersect crashed

\* A call that finds its subprocess gone was under way, or looked the entry up,
\* while the plugin was being unloaded, or the subprocess crashed: the use of the
\* executor after the registry's lock is released hurts nobody else.
CallFailsOnlyAtUnload ==
  \A c \in Calls : call[c].at = "failed" =>
    c \in cut \/ overlap \/ call[c].exec \in crashed

\* When every actor worked alone, no step failed and nobody is at work, the
\* tables agree: of an enabled row the manager has a subprocess, crashed or not,
\* that is enabled, of a disabled one it has none enabled; the registry, where it
\* has an entry, leads to that subprocess and dispatches to it exactly if the row
\* is enabled; and nothing of a plugin that was never installed runs.  An enabled row need not have an
\* entry: enablePlugin loads a plugin again without registering it.
Agreement ==
  /\ row.enabled => Loaded
  /\ Loaded => process.on = row.enabled
  /\ entry.id # 0 => Loaded /\ entry.exec = process.id /\ entry.on = row.enabled
  /\ row.status = "absent" => ~Loaded /\ entry = NoEntry

TablesAgree ==
  ~overlap /\ faults = 0 /\ (\A a \in Actors : ~AtWork(a)) => Agreement

\* The start-up before it registers the plugin.
BeforeEntry == {"discover", "list", "sync", "drop", "client", "register"}

\* What an actor may count on while it works alone, from which those follow.
UndisturbedSteps ==
  /\ entry.on => entry.id # 0
  /\ \A a \in Actors : pc[a] = "set" => held[a] # 0
  /\ ~overlap =>
       /\ \A a, b \in Actors : AtWork(a) /\ AtWork(b) => a = b
       /\ \A a \in Actors : pc[a] = "register" => held[a] \in unkilled
       /\ pc[Boot] \in BeforeEntry => entry.id = 0
       /\ \A c \in UnderWay : call[c].exec \in unkilled \/ c \in cut

\* The invariant of everything but the agreement.
StepInv == /\ TypeOK
           /\ NoProcessLeftBehind
           /\ DeadEntryNeedsOverlap
           /\ CallFailsOnlyAtUnload
           /\ UndisturbedSteps

Linked == entry.id # 0 => Loaded /\ entry.exec = process.id

\* How far a handler that works alone has brought the tables.
HandlerTask(h) ==
  /\ pc[h] \in {"idle", "write", "find", "load", "activate", "deactivate", "get", "set",
                "client", "register", "persist", "unload", "unregister", "mark", "done"}
  /\ pc[h] = "write" =>
       /\ Agreement /\ copy[h] = row
       /\ op[h] \in Ops \ {"remove"}
       /\ IF op[h] = "install" THEN ~row.enabled ELSE row.status # "absent"
  /\ pc[h] \in {"find", "load", "activate"} =>
       /\ op[h] \in {"enable", "install"} /\ row.enabled /\ Linked
       /\ pc[h] = "load" => ~Loaded
       /\ pc[h] = "activate" => Loaded
  /\ pc[h] = "deactivate" =>
       op[h] \in {"disable", "uninstall"} /\ ~row.enabled /\ row.status # "absent" /\ Linked
  /\ pc[h] \in {"get", "set"} =>
       /\ op[h] # "install" /\ row.status # "absent" /\ Linked
       /\ row.enabled = (op[h] = "enable")
       /\ row.enabled => Loaded
       /\ Loaded => process.on = row.enabled
       /\ pc[h] = "set" => held[h] = entry.id
  /\ pc[h] \in {"client", "register", "persist"} =>
       /\ row.enabled /\ Loaded /\ process.on /\ Linked
       /\ pc[h] = "register" => held[h] = process.id
       /\ pc[h] = "persist" => (entry.id # 0 => entry.on)
  /\ pc[h] = "unregister" => ~Loaded
  /\ pc[h] = "mark" => ~Loaded /\ entry = NoEntry

\* How far the start-up has, while no handler has begun.
BootTask ==
  /\ pc[Boot] \notin {"unload", "unregister"}
  /\ pc[Boot] \in BeforeEntry =>
       /\ entry = NoEntry
       /\ pc[Boot] = "discover" => ~Loaded
       /\ pc[Boot] \in {"list", "sync"} => Loaded
       /\ pc[Boot] = "drop" => Inactive(row)
  /\ pc[Boot] \in {"sync", "client", "register", "get", "set", "activate"} => copy[Boot] = row
  /\ pc[Boot] = "reconcile" =>
       IF Loaded THEN ~Inactive(row) /\ Linked ELSE Inactive(row) /\ entry = NoEntry
  /\ pc[Boot] \in {"client", "register", "disable", "reread", "get", "set", "activate",
                   "deactivate", "persist"} => Loaded /\ ~Inactive(row) /\ Linked
  /\ pc[Boot] = "register" => held[Boot] = process.id
  /\ pc[Boot] = "set" => held[Boot] = entry.id
  /\ pc[Boot] \in {"activate", "persist"} => row.enabled /\ (entry.id # 0 => entry.on)
  /\ pc[Boot] \in {"disable", "deactivate"} => ~row.enabled
  /\ pc[Boot] = "deactivate" => ~entry.on
  /\ pc[Boot] = "persist" => process.on

AloneTasks == ~overlap /\ faults = 0 => BootTask /\ \A h \in Handlers : HandlerTask(h)

IInv == StepInv /\ TablesAgree /\ AloneTasks
=============================================================================
