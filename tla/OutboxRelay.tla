----------------------------- MODULE OutboxRelay -----------------------------
(***************************************************************************)
(* The transactional outbox (internal/events/outbox_relay.go, internal/    *)
(* repository/outbox_repo.go) on top of the event bus: rows that were      *)
(* committed with the change they report, and the relay in the process of  *)
(* the bus, which publishes the oldest rows and marks them in one          *)
(* transaction when the whole batch has been tried.                        *)
(*                                                                         *)
(* Rows are numbered in the order of created_at.  The relay polls once a   *)
(* second and the cleanup once an hour, here at any time; the seven days   *)
(* of retention are left out, so a row may be deleted as soon as it is     *)
(* published.  Nothing in the repository starts a relay or inserts a row   *)
(* yet; the module says what they do when something does.                  *)
(***************************************************************************)
EXTENDS EventBus

CONSTANTS MaxRows,     \* bound: rows ever inserted
          BatchSize,   \* 100 in the code
          MaxRetries,  \* outbox_events.max_retries, 5 in the schema
          MaxDirect    \* bound: messages published without the outbox

Rows == 1..MaxRows

ASSUME OutboxAssumption == /\ MaxRows \in Nat
                           /\ BatchSize \in Nat \ {0}
                           /\ MaxRetries \in Nat \ {0}
                           /\ MaxDirect \in Nat

VARIABLES row,      \* "none" | "pending" | "published" | "gone" (cleaned up)
          retries,  \* outbox_events.retry_count
          at,       \* where the relay is: "asleep" | "publish" | "mark"
          batch,    \* rows it has fetched and not yet tried
          ids,      \* publishedIDs
          relayed   \* history: rows that Redis took a message for

relayVars == <<at, batch, ids>>
outboxVars == <<row, retries, relayVars, relayed>>
vars == <<busVars, outboxVars>>

TypeOK == /\ BusTypeOK
          /\ row \in [Rows -> {"none", "pending", "published", "gone"}]
          /\ retries \in [Rows -> 0..MaxRetries]
          /\ at \in {"asleep", "publish", "mark"}
          /\ batch \subseteq Rows
          /\ ids \subseteq Rows
          /\ relayed \subseteq Rows

Init == /\ BusInit
        /\ row = [e \in Rows |-> "none"]
        /\ retries = [e \in Rows |-> 0]
        /\ at = "asleep"
        /\ batch = {}
        /\ ids = {}
        /\ relayed = {}

-----------------------------------------------------------------------------

\* The handlers that publish without the outbox; they ignore the error.
PublishDirect ==
  /\ bus = "up"
  /\ sent < MaxDirect
  /\ Send
  /\ UNCHANGED <<bus, faults, outboxVars>>

\* The transaction of the change commits, and the row with it.
Commit(e) ==
  /\ row[e] = "none" /\ \A f \in Rows : row[f] = "none" => e <= f
  /\ row' = [row EXCEPT ![e] = "pending"]
  /\ UNCHANGED <<busVars, retries, relayVars, relayed>>

\* A slip: the last retry is not taken.
PendingWithRetryToSpare ==
  {e \in Rows : row[e] = "pending" /\ retries[e] + 1 < MaxRetries}

Unpublished == {e \in Rows : row[e] = "pending" /\ retries[e] < MaxRetries}

FetchUnpublished ==
  /\ at = "asleep" /\ bus # "off"
  /\ Unpublished # {}
  /\ at' = "publish"
  /\ batch' = {e \in Unpublished :
                 Cardinality({f \in Unpublished : f < e}) < BatchSize}
  /\ UNCHANGED <<busVars, row, retries, ids, relayed>>

\* One turn of processBatch's loop.
Try(e) ==
  /\ at = "publish" /\ e \in batch /\ \A f \in batch : e <= f
  /\ batch' = batch \ {e}
  /\ at' = IF batch' = {} THEN "mark" ELSE "publish"

PublishEvent(e) ==
  /\ Try(e)
  /\ bus = "up"
  /\ Send
  /\ relayed' = relayed \union {e}
  /\ ids' = ids \union {e}
  /\ UNCHANGED <<bus, faults, row, retries>>

\* A slip: the row is collected although its event was not published.
CollectUnpublished(e) ==
  /\ Try(e)
  /\ bus = "stopping" \/ faults < MaxFaults
  /\ ids' = ids \union {e}
  /\ UNCHANGED <<sent, place, bus, faults, row, retries, relayed>>

\* Publish returns an error: the bus is stopped, or the call failed, before
\* Redis took the message or after.  MarkFailed counts it, or fails as well.
PublishError(e) ==
  /\ Try(e)
  /\ \/ bus = "stopping" /\ UNCHANGED <<sent, place, faults, relayed>>
     \/ Fault /\ UNCHANGED <<sent, place, relayed>>
     \/ Fault /\ Send /\ relayed' = relayed \union {e}
  /\ \/ retries' = [retries EXCEPT ![e] = @ + 1]
     \/ UNCHANGED retries
  /\ UNCHANGED <<bus, row, ids>>

\* BatchMarkPublished: all of the rows, or none when it fails.
BatchMarkPublished ==
  /\ at = "mark"
  /\ at' = "asleep"
  /\ ids' = {}
  /\ \/ /\ row' = [e \in Rows |-> IF e \in ids THEN "published" ELSE row[e]]
        /\ UNCHANGED faults
     \/ ids # {} /\ Fault /\ UNCHANGED row
  /\ UNCHANGED <<sent, place, bus, retries, batch, relayed>>

\* Only rows that say published are deleted.
Cleanup(e) ==
  /\ row[e] = "published"
  /\ row' = [row EXCEPT ![e] = "gone"]
  /\ UNCHANGED <<busVars, retries, relayVars, relayed>>

\* The relay ends with the process, wherever it is.
ProcessEnds ==
  /\ Exit
  /\ at' = "asleep"
  /\ batch' = {}
  /\ ids' = {}
  /\ UNCHANGED <<row, retries, relayed>>

Relay == \/ FetchUnpublished \/ BatchMarkPublished
         \/ \E e \in Rows : PublishEvent(e) \/ PublishError(e)

Next == \/ PublishDirect \/ Relay \/ ProcessEnds
        \/ (BusStep \/ Restart) /\ UNCHANGED outboxVars
        \/ \E e \in Rows : Commit(e) \/ Cleanup(e)

Spec == Init /\ [][Next]_vars

\* Goroutines go on and a process that ends is started again; users, faults and
\* the outcome of a call are not fair.
FairSpec == /\ Spec
            /\ \A m \in Messages : WF_vars(Bus(m) /\ UNCHANGED outboxVars)
            /\ WF_vars(Relay)
            /\ WF_vars(Restart /\ UNCHANGED outboxVars)
            /\ WF_vars(bus = "stopping" /\ ProcessEnds)

-----------------------------------------------------------------------------

\* At least once, as far as Redis: a row that says published, or was cleaned up
\* as such, was published, whatever crashed or failed between the publishing,
\* the marking and the deleting.
MarkedWasPublished ==
  \A e \in Rows : row[e] \in {"published", "gone"} => e \in relayed

\* What that needs to be inductive; and that a failure is counted while there
\* is one to count.
RelayInv == /\ ids \subseteq relayed
            /\ at = "publish" => batch # {}
            /\ at # "publish" => batch = {}
            /\ at = "asleep" => ids = {}
            /\ ids \intersect batch = {}
            /\ \A e \in batch : row[e] = "pending" /\ retries[e] < MaxRetries
            /\ \A e \in ids : row[e] = "pending"

IInv == TypeOK /\ BusInv /\ MarkedWasPublished /\ RelayInv

\* A committed row is published or has run out of its retries.
OutboxDrains ==
  \A e \in Rows : row[e] = "pending" ~>
    (row[e] \in {"published", "gone"} \/ retries[e] = MaxRetries)
-----------------------------------------------------------------------------

\* What becomes of each message, for those who do not see where it is.
SeenAs(p) == CASE p \in Waiting -> "waiting"
               [] p \in Dispatching -> "handed"
               [] OTHER -> p

Fate == [m \in Messages |-> SeenAs(place[m])]

ED == INSTANCE EventDelivery WITH fate <- Fate, taken <- relayed

\* Relay and bus deliver events as EventDelivery promises, in every order of
\* their goroutines and across faults and restarts: what waits is handed over
\* oldest first (bus.go:97-145), and only what Redis took is marked
\* (outbox_relay.go:83-111).
DeliverySpec == ED!DeliverySpec
=============================================================================
