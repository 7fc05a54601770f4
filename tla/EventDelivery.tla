--------------------------- MODULE EventDelivery ---------------------------
(***************************************************************************)
(* What the event system of PEPA promises to those who publish events and  *)
(* to those who subscribe to them, whatever channel, workers, relay and    *)
(* processes carry the events: an event that was published is waiting      *)
(* until it is handed to the handlers, in the order of publication, or     *)
(* becomes a dead letter, or is lost, and a row of the outbox says         *)
(* published, and may be deleted, only after its event was published at    *)
(* least once.                                                             *)
(*                                                                         *)
(* Handlers are called by several workers at once, so events that have     *)
(* been handed over may finish in any order.  OutboxRelay implements this  *)
(* specification: see OutboxRelay!DeliverySpec.                            *)
(***************************************************************************)
EXTENDS Naturals

CONSTANTS MaxMessages,  \* bound: messages ever published
          Rows          \* rows of the outbox

Messages == 1..MaxMessages

VARIABLES sent,   \* messages published so far
          fate,   \* what became of each
          row,    \* what each row of the outbox says
          taken   \* rows for which an event was published

deliveryVars == <<sent, fate, row, taken>>

DeliveryInit == /\ sent = 0
                /\ fate = [m \in Messages |-> "unsent"]
                /\ row = [e \in Rows |-> "none"]
                /\ taken = {}

\* An event is taken in turn; when nobody listens it is lost at once.
Publish == /\ sent < MaxMessages
           /\ sent' = sent + 1
           /\ \E f \in {"waiting", "lost"} : fate' = [fate EXCEPT ![sent + 1] = f]

PublishDirect == Publish /\ UNCHANGED <<row, taken>>

PublishRow(e) == /\ row[e] = "pending"
                 /\ Publish
                 /\ taken' = taken \union {e}
                 /\ UNCHANGED row

\* The oldest event that waits is handed to the handlers.
HandOver(m) == /\ fate[m] = "waiting"
               /\ \A n \in Messages : fate[n] = "waiting" => m <= n
               /\ fate' = [fate EXCEPT ![m] = "handed"]
               /\ UNCHANGED <<sent, row, taken>>

Finish(m) == /\ fate[m] = "handed"
             /\ fate' = [fate EXCEPT ![m] = "done"]
             /\ UNCHANGED <<sent, row, taken>>

GiveUp(m) == /\ fate[m] = "waiting"
             /\ fate' = [fate EXCEPT ![m] = "dead"]
             /\ UNCHANGED <<sent, row, taken>>

OnTheWay == {m \in Messages : fate[m] \in {"waiting", "handed"}}

\* A process or a connection takes with it what it had.
Lose(M) == /\ M \subseteq OnTheWay
           /\ fate' = [m \in Messages |-> IF m \in M THEN "lost" ELSE fate[m]]
           /\ UNCHANGED <<sent, row, taken>>

Commit(e) == /\ row[e] = "none"
             /\ row' = [row EXCEPT ![e] = "pending"]
             /\ UNCHANGED <<sent, fate, taken>>

\* The publisher has learnt that the events of these rows were taken.
Mark(E) == /\ E \subseteq {e \in taken : row[e] = "pending"}
           /\ row' = [e \in Rows |-> IF e \in E THEN "published" ELSE row[e]]
           /\ UNCHANGED <<sent, fate, taken>>

Forget(e) == /\ row[e] = "published"
             /\ row' = [row EXCEPT ![e] = "gone"]
             /\ UNCHANGED <<sent, fate, taken>>

DeliveryNext == \/ PublishDirect
                \/ \E m \in Messages : HandOver(m) \/ Finish(m) \/ GiveUp(m)
                \/ \E M \in SUBSET OnTheWay : Lose(M)
                \/ \E e \in Rows : PublishRow(e) \/ Commit(e) \/ Forget(e)
                \/ \E E \in SUBSET taken : Mark(E)

DeliverySpec == DeliveryInit /\ [][DeliveryNext]_deliveryVars
=============================================================================
