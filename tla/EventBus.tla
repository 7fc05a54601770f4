------------------------------ MODULE EventBus ------------------------------
(***************************************************************************)
(* One process' end of the Redis channel `pepa:events` (internal/events/   *)
(* bus.go): the goroutine that reads the subscription, a Go channel with   *)
(* as many places as there are workers, the workers that call the handlers *)
(* one after the other, the list of dead letters, and Stop.                *)
(*                                                                         *)
(* Messages are numbered in the order Redis took them and `place` says     *)
(* where each is; a queue holds the messages of a place in that order, so  *)
(* its head is the smallest.  What a message says and what handlers do     *)
(* with it are left out, except that a handler may hang: notifications ask *)
(* the database without a deadline (notification_dispatcher.go:60).        *)
(***************************************************************************)
EXTENDS Naturals, FiniteSets

CONSTANTS MaxMessages,  \* bound: messages ever published
          Workers,      \* workerPoolSize, 8 in the code
          MaxFaults     \* bound: failed calls, lost connections, ended processes

Messages == 1..MaxMessages

ASSUME BusAssumption == /\ MaxMessages \in Nat
                        /\ Workers \in Nat \ {0}
                        /\ MaxFaults \in Nat

VARIABLES sent,    \* messages published so far
          place,   \* where each is
          bus,     \* "up" | "stopping" | "off"
          faults

busVars == <<sent, place, bus, faults>>

\* On the way: from Redis to the reading goroutine, which has the oldest in its
\* hands, in the channel, with a worker, with a worker whose handler hangs.
Waiting == {"wire", "buffer"}
Dispatching == {"working", "stuck"}
Settled == {"done", "dead", "lost"}
Places == {"unsent"} \union Waiting \union Dispatching \union Settled

At(p) == {m \in Messages : place[m] = p}
Busy == At("working") \union At("stuck")

BusTypeOK == /\ sent \in 0..MaxMessages
             /\ place \in [Messages -> Places]
             /\ bus \in {"up", "stopping", "off"}
             /\ faults \in 0..MaxFaults

BusInit == /\ sent = 0
           /\ place = [m \in Messages |-> "unsent"]
           /\ bus = "up"
           /\ faults = 0

Fault == faults < MaxFaults /\ faults' = faults + 1

Put(m, p) == place' = [place EXCEPT ![m] = p]
Head(m, p) == place[m] = p /\ \A n \in At(p) : m <= n

-----------------------------------------------------------------------------

\* PUBLISH: the subscribers of the moment get it, or nobody does.
Send ==
  /\ sent < MaxMessages
  /\ sent' = sent + 1
  /\ Put(sent + 1, IF bus = "up" THEN "wire" ELSE "lost")

\* The connection breaks: what was on the wire is not sent again, except for
\* what the reading goroutine has already.
Disconnect ==
  /\ Fault
  /\ \E kept \in {{}} \union {{m} : m \in {n \in Messages : Head(n, "wire")}} :
       /\ At("wire") # kept
       /\ place' = [m \in Messages |-> IF m \in At("wire") \ kept THEN "lost"
                                       ELSE place[m]]
  /\ UNCHANGED <<sent, bus>>

HasRoom == Cardinality(At("buffer")) < Workers

Enqueue(m) ==
  /\ Head(m, "wire")
  /\ HasRoom
  /\ Put(m, "buffer")
  /\ UNCHANGED <<sent, bus, faults>>

\* A slip: the reading goroutine waits for a place for as long as it takes.
TimeOutNever(m) == FALSE /\ UNCHANGED <<busVars, m>>

\* Five seconds without a place: the event becomes a dead letter, unless the
\* push fails, as it does under the bus' cancelled context.
TimeOut(m) ==
  /\ Head(m, "wire")
  /\ ~HasRoom
  /\ \/ bus = "up" /\ Put(m, "dead") /\ UNCHANGED faults
     \/ bus = "stopping" /\ Put(m, "lost") /\ UNCHANGED faults
     \/ bus = "up" /\ Put(m, "lost") /\ Fault
  /\ UNCHANGED <<sent, bus>>

\* A slip: the channel is not read in order.
TakeAny(m) ==
  /\ Cardinality(Busy) < Workers
  /\ place[m] = "buffer"
  /\ Put(m, "working")
  /\ UNCHANGED <<sent, bus, faults>>

Take(m) ==
  /\ Cardinality(Busy) < Workers
  /\ Head(m, "buffer")
  /\ Put(m, "working")
  /\ UNCHANGED <<sent, bus, faults>>

\* dispatch: the handlers of the type, then those of every type.
Dispatch(m) ==
  /\ place[m] = "working"
  /\ Put(m, "done")
  /\ UNCHANGED <<sent, bus, faults>>

Hang(m) ==
  /\ place[m] = "working"
  /\ Put(m, "stuck")
  /\ UNCHANGED <<sent, bus, faults>>

Stop ==
  /\ bus = "up"
  /\ Fault
  /\ bus' = "stopping"
  /\ UNCHANGED <<sent, place>>

\* The process ends, on its own or once it was stopped: the goroutines
\* leave in any order and nobody waits for them.  What had arrived is gone.
Exit ==
  /\ \/ bus = "stopping" /\ UNCHANGED faults
     \/ bus = "up" /\ Fault
  /\ bus' = "off"
  /\ place' = [m \in Messages |-> IF place[m] \in Waiting \union Dispatching
                                    THEN "lost" ELSE place[m]]
  /\ UNCHANGED sent

Restart ==
  /\ bus = "off"
  /\ bus' = "up"
  /\ UNCHANGED <<sent, place, faults>>

\* What a message goes through while nothing fails.
Bus(m) == Enqueue(m) \/ TimeOut(m) \/ Take(m) \/ Dispatch(m)

BusStep == Disconnect \/ Stop \/ \E m \in Messages : Bus(m) \/ Hang(m)

-----------------------------------------------------------------------------

\* The channel and the crew keep their size, and messages are sent in turn.
WithinBounds == /\ Cardinality(At("buffer")) <= Workers
                /\ Cardinality(Busy) <= Workers
                /\ \A m \in Messages : place[m] = "unsent" <=> m > sent

\* Events are handed to the workers in the order Redis took them: what is
\* still waiting is younger than whatever a worker has had.  Eight workers may
\* finish in another order, so an event is overtaken by workers only.
HandedInOrder ==
  \A m, n \in Messages :
    m < n /\ place[n] \in Dispatching \union {"done"} => place[m] \notin Waiting

\* What that needs to be inductive: what is on the wire is younger than what is
\* in the channel.
StagesInOrder ==
  \A m, n \in Messages :
    m < n /\ place[n] = "buffer" => place[m] # "wire"

BusInv == WithinBounds /\ HandedInOrder /\ StagesInOrder

\* No event waits for ever: it is dispatched, or becomes a dead letter, or is
\* lost with the process or the connection.  A handler that hangs keeps its own
\* event; only when all workers hang do they keep those in the channel too, and
\* even then the reading goroutine goes on.
EveryEventSettles ==
  \A m \in Messages : place[m] = "wire" ~>
    \/ place[m] \in Settled \union {"stuck"}
    \/ place[m] = "buffer" /\ Cardinality(At("stuck")) = Workers
=============================================================================
