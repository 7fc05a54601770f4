------------------------- MODULE OutboxRelayProofs -------------------------
(***************************************************************************)
(* Proofs about OutboxRelay, and with it about EventBus, for any number of *)
(* messages, workers, rows and retries: IInv is inductive.                 *)
(***************************************************************************)
EXTENDS OutboxRelay, FiniteSetTheorems, WellFoundedInduction, TLAPS

LEMMA SmallestOf ==
  ASSUME NEW S, S \subseteq Nat, S # {}
  PROVE  \E x \in S : \A y \in S : x <= y
<1> DEFINE R == OpToRel(<, Nat)
<1>1. \E x \in S : \A y \in S : ~ (<<y, x>> \in R)
  <2>1. IsWellFoundedOn(R, Nat)
    BY NatLessThanWellFounded
  <2> HIDE DEF R
  <2> QED  BY <2>1, WFMin
<1>2. \A x, y \in Nat : x < y => <<x, y>> \in R
  BY DEF OpToRel
<1> HIDE DEF R
<1>3. PICK x \in S : \A y \in S : ~ (<<y, x>> \in R)
  BY <1>1
<1>4. \A y \in S : ~(y < x)
  BY <1>2, <1>3, Zenon
<1> QED  BY <1>4

LEMMA MessagesFinite ==
  /\ IsFiniteSet(Messages)
  /\ Messages \subseteq Nat
  /\ \A S \in SUBSET Messages : IsFiniteSet(S) /\ Cardinality(S) \in Nat
<1>1. IsFiniteSet(Messages)
  BY FS_Interval, BusAssumption DEF Messages
<1>2. ASSUME NEW S \in SUBSET Messages
      PROVE  IsFiniteSet(S) /\ Cardinality(S) \in Nat
  <2>1. IsFiniteSet(S)
    BY <1>1, FS_Subset
  <2> QED  BY <2>1, FS_CardinalityType
<1> QED  BY <1>1, <1>2 DEF Messages

\* A place that a message may only leave does not fill up.
LEMMA NoFuller ==
  ASSUME NEW S \in SUBSET Messages, NEW T \in SUBSET S, Cardinality(S) <= Workers
  PROVE  Cardinality(T) <= Workers
<1>1. IsFiniteSet(S) /\ Cardinality(S) \in Nat
  BY MessagesFinite
<1>2. Cardinality(T) <= Cardinality(S)
  BY <1>1, FS_Subset
<1>3. Cardinality(T) \in Nat
  BY MessagesFinite
<1> QED  BY <1>1, <1>2, <1>3, BusAssumption

\* A place with room for one may take one.
LEMMA RoomForOne ==
  ASSUME NEW S \in SUBSET Messages, NEW T, NEW m, T \subseteq S \union {m}, m \in Messages,
         Cardinality(S) < Workers
  PROVE  Cardinality(T) <= Workers
<1>1. IsFiniteSet(S) /\ Cardinality(S) \in Nat
  BY MessagesFinite
<1>2. /\ IsFiniteSet(S \union {m})
      /\ Cardinality(S \union {m}) = IF m \in S THEN Cardinality(S) ELSE Cardinality(S) + 1
  BY <1>1, FS_AddElement
<1>3. Cardinality(S \union {m}) <= Workers
  BY <1>1, <1>2, BusAssumption
<1>4. S \union {m} \in SUBSET Messages
  OBVIOUS
<1> HIDE DEF Messages
<1> QED  BY <1>3, <1>4, NoFuller

\* BusInv once its parts are known.
LEMMA BusParts ==
  ASSUME TypeOK, BusInv, BusTypeOK',
         \A m \in Messages : place'[m] = "unsent" <=> m > sent',
         Cardinality(At("buffer")') <= Workers,
         Cardinality(Busy') <= Workers,
         HandedInOrder', StagesInOrder'
  PROVE  BusInv'
BY DEF BusInv, WithinBounds

-----------------------------------------------------------------------------
(* The bus.  BusTypeOK and BusInv are about its own variables only. *)

\* A step that only takes messages out of the game.
LEMMA OnlyEnding ==
  ASSUME TypeOK, BusInv, BusTypeOK', sent' = sent,
         \A m \in Messages : \/ place'[m] = place[m]
                             \/ place[m] # "unsent" /\ place'[m] \in {"lost", "dead"}
  PROVE  BusInv'
<1> USE DEF TypeOK, BusInv
<1>1. \A m \in Messages : place'[m] = "unsent" <=> m > sent'
  BY DEF WithinBounds
<1>2. Cardinality(At("buffer")') <= Workers
  <2>1. At("buffer") \in SUBSET Messages /\ At("buffer")' \in SUBSET At("buffer")
    BY DEF At
  <2> QED  BY <2>1, NoFuller DEF WithinBounds
<1>3. Cardinality(Busy') <= Workers
  <2>1. Busy \in SUBSET Messages /\ Busy' \in SUBSET Busy
    BY DEF At, Busy
  <2> QED  BY <2>1, NoFuller DEF WithinBounds
<1>4. HandedInOrder'
  BY DEF HandedInOrder, Waiting, Dispatching
<1>5. StagesInOrder'
  BY DEF StagesInOrder
<1> QED  BY <1>1, <1>2, <1>3, <1>4, <1>5, BusParts

LEMMA SendStep ==
  ASSUME TypeOK, BusInv, Send, bus' = bus, faults' \in 0..MaxFaults
  PROVE  BusTypeOK' /\ BusInv'
<1> USE DEF TypeOK, BusInv
<1>1. /\ sent \in Nat /\ sent' = sent + 1 /\ sent + 1 \in Messages /\ Messages \subseteq Nat
      /\ place[sent + 1] = "unsent"
  BY BusAssumption DEF Send, BusTypeOK, Messages, WithinBounds
<1>2. /\ place' \in [Messages -> Places] /\ place'[sent + 1] \in {"wire", "lost"}
      /\ \A m \in Messages \ {sent + 1} : place'[m] = place[m]
  BY <1>1 DEF Send, Put, BusTypeOK, Places, Waiting, Settled
<1>3. BusTypeOK'
  BY <1>2, BusAssumption DEF Send, BusTypeOK
<1>4. \A m \in Messages : place'[m] = "unsent" <=> m > sent'
  BY <1>1, <1>2 DEF WithinBounds
<1>5. At("buffer")' = At("buffer") /\ Busy' = Busy
  BY <1>1, <1>2 DEF At, Busy
<1>6. HandedInOrder'
  <2>1. SUFFICES ASSUME NEW m \in Messages, NEW n \in Messages, m < n,
                        place'[n] \in Dispatching \union {"done"}
                 PROVE  place'[m] \notin Waiting
    BY DEF HandedInOrder
  <2>2. n # sent + 1 /\ place[n] = place'[n]
    BY <1>2, <2>1 DEF Dispatching
  <2>3. ~(n > sent)
    BY <2>1, <2>2 DEF WithinBounds, Dispatching
  <2>4. m # sent + 1
    BY <1>1, <2>1, <2>3
  <2> QED  BY <1>2, <2>1, <2>2, <2>4 DEF HandedInOrder
<1>7. StagesInOrder'
  <2>1. SUFFICES ASSUME NEW m \in Messages, NEW n \in Messages, m < n, place'[n] = "buffer"
                 PROVE  place'[m] # "wire"
    BY DEF StagesInOrder
  <2>2. n # sent + 1 /\ place[n] = "buffer"
    BY <1>2, <2>1
  <2>3. ~(n > sent)
    BY <2>2 DEF WithinBounds
  <2>4. m # sent + 1
    BY <1>1, <2>1, <2>3
  <2> QED  BY <1>2, <2>1, <2>2, <2>4 DEF StagesInOrder
<1> QED  BY <1>3, <1>4, <1>5, <1>6, <1>7, BusParts DEF WithinBounds

LEMMA DisconnectStep ==
  ASSUME TypeOK, BusInv, Disconnect
  PROVE  BusTypeOK' /\ BusInv'
<1> USE DEF TypeOK, BusInv
<1>1. \A m \in Messages : place'[m] = place[m] \/ (place[m] = "wire" /\ place'[m] = "lost")
  BY DEF Disconnect, At
<1>2. place' \in [Messages -> Places]
  BY DEF Disconnect, BusTypeOK, Places, Settled
<1>3. BusTypeOK' /\ sent' = sent
  BY <1>2, BusAssumption DEF Disconnect, BusTypeOK, Fault
<1> QED  BY <1>1, <1>3, OnlyEnding

LEMMA EnqueueStep ==
  ASSUME TypeOK, BusInv, NEW m \in Messages, Enqueue(m)
  PROVE  BusTypeOK' /\ BusInv'
<1> USE DEF TypeOK, BusInv
<1>1. /\ place[m] = "wire" /\ place'[m] = "buffer"
      /\ \A n \in Messages \ {m} : place'[n] = place[n]
      /\ place' \in [Messages -> Places] /\ UNCHANGED <<sent, bus, faults>>
  BY DEF Enqueue, Head, Put, BusTypeOK, Places, Waiting
<1>2. BusTypeOK'
  BY <1>1 DEF BusTypeOK
<1>3. \A n \in Messages : place'[n] = "unsent" <=> n > sent'
  BY <1>1 DEF WithinBounds
<1>4. Cardinality(At("buffer")') <= Workers
  <2>1. At("buffer") \in SUBSET Messages /\ At("buffer")' \subseteq At("buffer") \union {m}
    BY <1>1 DEF At
  <2>2. Cardinality(At("buffer")) < Workers
    BY DEF Enqueue, HasRoom
  <2> QED  BY <2>1, <2>2, RoomForOne
<1>5. Busy' = Busy
  BY <1>1 DEF At, Busy
<1>6. HandedInOrder'
  BY <1>1 DEF HandedInOrder, Waiting, Dispatching
<1>7. StagesInOrder'
  <2>1. \A n \in Messages : place[n] = "wire" => m <= n
    BY DEF Enqueue, Head, At
  <2>2. Messages \subseteq Nat
    BY MessagesFinite
  <2> QED  BY <1>1, <2>1, <2>2 DEF StagesInOrder
<1> QED  BY <1>2, <1>3, <1>4, <1>5, <1>6, <1>7, BusParts DEF WithinBounds

LEMMA TimeOutStep ==
  ASSUME TypeOK, BusInv, NEW m \in Messages, TimeOut(m)
  PROVE  BusTypeOK' /\ BusInv'
<1> USE DEF TypeOK, BusInv
<1>1. /\ place[m] = "wire" /\ place'[m] \in {"dead", "lost"}
      /\ \A n \in Messages \ {m} : place'[n] = place[n]
      /\ place' \in [Messages -> Places] /\ UNCHANGED <<sent, bus>>
  BY DEF TimeOut, Head, Put, BusTypeOK, Places, Settled
<1>2. BusTypeOK'
  BY <1>1, BusAssumption DEF TimeOut, Fault, BusTypeOK
<1> QED  BY <1>1, <1>2, OnlyEnding

LEMMA TakeStep ==
  ASSUME TypeOK, BusInv, NEW m \in Messages, Take(m)
  PROVE  BusTypeOK' /\ BusInv'
<1> USE DEF TypeOK, BusInv
<1>1. /\ place[m] = "buffer" /\ place'[m] = "working"
      /\ \A n \in Messages \ {m} : place'[n] = place[n]
      /\ place' \in [Messages -> Places] /\ UNCHANGED <<sent, bus, faults>>
  BY DEF Take, Head, Put, BusTypeOK, Places, Dispatching
<1>2. BusTypeOK'
  BY <1>1 DEF BusTypeOK
<1>3. \A n \in Messages : place'[n] = "unsent" <=> n > sent'
  BY <1>1 DEF WithinBounds
<1>4. Cardinality(At("buffer")') <= Workers
  <2>1. At("buffer") \in SUBSET Messages /\ At("buffer")' \in SUBSET At("buffer")
    BY <1>1 DEF At
  <2> QED  BY <2>1, NoFuller DEF WithinBounds
<1>5. Cardinality(Busy') <= Workers
  <2>1. Busy \in SUBSET Messages /\ Busy' \subseteq Busy \union {m}
    BY <1>1 DEF At, Busy
  <2>2. Cardinality(Busy) < Workers
    BY DEF Take
  <2> QED  BY <2>1, <2>2, RoomForOne
<1>6. HandedInOrder'
  <2>1. \A n \in Messages : place[n] = "buffer" => m <= n
    BY DEF Take, Head, At
  <2>2. Messages \subseteq Nat
    BY MessagesFinite
  <2>3. \A n \in Messages : n < m => place[n] \notin Waiting
    BY <1>1, <2>1, <2>2 DEF StagesInOrder, Waiting
  <2> QED  BY <1>1, <2>3 DEF HandedInOrder, Waiting, Dispatching
<1>7. StagesInOrder'
  BY <1>1 DEF StagesInOrder
<1> QED  BY <1>2, <1>3, <1>4, <1>5, <1>6, <1>7, BusParts

LEMMA DispatchStep ==
  ASSUME TypeOK, BusInv, NEW m \in Messages, Dispatch(m) \/ Hang(m)
  PROVE  BusTypeOK' /\ BusInv'
<1> USE DEF TypeOK, BusInv
<1>1. /\ place[m] = "working" /\ place'[m] \in {"done", "stuck"}
      /\ \A n \in Messages \ {m} : place'[n] = place[n]
      /\ place' \in [Messages -> Places] /\ UNCHANGED <<sent, bus, faults>>
  BY DEF Dispatch, Hang, Put, BusTypeOK, Places, Dispatching, Settled
<1>2. BusTypeOK'
  BY <1>1 DEF BusTypeOK
<1>3. \A n \in Messages : place'[n] = "unsent" <=> n > sent'
  BY <1>1 DEF WithinBounds
<1>4. Cardinality(At("buffer")') <= Workers
  <2>1. At("buffer") \in SUBSET Messages /\ At("buffer")' \in SUBSET At("buffer")
    BY <1>1 DEF At
  <2> QED  BY <2>1, NoFuller DEF WithinBounds
<1>5. Cardinality(Busy') <= Workers
  <2>1. Busy \in SUBSET Messages /\ Busy' \in SUBSET Busy
    BY <1>1 DEF At, Busy
  <2> QED  BY <2>1, NoFuller DEF WithinBounds
<1>6. HandedInOrder' /\ StagesInOrder'
  BY <1>1 DEF HandedInOrder, StagesInOrder, Waiting, Dispatching
<1> QED  BY <1>2, <1>3, <1>4, <1>5, <1>6, BusParts

LEMMA ExitStep ==
  ASSUME TypeOK, BusInv, Exit
  PROVE  BusTypeOK' /\ BusInv'
<1> USE DEF TypeOK, BusInv
<1>1. \A m \in Messages : \/ place'[m] = place[m]
                          \/ place[m] # "unsent" /\ place'[m] = "lost"
  BY DEF Exit, Waiting, Dispatching
<1>2. place' \in [Messages -> Places]
  BY DEF Exit, BusTypeOK, Places, Settled
<1>3. BusTypeOK' /\ sent' = sent
  BY <1>2, BusAssumption DEF Exit, BusTypeOK, Fault
<1> QED  BY <1>1, <1>3, OnlyEnding

LEMMA SwitchStep ==
  ASSUME TypeOK, BusInv, Stop \/ Restart
  PROVE  BusTypeOK' /\ BusInv'
<1> USE DEF TypeOK, BusInv
<1>1. UNCHANGED <<sent, place>>
  BY DEF Stop, Restart
<1>2. BusTypeOK'
  BY <1>1, BusAssumption DEF Stop, Restart, Fault, BusTypeOK
<1> QED  BY <1>1, <1>2, OnlyEnding

LEMMA BusUntouched ==
  ASSUME TypeOK, BusInv, UNCHANGED <<sent, place, bus>>, faults' \in 0..MaxFaults
  PROVE  BusTypeOK' /\ BusInv'
<1>1. BusTypeOK'
  BY DEF TypeOK, BusTypeOK
<1> QED  BY <1>1, OnlyEnding

-----------------------------------------------------------------------------
(* The outbox *)

OutboxTypeOK == /\ row \in [Rows -> {"none", "pending", "published", "gone"}]
                /\ retries \in [Rows -> 0..MaxRetries]
                /\ at \in {"asleep", "publish", "mark"}
                /\ batch \subseteq Rows
                /\ ids \subseteq Rows
                /\ relayed \subseteq Rows

LEMMA OutboxUntouched ==
  ASSUME IInv, UNCHANGED outboxVars
  PROVE  OutboxTypeOK' /\ MarkedWasPublished' /\ RelayInv'
<1>1. UNCHANGED <<row, retries, at, batch, ids, relayed>>
  BY DEF outboxVars, relayVars
<1> QED  BY <1>1 DEF IInv, TypeOK, OutboxTypeOK, MarkedWasPublished, RelayInv

LEMMA BothParts ==
  ASSUME BusTypeOK', BusInv', OutboxTypeOK', MarkedWasPublished', RelayInv'
  PROVE  IInv'
BY DEF IInv, TypeOK, OutboxTypeOK

LEMMA CommitStep ==
  ASSUME IInv, NEW e \in Rows, Commit(e)
  PROVE  IInv'
<1> USE DEF IInv
<1>1. /\ row[e] = "none" /\ row' = [row EXCEPT ![e] = "pending"]
      /\ UNCHANGED <<sent, place, bus, faults, retries, at, batch, ids, relayed>>
  BY DEF Commit, busVars, relayVars
<1>2. BusTypeOK' /\ BusInv'
  BY <1>1, BusUntouched DEF TypeOK, BusTypeOK
<1>3. OutboxTypeOK' /\ MarkedWasPublished' /\ RelayInv'
  BY <1>1 DEF TypeOK, OutboxTypeOK, MarkedWasPublished, RelayInv
<1> QED  BY <1>2, <1>3, BothParts

LEMMA CleanupStep ==
  ASSUME IInv, NEW e \in Rows, Cleanup(e)
  PROVE  IInv'
<1> USE DEF IInv
<1>1. /\ row[e] = "published" /\ row' = [row EXCEPT ![e] = "gone"]
      /\ UNCHANGED <<sent, place, bus, faults, retries, at, batch, ids, relayed>>
  BY DEF Cleanup, busVars, relayVars
<1>2. BusTypeOK' /\ BusInv'
  BY <1>1, BusUntouched DEF TypeOK, BusTypeOK
<1>3. OutboxTypeOK' /\ MarkedWasPublished' /\ RelayInv'
  BY <1>1 DEF TypeOK, OutboxTypeOK, MarkedWasPublished, RelayInv
<1> QED  BY <1>2, <1>3, BothParts

\* The batch is not empty: the oldest of the rows to publish is in it.
LEMMA FetchStep ==
  ASSUME IInv, FetchUnpublished
  PROVE  IInv'
<1> USE DEF IInv
<1>1. /\ at = "asleep" /\ at' = "publish" /\ Unpublished # {}
      /\ batch' = {e \in Unpublished : Cardinality({f \in Unpublished : f < e}) < BatchSize}
      /\ UNCHANGED <<sent, place, bus, faults, row, retries, ids, relayed>>
  BY DEF FetchUnpublished, busVars
<1>2. BusTypeOK' /\ BusInv'
  BY <1>1, BusUntouched DEF TypeOK, BusTypeOK
<1>3. Unpublished \subseteq Rows /\ Unpublished \subseteq Nat
  BY DEF Unpublished, Rows
<1>4. batch' # {}
  <2>1. PICK e \in Unpublished : \A f \in Unpublished : e <= f
    BY <1>1, <1>3, SmallestOf
  <2>2. {f \in Unpublished : f < e} = {}
    <3>1. \A f \in Unpublished : f \in Nat /\ e \in Nat /\ e <= f
      BY <1>3, <2>1
    <3>2. \A f \in Unpublished : ~(f < e)
      BY <3>1
    <3> QED  BY <3>2, Zenon
  <2>3. Cardinality({f \in Unpublished : f < e}) < BatchSize
    BY <2>2, FS_EmptySet, OutboxAssumption
  <2> QED  BY <1>1, <2>3
<1>5. \A e \in batch' : row[e] = "pending" /\ retries[e] < MaxRetries
  BY <1>1 DEF Unpublished
<1>6. batch' \subseteq Rows
  BY <1>1, <1>3
<1>7. OutboxTypeOK' /\ MarkedWasPublished'
  BY <1>1, <1>6 DEF TypeOK, OutboxTypeOK, MarkedWasPublished
<1>8. RelayInv'
  <2>1. ids = {} /\ ids' = {}
    BY <1>1 DEF RelayInv
  <2> QED  BY <1>1, <1>4, <1>5, <2>1 DEF RelayInv
<1> QED  BY <1>2, <1>7, <1>8, BothParts

\* What a turn of the loop leaves, whether the event was published or not.
LEMMA TurnStep ==
  ASSUME IInv, NEW e \in Rows, Try(e), UNCHANGED row,
         \/ /\ relayed' = relayed \union {e} /\ ids' = ids \union {e} /\ UNCHANGED retries
         \/ /\ relayed' \in {relayed, relayed \union {e}} /\ UNCHANGED ids
            /\ \/ retries' = [retries EXCEPT ![e] = @ + 1]
               \/ UNCHANGED retries
  PROVE  OutboxTypeOK' /\ MarkedWasPublished' /\ RelayInv'
<1> USE DEF IInv
<1>1. /\ e \in batch /\ batch' = batch \ {e}
      /\ at' = (IF batch' = {} THEN "mark" ELSE "publish") /\ at = "publish"
  BY DEF Try
<1>2. row[e] = "pending" /\ retries[e] < MaxRetries /\ e \notin ids
  BY <1>1 DEF RelayInv
<1>3. /\ retries' \in [Rows -> 0..MaxRetries]
      /\ \A f \in Rows \ {e} : retries'[f] = retries[f]
  BY <1>2, OutboxAssumption DEF TypeOK
<1>4. OutboxTypeOK'
  BY <1>1, <1>3 DEF TypeOK, OutboxTypeOK
<1>5. MarkedWasPublished'
  BY DEF MarkedWasPublished
<1>6. RelayInv'
  <2>1. ids' \subseteq relayed'
    BY DEF RelayInv
  <2>2. ids' \intersect batch' = {}
    BY <1>1 DEF RelayInv
  <2>3. \A f \in batch' : row'[f] = "pending" /\ retries'[f] < MaxRetries
    BY <1>1, <1>3 DEF RelayInv, TypeOK
  <2>4. \A f \in ids' : row'[f] = "pending"
    BY <1>2 DEF RelayInv
  <2>5. at' \in {"mark", "publish"} /\ (at' = "mark" <=> batch' = {})
    BY <1>1
  <2> QED  BY <2>1, <2>2, <2>3, <2>4, <2>5 DEF RelayInv
<1> QED  BY <1>4, <1>5, <1>6

LEMMA PublishStep ==
  ASSUME IInv, NEW e \in Rows, PublishEvent(e)
  PROVE  IInv'
<1> USE DEF IInv
<1>1. BusTypeOK' /\ BusInv'
  BY SendStep DEF PublishEvent, TypeOK, BusTypeOK
<1>2. OutboxTypeOK' /\ MarkedWasPublished' /\ RelayInv'
  BY TurnStep DEF PublishEvent
<1> QED  BY <1>1, <1>2, BothParts

LEMMA PublishErrorStep ==
  ASSUME IInv, NEW e \in Rows, PublishError(e)
  PROVE  IInv'
<1> USE DEF IInv
<1>1. bus' = bus /\ faults' \in 0..MaxFaults
  BY BusAssumption DEF PublishError, Fault, TypeOK, BusTypeOK
<1>2. Send \/ UNCHANGED <<sent, place>>
  BY DEF PublishError
<1>3. BusTypeOK' /\ BusInv'
  BY <1>1, <1>2, SendStep, BusUntouched
<1>4. OutboxTypeOK' /\ MarkedWasPublished' /\ RelayInv'
  BY TurnStep DEF PublishError
<1> QED  BY <1>3, <1>4, BothParts

LEMMA MarkStep ==
  ASSUME IInv, BatchMarkPublished
  PROVE  IInv'
<1> USE DEF IInv
<1>1. /\ at = "mark" /\ at' = "asleep" /\ ids' = {}
      /\ UNCHANGED <<sent, place, bus, retries, batch, relayed>>
  BY DEF BatchMarkPublished
<1>2. /\ row' \in [Rows -> {"none", "pending", "published", "gone"}]
      /\ \A e \in Rows : row'[e] = row[e] \/ (e \in ids /\ row'[e] = "published")
  BY DEF BatchMarkPublished, TypeOK
<1>3. faults' \in 0..MaxFaults
  BY BusAssumption DEF BatchMarkPublished, Fault, TypeOK, BusTypeOK
<1>4. BusTypeOK' /\ BusInv'
  BY <1>1, <1>3, BusUntouched
<1>5. OutboxTypeOK'
  BY <1>1, <1>2 DEF TypeOK, OutboxTypeOK
<1>6. MarkedWasPublished'
  BY <1>1, <1>2 DEF MarkedWasPublished, RelayInv
<1>7. RelayInv'
  <2>1. batch = {} /\ batch' = {}
    BY <1>1 DEF RelayInv
  <2> QED  BY <1>1, <2>1 DEF RelayInv
<1> QED  BY <1>4, <1>5, <1>6, <1>7, BothParts

LEMMA ProcessEndsStep ==
  ASSUME IInv, ProcessEnds
  PROVE  IInv'
<1> USE DEF IInv
<1>1. /\ at' = "asleep" /\ batch' = {} /\ ids' = {}
      /\ UNCHANGED <<row, retries, relayed>>
  BY DEF ProcessEnds
<1>2. BusTypeOK' /\ BusInv'
  BY ExitStep DEF ProcessEnds
<1>3. OutboxTypeOK' /\ MarkedWasPublished' /\ RelayInv'
  BY <1>1 DEF TypeOK, OutboxTypeOK, MarkedWasPublished, RelayInv
<1> QED  BY <1>2, <1>3, BothParts

-----------------------------------------------------------------------------
(* Theorems *)

LEMMA InitIInv == Init => IInv
<1> SUFFICES ASSUME Init
             PROVE  IInv
  OBVIOUS
<1> USE DEF Init, BusInit
<1>1. TypeOK
  BY BusAssumption, OutboxAssumption DEF TypeOK, BusTypeOK, Places
<1>2. At("buffer") = {} /\ Busy = {}
  BY DEF At, Busy
<1>3. WithinBounds
  <2>1. Cardinality(At("buffer")) = 0 /\ Cardinality(Busy) = 0
    BY <1>2, FS_EmptySet
  <2>2. \A m \in Messages : place[m] = "unsent" <=> m > sent
    BY BusAssumption DEF Messages
  <2> QED  BY <2>1, <2>2, BusAssumption DEF WithinBounds
<1>4. BusInv
  BY <1>3 DEF BusInv, HandedInOrder, StagesInOrder, Dispatching
<1>5. MarkedWasPublished /\ RelayInv
  BY DEF MarkedWasPublished, RelayInv
<1> QED  BY <1>1, <1>4, <1>5 DEF IInv

LEMMA NextIInv == IInv /\ [Next]_vars => IInv'
<1> SUFFICES ASSUME IInv, [Next]_vars
             PROVE  IInv'
  OBVIOUS
<1>1. CASE PublishDirect
  <2>1. BusTypeOK' /\ BusInv'
    BY <1>1, SendStep DEF PublishDirect, IInv, TypeOK, BusTypeOK
  <2>2. OutboxTypeOK' /\ MarkedWasPublished' /\ RelayInv'
    BY <1>1, OutboxUntouched DEF PublishDirect
  <2> QED  BY <2>1, <2>2, BothParts
<1>2. CASE Relay
  BY <1>2, FetchStep, MarkStep, PublishStep, PublishErrorStep DEF Relay
<1>3. CASE ProcessEnds
  BY <1>3, ProcessEndsStep
<1>4. CASE (BusStep \/ Restart) /\ UNCHANGED outboxVars
  <2>1. BusTypeOK' /\ BusInv'
    BY <1>4, DisconnectStep, SwitchStep, EnqueueStep, TimeOutStep, TakeStep, DispatchStep
       DEF BusStep, Bus, IInv
  <2>2. OutboxTypeOK' /\ MarkedWasPublished' /\ RelayInv'
    BY <1>4, OutboxUntouched
  <2> QED  BY <2>1, <2>2, BothParts
<1>5. ASSUME NEW e \in Rows, Commit(e) \/ Cleanup(e)
      PROVE  IInv'
  BY <1>5, CommitStep, CleanupStep
<1>6. CASE UNCHANGED vars
  <2>1. BusTypeOK' /\ BusInv'
    BY <1>6, BusUntouched DEF vars, busVars, IInv, TypeOK, BusTypeOK
  <2>2. OutboxTypeOK' /\ MarkedWasPublished' /\ RelayInv'
    BY <1>6, OutboxUntouched DEF vars
  <2> QED  BY <2>1, <2>2, BothParts
<1> QED  BY <1>1, <1>2, <1>3, <1>4, <1>5, <1>6 DEF Next

\* The channel and the crew keep their size, events are handed out in order,
\* and a row is marked only after Redis took its message, for any number of
\* workers, messages, rows and retries (bus.go:97-156, outbox_relay.go:78-111).
THEOREM RelayInvariance == Spec => []IInv
<1>1. Init => IInv
  BY InitIInv
<1>2. IInv /\ [Next]_vars => IInv'
  BY NextIInv
<1> QED  BY <1>1, <1>2, PTL DEF Spec

\* No event that a worker has had is younger than one that still waits.
THEOREM HandsInOrder == Spec => []HandedInOrder
<1>1. IInv => HandedInOrder
  BY DEF IInv, BusInv
<1> QED  BY <1>1, RelayInvariance, PTL

\* A row that says published, or was cleaned up as such, was published.
THEOREM AtLeastOnce == Spec => []MarkedWasPublished
<1>1. IInv => MarkedWasPublished
  BY DEF IInv
<1> QED  BY <1>1, RelayInvariance, PTL
-----------------------------------------------------------------------------
(* The refinement of EventDelivery *)

LEMMA FateFacts ==
  ASSUME TypeOK, NEW m \in Messages
  PROVE  /\ Fate[m] = "waiting" <=> place[m] \in Waiting
         /\ Fate[m] = "handed" <=> place[m] \in Dispatching
<1>1. place[m] \in Places
  BY DEF TypeOK, BusTypeOK
<1> QED  BY <1>1 DEF Fate, SeenAs, Places, Waiting, Dispatching, Settled

\* A step that moves one message, seen from outside.
LEMMA FateOfOne ==
  ASSUME NEW m \in Messages, \A n \in Messages \ {m} : place'[n] = place[n]
  PROVE  Fate' = [Fate EXCEPT ![m] = SeenAs(place'[m])]
BY DEF Fate

LEMMA SendRefines ==
  ASSUME TypeOK, BusInv, Send
  PROVE  ED!Publish
<1>1. sent + 1 \in Messages /\ sent' = sent + 1 /\ sent < MaxMessages
  BY BusAssumption DEF Send, TypeOK, BusTypeOK, Messages
<1>2. /\ place'[sent + 1] \in {"wire", "lost"}
      /\ \A m \in Messages \ {sent + 1} : place'[m] = place[m]
  BY <1>1 DEF Send, Put, TypeOK, BusTypeOK
<1>3. SeenAs(place'[sent + 1]) \in {"waiting", "lost"}
  BY <1>2 DEF SeenAs, Waiting, Dispatching
<1>4. Fate' = [Fate EXCEPT ![sent + 1] = SeenAs(place'[sent + 1])]
  BY <1>1, <1>2, FateOfOne
<1> QED  BY <1>1, <1>3, <1>4 DEF ED!Publish

LEMMA BusStepRefines ==
  ASSUME TypeOK, BusInv, BusStep \/ Restart \/ Exit, UNCHANGED <<row, relayed>>
  PROVE  [ED!DeliveryNext]_(ED!deliveryVars)
<1> USE DEF TypeOK, BusTypeOK
<1>0. ED!Messages = Messages
  BY DEF ED!Messages, Messages
<1>1. ASSUME NEW m \in Messages, Enqueue(m) \/ Hang(m)
      PROVE  UNCHANGED ED!deliveryVars
  <2>1. /\ sent' = sent
        /\ \A n \in Messages \ {m} : place'[n] = place[n]
        /\ \/ place[m] = "wire" /\ place'[m] = "buffer"
           \/ place[m] = "working" /\ place'[m] = "stuck"
    BY <1>1 DEF Enqueue, Hang, Head, Put
  <2>2. Fate' = Fate
    <3>1. SeenAs(place'[m]) = SeenAs(place[m])
      BY <2>1 DEF SeenAs, Waiting, Dispatching
    <3> QED  BY <2>1, <3>1 DEF Fate
  <2> QED  BY <2>1, <2>2 DEF ED!deliveryVars
<1>2. ASSUME NEW m \in Messages, Take(m)
      PROVE  ED!HandOver(m)
  <2>1. /\ place[m] = "buffer" /\ place'[m] = "working" /\ sent' = sent
        /\ \A n \in Messages \ {m} : place'[n] = place[n]
        /\ \A n \in Messages : place[n] = "buffer" => m <= n
    BY <1>2 DEF Take, Head, Put, At
  <2>2. ASSUME NEW n \in Messages, Fate[n] = "waiting"
        PROVE  m <= n
    <3>1. place[n] = "buffer" \/ place[n] = "wire"
      BY <2>2, FateFacts DEF Waiting
    <3>2. CASE place[n] = "wire"
      BY <2>1, <3>2, MessagesFinite DEF BusInv, StagesInOrder
    <3> QED  BY <2>1, <3>1, <3>2
  <2>3. Fate[m] = "waiting" /\ Fate' = [Fate EXCEPT ![m] = "handed"]
    <3>1. SeenAs(place'[m]) = "handed"
      BY <2>1 DEF SeenAs, Waiting, Dispatching
    <3> QED  BY <2>1, <3>1, FateFacts, FateOfOne DEF Waiting
  <2> QED  BY <1>0, <2>1, <2>2, <2>3 DEF ED!HandOver
<1>3. ASSUME NEW m \in Messages, Dispatch(m)
      PROVE  ED!Finish(m)
  <2>1. /\ place[m] = "working" /\ place'[m] = "done" /\ sent' = sent
        /\ \A n \in Messages \ {m} : place'[n] = place[n]
    BY <1>3 DEF Dispatch, Put
  <2>2. Fate[m] = "handed" /\ SeenAs(place'[m]) = "done"
    BY <2>1 DEF Fate, SeenAs, Waiting, Dispatching
  <2> QED  BY <2>1, <2>2, FateOfOne DEF ED!Finish
<1>4. ASSUME NEW m \in Messages, TimeOut(m)
      PROVE  ED!GiveUp(m) \/ ED!Lose({m})
  <2>1. /\ place[m] = "wire" /\ place'[m] \in {"dead", "lost"} /\ sent' = sent
        /\ \A n \in Messages \ {m} : place'[n] = place[n]
    BY <1>4 DEF TimeOut, Head, Put
  <2>2. Fate[m] = "waiting" /\ SeenAs(place'[m]) = place'[m]
    BY <2>1 DEF Fate, SeenAs, Waiting, Dispatching
  <2>3. CASE place'[m] = "dead"
    BY <2>1, <2>2, <2>3, FateOfOne DEF ED!GiveUp
  <2>4. CASE place'[m] = "lost"
    <3>1. Fate' = [n \in Messages |-> IF n \in {m} THEN "lost" ELSE Fate[n]]
      BY <2>1, <2>2, <2>4 DEF Fate
    <3> QED  BY <1>0, <2>1, <2>2, <3>1 DEF ED!Lose, ED!OnTheWay
  <2> QED  BY <2>1, <2>3, <2>4
<1>5. CASE Disconnect \/ Exit
  <2> DEFINE M == {m \in Messages : place'[m] # place[m]}
  <2>1. sent' = sent
    BY <1>5 DEF Disconnect, Exit
  <2>2. \A m \in M : place[m] \in Waiting \union Dispatching /\ place'[m] = "lost"
    BY <1>5 DEF Disconnect, Exit, At, Waiting
  <2>3. M \subseteq ED!OnTheWay
    BY <1>0, <2>2, FateFacts DEF ED!OnTheWay
  <2>4. Fate' = [m \in Messages |-> IF m \in M THEN "lost" ELSE Fate[m]]
    <3>1. \A m \in M : SeenAs(place'[m]) = "lost"
      BY <2>2 DEF SeenAs, Waiting, Dispatching
    <3> QED  BY <3>1 DEF Fate
  <2>5. ED!Lose(M)
    BY <1>0, <2>1, <2>3, <2>4 DEF ED!Lose
  <2> HIDE DEF M
  <2> QED  BY <2>3, <2>5 DEF ED!DeliveryNext
<1>6. CASE Stop \/ Restart
  <2>1. UNCHANGED <<sent, place>>
    BY <1>6 DEF Stop, Restart
  <2> QED  BY <2>1 DEF Fate, ED!deliveryVars
<1>7. ASSUME NEW m \in Messages
      PROVE  /\ ED!HandOver(m) \/ ED!Finish(m) \/ ED!GiveUp(m) => ED!DeliveryNext
             /\ ED!Lose({m}) => ED!DeliveryNext
  BY <1>0 DEF ED!DeliveryNext, ED!Lose
<1> QED  BY <1>1, <1>2, <1>3, <1>4, <1>5, <1>6, <1>7 DEF BusStep, Bus

LEMMA OutboxStepRefines ==
  ASSUME IInv, PublishDirect \/ Relay \/ \E e \in Rows : Commit(e) \/ Cleanup(e)
  PROVE  [ED!DeliveryNext]_(ED!deliveryVars)
<1> USE DEF IInv
<1>1. ASSUME UNCHANGED <<sent, place>>
      PROVE  Fate' = Fate
  BY <1>1 DEF Fate
<1>2. CASE PublishDirect
  BY <1>2, SendRefines DEF PublishDirect, outboxVars, ED!PublishDirect, ED!DeliveryNext
<1>3. ASSUME NEW e \in Rows, PublishEvent(e) \/ PublishError(e), Send
      PROVE  ED!PublishRow(e)
  <2>1. row[e] = "pending" /\ row' = row
    BY <1>3 DEF PublishEvent, PublishError, Try, RelayInv
  <2>2. Send => sent' # sent
    BY DEF Send, TypeOK, BusTypeOK
  <2>3. Send /\ relayed' = relayed \union {e}
    BY <1>3, <2>2 DEF PublishEvent, PublishError
  <2> QED  BY <2>1, <2>3, SendRefines DEF ED!PublishRow
<1>4. ASSUME NEW e \in Rows, PublishError(e), ~Send
      PROVE  UNCHANGED ED!deliveryVars
  <2>1. UNCHANGED <<sent, place, row, relayed>>
    BY <1>4 DEF PublishError
  <2> QED  BY <1>1, <2>1 DEF ED!deliveryVars
<1>5. CASE FetchUnpublished
  BY <1>1, <1>5 DEF FetchUnpublished, busVars, ED!deliveryVars
<1>6. CASE BatchMarkPublished
  <2>1. UNCHANGED <<sent, place, relayed>>
    BY <1>6 DEF BatchMarkPublished
  <2>2. CASE row' = row
    BY <1>1, <2>1, <2>2 DEF ED!deliveryVars
  <2>3. CASE row' = [e \in Rows |-> IF e \in ids THEN "published" ELSE row[e]]
    <3>1. ids \subseteq {e \in relayed : row[e] = "pending"}
      BY DEF RelayInv, TypeOK
    <3> QED  BY <1>1, <2>1, <2>3, <3>1 DEF ED!Mark, ED!DeliveryNext
  <2> QED  BY <1>6, <2>2, <2>3 DEF BatchMarkPublished
<1>7. ASSUME NEW e \in Rows, Commit(e) \/ Cleanup(e)
      PROVE  ED!Commit(e) \/ ED!Forget(e)
  BY <1>1, <1>7 DEF Commit, Cleanup, busVars, ED!Commit, ED!Forget
<1>8. CASE Relay
  <2>1. ASSUME NEW e \in Rows, PublishEvent(e) \/ PublishError(e)
        PROVE  [ED!DeliveryNext]_(ED!deliveryVars)
    <3>1. CASE Send
      BY <1>3, <2>1, <3>1 DEF ED!DeliveryNext
    <3>2. CASE ~Send
      <4>1. PublishError(e)
        BY <2>1, <3>2 DEF PublishEvent
      <4> QED  BY <1>4, <3>2, <4>1
    <3> QED  BY <3>1, <3>2
  <2> QED  BY <1>5, <1>6, <1>8, <2>1 DEF Relay
<1>9. ASSUME NEW e \in Rows, Commit(e) \/ Cleanup(e)
      PROVE  ED!DeliveryNext
  BY <1>7, <1>9 DEF ED!DeliveryNext
<1> QED  BY <1>2, <1>8, <1>9

LEMMA StepRefines ==
  ASSUME IInv, [Next]_vars
  PROVE  [ED!DeliveryNext]_(ED!deliveryVars)
<1>1. CASE PublishDirect \/ Relay
  BY <1>1, OutboxStepRefines
<1>2. ASSUME NEW e \in Rows, Commit(e) \/ Cleanup(e)
      PROVE  [ED!DeliveryNext]_(ED!deliveryVars)
  BY <1>2, OutboxStepRefines
<1>3. CASE ProcessEnds
  BY <1>3, BusStepRefines DEF ProcessEnds, IInv
<1>4. CASE (BusStep \/ Restart) /\ UNCHANGED outboxVars
  BY <1>4, BusStepRefines DEF outboxVars, IInv
<1>5. CASE UNCHANGED vars
  BY <1>5 DEF vars, busVars, outboxVars, Fate, ED!deliveryVars
<1> QED  BY <1>1, <1>2, <1>3, <1>4, <1>5 DEF Next

\* Whatever fails and restarts, events are handed over oldest first, each ends
\* dispatched, dead-lettered or lost, and a row is marked or deleted only after
\* Redis took its event (bus.go:97-145, outbox_relay.go:83-111).
THEOREM DeliversAsPromised == Spec => DeliverySpec
<1>1. Init => ED!DeliveryInit
  BY DEF Init, BusInit, Fate, SeenAs, Waiting, Dispatching, ED!DeliveryInit, ED!Messages, Messages
<1> QED  BY <1>1, StepRefines, RelayInvariance, PTL DEF Spec, DeliverySpec, ED!DeliverySpec
=============================================================================
