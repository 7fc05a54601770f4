--------------------------- MODULE JobQueueProofs ---------------------------
(***************************************************************************)
(* Proofs about internal/queue and its consumers, for every value of the   *)
(* constants.  JobQueue: an inductive invariant, the safety invariants it  *)
(* implies, and the refinement of JobLifecycle.  UniqueEnqueue: DedupInv   *)
(* is inductive, and it keeps two pushes of one key apart.                 *)
(***************************************************************************)
EXTENDS JobQueue, UniqueEnqueue, SequenceTheorems, FiniteSetTheorems, TLAPS

-----------------------------------------------------------------------------
(* Lemmas about sequences as queues *)

\* Pushing adds one element to what a queue holds.
LEMMA RangeOfAppend ==
  ASSUME NEW S, NEW s \in Seq(S), NEW e \in S
  PROVE  /\ Range(Append(s, e)) = Range(s) \union {e}
         /\ IsInjective(s) /\ e \notin Range(s) => IsInjective(Append(s, e))
<1>1. /\ Append(s, e) \in Seq(S)
      /\ Len(Append(s, e)) = Len(s) + 1
      /\ \A i \in 1..Len(s) : Append(s, e)[i] = s[i]
      /\ Append(s, e)[Len(s) + 1] = e
  OBVIOUS
<1>2. /\ Len(s) \in Nat
      /\ DOMAIN s = 1..Len(s)
      /\ DOMAIN Append(s, e) = 1..(Len(s) + 1)
  BY <1>1, LenProperties
<1> QED  BY <1>1, <1>2 DEF Range, IsInjective

\* Popping removes exactly the head when no element is queued twice.
LEMMA RangeOfTail ==
  ASSUME NEW S, NEW s \in Seq(S), s # <<>>
  PROVE  /\ Head(s) \in Range(s)
         /\ Range(s) = Range(Tail(s)) \union {Head(s)}
         /\ IsInjective(s) => /\ Head(s) \notin Range(Tail(s))
                              /\ IsInjective(Tail(s))
<1>1. /\ Tail(s) \in Seq(S)
      /\ Len(Tail(s)) = Len(s) - 1
      /\ \A i \in 1..Len(Tail(s)) : Tail(s)[i] = s[i + 1]
      /\ Head(s) = s[1]
  BY HeadTailProperties
<1>2. /\ Len(s) \in Nat
      /\ Len(s) > 0
      /\ DOMAIN s = 1..Len(s)
      /\ DOMAIN Tail(s) = 1..(Len(s) - 1)
  BY <1>1, LenProperties, EmptySeq
<1>3. Head(s) \in Range(s)
  BY <1>1, <1>2 DEF Range
<1>4. Range(Tail(s)) \subseteq Range(s)
  BY <1>1, <1>2 DEF Range
<1>5. Range(s) \subseteq Range(Tail(s)) \union {Head(s)}
  <2> SUFFICES ASSUME NEW i \in 1..Len(s), i # 1
               PROVE  s[i] \in Range(Tail(s))
    BY <1>1, <1>2 DEF Range
  <2>1. i - 1 \in DOMAIN Tail(s) /\ Tail(s)[i - 1] = s[i]
    BY <1>1, <1>2
  <2> QED  BY <2>1 DEF Range
<1>6. IsInjective(s) => Head(s) \notin Range(Tail(s)) /\ IsInjective(Tail(s))
  BY <1>1, <1>2 DEF Range, IsInjective
<1> QED  BY <1>3, <1>4, <1>5, <1>6

\* Promoting appends a batch to a queue.
LEMMA RangeOfConcat ==
  ASSUME NEW S, NEW s \in Seq(S), NEW t \in Seq(S)
  PROVE  /\ Range(s \o t) = Range(s) \union Range(t)
         /\ IsInjective(s) /\ IsInjective(t) /\ Range(s) \intersect Range(t) = {}
              => IsInjective(s \o t)
<1>1. /\ s \o t \in Seq(S)
      /\ Len(s \o t) = Len(s) + Len(t)
      /\ \A i \in 1..(Len(s) + Len(t)) :
           (s \o t)[i] = IF i <= Len(s) THEN s[i] ELSE t[i - Len(s)]
  BY ConcatProperties
<1>2. /\ Len(s) \in Nat
      /\ Len(t) \in Nat
      /\ DOMAIN s = 1..Len(s)
      /\ DOMAIN t = 1..Len(t)
      /\ DOMAIN (s \o t) = 1..(Len(s) + Len(t))
  BY <1>1, LenProperties
<1>3. Range(s \o t) \subseteq Range(s) \union Range(t)
  <2> SUFFICES ASSUME NEW i \in 1..(Len(s) + Len(t))
               PROVE  (s \o t)[i] \in Range(s) \union Range(t)
    BY <1>2 DEF Range
  <2>1. CASE i <= Len(s)
    BY <2>1, <1>1, <1>2 DEF Range
  <2>2. CASE i > Len(s)
    <3>1. i - Len(s) \in 1..Len(t) /\ (s \o t)[i] = t[i - Len(s)]
      BY <2>2, <1>1, <1>2
    <3> QED  BY <3>1, <1>2 DEF Range
  <2> QED  BY <2>1, <2>2, <1>2
<1>4. Range(s) \subseteq Range(s \o t)
  BY <1>1, <1>2 DEF Range
<1>5. Range(t) \subseteq Range(s \o t)
  <2> SUFFICES ASSUME NEW i \in 1..Len(t)
               PROVE  t[i] \in Range(s \o t)
    BY <1>2 DEF Range
  <2>1. /\ i + Len(s) \in DOMAIN (s \o t)
        /\ (s \o t)[i + Len(s)] = t[i]
    BY <1>1, <1>2
  <2> QED  BY <2>1 DEF Range
<1>6. ASSUME IsInjective(s), IsInjective(t), Range(s) \intersect Range(t) = {}
      PROVE  IsInjective(s \o t)
  <2> SUFFICES ASSUME NEW a \in 1..(Len(s) + Len(t)),
                      NEW b \in 1..(Len(s) + Len(t)),
                      (s \o t)[a] = (s \o t)[b]
               PROVE  a = b
    BY <1>2 DEF IsInjective
  <2>1. CASE a <= Len(s) /\ b <= Len(s)
    BY <2>1, <1>1, <1>2, <1>6 DEF IsInjective
  <2>2. CASE a > Len(s) /\ b > Len(s)
    <3>1. a - Len(s) \in 1..Len(t) /\ b - Len(s) \in 1..Len(t)
      BY <2>2, <1>2
    <3>2. t[a - Len(s)] = t[b - Len(s)]
      BY <2>2, <1>1, <1>2
    <3>3. a - Len(s) = b - Len(s)
      BY <3>1, <3>2, <1>2, <1>6 DEF IsInjective
    <3> QED  BY <3>3, <1>2
  <2>3. ASSUME NEW x \in 1..(Len(s) + Len(t)), NEW y \in 1..(Len(s) + Len(t)),
               x <= Len(s), y > Len(s)
        PROVE  (s \o t)[x] # (s \o t)[y]
    <3>1. x \in DOMAIN s /\ (s \o t)[x] = s[x]
      BY <2>3, <1>1, <1>2
    <3>2. y - Len(s) \in DOMAIN t /\ (s \o t)[y] = t[y - Len(s)]
      BY <2>3, <1>1, <1>2
    <3>3. s[x] \in Range(s) /\ t[y - Len(s)] \in Range(t)
      BY <3>1, <3>2 DEF Range
    <3> QED  BY <3>1, <3>2, <3>3, <1>6
  <2> QED  BY <2>1, <2>2, <2>3, <1>2
<1> QED  BY <1>3, <1>4, <1>5, <1>6

-----------------------------------------------------------------------------
(* The inductive invariant *)

\* A worker holds a job exactly while it runs one; without it nothing says
\* that the job a worker settles is a job at all, so TypeOK alone is not
\* preserved by Requeue.
RunningHolds == \A w \in Workers : (pc[w] = "run") <=> (holding[w] # NoJob)

IInv == TypeOK /\ OnePlace /\ RunningHolds

Live == {j \in Jobs : fate[j] = "live"}

\* The primed forms of the sets OnePlace relates, one lemma per way of
\* changing `holding`.
LEMMA HeldIsJob ==
  ASSUME IInv, NEW w \in Workers, pc[w] = "run"
  PROVE  /\ holding[w] \in Jobs
         /\ holding[w] # NoJob
         /\ holding[w] \in Held
         /\ fate[holding[w]] = "live"
         /\ holding[w] \notin Queued
         /\ holding[w] \notin delayed
<1>1. holding[w] \in Jobs /\ holding[w] # NoJob
  BY DEF IInv, RunningHolds, TypeOK
<1>2. holding[w] \in Held
  BY <1>1 DEF Held
<1> QED
  BY <1>1, <1>2 DEF IInv, OnePlace, PlacesDisjoint, LiveIsSomewhere

\* A worker that settles lets go of its job and nobody else of theirs.
LEMMA HeldAfterSettle ==
  ASSUME IInv, NEW w \in Workers, Settle(w)
  PROVE  /\ Held' = Held \ {holding[w]}
         /\ HeldOnce'
         /\ RunningHolds'
<1>1. holding[w] \in Jobs /\ holding[w] # NoJob
  BY HeldIsJob DEF Settle
<1>2. /\ holding \in [Workers -> Jobs \union {NoJob}]
      /\ pc \in [Workers -> PCs]
      /\ HeldOnce
      /\ RunningHolds
  BY DEF IInv, TypeOK, OnePlace
<1>3. \A v \in Workers : holding'[v] = IF v = w THEN NoJob ELSE holding[v]
  BY <1>2 DEF Settle
<1>4. \A v \in Workers : pc'[v] = IF v = w THEN "top" ELSE pc[v]
  BY <1>2 DEF Settle
<1>5. \A v \in Workers : v # w => holding[v] # holding[w]
  BY <1>1, <1>2 DEF HeldOnce
<1>6. Held' = Held \ {holding[w]}
  BY <1>3, <1>5 DEF Held
<1>7. HeldOnce'
  BY <1>2, <1>3 DEF HeldOnce
<1>8. RunningHolds'
  BY <1>2, <1>3, <1>4 DEF RunningHolds
<1> QED  BY <1>6, <1>7, <1>8

\* A worker that pops adds the head of the queue to what is held.
LEMMA HeldAfterPop ==
  ASSUME NEW w \in Workers, IInv, Pop(w)
  PROVE  /\ Head(queue) \in Jobs
         /\ Head(queue) \in Queued
         /\ Head(queue) \notin Held
         /\ Head(queue) \notin delayed
         /\ fate[Head(queue)] = "live"
         /\ Held' = Held \union {Head(queue)}
         /\ Queued' = Queued \ {Head(queue)}
         /\ QueuedOnce'
         /\ HeldOnce'
         /\ RunningHolds'
<1> DEFINE j == Head(queue)
<1>1. queue \in Seq(Jobs) /\ queue # <<>> /\ QueuedOnce
  BY DEF IInv, TypeOK, OnePlace, Pop
<1>2. /\ j \in Queued
      /\ Queued = Range(Tail(queue)) \union {j}
      /\ j \notin Range(Tail(queue))
      /\ IsInjective(Tail(queue))
  BY <1>1, RangeOfTail DEF QueuedOnce, Queued
<1>3. j \in Jobs
  BY <1>1, HeadTailProperties
<1>4. Queued' = Queued \ {j} /\ QueuedOnce'
  BY <1>2 DEF Pop, Queued, QueuedOnce
<1>5. holding[w] = NoJob
  BY DEF IInv, RunningHolds, Pop
<1>6. j \notin Held /\ j \notin delayed /\ fate[j] = "live"
  BY <1>2 DEF IInv, OnePlace, PlacesDisjoint, LiveIsSomewhere
<1>7. /\ \A v \in Workers : holding'[v] = IF v = w THEN j ELSE holding[v]
      /\ \A v \in Workers : pc'[v] = IF v = w THEN "run" ELSE pc[v]
  BY DEF IInv, TypeOK, Pop
<1>8. \A v \in Workers : holding[v] # j
  BY <1>3, <1>6, JobsAssumption DEF Held
<1>9. Held' = Held \union {j}
  BY <1>3, <1>5, <1>7, JobsAssumption DEF Held
<1>10. HeldOnce'
  BY <1>7, <1>8 DEF IInv, OnePlace, HeldOnce
<1>11. RunningHolds'
  BY <1>3, <1>7, JobsAssumption DEF IInv, RunningHolds
<1> QED  BY <1>2, <1>3, <1>4, <1>6, <1>9, <1>10, <1>11

\* The jobs the goroutines of one process hold.
HeldBy(p) == {holding[w] : w \in WorkersOf(p)} \ {NoJob}

\* A crash releases exactly what the workers of the process held.
LEMMA HeldAfterCrash ==
  ASSUME NEW p \in Procs, IInv, Crash(p)
  PROVE  /\ HeldBy(p) \subseteq Held
         /\ Held' = Held \ HeldBy(p)
         /\ HeldOnce'
         /\ RunningHolds'
         /\ fate' = [j \in Jobs |-> IF j \in HeldBy(p) THEN "lost" ELSE fate[j]]
<1>1. \A v \in Workers :
        /\ holding'[v] = IF ProcOf[v] = p THEN NoJob ELSE holding[v]
        /\ pc'[v] = IF ProcOf[v] = p THEN "exited" ELSE pc[v]
  BY DEF Crash
<1>2. HeldBy(p) \subseteq Held
  BY DEF Held, HeldBy, WorkersOf
<1>3. HeldOnce
  BY DEF IInv, OnePlace
<1>4. Held' = Held \ HeldBy(p)
  <2>1. ASSUME NEW v \in Workers, ProcOf[v] # p, holding[v] # NoJob
        PROVE  holding[v] \notin HeldBy(p)
    BY <2>1, <1>3 DEF HeldOnce, HeldBy, WorkersOf
  <2> QED  BY <1>1, <2>1 DEF Held, HeldBy, WorkersOf
<1>5. HeldOnce' /\ RunningHolds'
  BY <1>1 DEF IInv, OnePlace, HeldOnce, RunningHolds
<1>6. \A j \in Jobs : (\E w \in WorkersOf(p) : holding[w] = j) <=> j \in HeldBy(p)
  BY JobsAssumption DEF HeldBy
<1> QED  BY <1>2, <1>4, <1>5, <1>6 DEF Crash

\* Steps that leave `holding` alone and give no worker a job.
LEMMA HeldUnchanged ==
  ASSUME IInv, UNCHANGED holding
  PROVE  Held' = Held /\ HeldOnce'
BY DEF IInv, OnePlace, HeldOnce, Held

-----------------------------------------------------------------------------
(* Preservation, one lemma per action *)

\* The invariant holds initially.
LEMMA InitInv == Init => IInv
<1> SUFFICES ASSUME Init PROVE IInv
  OBVIOUS
<1>1. TypeOK
  BY BoundsAssumption DEF Init, TypeOK, Fates, PCs
<1>2. /\ Queued = {}
      /\ Held = {}
      /\ IsInjective(queue)
  BY DEF Init, Queued, Held, Range, IsInjective
<1>3. OnePlace
  BY <1>2 DEF Init, OnePlace, QueuedOnce, HeldOnce, PlacesDisjoint,
              LiveIsSomewhere
<1>4. RunningHolds
  BY DEF Init, RunningHolds
<1> QED  BY <1>1, <1>3, <1>4 DEF IInv

\* Enqueue and EnqueueWithDelay (queue.go:43-121) put a fresh job in one place.
LEMMA EnqueueInv ==
  ASSUME NEW j \in Jobs, NEW d \in Delays, IInv, Enqueue(j, d)
  PROVE  IInv'
<1>1. d \in Nat
  BY BoundsAssumption
<1>2. TypeOK'
  <2>1. queue' \in Seq(Jobs)
    <3>1. queue \in Seq(Jobs)
      BY DEF IInv, TypeOK
    <3>2. Append(queue, j) \in Seq(Jobs)
      BY <3>1
    <3> QED  BY <3>1, <3>2 DEF Enqueue
  <2>2. delayed' \subseteq Jobs /\ delay' \in [Jobs -> Nat]
    BY <1>1 DEF IInv, TypeOK, Enqueue
  <2>3. fate' \in [Jobs -> Fates]
    BY DEF IInv, TypeOK, Enqueue, Fates
  <2> QED
    BY <2>1, <2>2, <2>3 DEF IInv, TypeOK, Enqueue, workerVars
<1>3. Held' = Held /\ HeldOnce' /\ RunningHolds'
  BY HeldUnchanged DEF IInv, RunningHolds, Enqueue, workerVars
<1>4. Live' = Live \union {j}
  BY DEF IInv, TypeOK, Enqueue, Live
<1>5. j \notin Queued /\ j \notin delayed /\ j \notin Held
  BY DEF IInv, OnePlace, LiveIsSomewhere, Enqueue
<1>6. CASE d = 0
  <2>1. queue' = Append(queue, j) /\ delayed' = delayed
    BY <1>6 DEF Enqueue
  <2>2. Queued' = Queued \union {j} /\ QueuedOnce'
    BY <2>1, <1>5, RangeOfAppend
    DEF IInv, TypeOK, OnePlace, QueuedOnce, Queued
  <2> QED
    BY <1>2, <1>3, <1>4, <1>5, <2>1, <2>2
    DEF IInv, OnePlace, PlacesDisjoint, LiveIsSomewhere, Live
<1>7. CASE d > 0
  <2>1. queue' = queue /\ delayed' = delayed \union {j}
    BY <1>7, <1>1 DEF Enqueue
  <2>2. Queued' = Queued /\ QueuedOnce'
    BY <2>1 DEF IInv, OnePlace, QueuedOnce, Queued
  <2> QED
    BY <1>2, <1>3, <1>4, <1>5, <2>1, <2>2
    DEF IInv, OnePlace, PlacesDisjoint, LiveIsSomewhere, Live
<1> QED  BY <1>1, <1>6, <1>7

\* The passing of time moves no job.
LEMMA TickInv == ASSUME IInv, Tick PROVE IInv'
<1>1. TypeOK'
  BY BoundsAssumption DEF IInv, TypeOK, Tick, workerVars
<1>2. Held' = Held /\ HeldOnce' /\ RunningHolds'
  BY HeldUnchanged DEF IInv, RunningHolds, Tick, workerVars
<1> QED
  BY <1>1, <1>2
  DEF IInv, OnePlace, QueuedOnce, PlacesDisjoint, LiveIsSomewhere, Queued, Tick

\* A promotion (queue.go:132-164) moves the due jobs from the set to the list.
LEMMA PromoteInv ==
  ASSUME NEW p \in Procs, IInv, Promote(p)
  PROVE  IInv'
<1>1. PICK s \in PromotionOrders : queue' = queue \o s
  BY DEF Promote
<1>2. /\ s \in [1..Cardinality(Due) -> Due]
      /\ IsInjective(s)
      /\ \A t \in Due : \E i \in 1..Cardinality(Due) : s[i] = t
  BY DEF PromotionOrders, Bijection, Injection, Surjection
<1>3. Due \subseteq delayed /\ delayed \subseteq Jobs
  BY DEF Due, IInv, TypeOK
<1>4. Cardinality(Due) \in Nat
  BY <1>3, JobsAssumption, FS_Subset, FS_CardinalityType
<1>5. s \in Seq(Jobs)
  BY <1>2, <1>3, <1>4
<1>6. Range(s) = Due
  BY <1>2 DEF Range
<1>7. queue \in Seq(Jobs) /\ QueuedOnce /\ Queued \intersect delayed = {}
  BY DEF IInv, TypeOK, OnePlace, PlacesDisjoint
<1>8. queue' \in Seq(Jobs)
  BY <1>1, <1>5, <1>7, ConcatProperties
<1>9. Queued' = Queued \union Due /\ QueuedOnce'
  BY <1>1, <1>2, <1>3, <1>5, <1>6, <1>7, RangeOfConcat DEF Queued, QueuedOnce
<1>10. delayed' = delayed \ Due
  BY DEF Promote
<1>11. Held' = Held /\ HeldOnce' /\ RunningHolds'
  BY HeldUnchanged DEF IInv, RunningHolds, Promote, workerVars
<1>12. TypeOK'
  BY <1>8, <1>10 DEF IInv, TypeOK, Promote, workerVars
<1>13. LiveIsSomewhere'
  BY <1>3, <1>9, <1>10, <1>11 DEF IInv, OnePlace, LiveIsSomewhere, Promote
<1>14. PlacesDisjoint'
  BY <1>3, <1>9, <1>10, <1>11 DEF IInv, OnePlace, PlacesDisjoint
<1> QED  BY <1>9, <1>11, <1>12, <1>13, <1>14 DEF IInv, OnePlace

\* Poll, Exit, PopTimeout and PopError only move a worker that holds nothing.
LEMMA LoopInv ==
  ASSUME NEW w \in Workers, IInv,
         Poll(w) \/ Exit(w) \/ PopTimeout(w) \/ PopError(w)
  PROVE  IInv'
<1>1. /\ UNCHANGED <<jobVars, holding>>
      /\ pc[w] # "run"
      /\ \E l \in PCs \ {"run"} : pc' = [pc EXCEPT ![w] = l]
  BY DEF Poll, Exit, PopTimeout, PopError, PCs
<1>2. TypeOK'
  <2>1. pc' \in [Workers -> PCs]
    BY <1>1 DEF IInv, TypeOK
  <2>2. faults' \in 0..MaxFaults /\ stopping' = stopping /\ stops' = stops
    BY BoundsAssumption DEF IInv, TypeOK, Poll, Exit, PopTimeout, PopError
  <2> QED
    BY <1>1, <2>1, <2>2 DEF IInv, TypeOK, jobVars
<1>3. Held' = Held /\ HeldOnce'
  BY <1>1, HeldUnchanged
<1>4. RunningHolds'
  BY <1>1 DEF IInv, TypeOK, RunningHolds
<1> QED
  BY <1>1, <1>2, <1>3, <1>4
  DEF IInv, OnePlace, QueuedOnce, PlacesDisjoint, LiveIsSomewhere, Queued,
      jobVars

\* BRPOP (main.go:149-160) moves the head of the list to a free worker.
LEMMA PopInv ==
  ASSUME NEW w \in Workers, IInv, Pop(w)
  PROVE  IInv'
<1> DEFINE j == Head(queue)
<1>1. /\ j \in Jobs
      /\ j \in Queued
      /\ j \notin Held
      /\ j \notin delayed
      /\ Held' = Held \union {j}
      /\ Queued' = Queued \ {j}
      /\ QueuedOnce'
      /\ HeldOnce'
      /\ RunningHolds'
  BY HeldAfterPop
<1>2. queue \in Seq(Jobs) /\ queue # <<>>
  BY DEF IInv, TypeOK, Pop
<1>3. Tail(queue) \in Seq(Jobs)
  BY <1>2, HeadTailProperties
<1>4. TypeOK'
  BY <1>1, <1>3 DEF IInv, TypeOK, Pop, PCs
<1>5. PlacesDisjoint' /\ LiveIsSomewhere'
  BY <1>1 DEF IInv, OnePlace, PlacesDisjoint, LiveIsSomewhere, Pop
<1> QED  BY <1>1, <1>4, <1>5 DEF IInv, OnePlace

\* The job leaves the system with its worker: done, dead or lost.
LEMMA EndInv ==
  ASSUME NEW w \in Workers, IInv,
         Succeed(w) \/ DeadLetter(w) \/ SettleError(w)
  PROVE  IInv'
<1> DEFINE j == holding[w]
<1>1. /\ Settle(w)
      /\ UNCHANGED <<queue, delayed, delay, age, retries, attempts, stopping,
                     stops>>
      /\ \E f \in Fates \ {"live"} : fate' = [fate EXCEPT ![j] = f]
  BY DEF Succeed, DeadLetter, RetriesLeft, SettleError, Fates
<1>2. /\ j \in Jobs
      /\ j \notin Queued
      /\ j \notin delayed
  BY <1>1, HeldIsJob DEF Settle
<1>3. Held' = Held \ {j} /\ HeldOnce' /\ RunningHolds'
  BY <1>1, HeldAfterSettle
<1>4. Live' = Live \ {j}
  BY <1>1, <1>2 DEF IInv, TypeOK, Live
<1>5. faults' \in 0..MaxFaults
  BY BoundsAssumption DEF IInv, TypeOK, Succeed, DeadLetter, RetriesLeft, SettleError
<1>6. TypeOK'
  BY <1>1, <1>5 DEF IInv, TypeOK, Settle, PCs
<1>7. Queued' = Queued /\ QueuedOnce'
  BY <1>1 DEF IInv, OnePlace, QueuedOnce, Queued
<1> QED
  BY <1>1, <1>2, <1>3, <1>4, <1>6, <1>7
  DEF IInv, OnePlace, PlacesDisjoint, LiveIsSomewhere, Live

\* A failed job (main.go:193-203) moves from its worker to the delayed set.
LEMMA RequeueInv ==
  ASSUME NEW w \in Workers, IInv, Requeue(w)
  PROVE  IInv'
<1> DEFINE j == holding[w]
<1>1. Settle(w) /\ retries[j] < MaxRetries
  BY DEF Requeue, RetriesLeft, NextRetry
<1>2. /\ j \in Jobs
      /\ fate[j] = "live"
      /\ j \in Held
      /\ j \notin Queued
  BY <1>1, HeldIsJob DEF Settle
<1>3. Held' = Held \ {j} /\ HeldOnce' /\ RunningHolds'
  BY <1>1, HeldAfterSettle
<1>4. retries[j] + 1 \in 0..MaxRetries /\ Backoff(retries[j] + 1) \in Nat
  <2>1. retries[j] \in 0..MaxRetries
    BY <1>2 DEF IInv, TypeOK
  <2>2. retries[j] + 1 \in 0..MaxRetries
    BY <2>1, <1>1, BoundsAssumption
  <2> QED  BY <2>2 DEF Backoff
<1>5. TypeOK'
  <2>1. pc' \in [Workers -> PCs] /\ holding' \in [Workers -> Jobs \union {NoJob}]
    BY <1>1 DEF IInv, TypeOK, Settle, PCs
  <2>2. age' \in [Jobs -> 0..MaxAge]
    <3>1. 0 \in 0..MaxAge
      BY BoundsAssumption
    <3>2. age \in [Jobs -> 0..MaxAge] /\ age' = [age EXCEPT ![j] = 0]
      BY DEF IInv, TypeOK, Requeue, RetriesLeft, NextRetry
    <3> QED  BY <3>1, <3>2
  <2>3. delay' \in [Jobs -> Nat]
    BY <1>4 DEF IInv, TypeOK, Requeue, RetriesLeft, NextRetry
  <2>4. retries' \in [Jobs -> 0..MaxRetries]
    BY <1>4 DEF IInv, TypeOK, Requeue, RetriesLeft, NextRetry
  <2> QED
    BY <1>2, <2>1, <2>2, <2>3, <2>4 DEF IInv, TypeOK, Requeue, RetriesLeft, NextRetry
<1>6. Queued' = Queued /\ QueuedOnce'
  BY DEF IInv, OnePlace, QueuedOnce, Queued, Requeue, RetriesLeft, NextRetry
<1>7. delayed' = delayed \union {j} /\ fate' = fate
  BY DEF Requeue, RetriesLeft, NextRetry
<1> QED
  BY <1>2, <1>3, <1>5, <1>6, <1>7
  DEF IInv, OnePlace, PlacesDisjoint, LiveIsSomewhere

\* The jobs a crashing process held leave the system with it.
LEMMA CrashInv ==
  ASSUME NEW p \in Procs, IInv, Crash(p)
  PROVE  IInv'
<1>1. /\ HeldBy(p) \subseteq Held
      /\ Held' = Held \ HeldBy(p)
      /\ HeldOnce'
      /\ RunningHolds'
      /\ fate' = [j \in Jobs |-> IF j \in HeldBy(p) THEN "lost" ELSE fate[j]]
  BY HeldAfterCrash
<1>2. Live' = Live \ HeldBy(p)
  BY <1>1 DEF Live
<1>3. TypeOK'
  <2>1. fate' \in [Jobs -> Fates]
    BY <1>1 DEF IInv, TypeOK, Fates
  <2>2. pc' \in [Workers -> PCs] /\ holding' \in [Workers -> Jobs \union {NoJob}]
    BY DEF IInv, TypeOK, Crash, PCs
  <2>3. faults' \in 0..MaxFaults
    BY BoundsAssumption DEF IInv, TypeOK, Crash
  <2> QED  BY <2>1, <2>2, <2>3 DEF IInv, TypeOK, Crash
<1>4. Queued' = Queued /\ QueuedOnce' /\ delayed' = delayed
  BY DEF IInv, OnePlace, QueuedOnce, Queued, Crash
<1> QED
  BY <1>1, <1>2, <1>3, <1>4
  DEF IInv, OnePlace, PlacesDisjoint, LiveIsSomewhere, Live

\* A shutdown signal (main.go:127-130) moves no job.
LEMMA ShutdownInv ==
  ASSUME NEW p \in Procs, IInv, Shutdown(p)
  PROVE  IInv'
<1>1. TypeOK'
  BY BoundsAssumption DEF IInv, TypeOK, Shutdown, jobVars, workerVars
<1>2. Held' = Held /\ HeldOnce' /\ RunningHolds'
  BY HeldUnchanged DEF IInv, RunningHolds, Shutdown, workerVars
<1> QED
  BY <1>1, <1>2
  DEF IInv, OnePlace, QueuedOnce, PlacesDisjoint, LiveIsSomewhere, Queued,
      Shutdown, jobVars

\* A restarted process has only workers that hold nothing.
LEMMA RestartInv ==
  ASSUME NEW p \in Procs, IInv, Restart(p)
  PROVE  IInv'
<1>1. TypeOK'
  BY DEF IInv, TypeOK, Restart, jobVars, PCs
<1>2. Held' = Held /\ HeldOnce'
  BY HeldUnchanged DEF Restart
<1>3. \A v \in Workers : /\ ProcOf[v] = p => pc[v] = "exited"
                         /\ pc'[v] = IF ProcOf[v] = p THEN "top" ELSE pc[v]
                         /\ holding'[v] = holding[v]
  BY DEF Restart, WorkersOf
<1>4. RunningHolds'
  BY <1>3 DEF IInv, RunningHolds
<1> QED
  BY <1>1, <1>2, <1>4
  DEF IInv, OnePlace, QueuedOnce, PlacesDisjoint, LiveIsSomewhere, Queued,
      Restart, jobVars

\* Stuttering steps keep the invariant.
LEMMA StutterInv == ASSUME IInv, UNCHANGED vars PROVE IInv'
BY DEF IInv, TypeOK, OnePlace, QueuedOnce, HeldOnce, PlacesDisjoint,
       LiveIsSomewhere, RunningHolds, Queued, Held, vars

\* Every step keeps the invariant.
LEMMA NextInv == IInv /\ [Next]_vars => IInv'
<1> SUFFICES ASSUME IInv, [Next]_vars PROVE IInv'
  OBVIOUS
<1>1. CASE \E j \in Jobs, d \in Delays : Enqueue(j, d)
  BY <1>1, EnqueueInv
<1>2. CASE Tick
  BY <1>2, TickInv
<1>3. CASE \E w \in Workers : WorkerStep(w)
  BY <1>3, LoopInv, PopInv, EndInv, RequeueInv DEF WorkerStep
<1>4. CASE \E p \in Procs : ProcStep(p)
  BY <1>4, PromoteInv, ShutdownInv, CrashInv, RestartInv DEF ProcStep
<1>5. CASE UNCHANGED vars
  BY <1>5, StutterInv
<1> QED  BY <1>1, <1>2, <1>3, <1>4, <1>5 DEF Next

-----------------------------------------------------------------------------
(* Theorems *)

\* The inductive invariant holds in every reachable state.
THEOREM Invariance == Spec => []IInv
<1> QED  BY InitInv, NextInv, PTL DEF Spec

\* The state of the queue, its workers and processes is well typed.
THEOREM TypeCorrect == Spec => []TypeOK
<1>1. IInv => TypeOK
  BY DEF IInv
<1> QED  BY Invariance, <1>1, PTL

\* Every accepted job is in exactly one place: waiting once in the list or the
\* delayed set, or held by one worker (queue.go:104-148, main.go:149-209).
THEOREM JobInOnePlace == Spec => []OnePlace
<1>1. IInv => OnePlace
  BY DEF IInv
<1> QED  BY Invariance, <1>1, PTL

-----------------------------------------------------------------------------
(* The retry budget *)

\* A job is submitted unattempted and with its retries unspent.
LEMMA EnqueueBudget ==
  ASSUME NEW j \in Jobs, NEW d \in Delays, IInv, RetryBudget, Enqueue(j, d)
  PROVE  RetryBudget'
<1>1. Held' = Held /\ j \notin Held
  BY HeldUnchanged
  DEF IInv, OnePlace, LiveIsSomewhere, Enqueue, workerVars
<1>2. \A i \in Jobs : fate'[i] = IF i = j THEN "live" ELSE fate[i]
  BY DEF IInv, TypeOK, Enqueue
<1> QED  BY <1>1, <1>2 DEF RetryBudget, BudgetOf, Enqueue

\* A pop is the attempt that the count of retries does not include yet.
LEMMA PopBudget ==
  ASSUME NEW w \in Workers, IInv, RetryBudget, Pop(w)
  PROVE  RetryBudget'
<1> DEFINE j == Head(queue)
<1>1. /\ j \in Jobs
      /\ fate[j] = "live"
      /\ j \notin Held
      /\ Held' = Held \union {j}
  BY HeldAfterPop
<1>2. /\ \A i \in Jobs : attempts'[i] = IF i = j THEN attempts[i] + 1
                                                  ELSE attempts[i]
      /\ retries' = retries
      /\ fate' = fate
  BY <1>1 DEF IInv, TypeOK, Pop
<1>3. \A i \in Jobs : retries[i] \in Nat /\ attempts[i] \in Nat
  BY BoundsAssumption DEF IInv, TypeOK
<1>4. attempts'[j] = retries'[j] + 1 /\ j \in Held'
  BY <1>1, <1>2, <1>3 DEF RetryBudget, BudgetOf
<1>5. \A i \in Jobs \ {j} : /\ attempts'[i] = attempts[i]
                             /\ i \in Held' <=> i \in Held
  BY <1>1, <1>2
<1> QED  BY <1>1, <1>2, <1>4, <1>5 DEF RetryBudget, BudgetOf

\* A job that ends keeps its count; a dead one has spent every retry.
LEMMA EndBudget ==
  ASSUME NEW w \in Workers, IInv, RetryBudget,
         Succeed(w) \/ DeadLetter(w) \/ SettleError(w)
  PROVE  RetryBudget'
<1> DEFINE j == holding[w]
<1>1. /\ Settle(w)
      /\ attempts' = attempts
      /\ retries' = retries
  BY DEF Succeed, DeadLetter, RetriesLeft, SettleError
<1>2. j \in Jobs /\ j \in Held /\ fate[j] = "live"
  BY <1>1, HeldIsJob DEF Settle
<1>3. Held' = Held \ {j}
  BY <1>1, HeldAfterSettle
<1>4. \A i \in Jobs \ {j} : fate'[i] = fate[i]
  BY DEF IInv, TypeOK, Succeed, DeadLetter, RetriesLeft, SettleError
<1>5. fate'[j] \in {"done", "dead", "lost"}
  BY <1>2 DEF IInv, TypeOK, Succeed, DeadLetter, RetriesLeft, SettleError
<1>6. attempts[j] = retries[j] + 1
  BY <1>2 DEF RetryBudget, BudgetOf
<1>7. fate'[j] = "dead" => attempts[j] = MaxRetries + 1
  <2> SUFFICES ASSUME fate'[j] = "dead" PROVE retries[j] = MaxRetries
    BY <1>6
  <2>1. DeadLetter(w)
    BY <1>2 DEF IInv, TypeOK, Succeed, SettleError
  <2>2. ~(retries[j] < MaxRetries)
    BY <2>1 DEF DeadLetter, RetriesLeft
  <2>3. retries[j] \in 0..MaxRetries
    BY <1>2 DEF IInv, TypeOK
  <2> QED  BY <2>2, <2>3, BoundsAssumption
<1>8. \A i \in Jobs \ {j} : i \in Held' <=> i \in Held
  BY <1>3
<1>9. attempts'[j] = retries'[j] + 1 /\ (fate'[j] = "dead" => attempts'[j] = MaxRetries + 1)
  BY <1>1, <1>6, <1>7
<1> QED
  BY <1>1, <1>4, <1>5, <1>8, <1>9 DEF RetryBudget, BudgetOf

\* A failed attempt is counted when the job is requeued (main.go:195-196).
LEMMA RequeueBudget ==
  ASSUME NEW w \in Workers, IInv, RetryBudget, Requeue(w)
  PROVE  RetryBudget'
<1>1. /\ Settle(w)
      /\ attempts' = attempts
      /\ fate' = fate
  BY DEF Requeue, RetriesLeft, NextRetry
<1>2. PICK j \in Jobs : j = holding[w] /\ j \in Held /\ fate[j] = "live"
  BY <1>1, HeldIsJob DEF Settle
<1>3. Held' = Held \ {j}
  BY <1>1, <1>2, HeldAfterSettle
<1>4. \A i \in Jobs : retries'[i] = IF i = j THEN retries[i] + 1 ELSE retries[i]
  BY <1>2 DEF IInv, TypeOK, Requeue, RetriesLeft, NextRetry
<1>5. attempts[j] = retries[j] + 1
  BY <1>2 DEF RetryBudget, BudgetOf
<1>6. retries[j] \in Nat
  BY <1>2, BoundsAssumption DEF IInv, TypeOK
<1>7. BudgetOf(j)'
  <2>1. attempts'[j] = retries'[j] + 0 /\ j \notin Held' /\ fate'[j] = "live"
    BY <1>1, <1>2, <1>3, <1>4, <1>5, <1>6
  <2> QED  BY <2>1 DEF BudgetOf
<1>8. ASSUME NEW i \in Jobs, i # j PROVE BudgetOf(i)'
  <2>1. /\ (i \in Held') = (i \in Held)
        /\ retries'[i] = retries[i]
        /\ attempts'[i] = attempts[i]
        /\ fate'[i] = fate[i]
    BY <1>1, <1>3, <1>4, <1>8
  <2>2. BudgetOf(i)
    BY DEF RetryBudget
  <2> QED  BY <2>1, <2>2 DEF BudgetOf
<1> QED  BY <1>7, <1>8 DEF RetryBudget

\* A crash ends jobs in the middle of an attempt.
LEMMA CrashBudget ==
  ASSUME NEW p \in Procs, IInv, RetryBudget, Crash(p)
  PROVE  RetryBudget'
<1> DEFINE L == HeldBy(p)
<1>1. /\ L \subseteq Held
      /\ Held' = Held \ L
      /\ fate' = [j \in Jobs |-> IF j \in L THEN "lost" ELSE fate[j]]
  BY HeldAfterCrash
<1>2. attempts' = attempts /\ retries' = retries
  BY DEF Crash
<1> SUFFICES ASSUME NEW j \in Jobs PROVE BudgetOf(j)'
  BY DEF RetryBudget
<1>3. BudgetOf(j)
  BY DEF RetryBudget
<1>4. CASE j \in L
  <2>1. fate[j] = "live" /\ j \in Held
    BY <1>1, <1>4 DEF IInv, OnePlace, LiveIsSomewhere
  <2>2. attempts'[j] = retries'[j] + 1
    BY <1>2, <1>3, <2>1 DEF BudgetOf
  <2>3. fate'[j] = "lost"
    BY <1>1, <1>4
  <2> QED  BY <2>2, <2>3 DEF BudgetOf
<1>5. CASE j \notin L
  <2>1. fate'[j] = fate[j] /\ (j \in Held') = (j \in Held)
    BY <1>1, <1>5
  <2> QED  BY <1>2, <1>3, <2>1 DEF BudgetOf
<1> QED  BY <1>4, <1>5

\* The other steps change none of what the budget counts.
LEMMA OtherBudget ==
  ASSUME IInv, RetryBudget, UNCHANGED <<holding, fate, retries, attempts>>
  PROVE  RetryBudget'
BY HeldUnchanged DEF RetryBudget, BudgetOf

\* The Retries field counts the failed attempts over every interleaving of
\* errors, crashes, promotions and restarts, so no job runs more than
\* 1 + MaxRetries times and none is dead-lettered earlier (main.go:175-206).
THEOREM RetriesCountAttempts == Spec => []RetryBudget
<1>1. Init => RetryBudget
  BY DEF Init, RetryBudget, BudgetOf
<1>2. IInv /\ RetryBudget /\ [Next]_vars => RetryBudget'
  <2> SUFFICES ASSUME IInv, RetryBudget, [Next]_vars PROVE RetryBudget'
    OBVIOUS
  <2>1. CASE \E j \in Jobs, d \in Delays : Enqueue(j, d)
    BY <2>1, EnqueueBudget
  <2>2. CASE Tick \/ UNCHANGED vars
    BY <2>2, OtherBudget DEF Tick, workerVars, vars
  <2>3. ASSUME NEW w \in Workers, WorkerStep(w) PROVE RetryBudget'
    <3>1. CASE Pop(w)
      BY <3>1, PopBudget
    <3>2. CASE Succeed(w) \/ DeadLetter(w) \/ SettleError(w)
      BY <3>2, EndBudget
    <3>3. CASE Requeue(w)
      BY <3>3, RequeueBudget
    <3>4. CASE Poll(w) \/ Exit(w) \/ PopTimeout(w) \/ PopError(w)
      BY <3>4, OtherBudget DEF Poll, Exit, PopTimeout, PopError, jobVars
    <3> QED  BY <2>3, <3>1, <3>2, <3>3, <3>4 DEF WorkerStep
  <2>4. ASSUME NEW p \in Procs, ProcStep(p) PROVE RetryBudget'
    <3>1. CASE Crash(p)
      BY <3>1, CrashBudget
    <3>2. CASE Promote(p) \/ Shutdown(p) \/ Restart(p)
      BY <3>2, OtherBudget
      DEF Promote, Shutdown, Restart, jobVars, workerVars
    <3> QED  BY <2>4, <3>1, <3>2 DEF ProcStep
  <2> QED  BY <2>1, <2>2, <2>3, <2>4 DEF Next
<1> QED  BY <1>1, <1>2, Invariance, PTL DEF Spec

-----------------------------------------------------------------------------
(* Backoff and losses *)

\* BackoffElapsed is not inductive: that a promoted job has waited its backoff
\* needs the delay it was parked with to be at least that backoff.
DelayCoversBackoff == \A j \in delayed : delay[j] >= Backoff(retries[j])

BackoffInv == BackoffElapsed /\ DelayCoversBackoff

\* Every step keeps the backoff invariant.
LEMMA BackoffStep ==
  ASSUME IInv, RetryBudget, BackoffInv, [Next]_vars
  PROVE  BackoffInv'
<1>1. \A j \in Jobs : /\ retries[j] \in Nat
                      /\ age[j] \in Nat
                      /\ delay[j] \in Nat
                      /\ Backoff(retries[j]) \in Nat
  BY BoundsAssumption DEF IInv, TypeOK, Backoff
<1>2. Queued \subseteq Jobs /\ Held \subseteq Jobs /\ delayed \subseteq Jobs
  BY DEF IInv, OnePlace, LiveIsSomewhere
<1>3. ASSUME NEW j \in Jobs, NEW d \in Delays, Enqueue(j, d)
      PROVE  BackoffInv'
  <2>1. fate[j] = "new" /\ retries[j] = 0
    BY <1>3 DEF Enqueue, RetryBudget, BudgetOf
  <2>2. Held' = Held
    BY <1>3, HeldUnchanged DEF Enqueue, workerVars
  <2>3. Queued' \subseteq Queued \union {j} /\ delayed' \subseteq delayed \union {j}
    BY <1>3, RangeOfAppend DEF Enqueue, Queued, IInv, TypeOK
  <2>4. age' = age /\ retries' = retries /\ \A i \in delayed : delay'[i] = delay[i]
    <3>1. j \notin delayed
      BY <2>1 DEF IInv, OnePlace, LiveIsSomewhere
    <3> QED  BY <1>3, <1>2, <3>1 DEF Enqueue, IInv, TypeOK
  <2>5. Backoff(retries[j]) = 0
    BY <2>1 DEF Backoff
  <2>6. \A i \in delayed' : delay'[i] >= Backoff(retries[i])
    <3>1. delay'[j] \in Nat
      BY <1>3, BoundsAssumption DEF Enqueue, IInv, TypeOK
    <3> QED  BY <2>3, <2>4, <2>5, <3>1 DEF BackoffInv, DelayCoversBackoff
  <2>7. \A i \in Queued' \union Held' : age[i] >= Backoff(retries[i])
    BY <1>1, <2>2, <2>3, <2>5 DEF BackoffInv, BackoffElapsed
  <2> QED
    BY <2>4, <2>6, <2>7
    DEF BackoffInv, BackoffElapsed, DelayCoversBackoff, Backoff
<1>4. CASE Tick
  <2>1. Held' = Held /\ Queued' = Queued /\ UNCHANGED <<delayed, delay, retries>>
    BY <1>4, HeldUnchanged DEF Tick, workerVars, Queued
  <2>2. \A j \in Jobs : age'[j] >= age[j] /\ age'[j] \in Nat
    BY <1>1, <1>4 DEF Tick
  <2>3. \A j \in Queued \union Held : age'[j] >= Backoff(retries[j])
    BY <1>1, <1>2, <2>2 DEF BackoffInv, BackoffElapsed
  <2> QED
    BY <2>1, <2>3 DEF BackoffInv, BackoffElapsed, DelayCoversBackoff, Backoff
<1>5. ASSUME NEW p \in Procs, Promote(p) PROVE BackoffInv'
  <2>1. IInv'
    BY <1>5, PromoteInv
  <2>2. /\ Held' = Held
        /\ UNCHANGED <<age, delay, retries, fate>>
        /\ delayed' = delayed \ Due
    BY <1>5, HeldUnchanged DEF Promote, workerVars
  <2>3. Queued' \subseteq Queued \union Due
    BY <2>1, <2>2 DEF IInv, OnePlace, PlacesDisjoint, LiveIsSomewhere
  <2>4. \A j \in Due : age[j] >= Backoff(retries[j])
    BY <1>1, <1>2 DEF Due, BackoffInv, DelayCoversBackoff
  <2>5. \A j \in Queued' \union Held' : age[j] >= Backoff(retries[j])
    BY <2>2, <2>3, <2>4 DEF BackoffInv, BackoffElapsed
  <2>6. \A j \in delayed' : delay[j] >= Backoff(retries[j])
    BY <2>2 DEF BackoffInv, DelayCoversBackoff
  <2> QED
    BY <2>2, <2>5, <2>6
    DEF BackoffInv, BackoffElapsed, DelayCoversBackoff, Backoff
<1>6. ASSUME NEW w \in Workers, Requeue(w) PROVE BackoffInv'
  <2>1. PICK j \in Jobs : j = holding[w] /\ j \in Held /\ j \notin Queued
    BY <1>6, HeldIsJob DEF Requeue, RetriesLeft, NextRetry, Settle
  <2>2. Held' = Held \ {j} /\ Queued' = Queued
    BY <1>6, <2>1, HeldAfterSettle DEF Requeue, RetriesLeft, NextRetry, Queued
  <2>3. /\ delayed' = delayed \union {j}
        /\ delay'[j] = Backoff(retries'[j])
        /\ \A i \in Jobs : i # j => /\ delay'[i] = delay[i]
                                   /\ age'[i] = age[i]
                                   /\ retries'[i] = retries[i]
    BY <1>6, <2>1 DEF Requeue, RetriesLeft, NextRetry, IInv, TypeOK
  <2>4. retries'[j] \in Nat /\ Backoff(retries'[j]) \in Nat
    BY <1>1, <1>6, <2>1 DEF Requeue, RetriesLeft, NextRetry, IInv, TypeOK, Backoff
  <2>5. \A i \in Queued' \union Held' : age'[i] >= Backoff(retries'[i])
    BY <1>2, <2>1, <2>2, <2>3 DEF BackoffInv, BackoffElapsed
  <2>6. \A i \in delayed' : delay'[i] >= Backoff(retries'[i])
    BY <1>2, <2>3, <2>4 DEF BackoffInv, DelayCoversBackoff
  <2> QED
    BY <2>5, <2>6 DEF BackoffInv, BackoffElapsed, DelayCoversBackoff, Backoff
<1>7. ASSUME /\ UNCHANGED <<delayed, delay, age, retries>>
             /\ Queued' \union Held' \subseteq Queued \union Held
      PROVE  BackoffInv'
  BY <1>7 DEF BackoffInv, BackoffElapsed, DelayCoversBackoff, Backoff
<1>8. ASSUME NEW w \in Workers, WorkerStep(w) PROVE BackoffInv'
  <2>1. CASE Pop(w)
    BY <2>1, <1>7, HeldAfterPop DEF Pop
  <2>2. CASE Succeed(w) \/ DeadLetter(w) \/ SettleError(w)
    <3>1. Settle(w) /\ UNCHANGED <<queue, delayed, delay, age, retries>>
      BY <2>2 DEF Succeed, DeadLetter, RetriesLeft, SettleError
    <3>2. Held' \subseteq Held /\ Queued' = Queued
      BY <3>1, HeldAfterSettle DEF Queued
    <3> QED  BY <3>1, <3>2, <1>7
  <2>3. CASE Poll(w) \/ Exit(w) \/ PopTimeout(w) \/ PopError(w)
    <3>1. UNCHANGED <<queue, delayed, delay, age, retries, holding>>
      BY <2>3 DEF Poll, Exit, PopTimeout, PopError, jobVars
    <3> QED  BY <3>1, <1>7, HeldUnchanged DEF Queued
  <2> QED  BY <1>6, <1>8, <2>1, <2>2, <2>3 DEF WorkerStep
<1>9. ASSUME NEW p \in Procs, ProcStep(p) PROVE BackoffInv'
  <2>1. CASE Crash(p)
    BY <2>1, <1>7, HeldAfterCrash DEF Crash, Queued
  <2>2. CASE Shutdown(p) \/ Restart(p)
    <3>1. UNCHANGED <<queue, delayed, delay, age, retries, holding>>
      BY <2>2 DEF Shutdown, Restart, jobVars, workerVars
    <3> QED  BY <3>1, <1>7, HeldUnchanged DEF Queued
  <2> QED  BY <1>5, <1>9, <2>1, <2>2 DEF ProcStep
<1>10. CASE UNCHANGED vars
  BY <1>7, <1>10, HeldUnchanged DEF vars, Queued
<1> QED  BY <1>3, <1>4, <1>8, <1>9, <1>10 DEF Next

\* No job is back in the list, or running again, before its quadratic backoff
\* has elapsed since the failed attempt (main.go:176-177, 197-198).
THEOREM BackoffRespected == Spec => []BackoffElapsed
<1>1. Init => BackoffInv
  <2>1. Init => Queued = {} /\ Held = {} /\ delayed = {}
    BY DEF Init, Queued, Held, Range
  <2> QED  BY <2>1 DEF BackoffInv, BackoffElapsed, DelayCoversBackoff
<1>2. IInv /\ RetryBudget /\ BackoffInv /\ [Next]_vars => BackoffInv'
  BY BackoffStep
<1>3. BackoffInv => BackoffElapsed
  BY DEF BackoffInv
<1> QED  BY <1>1, <1>2, <1>3, Invariance, RetriesCountAttempts, PTL DEF Spec

\* Without a crash or a failed Redis call no job is lost; retries, promotions
\* and graceful shutdowns lose none (main.go:127-209).
THEOREM LossNeedsFault == Spec => []LostOnlyByFault
<1>1. Init => LostOnlyByFault
  BY DEF Init, LostOnlyByFault
<1>2. IInv /\ LostOnlyByFault /\ [Next]_vars => LostOnlyByFault'
  <2> SUFFICES ASSUME IInv, LostOnlyByFault, [Next]_vars,
                      NEW j \in Jobs, fate'[j] = "lost"
               PROVE  faults' > 0
    BY DEF LostOnlyByFault
  <2>1. faults \in Nat
    BY BoundsAssumption DEF IInv, TypeOK
  <2>2. CASE fate[j] = "lost"
    <3>1. faults > 0
      BY <2>2 DEF LostOnlyByFault
    <3>2. faults' = faults \/ faults' = faults + 1
      BY DEF Next, WorkerStep, ProcStep, Enqueue, Tick, Poll, Exit, Pop,
             PopTimeout, PopError, Succeed, Requeue, DeadLetter, SettleError,
             Promote, Shutdown, Crash, Restart, vars
    <3> QED  BY <2>1, <3>1, <3>2
  <2>3. CASE fate[j] # "lost"
    <3>1. faults' = faults + 1
      BY <2>3
      DEF Next, WorkerStep, ProcStep, Enqueue, Tick, Poll, Exit, Pop,
          PopTimeout, PopError, Succeed, Requeue, DeadLetter, SettleError,
          Promote, Shutdown, Crash, Restart, vars, jobVars, IInv, TypeOK
    <3> QED  BY <2>1, <3>1
  <2> QED  BY <2>2, <2>3
<1> QED  BY <1>1, <1>2, Invariance, PTL DEF Spec

-----------------------------------------------------------------------------
(* Refinement *)

\* A step that leaves every job's place alone is a stutter of the abstraction.
LEMMA StutterRefines ==
  ASSUME IInv, UNCHANGED <<holding, fate, attempts>>
  PROVE  UNCHANGED JL!lifeVars
BY HeldUnchanged DEF JL!lifeVars, AbstractStatus

\* A submitted job starts to wait.
LEMMA EnqueueRefines ==
  ASSUME NEW j \in Jobs, NEW d \in Delays, IInv, Enqueue(j, d)
  PROVE  JL!Submit(j)
<1>1. Held' = Held /\ j \notin Held
  BY HeldUnchanged
  DEF IInv, OnePlace, LiveIsSomewhere, Enqueue, workerVars
<1>2. AbstractStatus[j] = "new"
  BY DEF AbstractStatus, Enqueue
<1>3. AbstractStatus' = [AbstractStatus EXCEPT ![j] = "waiting"]
  BY <1>1 DEF AbstractStatus, Enqueue, IInv, TypeOK
<1> QED  BY <1>2, <1>3 DEF JL!Submit, Enqueue

\* A pop starts an attempt; the budget says that one is left.
LEMMA PopRefines ==
  ASSUME NEW w \in Workers, IInv, RetryBudget, Pop(w)
  PROVE  \E j \in Jobs : JL!Start(j)
<1>1. PICK j \in Jobs : /\ j = Head(queue)
                       /\ fate[j] = "live"
                       /\ j \notin Held
                       /\ Held' = Held \union {j}
  BY HeldAfterPop
<1>2. attempts[j] = retries[j] /\ retries[j] \in 0..MaxRetries
  BY <1>1 DEF RetryBudget, BudgetOf, IInv, TypeOK
<1>3. AbstractStatus[j] = "waiting"
  BY <1>1 DEF AbstractStatus
<1>4. AbstractStatus' = [AbstractStatus EXCEPT ![j] = "running"]
  BY <1>1 DEF AbstractStatus, Pop
<1>5. attempts' = [attempts EXCEPT ![j] = @ + 1]
  BY <1>1 DEF Pop
<1>6. attempts[j] <= MaxRetries
  BY <1>2, BoundsAssumption
<1> QED  BY <1>3, <1>4, <1>5, <1>6 DEF JL!Start

\* A worker that settles completes, retries, gives up or loses its job.
LEMMA SettleRefines ==
  ASSUME NEW w \in Workers, IInv, RetryBudget,
         Succeed(w) \/ Requeue(w) \/ DeadLetter(w) \/ SettleError(w)
  PROVE  JL!LifeNext
<1>1. Settle(w) /\ attempts' = attempts
  BY DEF Succeed, Requeue, RetriesLeft, NextRetry, DeadLetter, SettleError
<1>2. PICK j \in Jobs : j = holding[w] /\ j \in Held /\ fate[j] = "live"
  BY <1>1, HeldIsJob DEF Settle
<1>3. Held' = Held \ {j}
  BY <1>1, <1>2, HeldAfterSettle
<1>4. AbstractStatus[j] = "running" /\ attempts[j] = retries[j] + 1
  BY <1>2 DEF AbstractStatus, RetryBudget, BudgetOf
<1>5. retries[j] \in 0..MaxRetries
  BY DEF IInv, TypeOK
<1>6. CASE Succeed(w)
  <2>1. AbstractStatus' = [AbstractStatus EXCEPT ![j] = "done"]
    BY <1>2, <1>3, <1>6 DEF AbstractStatus, Succeed, IInv, TypeOK
  <2> QED  BY <1>1, <1>4, <2>1 DEF JL!LifeNext, JL!Complete
<1>7. CASE Requeue(w)
  <2>1. AbstractStatus' = [AbstractStatus EXCEPT ![j] = "waiting"]
    BY <1>2, <1>3, <1>7 DEF AbstractStatus, Requeue, RetriesLeft, NextRetry
  <2>2. attempts[j] <= MaxRetries
    BY <1>2, <1>4, <1>5, <1>7, BoundsAssumption DEF Requeue, RetriesLeft, NextRetry
  <2> QED  BY <1>1, <1>4, <2>1, <2>2 DEF JL!LifeNext, JL!Retry
<1>8. CASE DeadLetter(w)
  <2>1. AbstractStatus' = [AbstractStatus EXCEPT ![j] = "dead"]
    BY <1>2, <1>3, <1>8 DEF AbstractStatus, DeadLetter, RetriesLeft, IInv, TypeOK
  <2>2. attempts[j] = MaxRetries + 1
    BY <1>2, <1>4, <1>5, <1>8, BoundsAssumption DEF DeadLetter, RetriesLeft
  <2> QED  BY <1>1, <1>4, <2>1, <2>2 DEF JL!LifeNext, JL!GiveUp
<1>9. CASE SettleError(w)
  <2>1. AbstractStatus' = [i \in Jobs |-> IF i \in {j} THEN "lost"
                                         ELSE AbstractStatus[i]]
    BY <1>2, <1>3, <1>9 DEF AbstractStatus, SettleError, IInv, TypeOK
  <2>2. JL!Lose({j})
    BY <1>1, <1>4, <2>1 DEF JL!Lose
  <2> QED  BY <2>2 DEF JL!LifeNext
<1> QED  BY <1>6, <1>7, <1>8, <1>9

\* A crash loses the jobs of one process at once.
LEMMA CrashRefines ==
  ASSUME NEW p \in Procs, IInv, Crash(p)
  PROVE  JL!LifeNext
<1> DEFINE L == HeldBy(p)
<1>1. /\ L \subseteq Held
      /\ Held' = Held \ L
      /\ fate' = [j \in Jobs |-> IF j \in L THEN "lost" ELSE fate[j]]
  BY HeldAfterCrash
<1>2. \A j \in L : j \in Jobs /\ AbstractStatus[j] = "running"
  BY <1>1 DEF AbstractStatus, IInv, OnePlace, LiveIsSomewhere
<1>3. AbstractStatus' = [j \in Jobs |-> IF j \in L THEN "lost"
                                       ELSE AbstractStatus[j]]
  BY <1>1 DEF AbstractStatus
<1>4. JL!Lose(L)
  BY <1>2, <1>3 DEF JL!Lose, Crash
<1> QED  BY <1>2, <1>4 DEF JL!LifeNext

\* Every step is a step of JobLifecycle or a stutter of it.
LEMMA StepRefines ==
  ASSUME IInv, RetryBudget, [Next]_vars
  PROVE  [JL!LifeNext]_(JL!lifeVars)
<1>1. CASE \E j \in Jobs, d \in Delays : Enqueue(j, d)
  BY <1>1, EnqueueRefines DEF JL!LifeNext
<1>2. CASE Tick \/ UNCHANGED vars
  BY <1>2, StutterRefines DEF Tick, workerVars, vars
<1>3. ASSUME NEW w \in Workers, WorkerStep(w)
      PROVE  [JL!LifeNext]_(JL!lifeVars)
  <2>1. CASE Pop(w)
    BY <2>1, PopRefines DEF JL!LifeNext
  <2>2. CASE Succeed(w) \/ Requeue(w) \/ DeadLetter(w) \/ SettleError(w)
    BY <2>2, SettleRefines
  <2>3. CASE Poll(w) \/ Exit(w) \/ PopTimeout(w) \/ PopError(w)
    BY <2>3, StutterRefines DEF Poll, Exit, PopTimeout, PopError, jobVars
  <2> QED  BY <1>3, <2>1, <2>2, <2>3 DEF WorkerStep
<1>4. ASSUME NEW p \in Procs, ProcStep(p)
      PROVE  [JL!LifeNext]_(JL!lifeVars)
  <2>1. CASE Crash(p)
    BY <2>1, CrashRefines
  <2>2. CASE Promote(p) \/ Shutdown(p) \/ Restart(p)
    BY <2>2, StutterRefines DEF Promote, Shutdown, Restart, jobVars, workerVars
  <2> QED  BY <1>4, <2>1, <2>2 DEF ProcStep
<1> QED  BY <1>1, <1>2, <1>3, <1>4 DEF Next

\* The queue, its workers, promoters and processes implement the life of a job
\* that JobLifecycle promises.
THEOREM ImplementsLifecycle == Spec => LifecycleSpec
<1>1. Init => JL!LifeInit
  BY DEF Init, JL!LifeInit, AbstractStatus
<1>2. IInv /\ RetryBudget /\ [Next]_vars => [JL!LifeNext]_(JL!lifeVars)
  BY StepRefines
<1> QED
  BY <1>1, <1>2, Invariance, RetriesCountAttempts, PTL
  DEF Spec, LifecycleSpec, JL!LifeSpec

-----------------------------------------------------------------------------
(* UniqueEnqueue: the initial state *)

LEMMA InitDedupInv == DedupInit => DedupInv
BY DedupAssumption DEF DedupInit, DedupInv, DedupTypeOK, Results, OnePusherPerKey,
   EntryAgesWithCall, WindowCovered

-----------------------------------------------------------------------------
(* UniqueEnqueue: calls.  A call touches the counters of its own caller and key only. *)

LEMMA TakeKeyInv ==
  ASSUME DedupInv, NEW c \in Callers, NEW k \in Keys, TakeKey(c, k)
  PROVE  DedupInv'
<1> USE DEF DedupInv, TakeKey, Expiry, Free
<1>1. DedupTypeOK'
  BY DedupAssumption DEF DedupTypeOK, Results
<1>2. /\ marker'[k] = DedupTTL /\ \A l \in Keys \ {k} : marker'[l] = marker[l]
      /\ key'[c] = k /\ \A d \in Callers \ {c} : key'[d] = key[d]
      /\ elapsed'[c] = 0 /\ \A d \in Callers \ {c} : elapsed'[d] = elapsed[d]
      /\ marker[k] = 0 /\ since' = since /\ k # NoKey
  BY DedupAssumption DEF DedupTypeOK
<1>3. ASSUME MaxLatency < DedupTTL
      PROVE  \A d \in Callers \ {c} : key[d] # k
  <2>1. SUFFICES ASSUME NEW d \in Callers, key[d] = k
                 PROVE  FALSE
    OBVIOUS
  <2>2. marker[k] + elapsed[d] = DedupTTL
    BY <1>2, <1>3, <2>1 DEF EntryAgesWithCall
  <2>3. elapsed[d] \in 0..MaxLatency
    BY <2>1 DEF DedupTypeOK
  <2> QED  BY <1>2, <1>3, <2>2, <2>3, DedupAssumption
<1>4. OnePusherPerKey'
  BY <1>2, <1>3 DEF OnePusherPerKey
<1>5. EntryAgesWithCall'
  <2>1. ASSUME MaxLatency < DedupTTL, NEW d \in Callers \ {c}, key'[d] # NoKey
        PROVE  marker'[key'[d]] + elapsed'[d] = DedupTTL
    <3>1. key[d] \in Keys \ {k} /\ key'[d] = key[d]
      BY <1>2, <1>3, <2>1 DEF DedupTypeOK
    <3> QED  BY <1>2, <2>1, <3>1 DEF EntryAgesWithCall
  <2>2. marker'[key'[c]] + elapsed'[c] = DedupTTL
    BY <1>2, DedupAssumption
  <2> QED  BY <2>1, <2>2 DEF EntryAgesWithCall
<1>6. WindowCovered'
  <2>1. SUFFICES ASSUME MaxLatency < DedupTTL
                 PROVE  /\ \A l \in Keys : since[l] + marker'[l] + MaxLatency >= DedupTTL
                        /\ \A d \in Callers : key'[d] # NoKey =>
                                                since[key'[d]] + MaxLatency >= DedupTTL
    BY <1>2 DEF WindowCovered
  <2>2. since[k] + MaxLatency >= DedupTTL
    <3>1. since[k] + marker[k] + MaxLatency >= DedupTTL
      BY <2>1 DEF WindowCovered
    <3> QED  BY <1>2, <3>1, DedupAssumption DEF DedupTypeOK
  <2>3. ASSUME NEW l \in Keys
        PROVE  since[l] + marker'[l] + MaxLatency >= DedupTTL
    <3>1. CASE l = k
      BY <1>2, <2>2, <3>1, DedupAssumption DEF DedupTypeOK
    <3>2. CASE l # k
      BY <1>2, <2>1, <3>2 DEF WindowCovered
    <3> QED  BY <3>1, <3>2
  <2>4. \A d \in Callers : key'[d] # NoKey => since[key'[d]] + MaxLatency >= DedupTTL
    BY <1>2, <2>1, <2>2 DEF WindowCovered
  <2> QED  BY <2>3, <2>4
<1> QED  BY <1>1, <1>4, <1>5, <1>6

LEMMA PushKeepsInv ==
  ASSUME DedupInv, NEW c \in Callers, Push(c)
  PROVE  DedupInv'
<1> USE DEF DedupInv, Push
<1>1. DedupTypeOK'
  BY DedupAssumption DEF DedupTypeOK, Results
<1>2. /\ key[c] \in Keys /\ since'[key[c]] = 0
      /\ \A l \in Keys \ {key[c]} : since'[l] = since[l]
      /\ key'[c] = NoKey /\ \A d \in Callers \ {c} : key'[d] = key[d]
      /\ marker' = marker /\ elapsed' = elapsed
  BY DEF DedupTypeOK
<1>3. OnePusherPerKey'
  BY <1>2 DEF OnePusherPerKey
<1>4. EntryAgesWithCall'
  BY <1>2 DEF EntryAgesWithCall
<1>5. WindowCovered'
  <2>1. SUFFICES ASSUME MaxLatency < DedupTTL
                 PROVE  /\ \A l \in Keys : since'[l] + marker[l] + MaxLatency >= DedupTTL
                        /\ \A d \in Callers : key'[d] # NoKey =>
                                                since'[key'[d]] + MaxLatency >= DedupTTL
    BY <1>2 DEF WindowCovered
  <2>2. since'[key[c]] + marker[key[c]] + MaxLatency >= DedupTTL
    <3>1. marker[key[c]] + elapsed[c] = DedupTTL
      BY <1>2, <2>1 DEF EntryAgesWithCall
    <3>2. elapsed[c] \in 0..MaxLatency /\ marker[key[c]] \in Nat
      BY <1>2 DEF DedupTypeOK
    <3> QED  BY <1>2, <3>1, <3>2, DedupAssumption
  <2>3. \A l \in Keys : since'[l] + marker[l] + MaxLatency >= DedupTTL
    BY <1>2, <2>1, <2>2 DEF WindowCovered
  <2>4. ASSUME NEW d \in Callers, key'[d] # NoKey
        PROVE  since'[key'[d]] + MaxLatency >= DedupTTL
    <3>1. d # c /\ key'[d] = key[d] /\ key[d] # key[c]
      BY <1>2, <2>1, <2>4 DEF OnePusherPerKey
    <3>2. key[d] \in Keys \ {key[c]}
      BY <2>4, <3>1 DEF DedupTypeOK
    <3> QED  BY <1>2, <2>1, <2>4, <3>1, <3>2 DEF WindowCovered
  <2> QED  BY <2>3, <2>4
<1> QED  BY <1>1, <1>3, <1>4, <1>5

\* A call that ends without a push: the others keep what they have.
LEMMA GiveUpInv ==
  ASSUME DedupInv, NEW c \in Callers, PushError(c) \/ Die(c)
  PROVE  DedupInv'
<1> USE DEF DedupInv
<1>1. DedupTypeOK'
  BY DedupAssumption DEF DedupTypeOK, Results, PushError, Die
<1>2. /\ key'[c] = NoKey /\ \A d \in Callers \ {c} : key'[d] = key[d]
      /\ marker' = marker /\ elapsed' = elapsed /\ since' = since
  BY DEF DedupTypeOK, PushError, Die
<1>3. OnePusherPerKey'
  BY <1>2 DEF OnePusherPerKey
<1>4. EntryAgesWithCall'
  BY <1>2 DEF EntryAgesWithCall
<1>5. WindowCovered'
  BY <1>2 DEF WindowCovered
<1> QED  BY <1>1, <1>3, <1>4, <1>5

\* A call that ends before it began, and a stuttering step.
LEMMA SkipInv ==
  ASSUME DedupInv, \/ \E c \in Callers : (\E k \in Keys : SkipDuplicate(c, k)) \/ DedupError(c)
               \/ UNCHANGED dedupVars
  PROVE  DedupInv'
<1> USE DEF DedupInv
<1>1. DedupTypeOK'
  BY DedupAssumption DEF DedupTypeOK, Results, SkipDuplicate, DedupError, dedupVars
<1>2. UNCHANGED <<marker, key, elapsed, since>>
  BY DEF SkipDuplicate, DedupError, dedupVars
<1>3. OnePusherPerKey' /\ EntryAgesWithCall' /\ WindowCovered'
  BY <1>2 DEF OnePusherPerKey, EntryAgesWithCall, WindowCovered
<1> QED  BY <1>1, <1>3

-----------------------------------------------------------------------------
(* UniqueEnqueue: time *)

LEMMA DedupTickInv ==
  ASSUME DedupInv, DedupTick
  PROVE  DedupInv'
<1> USE DEF DedupInv, DedupTick
<1>1. DedupTypeOK'
  <2>1. marker' \in [Keys -> 0..DedupTTL] /\ since' \in [Keys -> 0..DedupTTL]
    BY DedupAssumption DEF DedupTypeOK
  <2>2. elapsed' \in [Callers -> 0..MaxLatency]
    BY DedupAssumption DEF DedupTypeOK
  <2> QED  BY <2>1, <2>2 DEF DedupTypeOK
<1>2. key' = key
  OBVIOUS
<1>3. OnePusherPerKey'
  BY <1>2 DEF OnePusherPerKey
<1>4. EntryAgesWithCall'
  <2>1. SUFFICES ASSUME MaxLatency < DedupTTL, NEW c \in Callers, key[c] # NoKey
                 PROVE  marker'[key[c]] + elapsed'[c] = DedupTTL
    BY <1>2 DEF EntryAgesWithCall
  <2>2. marker[key[c]] + elapsed[c] = DedupTTL
    BY <2>1 DEF EntryAgesWithCall
  <2>3. key[c] \in Keys /\ elapsed[c] \in 0..MaxLatency /\ marker[key[c]] \in 0..DedupTTL
    BY <2>1 DEF DedupTypeOK
  <2>4. elapsed'[c] = elapsed[c] + 1
    BY <2>1
  <2>5. marker[key[c]] > 0
    BY <2>1, <2>2, <2>3, DedupAssumption
  <2>6. marker'[key[c]] = marker[key[c]] - 1
    BY <2>3, <2>5
  <2> QED  BY <2>2, <2>3, <2>4, <2>6, DedupAssumption
<1>5. WindowCovered'
  <2>1. SUFFICES ASSUME MaxLatency < DedupTTL
                 PROVE  /\ \A k \in Keys : since'[k] + marker'[k] + MaxLatency >= DedupTTL
                        /\ \A c \in Callers : key[c] # NoKey =>
                                                since'[key[c]] + MaxLatency >= DedupTTL
    BY <1>2 DEF WindowCovered
  <2>2. ASSUME NEW k \in Keys
        PROVE  since'[k] + marker'[k] + MaxLatency >= DedupTTL
    <3>1. since[k] + marker[k] + MaxLatency >= DedupTTL
      BY <2>1 DEF WindowCovered
    <3>2. since[k] \in 0..DedupTTL /\ marker[k] \in 0..DedupTTL
      BY DEF DedupTypeOK
    <3>3. /\ marker'[k] = IF marker[k] > 0 THEN marker[k] - 1 ELSE 0
          /\ since'[k] = IF since[k] < DedupTTL THEN since[k] + 1 ELSE DedupTTL
      OBVIOUS
    <3> QED  BY <3>1, <3>2, <3>3, DedupAssumption
  <2>3. ASSUME NEW c \in Callers, key[c] # NoKey
        PROVE  since'[key[c]] + MaxLatency >= DedupTTL
    <3>1. since[key[c]] + MaxLatency >= DedupTTL
      BY <2>1, <2>3 DEF WindowCovered
    <3>2. key[c] \in Keys /\ since[key[c]] \in 0..DedupTTL
      BY <2>3 DEF DedupTypeOK
    <3>3. since'[key[c]] = IF since[key[c]] < DedupTTL THEN since[key[c]] + 1 ELSE DedupTTL
      BY <3>2
    <3> QED  BY <3>1, <3>2, <3>3, DedupAssumption
  <2> QED  BY <2>2, <2>3
<1> QED  BY <1>1, <1>3, <1>4, <1>5

-----------------------------------------------------------------------------
(* UniqueEnqueue: theorems *)

LEMMA NextDedupInv == DedupInv /\ [DedupNext]_dedupVars => DedupInv'
<1> SUFFICES ASSUME DedupInv, [DedupNext]_dedupVars
             PROVE  DedupInv'
  OBVIOUS
<1>1. ASSUME NEW c \in Callers, NEW k \in Keys, TakeKey(c, k)
      PROVE  DedupInv'
  BY <1>1, TakeKeyInv
<1>2. ASSUME NEW c \in Callers, Push(c)
      PROVE  DedupInv'
  BY <1>2, PushKeepsInv
<1>3. ASSUME NEW c \in Callers, PushError(c) \/ Die(c)
      PROVE  DedupInv'
  BY <1>3, GiveUpInv
<1>4. CASE \/ \E c \in Callers : (\E k \in Keys : SkipDuplicate(c, k)) \/ DedupError(c)
           \/ UNCHANGED dedupVars
  BY <1>4, SkipInv
<1>5. CASE DedupTick
  BY <1>5, DedupTickInv
<1> QED  BY <1>1, <1>2, <1>3, <1>4, <1>5 DEF DedupNext

\* The counters are well typed, an entry ages with the call that took it, and
\* no two calls of one key are both about to push (queue.go:61-90).
THEOREM UniqueInvariance == DedupSpec => []DedupInv
<1>1. DedupInit => DedupInv
  BY InitDedupInv
<1>2. DedupInv /\ [DedupNext]_dedupVars => DedupInv'
  BY NextDedupInv
<1> QED  BY <1>1, <1>2, PTL DEF DedupSpec

\* While a call is quicker than the window, two calls of one key never are
\* between SETNX and the push at once (queue.go:62).
THEOREM OnePusher == DedupSpec => []OnePusherPerKey
<1>1. DedupInv => OnePusherPerKey
  BY DEF DedupInv
<1> QED  BY <1>1, UniqueInvariance, PTL

\* A push needs the window to be over but for one latency.
LEMMA PushKeepsWindow ==
  ASSUME DedupInv, NEW k \in Keys, NEW c \in Callers,
         key[c] = k, key'[c] = NoKey, result'[c] = "ok"
  PROVE  since[k] + MaxLatency >= DedupTTL
<1>1. key[c] # NoKey
  BY DedupAssumption
<1>2. CASE MaxLatency < DedupTTL
  BY <1>1, <1>2 DEF DedupInv, WindowCovered
<1>3. CASE MaxLatency >= DedupTTL
  BY <1>3, DedupAssumption DEF DedupInv, DedupTypeOK
<1> QED  BY <1>2, <1>3, DedupAssumption

\* Pushes of one key are the window less the latency of a call apart
\* (queue.go:31-32), for every window and latency and any racing callers.
THEOREM WindowKept == DedupSpec => OnePerWindow
<1>1. DedupInv => [\A k \in Keys :
                 (\E c \in Callers : key[c] = k /\ key'[c] = NoKey /\ result'[c] = "ok")
                   => since[k] + MaxLatency >= DedupTTL]_dedupVars
  BY PushKeepsWindow
<1> QED  BY <1>1, UniqueInvariance, PTL DEF OnePerWindow
=============================================================================
