------------------------------ MODULE JobQueue ------------------------------
(***************************************************************************)
(* The Redis job queue of internal/queue/queue.go together with its        *)
(* consumers, the worker goroutines and the delayed-job promoter of        *)
(* cmd/worker/main.go.                                                     *)
(*                                                                         *)
(* Producers LPUSH jobs on the list pepa:jobs (or ZADD them to the sorted  *)
(* set pepa:jobs:delayed); a worker BRPOPs one, so that it is held only in *)
(* the worker's memory, runs it, and on an error or a recovered panic      *)
(* either ZADDs it back with a quadratic backoff or, out of retries,       *)
(* LPUSHes it on pepa:jobs:dead.  A Lua script moves the delayed jobs that *)
(* are due to the list.  Processes are stopped, crash and are restarted,   *)
(* and any Redis call may fail.                                            *)
(*                                                                         *)
(* One tick of the clock is ten seconds, the unit of the backoff.          *)
(***************************************************************************)
EXTENDS Integers, FiniteSets, Sequences, Functions

CONSTANTS Jobs,        \* identities of the jobs producers may submit
          Workers,     \* worker goroutines of all worker processes
          Procs,       \* worker processes
          ProcOf,      \* the process each goroutine belongs to
          NoJob,       \* what an idle worker holds
          MaxRetries,  \* 3 in the code
          Delays,      \* delays producers ask for; 0 is an immediate job
          MaxAge,      \* bound: ages are counted up to this value
          MaxFaults,   \* bound: crashes and failed Redis calls
          MaxStops     \* bound: graceful shutdowns

ASSUME JobsAssumption == IsFiniteSet(Jobs) /\ NoJob \notin Jobs
ASSUME WorkersAssumption == ProcOf \in [Workers -> Procs]
ASSUME BoundsAssumption ==
  /\ MaxRetries \in Nat
  /\ Delays \subseteq Nat
  /\ MaxAge \in Nat
  /\ MaxFaults \in Nat
  /\ MaxStops \in Nat

\* Every delay can elapse within the ages counted.
ASSUME AgeAssumption == /\ \A d \in Delays : d <= MaxAge
                        /\ MaxRetries * MaxRetries <= MaxAge

VARIABLES queue,     \* list pepa:jobs; the head is the end BRPOP takes from
          delayed,   \* members of the sorted set pepa:jobs:delayed
          delay,     \* delay each job was last put in `delayed` with
          age,       \* ticks since then, while the job is in `delayed`
          retries,   \* Job.Retries
          fate,      \* "new" | "live" | "done" | "dead" | "lost"
          pc,        \* where each worker is in the loop of runWorker
          holding,   \* the job each worker has popped and not settled
          stopping,  \* processes whose context is cancelled or that are down
          attempts,  \* history: times each job was popped
          faults,    \* history: crashes and failed Redis calls so far
          stops      \* history: graceful shutdowns so far

jobVars == <<queue, delayed, delay, age, retries, fate, attempts>>
workerVars == <<pc, holding>>
vars == <<queue, delayed, delay, age, retries, fate, pc, holding, stopping,
          attempts, faults, stops>>

-----------------------------------------------------------------------------
(* The state and its parts *)

PCs == {"top", "pop", "run", "exited"}
Fates == {"new", "live", "done", "dead", "lost"}

Queued == Range(queue)
Held == {holding[w] : w \in Workers} \ {NoJob}

\* Backoff, in ticks of ten seconds, before retry number r.
Backoff(r) == r * r

\* Slips of runWorker: one attempt too many, one too few.
RetriesLeftOnceMore(j) == retries[j] <= MaxRetries
RetriesLeftOnceLess(j) == retries[j] + 1 < MaxRetries

\* runWorker requeues a failed job as long as this holds.
RetriesLeft(j) == retries[j] < MaxRetries

NextRetry(j) == retries[j] + 1

\* A slip of the promotion script: it takes the first members, due or not.
AllDelayed == delayed

\* Members of the sorted set whose score is not after the current time.
Due == {j \in delayed : age[j] >= delay[j]}

\* Redis returns members by ascending score; equal scores come in the order
\* of the members' bytes, which the random job ids make arbitrary.
PromotionOrders ==
  {s \in Bijection(1..Cardinality(Due), Due) :
     \A a, b \in DOMAIN s :
       a < b => delay[s[a]] - age[s[a]] <= delay[s[b]] - age[s[b]]}

WorkersOf(p) == {w \in Workers : ProcOf[w] = p}

TypeOK == /\ queue \in Seq(Jobs)
          /\ delayed \subseteq Jobs
          /\ delay \in [Jobs -> Nat]
          /\ age \in [Jobs -> 0..MaxAge]
          /\ retries \in [Jobs -> 0..MaxRetries]
          /\ fate \in [Jobs -> Fates]
          /\ pc \in [Workers -> PCs]
          /\ holding \in [Workers -> Jobs \union {NoJob}]
          /\ stopping \subseteq Procs
          /\ attempts \in [Jobs -> Nat]
          /\ faults \in 0..MaxFaults
          /\ stops \in 0..MaxStops

Init == /\ queue = <<>>
        /\ delayed = {}
        /\ delay = [j \in Jobs |-> 0]
        /\ age = [j \in Jobs |-> 0]
        /\ retries = [j \in Jobs |-> 0]
        /\ fate = [j \in Jobs |-> "new"]
        /\ pc = [w \in Workers |-> "top"]
        /\ holding = [w \in Workers |-> NoJob]
        /\ stopping = {}
        /\ attempts = [j \in Jobs |-> 0]
        /\ faults = 0
        /\ stops = 0

-----------------------------------------------------------------------------
(* Producers *)

\* Enqueue and EnqueueWithDelay: a Redis failure returns an error to the
\* caller and leaves everything as it was, so only success is a step.
Enqueue(j, d) ==
  /\ fate[j] = "new"
  /\ fate' = [fate EXCEPT ![j] = "live"]
  /\ \/ /\ d = 0
        /\ queue' = Append(queue, j)
        /\ UNCHANGED <<delayed, delay>>
     \/ /\ d > 0
        /\ delayed' = delayed \union {j}
        /\ delay' = [delay EXCEPT ![j] = d]
        /\ UNCHANGED queue
  /\ UNCHANGED <<age, retries, attempts, workerVars, stopping, faults, stops>>

-----------------------------------------------------------------------------
(* The delayed set *)

Tick ==
  /\ delayed # {}
  /\ age' = [j \in Jobs |-> IF j \in delayed /\ age[j] < MaxAge
                            THEN age[j] + 1 ELSE age[j]]
  /\ UNCHANGED <<queue, delayed, delay, retries, fate, attempts, workerVars,
                 stopping, faults, stops>>

\* A slip of the script: it pushes the due jobs and forgets to remove them.
PromoteWithoutRemoval(p) ==
  /\ p \notin stopping
  /\ Due # {}
  /\ \E s \in PromotionOrders : queue' = queue \o s
  /\ UNCHANGED <<delayed, delay, age, retries, fate, attempts, workerVars,
                 stopping, faults, stops>>

\* PromoteDelayedJobs, called every five seconds by the promoter goroutine of
\* a process that is not shutting down; the Lua script is atomic.
Promote(p) ==
  /\ p \notin stopping
  /\ Due # {}
  /\ \E s \in PromotionOrders : queue' = queue \o s
  /\ delayed' = delayed \ Due
  /\ UNCHANGED <<delay, age, retries, fate, attempts, workerVars, stopping,
                 faults, stops>>

-----------------------------------------------------------------------------
(* Worker goroutines: one iteration of the loop of runWorker *)

\* The context is checked at the top of the loop only; then BRPOP blocks.
Poll(w) ==
  /\ pc[w] = "top"
  /\ ProcOf[w] \notin stopping
  /\ pc' = [pc EXCEPT ![w] = "pop"]
  /\ UNCHANGED <<jobVars, holding, stopping, faults, stops>>

Exit(w) ==
  /\ pc[w] = "top"
  /\ ProcOf[w] \in stopping
  /\ pc' = [pc EXCEPT ![w] = "exited"]
  /\ UNCHANGED <<jobVars, holding, stopping, faults, stops>>

\* BRPOP returns a job, also when the context was cancelled meanwhile.
Pop(w) ==
  /\ pc[w] = "pop"
  /\ queue # <<>>
  /\ queue' = Tail(queue)
  /\ holding' = [holding EXCEPT ![w] = Head(queue)]
  /\ attempts' = [attempts EXCEPT ![Head(queue)] = @ + 1]
  /\ pc' = [pc EXCEPT ![w] = "run"]
  /\ UNCHANGED <<delayed, delay, age, retries, fate, stopping, faults, stops>>

\* BRPOP returns redis.Nil after five seconds without a job.
PopTimeout(w) ==
  /\ pc[w] = "pop"
  /\ queue = <<>>
  /\ pc' = [pc EXCEPT ![w] = "top"]
  /\ UNCHANGED <<jobVars, holding, stopping, faults, stops>>

\* BRPOP fails; the worker goes round the loop.
PopError(w) ==
  /\ pc[w] = "pop"
  /\ faults < MaxFaults
  /\ faults' = faults + 1
  /\ pc' = [pc EXCEPT ![w] = "top"]
  /\ UNCHANGED <<jobVars, holding, stopping, stops>>

\* The worker is done with the job it holds and goes round the loop.
Settle(w) ==
  /\ pc[w] = "run"
  /\ pc' = [pc EXCEPT ![w] = "top"]
  /\ holding' = [holding EXCEPT ![w] = NoJob]

\* processJob returns nil.
Succeed(w) ==
  /\ Settle(w)
  /\ fate' = [fate EXCEPT ![holding[w]] = "done"]
  /\ UNCHANGED <<queue, delayed, delay, age, retries, attempts, stopping,
                 faults, stops>>

\* processJob returns an error or panics with retries left: EnqueueJobWithDelay.
Requeue(w) ==
  LET j == holding[w]
      r == NextRetry(j)
  IN  /\ Settle(w)
      /\ RetriesLeft(j)
      /\ retries' = [retries EXCEPT ![j] = r]
      /\ delayed' = delayed \union {j}
      /\ delay' = [delay EXCEPT ![j] = Backoff(r)]
      /\ age' = [age EXCEPT ![j] = 0]
      /\ UNCHANGED <<queue, fate, attempts, stopping, faults, stops>>

\* ... and with no retries left: MoveToDeadLetter.
DeadLetter(w) ==
  LET j == holding[w]
  IN  /\ Settle(w)
      /\ ~RetriesLeft(j)
      /\ fate' = [fate EXCEPT ![j] = "dead"]
      /\ UNCHANGED <<queue, delayed, delay, age, retries, attempts, stopping,
                     faults, stops>>

\* ... and the Redis call of either fails: the error is logged and the worker
\* goes round the loop without the job.
SettleError(w) ==
  /\ Settle(w)
  /\ faults < MaxFaults
  /\ faults' = faults + 1
  /\ fate' = [fate EXCEPT ![holding[w]] = "lost"]
  /\ UNCHANGED <<queue, delayed, delay, age, retries, attempts, stopping,
                 stops>>

-----------------------------------------------------------------------------
(* Worker processes *)

\* A slip of main: it does not wait for its workers before it returns.
ShutdownWithoutWait(p) ==
  /\ p \notin stopping
  /\ stops < MaxStops
  /\ stops' = stops + 1
  /\ stopping' = stopping \union {p}
  /\ pc' = [w \in Workers |-> IF ProcOf[w] = p THEN "exited" ELSE pc[w]]
  /\ holding' = [w \in Workers |-> IF ProcOf[w] = p THEN NoJob ELSE holding[w]]
  /\ fate' = [j \in Jobs |-> IF \E w \in WorkersOf(p) : holding[w] = j
                             THEN "lost" ELSE fate[j]]
  /\ UNCHANGED <<queue, delayed, delay, age, retries, attempts, faults>>

\* SIGINT or SIGTERM cancels the context of one process.
Shutdown(p) ==
  /\ p \notin stopping
  /\ stops < MaxStops
  /\ stops' = stops + 1
  /\ stopping' = stopping \union {p}
  /\ UNCHANGED <<jobVars, workerVars, faults>>

\* The process dies (killed, out of memory, or a panic outside runWorker's
\* recover): what its goroutines held existed nowhere else.
Crash(p) ==
  /\ faults < MaxFaults
  /\ faults' = faults + 1
  /\ stopping' = stopping \union {p}
  /\ pc' = [w \in Workers |-> IF ProcOf[w] = p THEN "exited" ELSE pc[w]]
  /\ holding' = [w \in Workers |-> IF ProcOf[w] = p THEN NoJob ELSE holding[w]]
  /\ fate' = [j \in Jobs |-> IF \E w \in WorkersOf(p) : holding[w] = j
                             THEN "lost" ELSE fate[j]]
  /\ UNCHANGED <<queue, delayed, delay, age, retries, attempts, stops>>

Restart(p) ==
  /\ p \in stopping
  /\ \A w \in WorkersOf(p) : pc[w] = "exited"
  /\ stopping' = stopping \ {p}
  /\ pc' = [w \in Workers |-> IF ProcOf[w] = p THEN "top" ELSE pc[w]]
  /\ UNCHANGED <<jobVars, holding, faults, stops>>

-----------------------------------------------------------------------------

WorkerStep(w) == \/ Poll(w) \/ Exit(w) \/ Pop(w) \/ PopTimeout(w)
                 \/ PopError(w) \/ Succeed(w) \/ Requeue(w) \/ DeadLetter(w)
                 \/ SettleError(w)

ProcStep(p) == Promote(p) \/ Shutdown(p) \/ Crash(p) \/ Restart(p)

Next == \/ \E j \in Jobs, d \in Delays : Enqueue(j, d)
        \/ Tick
        \/ \E w \in Workers : WorkerStep(w)
        \/ \E p \in Procs : ProcStep(p)

Spec == Init /\ [][Next]_vars

\* Time passes, a live promoter's ticker fires, a worker goroutine is
\* scheduled, Redis hands a pushed job to some blocked client or answers nil
\* after five seconds, every handler returns, and the container runtime
\* restarts a stopped process.  Nothing
\* forces a producer to act, a job to succeed, or a fault to happen.
Fairness == /\ WF_vars(Tick)
            /\ \A p \in Procs : WF_vars(Promote(p)) /\ WF_vars(Restart(p))
            /\ \A w \in Workers : /\ WF_vars(Poll(w) \/ Exit(w))
                                  /\ WF_vars(PopTimeout(w))
                                  /\ WF_vars(Succeed(w) \/ Requeue(w)
                                               \/ DeadLetter(w))
            /\ WF_vars(\E w \in Workers : Pop(w))

FairSpec == Spec /\ Fairness

-----------------------------------------------------------------------------
(* Properties *)

\* No job is in the list twice: neither a promotion, a retry nor a restart
\* (queue.go:104-148) ever doubles a job that is already waiting.
QueuedOnce == IsInjective(queue)

\* No two workers hold the same job, however pops, crashes and restarts
\* interleave (main.go:149-162).
HeldOnce == \A v, w \in Workers :
              holding[v] = holding[w] /\ holding[v] # NoJob => v = w

\* The list, the delayed set and the workers never share a job: a retry or a
\* promotion moves it and never copies it.
PlacesDisjoint == /\ Queued \intersect delayed = {}
                  /\ Queued \intersect Held = {}
                  /\ delayed \intersect Held = {}

\* A job is somewhere in the system exactly while it is live: nothing is
\* dropped by a retry, a promotion or a shutdown, and a job that was
\* completed, dead-lettered or lost is never run again.
LiveIsSomewhere == Queued \union delayed \union Held
                     = {j \in Jobs : fate[j] = "live"}

\* Every accepted job is in exactly one place.
OnePlace == QueuedOnce /\ HeldOnce /\ PlacesDisjoint /\ LiveIsSomewhere

\* The Retries field (main.go:175-206) counts the attempts that failed, over
\* every mixture of errors, panics, crashes and promotions: a job that waits
\* was attempted exactly `retries` times, any other exactly once more.  So a
\* job is run at most 1 + MaxRetries times and dies only after all of them.
BudgetOf(j) ==
  /\ fate[j] = "new" => attempts[j] = 0 /\ retries[j] = 0
  /\ fate[j] = "live" =>
       attempts[j] = retries[j] + (IF j \in Held THEN 1 ELSE 0)
  /\ fate[j] \in {"done", "dead", "lost"} => attempts[j] = retries[j] + 1
  /\ fate[j] = "dead" => attempts[j] = MaxRetries + 1

RetryBudget == \A j \in Jobs : BudgetOf(j)

\* A job that is back in the list or running again has waited its backoff
\* since the attempt that failed (main.go:176-177, 197-198).
BackoffElapsed ==
  \A j \in Queued \union Held : age[j] >= Backoff(retries[j])

\* A job disappears only when a process crashed or a Redis call failed.  In
\* particular a graceful shutdown (main.go:127-135), which lets a worker pop
\* one more job after the signal, loses nothing.
LostOnlyByFault == (\E j \in Jobs : fate[j] = "lost") => faults > 0

\* Every accepted job is eventually completed or dead-lettered, as long as no
\* process crashes and Redis answers, even across graceful shutdowns.
EventuallySettled ==
  \A j \in Jobs : (fate[j] = "live") ~> (fate[j] \in {"done", "dead"})

-----------------------------------------------------------------------------
(* Refinement of JobLifecycle *)

AbstractStatus ==
  [j \in Jobs |-> IF fate[j] # "live" THEN fate[j]
                  ELSE IF j \in Held THEN "running" ELSE "waiting"]

JL == INSTANCE JobLifecycle WITH status <- AbstractStatus

LifecycleSpec == JL!LifeSpec
=============================================================================
