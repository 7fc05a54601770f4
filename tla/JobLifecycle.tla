---------------------------- MODULE JobLifecycle ----------------------------
(***************************************************************************)
(* What the background-job subsystem of PEPA promises about one job,       *)
(* whatever queues, workers and processes carry it: a submitted job is     *)
(* either waiting for an attempt or being attempted by one worker, it is   *)
(* attempted at most 1 + MaxRetries times, and it ends done, dead (moved   *)
(* to the dead letter list, only after the last attempt failed) or lost    *)
(* (only while it was being attempted).                                    *)
(*                                                                         *)
(* JobQueue implements this specification: see JobQueue!LifecycleSpec.     *)
(***************************************************************************)
EXTENDS Naturals

CONSTANTS Jobs,        \* job identities (Job.ID, a fresh uuid per Enqueue)
          MaxRetries   \* retries granted after the first attempt

VARIABLES status,      \* where each job is in its life
          attempts     \* how many times each job was handed to a worker

lifeVars == <<status, attempts>>

Statuses == {"new", "waiting", "running", "done", "dead", "lost"}

LifeInit == /\ status = [j \in Jobs |-> "new"]
            /\ attempts = [j \in Jobs |-> 0]

Submit(j) == /\ status[j] = "new"
             /\ status' = [status EXCEPT ![j] = "waiting"]
             /\ UNCHANGED attempts

Start(j) == /\ status[j] = "waiting"
            /\ attempts[j] <= MaxRetries
            /\ status' = [status EXCEPT ![j] = "running"]
            /\ attempts' = [attempts EXCEPT ![j] = @ + 1]

Complete(j) == /\ status[j] = "running"
               /\ status' = [status EXCEPT ![j] = "done"]
               /\ UNCHANGED attempts

Retry(j) == /\ status[j] = "running"
            /\ attempts[j] <= MaxRetries
            /\ status' = [status EXCEPT ![j] = "waiting"]
            /\ UNCHANGED attempts

GiveUp(j) == /\ status[j] = "running"
             /\ attempts[j] = MaxRetries + 1
             /\ status' = [status EXCEPT ![j] = "dead"]
             /\ UNCHANGED attempts

\* A crash loses every job its process was attempting, all at once.
Lose(J) == /\ \A j \in J : status[j] = "running"
           /\ status' = [j \in Jobs |-> IF j \in J THEN "lost" ELSE status[j]]
           /\ UNCHANGED attempts

LifeNext == \/ \E j \in Jobs : \/ Submit(j) \/ Start(j) \/ Complete(j)
                               \/ Retry(j) \/ GiveUp(j)
            \/ \E J \in SUBSET Jobs : Lose(J)

LifeSpec == LifeInit /\ [][LifeNext]_lifeVars
=============================================================================
