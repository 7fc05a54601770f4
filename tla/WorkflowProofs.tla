--------------------------- MODULE WorkflowProofs ---------------------------
(***************************************************************************)
(* Proofs about internal/workflow for every value of the constants.        *)
(* WorkflowSteps: the rounds of a dependency graph, whose recursion is     *)
(* unfolded once.  WorkflowDag: buildDAG computes exactly these rounds.    *)
(* WorkflowEngine: an inductive invariant, the safety properties it        *)
(* implies, and the refinement of JobLifecycle.                            *)
(***************************************************************************)
EXTENDS WorkflowEngine, WorkflowDag, FiniteSetTheorems, SequenceTheorems,
        WellFoundedInduction, TLAPS

-----------------------------------------------------------------------------
(* The rounds of a graph *)

LEMMA SmallestOf ==
  ASSUME NEW S, S \subseteq Nat, S # {}
  PROVE  \E x \in S : \A y \in S : x <= y
<1> DEFINE R == OpToRel(<, Nat)
<1>1. \E x \in S : \A y \in S : ~ (<<y, x>> \in R)
  <2>1. IsWellFoundedOn(R, Nat)
    BY NatLessThanWellFounded
  <2> HIDE DEF R
  <2> QED  BY <2>1, WFMin
<1>2. \A x, y \in Nat : x < y => <<x, y>> \in R
  BY DEF OpToRel
<1> HIDE DEF R
<1>3. PICK x \in S : \A y \in S : ~ (<<y, x>> \in R)
  BY <1>1
<1>4. \A y \in S : ~(y < x)
  BY <1>2, <1>3, Zenon
<1> QED  BY <1>4

\* A set of numbers that holds 0 and with each number the next holds them all.
LEMMA AllNumbers ==
  ASSUME NEW S, 0 \in S, \A n \in Nat : n \in S => n + 1 \in S
  PROVE  \A n \in Nat : n \in S
<1> DEFINE Bad == {n \in Nat : n \notin S}
<1>1. SUFFICES ASSUME Bad # {} PROVE FALSE
  OBVIOUS
<1>2. PICK x \in Bad : \A y \in Bad : x <= y
  BY <1>1, SmallestOf
<1>3. x - 1 \in Nat /\ x - 1 \in S
  BY <1>2
<1> QED  BY <1>2, <1>3

\* The definition of FinishedBy, unfolded once: a function with these
\* values exists because every initial part of it does.
LEMMA FinishedByDef ==
  ASSUME NEW deps
  PROVE  /\ FinishedBy(deps)[0] = {}
         /\ \A n \in Nat : FinishedBy(deps)[n + 1] =
                             {s \in DOMAIN deps : deps[s] \subseteq FinishedBy(deps)[n]}
<1> DEFINE Round(X) == {s \in DOMAIN deps : deps[s] \subseteq X}
           Parts(n) == {g \in [0..n -> SUBSET DOMAIN deps] :
                          g[0] = {} /\ \A i \in 1..n : g[i] = Round(g[i - 1])}
           Reached == {n \in Nat : Parts(n) # {}}
<1>1. \A n \in Nat : n \in Reached
  <2>1. 0 \in Reached
    <3>1. [i \in 0..0 |-> {}] \in Parts(0)
      OBVIOUS
    <3> QED  BY <3>1
  <2>2. ASSUME NEW n \in Nat, n \in Reached
        PROVE  n + 1 \in Reached
    <3>1. PICK g \in Parts(n) : TRUE
      BY <2>2
    <3> DEFINE h == [i \in 0..(n + 1) |-> IF i = n + 1 THEN Round(g[n]) ELSE g[i]]
    <3>2. h \in [0..(n + 1) -> SUBSET DOMAIN deps]
      BY <3>1
    <3>3. h[0] = {}
      BY <3>1
    <3>4. ASSUME NEW i \in 1..(n + 1)
          PROVE  h[i] = Round(h[i - 1])
      <4>1. i - 1 \in 0..n /\ h[i - 1] = g[i - 1]
        OBVIOUS
      <4>2. CASE i = n + 1
        <5>1. i - 1 = n /\ h[i] = Round(g[n])
          BY <4>2
        <5> QED  BY <4>1, <5>1
      <4>3. CASE i # n + 1
        <5>1. i \in 1..n /\ h[i] = g[i]
          BY <4>3
        <5> QED  BY <3>1, <4>1, <5>1
      <4> QED  BY <4>2, <4>3
    <3> HIDE DEF h, Round
    <3>5. h \in Parts(n + 1)
      BY <3>2, <3>3, <3>4
    <3> QED  BY <3>5
  <2> HIDE DEF Reached
  <2> QED  BY <2>1, <2>2, AllNumbers
<1>2. ASSUME NEW m \in Nat, NEW n \in Nat, NEW g \in Parts(m), NEW h \in Parts(n)
      PROVE  \A i \in Nat : i <= m /\ i <= n => g[i] = h[i]
  <2> DEFINE Agree == {i \in Nat : i <= m /\ i <= n => g[i] = h[i]}
  <2>1. 0 \in Agree
    OBVIOUS
  <2>2. ASSUME NEW i \in Nat, i \in Agree
        PROVE  i + 1 \in Agree
    <3>1. SUFFICES ASSUME i + 1 <= m, i + 1 <= n PROVE g[i + 1] = h[i + 1]
      OBVIOUS
    <3>2. g[i] = h[i]
      BY <2>2, <3>1
    <3>3. i + 1 \in 1..m /\ i + 1 \in 1..n /\ (i + 1) - 1 = i
      BY <3>1
    <3>4. g[i + 1] = Round(g[i]) /\ h[i + 1] = Round(h[i])
      BY <3>3
    <3> QED  BY <3>2, <3>4
  <2> HIDE DEF Agree
  <2>3. \A i \in Nat : i \in Agree
    BY <2>1, <2>2, AllNumbers
  <2> QED  BY <2>3 DEF Agree
<1> DEFINE part(n) == CHOOSE g : g \in Parts(n)
           whole == [n \in Nat |-> part(n)[n]]
           Unfolds(f) == f = [n \in Nat |-> IF n = 0 THEN {} ELSE Round(f[n - 1])]
<1>3. \A n \in Nat : part(n) \in Parts(n)
  <2>1. ASSUME NEW n \in Nat PROVE \E g : g \in Parts(n)
    BY <1>1
  <2> HIDE DEF Parts
  <2> QED  BY <2>1
<1>4. Unfolds(whole)
  <2>1. ASSUME NEW n \in Nat
        PROVE  whole[n] = IF n = 0 THEN {} ELSE Round(whole[n - 1])
    <3>1. part(n) \in Parts(n)
      BY <1>3
    <3>2. CASE n = 0
      <4>1. part(0)[0] = {}
        BY <3>1, <3>2
      <4> QED  BY <3>2, <4>1
    <3>3. CASE n # 0
      <4>1. n - 1 \in Nat /\ n \in 1..n
        BY <3>3
      <4>2. part(n - 1) \in Parts(n - 1)
        BY <1>3, <4>1
      <4>3. part(n)[n - 1] = part(n - 1)[n - 1]
        <5> HIDE DEF Parts, part
        <5> QED  BY <1>2, <3>1, <4>1, <4>2
      <4>4. part(n)[n] = Round(part(n)[n - 1])
        <5> HIDE DEF part
        <5> QED  BY <3>1, <4>1
      <4> HIDE DEF part, Round
      <4> QED  BY <3>3, <4>1, <4>3, <4>4
    <3> QED  BY <3>2, <3>3
  <2> HIDE DEF part, Round
  <2> QED  BY <2>1
<1>5. FinishedBy(deps) = CHOOSE f : Unfolds(f)
  BY DEF FinishedBy
<1>6. Unfolds(FinishedBy(deps))
  <2> HIDE DEF Unfolds, whole
  <2> QED  BY <1>4, <1>5
<1> HIDE DEF Round
<1>7. FinishedBy(deps)[0] = {}
  BY <1>6
<1>8. ASSUME NEW n \in Nat
      PROVE  FinishedBy(deps)[n + 1] = Round(FinishedBy(deps)[n])
  <2> DEFINE f == FinishedBy(deps)
  <2> HIDE DEF f
  <2>1. n + 1 \in Nat /\ n + 1 # 0 /\ (n + 1) - 1 = n
    OBVIOUS
  <2>2. f = [k \in Nat |-> IF k = 0 THEN {} ELSE Round(f[k - 1])]
    BY <1>6 DEF f
  <2>3. f[n + 1] = Round(f[n])
    BY <2>1, <2>2
  <2> QED  BY <2>3 DEF f
<1> QED  BY <1>7, <1>8 DEF Round

\* A round keeps what the rounds before it have finished.
LEMMA RoundsGrow ==
  ASSUME NEW deps
  PROVE  /\ \A n \in Nat : FinishedBy(deps)[n] \subseteq DOMAIN deps
         /\ \A m, n \in Nat : m <= n => FinishedBy(deps)[m] \subseteq FinishedBy(deps)[n]
<1> DEFINE F == FinishedBy(deps)
<1>1. /\ F[0] = {}
      /\ \A n \in Nat : F[n + 1] = {s \in DOMAIN deps : deps[s] \subseteq F[n]}
  BY FinishedByDef
<1> HIDE DEF F
<1>2. \A n \in Nat : F[n] \subseteq DOMAIN deps /\ F[n] \subseteq F[n + 1]
  <2> DEFINE Grow == {n \in Nat : F[n] \subseteq DOMAIN deps /\ F[n] \subseteq F[n + 1]}
  <2>1. 0 \in Grow
    BY <1>1
  <2>2. ASSUME NEW n \in Nat, n \in Grow
        PROVE  n + 1 \in Grow
    BY <1>1, <2>2
  <2> HIDE DEF Grow
  <2>3. \A n \in Nat : n \in Grow
    BY <2>1, <2>2, AllNumbers
  <2> QED  BY <2>3 DEF Grow
<1>3. ASSUME NEW m \in Nat
      PROVE  \A n \in Nat : m <= n => F[m] \subseteq F[n]
  <2> DEFINE Above == {n \in Nat : m <= n => F[m] \subseteq F[n]}
  <2>1. 0 \in Above
    OBVIOUS
  <2>2. ASSUME NEW n \in Nat, n \in Above
        PROVE  n + 1 \in Above
    BY <1>2, <2>2
  <2> HIDE DEF Above
  <2>3. \A n \in Nat : n \in Above
    BY <2>1, <2>2, AllNumbers
  <2> QED  BY <2>3 DEF Above
<1> QED  BY <1>2, <1>3 DEF F

\* A level is what one round adds: its steps depend only on the rounds before.
LEMMA LevelIsRound ==
  ASSUME NEW deps, NEW n \in Nat
  PROVE  /\ LevelOf(deps, n + 1) = FinishedBy(deps)[n + 1] \ FinishedBy(deps)[n]
         /\ FinishedBy(deps)[n + 1] = FinishedBy(deps)[n] \union LevelOf(deps, n + 1)
         /\ \A s \in FinishedBy(deps)[n + 1] : deps[s] \subseteq FinishedBy(deps)[n]
         /\ LevelOf(deps, 0) = {}
<1>1. /\ FinishedBy(deps)[n + 1] \subseteq DOMAIN deps
      /\ FinishedBy(deps)[n] \subseteq FinishedBy(deps)[n + 1]
  BY RoundsGrow
<1>2. n + 1 > 0 /\ (n + 1) - 1 = n
  OBVIOUS
<1>3. LevelOf(deps, n + 1) = FinishedBy(deps)[n + 1] \ FinishedBy(deps)[n]
  BY <1>1, <1>2 DEF LevelOf
<1>4. FinishedBy(deps)[n + 1] = {s \in DOMAIN deps : deps[s] \subseteq FinishedBy(deps)[n]}
  BY FinishedByDef
<1> QED  BY <1>1, <1>3, <1>4 DEF LevelOf

\* Steps that wait for one another are in no round.
LEMMA CycleNeverFinishes ==
  ASSUME NEW deps, NEW S \in SUBSET DOMAIN deps,
         \A s \in S : deps[s] \intersect S # {}
  PROVE  \A n \in Nat : FinishedBy(deps)[n] \intersect S = {}
<1> DEFINE F == FinishedBy(deps)
           Clear == {n \in Nat : F[n] \intersect S = {}}
<1>1. /\ F[0] = {}
      /\ \A n \in Nat : F[n + 1] = {s \in DOMAIN deps : deps[s] \subseteq F[n]}
  BY FinishedByDef
<1> HIDE DEF F
<1>2. 0 \in Clear
  BY <1>1
<1>3. ASSUME NEW n \in Nat, n \in Clear
      PROVE  n + 1 \in Clear
  BY <1>1, <1>3
<1> HIDE DEF Clear
<1>4. \A n \in Nat : n \in Clear
  BY <1>2, <1>3, AllNumbers
<1> QED  BY <1>4 DEF Clear, F

\* When a round adds nothing, the steps it leaves out wait for one another:
\* without a cycle there are none.
LEMMA LastRound ==
  ASSUME NEW deps, NEW n \in Nat, LevelOf(deps, n + 1) = {}, ~Cyclic(deps),
         \A s \in DOMAIN deps : deps[s] \subseteq DOMAIN deps
  PROVE  FinishedBy(deps)[n] = DOMAIN deps
<1> DEFINE Left == DOMAIN deps \ FinishedBy(deps)[n]
<1>1. FinishedBy(deps)[n + 1] = FinishedBy(deps)[n]
  <2>1. FinishedBy(deps)[n + 1] = FinishedBy(deps)[n] \union LevelOf(deps, n + 1)
    BY LevelIsRound
  <2> QED  BY <2>1
<1>2. \A s \in Left : deps[s] \intersect Left # {}
  BY <1>1, FinishedByDef
<1>3. Left = {}
  BY <1>2 DEF Cyclic
<1> QED  BY <1>3, RoundsGrow

\* If every step is in some round, the graph has no cycle.
LEMMA FinishedIsAcyclic ==
  ASSUME NEW deps, NEW n \in Nat, FinishedBy(deps)[n] = DOMAIN deps
  PROVE  ~Cyclic(deps)
<1>1. SUFFICES ASSUME NEW S \in SUBSET DOMAIN deps, S # {},
                      \A s \in S : deps[s] \intersect S # {}
               PROVE  FALSE
  BY DEF Cyclic
<1>2. FinishedBy(deps)[n] \intersect S = {}
  BY <1>1, CycleNeverFinishes
<1> QED  BY <1>1, <1>2

-----------------------------------------------------------------------------
(* WorkflowEngine: the graph of an execution *)

LEMMA GraphFacts ==
  ASSUME TypeOK
  PROVE  /\ DOMAIN wf.deps = Steps
         /\ \A s \in Steps : wf.deps[s] \subseteq Steps
         /\ \A n \in Nat : FinishedBy(wf.deps)[n] \subseteq Steps
         /\ level \in Nat
         /\ Cardinality(Steps) \in Nat
<1>1. wf.deps \in [Steps -> SUBSET Steps]
  BY EngineAssumption DEF TypeOK, IsWorkflow
<1>2. Cardinality(Steps) \in Nat
  BY EngineAssumption, FS_CardinalityType
<1>3. \A n \in Nat : FinishedBy(wf.deps)[n] \subseteq Steps
  BY <1>1, RoundsGrow
<1> QED  BY <1>1, <1>2, <1>3 DEF TypeOK

\* What the steps of a level depend on has ended.
LEMMA DependenciesDone ==
  ASSUME TypeOK, StepsInLevels, RecordsFollowSteps, NEW s \in Steps, stepPc[s] # "idle"
  PROVE  /\ level > 0
         /\ \A d \in wf.deps[s] : d \in Steps /\ stepPc[d] = "done" /\ results[d] # "none"
<1>1. s \in FinishedBy(wf.deps)[level]
  BY DEF StepsInLevels
<1>2. level # 0 /\ level - 1 \in Nat /\ (level - 1) + 1 = level
  <2>1. FinishedBy(wf.deps)[0] = {}
    BY FinishedByDef
  <2> QED  BY <1>1, <2>1, GraphFacts
<1>3. wf.deps[s] \subseteq FinishedBy(wf.deps)[level - 1]
  BY <1>1, <1>2, LevelIsRound
<1>4. \A d \in wf.deps[s] : d \in Steps /\ stepPc[d] = "done"
  BY <1>2, <1>3, GraphFacts DEF StepsInLevels
<1> QED  BY <1>2, <1>4, GraphFacts DEF RecordsFollowSteps

\* Every action but those of the steps leaves the attempt as it is.
Around == \/ CreateExecution \/ EnqueueJob \/ MarkRunning \/ LoadSteps \/ Reject
          \/ Finish \/ CompleteJob \/ Requeue \/ DeadLetter \/ MapRaceFatal
          \/ (\E s \in Steps : PanicRecovered(s) \/ PanicFatal(s))
          \/ LoseJob \/ Shutdown \/ Restart \/ UNCHANGED vars

LEMMA AroundUnchanged ==
  ASSUME Around
  PROVE  UNCHANGED <<wf, level, stepPc, decided, results, ranNow>>
BY DEF Around, CreateExecution, EnqueueJob, MarkRunning, LoadSteps, Reject, Finish,
   CompleteJob, Requeue, DeadLetter, MapRaceFatal, PanicRecovered, PanicFatal, LoseJob,
   Shutdown, Restart, vars, attemptVars

LEMMA AroundAttempt ==
  ASSUME CoreInv, Around
  PROVE  StepsInLevels' /\ RecordsFollowSteps' /\ VerdictsStand'
<1>1. UNCHANGED <<wf, level, stepPc, decided, results, ranNow>>
  BY AroundUnchanged
<1>2. StepsInLevels'
  BY <1>1 DEF CoreInv, StepsInLevels
<1>3. RecordsFollowSteps'
  BY <1>1 DEF CoreInv, RecordsFollowSteps
<1>4. VerdictsStand'
  BY <1>1 DEF CoreInv, VerdictsStand, HasFailedDeps, Skips, NothingFailedBefore, EarlierSteps
<1> QED  BY <1>2, <1>3, <1>4

\* What an action outside the levels does to the status, the job and the phase.
FateInv == TypeOK /\ JobAndPhase /\ QuietStatus /\ SuccessIsFinal /\ StatusMatchesJob

LEMMA HandlerInv ==
  ASSUME CoreInv, CreateExecution \/ EnqueueJob
  PROVE  FateInv'
BY EngineAssumption DEF CoreInv, FateInv, CreateExecution, EnqueueJob, attemptVars, boundVars,
   TypeOK, JobAndPhase, QuietStatus, SuccessIsFinal, StatusMatchesJob

LEMMA SettleInv ==
  ASSUME CoreInv, CompleteJob \/ Requeue \/ DeadLetter
  PROVE  FateInv'
BY EngineAssumption DEF CoreInv, FateInv, CompleteJob, Requeue, DeadLetter, RetriesLeft,
   attemptVars, boundVars, TypeOK, Phases, JobAndPhase, QuietStatus, SuccessIsFinal,
   StatusMatchesJob

LEMMA FaultInv ==
  ASSUME CoreInv, MapRaceFatal \/ LoseJob \/ Shutdown \/ Restart \/ UNCHANGED vars
  PROVE  FateInv'
<1> USE EngineAssumption DEF CoreInv, FateInv, attemptVars, boundVars
<1>1. TypeOK'
  <2>1. CASE MapRaceFatal
    BY <2>1 DEF TypeOK, Phases, MapRaceFatal
  <2>2. CASE LoseJob
    BY <2>2 DEF TypeOK, Phases, LoseJob
  <2>3. CASE Shutdown
    BY <2>3 DEF TypeOK, Shutdown
  <2>4. CASE Restart
    BY <2>4 DEF TypeOK, Restart
  <2>5. CASE UNCHANGED vars
    BY <2>5 DEF TypeOK, vars
  <2> QED  BY <2>1, <2>2, <2>3, <2>4, <2>5
<1>2. JobAndPhase'
  BY DEF JobAndPhase, MapRaceFatal, LoseJob, Shutdown, Restart, vars
<1>3. QuietStatus'
  BY DEF TypeOK, QuietStatus, MapRaceFatal, LoseJob, Shutdown, Restart, vars
<1>4. SuccessIsFinal'
  <2>1. CASE MapRaceFatal \/ LoseJob
    BY <2>1 DEF JobAndPhase, SuccessIsFinal, MapRaceFatal, LoseJob
  <2>2. CASE Shutdown \/ Restart \/ UNCHANGED vars
    BY <2>2 DEF SuccessIsFinal, Shutdown, Restart, vars
  <2> QED  BY <2>1, <2>2
<1>5. StatusMatchesJob'
  <2>1. CASE MapRaceFatal \/ LoseJob
    BY <2>1 DEF StatusMatchesJob, MapRaceFatal, LoseJob
  <2>2. CASE Shutdown \/ Restart \/ UNCHANGED vars
    BY <2>2 DEF TypeOK, StatusMatchesJob, Shutdown, Restart, vars
  <2> QED  BY <2>1, <2>2
<1> QED  BY <1>1, <1>2, <1>3, <1>4, <1>5

\* A recovered panic is not recorded; one in a larger level ends the process.
LEMMA PanicInv ==
  ASSUME CoreInv, NEW s \in Steps, PanicRecovered(s) \/ PanicFatal(s)
  PROVE  FateInv'
<1> USE DEF CoreInv, FateInv, boundVars, attemptVars
<1>1. phase = "levels" /\ job = "running"
  BY DEF PanicRecovered, PanicFatal, Panics, JobAndPhase
<1>2. status # "success"
  BY <1>1 DEF SuccessIsFinal
<1>3. CASE PanicRecovered(s)
  <2>1. /\ UNCHANGED <<wf, status, job, retries, level, stepPc, decided, results, ranNow,
                       cancelled, fatal, attempts, faults, stops>>
        /\ panicked' = TRUE /\ phase' = "failed"
    BY <1>3 DEF PanicRecovered
  <2>2. TypeOK' /\ JobAndPhase'
    BY <1>1, <2>1 DEF TypeOK, Phases, JobAndPhase
  <2>3. QuietStatus'
    BY <1>1, <2>1 DEF QuietStatus
  <2> QED  BY <1>1, <1>2, <2>1, <2>2, <2>3 DEF SuccessIsFinal, StatusMatchesJob
<1>4. CASE PanicFatal(s)
  <2>1. /\ UNCHANGED <<wf, status, retries, level, stepPc, decided, results, ranNow, panicked,
                       cancelled, attempts, faults, stops>>
        /\ fatal' = TRUE /\ job' = "lost" /\ phase' = "idle"
    BY <1>4 DEF PanicFatal
  <2>2. TypeOK' /\ JobAndPhase'
    BY <1>1, <2>1 DEF TypeOK, Phases, JobAndPhase
  <2>3. QuietStatus'
    BY <2>1 DEF QuietStatus
  <2> QED  BY <1>2, <2>1, <2>2, <2>3 DEF SuccessIsFinal, StatusMatchesJob
<1> QED  BY <1>3, <1>4

LEMMA PrepareInv ==
  ASSUME CoreInv, MarkRunning \/ LoadSteps \/ Reject
  PROVE  FateInv'
BY EngineAssumption DEF CoreInv, FateInv, MarkRunning, LoadSteps, Reject, Persist, CallFails,
   attemptVars, TypeOK, Phases, JobAndPhase, QuietStatus, SuccessIsFinal,
   StatusMatchesJob

\* When Execute returns from the levels, every step has ended.
LEMMA AllDoneAtFinish ==
  ASSUME CoreInv, Finish
  PROVE  \A s \in Steps : stepPc[s] = "done" /\ results[s] # "none"
<1> USE DEF CoreInv
<1>1. ~Cyclic(wf.deps) /\ LevelOf(wf.deps, level + 1) = {}
  BY DEF JobAndPhase, Finish, NextLevel
<1>2. FinishedBy(wf.deps)[level] = Steps
  BY <1>1, LastRound, GraphFacts
<1>3. ASSUME NEW s \in Steps PROVE stepPc[s] = "done"
  <2>1. level # 0 /\ level - 1 \in Nat /\ (level - 1) + 1 = level
    <3>1. FinishedBy(wf.deps)[0] = {}
      BY FinishedByDef
    <3> QED  BY <1>2, <3>1, GraphFacts
  <2>2. CASE s \in FinishedBy(wf.deps)[level - 1]
    BY <2>1, <2>2, GraphFacts DEF StepsInLevels
  <2>3. CASE s \notin FinishedBy(wf.deps)[level - 1]
    <3>1. s \in LevelOf(wf.deps, level)
      BY <1>2, <2>1, <2>3, LevelIsRound
    <3> QED  BY <3>1 DEF Finish, LevelDone
  <2> QED  BY <2>2, <2>3
<1> QED  BY <1>3 DEF RecordsFollowSteps

LEMMA FinishInv ==
  ASSUME CoreInv, Finish
  PROVE  FateInv'
<1> USE DEF CoreInv
<1>1. UNCHANGED <<wf, level, stepPc, decided, results, ranNow, panicked, job, retries,
                  cancelled, fatal, attempts, stops>>
  BY DEF Finish, attemptVars
<1>2. phase = "levels" /\ job = "running"
  BY DEF Finish, JobAndPhase
<1>3. \/ Result = "failed" /\ HasFailed
      \/ Result = "success" /\ \A s \in Steps : results[s] \in {"success", "skipped"}
  <2>1. CASE HasFailed
    BY <2>1 DEF Result
  <2>2. CASE ~HasFailed
    <3>1. \A s \in Steps : results[s] \in StepStatuses \ {"none", "failed"}
      BY <2>2, AllDoneAtFinish DEF TypeOK, HasFailed
    <3> QED  BY <2>2, <3>1 DEF Result, StepStatuses
  <2> QED  BY <2>1, <2>2
<1>4. /\ Persist(Result)
      /\ phase' = IF Result = "failed" THEN "failed" ELSE "succeeded"
  BY DEF Finish
<1>5. /\ status' \in {status, Result}
      /\ faults' \in 0..MaxFaults /\ (faults' = faults \/ faults' = faults + 1)
      /\ faults' = 0 /\ ~cancelled => status' = Result
  BY <1>4, EngineAssumption DEF Persist, CallFails, TypeOK
<1> HIDE DEF Result
<1>6. TypeOK'
  BY <1>1, <1>3, <1>4, <1>5 DEF TypeOK, Phases
<1>7. JobAndPhase'
  BY <1>1, <1>2, <1>3, <1>4 DEF JobAndPhase
<1>8. QuietStatus'
  <2>1. faults' = 0 => faults = 0
    BY <1>5 DEF TypeOK
  <2>2. ~panicked
    BY <1>2 DEF JobAndPhase
  <2> QED  BY <1>1, <1>3, <1>4, <1>5, <2>1, <2>2 DEF QuietStatus
<1>9. status # "success"
  BY <1>2 DEF SuccessIsFinal
<1>10. SuccessIsFinal'
  BY <1>1, <1>3, <1>4, <1>5, <1>9 DEF SuccessIsFinal
<1>11. StatusMatchesJob'
  BY <1>1, <1>2 DEF StatusMatchesJob
<1> QED  BY <1>6, <1>7, <1>8, <1>10, <1>11 DEF FateInv

LEMMA AroundInv == ASSUME CoreInv, Around PROVE CoreInv'
<1>1. FateInv'
  BY HandlerInv, SettleInv, FaultInv, PanicInv, PrepareInv, FinishInv DEF Around
<1> QED  BY <1>1, AroundAttempt DEF FateInv, CoreInv

-----------------------------------------------------------------------------
(* WorkflowEngine: the attempt *)

\* A new attempt starts with nothing run.
LEMMA PopInv ==
  ASSUME CoreInv, Pop
  PROVE  CoreInv'
<1> USE DEF CoreInv
<1>1. /\ level' = 0 /\ wf' = wf /\ ranNow' = {} /\ phase' = "start"
      /\ \A s \in Steps : stepPc'[s] = "idle" /\ decided'[s] = "none" /\ results'[s] = "none"
  BY DEF Pop, AllIdle, NoStatuses
<1>2. FinishedBy(wf.deps)[0] = {}
  BY FinishedByDef
<1>3. TypeOK'
  <2>1. /\ wf' \in Workflows /\ level' \in 0..Cardinality(Steps) /\ phase' \in Phases
        /\ stepPc' \in [Steps -> StepPCs]
        /\ decided' \in [Steps -> StepStatuses] /\ results' \in [Steps -> StepStatuses]
        /\ ranNow' \subseteq Steps /\ attempts' \in Nat
    BY GraphFacts DEF TypeOK, Pop, AllIdle, NoStatuses, StepPCs, StepStatuses, Phases
  <2>2. panicked' = FALSE /\ job' = "running" /\ UNCHANGED <<status, retries, cancelled, fatal,
                                                         faults, stops>>
    BY DEF Pop, boundVars
  <2> QED  BY <2>1, <2>2 DEF TypeOK
<1>4. StepsInLevels'
  BY <1>1, <1>2, FS_EmptySet DEF StepsInLevels
<1>5. RecordsFollowSteps'
  BY <1>1 DEF RecordsFollowSteps
<1>6. VerdictsStand'
  BY <1>1 DEF VerdictsStand
<1>7. JobAndPhase'
  BY DEF Pop, JobAndPhase, TypeOK
<1>8. QuietStatus' /\ StatusMatchesJob'
  BY DEF Pop, QuietStatus, StatusMatchesJob, boundVars
<1>9. SuccessIsFinal'
  BY DEF Pop, SuccessIsFinal, JobAndPhase
<1> QED  BY <1>3, <1>4, <1>5, <1>6, <1>7, <1>8, <1>9

\* The next level is new, and after it there is one step more at least.
LEMMA StartLevelInv ==
  ASSUME CoreInv, StartLevel
  PROVE  CoreInv'
<1> USE DEF CoreInv
<1> DEFINE F == FinishedBy(wf.deps)
<1>1. /\ UNCHANGED <<wf, status, job, retries, phase, decided, results, ranNow, panicked,
                     cancelled, fatal, attempts, faults, stops>>
      /\ level' = level + 1 /\ level \in Nat
      /\ stepPc' = [s \in Steps |-> IF s \in NextLevel THEN "read" ELSE stepPc[s]]
      /\ phase = "levels"
  BY GraphFacts DEF StartLevel, boundVars
<1>2. /\ NextLevel = F[level + 1] \ F[level]
      /\ F[level + 1] = F[level] \union NextLevel
      /\ NextLevel # {} /\ F[level + 1] \subseteq Steps
  BY <1>1, LevelIsRound, GraphFacts DEF NextLevel, StartLevel
<1>3. level + 1 <= Cardinality(F[level + 1]) /\ level + 1 <= Cardinality(Steps)
  <2>1. IsFiniteSet(F[level]) /\ IsFiniteSet(F[level + 1])
    BY <1>2, EngineAssumption, FS_Subset
  <2>2. F[level] \subseteq F[level + 1] /\ F[level] # F[level + 1]
    BY <1>2
  <2>3. /\ Cardinality(F[level]) <= Cardinality(F[level + 1])
        /\ Cardinality(F[level]) # Cardinality(F[level + 1])
    BY <2>1, <2>2, FS_Subset
  <2>4. /\ Cardinality(F[level]) \in Nat /\ Cardinality(F[level + 1]) \in Nat
        /\ Cardinality(F[level + 1]) <= Cardinality(Steps)
    BY <1>2, <2>1, EngineAssumption, FS_Subset, FS_CardinalityType
  <2> QED  BY <1>1, <2>3, <2>4, GraphFacts DEF StepsInLevels
<1>4. TypeOK'
  BY <1>1, <1>3, GraphFacts DEF TypeOK, StepPCs
<1>5. \A s \in F[level] : stepPc[s] = "done"
  <2>1. CASE level = 0
    BY <2>1, FinishedByDef
  <2>2. CASE level # 0
    <3>1. level - 1 \in Nat /\ (level - 1) + 1 = level
      BY <1>1, <2>2
    <3>2. F[level] = F[level - 1] \union LevelOf(wf.deps, level)
      BY <3>1, LevelIsRound
    <3> QED  BY <1>1, <2>2, <3>2 DEF StartLevel, LevelDone, StepsInLevels
  <2> QED  BY <2>1, <2>2
<1> HIDE DEF F
<1>6. StepsInLevels'
  <2>1. \A s \in Steps : stepPc'[s] = "idle" <=> s \notin F[level + 1]
    BY <1>1, <1>2 DEF StepsInLevels, F
  <2>2. \A s \in F[level] : stepPc'[s] = "done"
    BY <1>1, <1>2, <1>5
  <2>3. (level + 1) - 1 = level
    BY <1>1
  <2> QED  BY <1>1, <1>3, <2>1, <2>2, <2>3 DEF StepsInLevels, F
<1>7. \A s \in NextLevel : stepPc[s] = "idle"
  BY <1>2 DEF StepsInLevels, F
<1>8. RecordsFollowSteps'
  BY <1>1, <1>7 DEF RecordsFollowSteps
<1>9. VerdictsStand'
  BY <1>1, <1>7 DEF VerdictsStand, RecordsFollowSteps, HasFailedDeps, Skips, NothingFailedBefore,
     EarlierSteps
<1>10. JobAndPhase' /\ QuietStatus' /\ StatusMatchesJob' /\ SuccessIsFinal'
  BY <1>1 DEF JobAndPhase, QuietStatus, StatusMatchesJob, SuccessIsFinal
<1> QED  BY <1>4, <1>6, <1>8, <1>9, <1>10

\* A step decides on results that will not change: what it depends on, and what
\* lies in earlier levels, has ended.
LEMMA DecideInv ==
  ASSUME CoreInv, NEW s \in Steps, Decide(s)
  PROVE  CoreInv'
<1> USE DEF CoreInv
<1>1. /\ UNCHANGED <<wf, status, job, retries, phase, level, results, ranNow, panicked,
                     cancelled, fatal, attempts, faults, stops>>
      /\ phase = "levels" /\ stepPc[s] = "read"
      /\ decided' = [decided EXCEPT ![s] = Verdict(s)]
      /\ stepPc' = [stepPc EXCEPT ![s] = IF Verdict(s) = "none" THEN "act" ELSE "write"]
  BY DEF Decide, boundVars
<1>2. /\ Verdict(s) \in {"none", "skipped", "failed"}
      /\ Verdict(s) = "none" => wf.runWhen[s] = "always" \/ ~HasFailedDeps(s)
      /\ Verdict(s) = "none" \/ wf.runWhen[s] # "always" \/ Skips(s)
      /\ Verdict(s) = "skipped" => Skips(s) \/ ~HasFailed
      /\ Verdict(s) = "failed" => HasFailedDeps(s)
  BY DEF Verdict
<1>3. /\ decided'[s] = Verdict(s) /\ \A t \in Steps \ {s} : decided'[t] = decided[t]
      /\ stepPc'[s] = IF Verdict(s) = "none" THEN "act" ELSE "write"
      /\ \A t \in Steps \ {s} : stepPc'[t] = stepPc[t]
  BY <1>1 DEF TypeOK
<1>4. TypeOK'
  BY <1>1, <1>2 DEF TypeOK, StepPCs, StepStatuses
<1>5. StepsInLevels'
  BY <1>1, <1>3, GraphFacts DEF StepsInLevels
<1>6. RecordsFollowSteps'
  BY <1>1, <1>3 DEF RecordsFollowSteps
<1>7. s \notin ranNow
  BY <1>1 DEF RecordsFollowSteps
<1>8. VerdictsStand'
  BY <1>1, <1>2, <1>3, <1>7 DEF VerdictsStand, HasFailedDeps, HasFailed, Skips,
     NothingFailedBefore, EarlierSteps
<1>9. JobAndPhase' /\ QuietStatus' /\ StatusMatchesJob' /\ SuccessIsFinal'
  BY <1>1 DEF JobAndPhase, QuietStatus, StatusMatchesJob, SuccessIsFinal
<1> QED  BY <1>4, <1>5, <1>6, <1>8, <1>9

LEMMA ActInv ==
  ASSUME CoreInv, NEW s \in Steps, Act(s)
  PROVE  CoreInv'
<1> USE DEF CoreInv
<1>1. /\ UNCHANGED <<wf, job, retries, phase, level, results, panicked, cancelled, fatal,
                     attempts, stops>>
      /\ phase = "levels" /\ stepPc[s] = "act"
      /\ stepPc' = [stepPc EXCEPT ![s] = "write"]
      /\ ranNow' = ranNow \union {s}
      /\ \E r \in {"success", "failed"} : decided' = [decided EXCEPT ![s] = r]
      /\ status' \in {status, "waiting"}
      /\ faults' \in 0..MaxFaults /\ (faults' = 0 => faults = 0)
  BY EngineAssumption DEF Act, Persist, CallFails, TypeOK
<1>2. /\ decided'[s] \in {"success", "failed"} /\ \A t \in Steps \ {s} : decided'[t] = decided[t]
      /\ stepPc'[s] = "write" /\ \A t \in Steps \ {s} : stepPc'[t] = stepPc[t]
  BY <1>1 DEF TypeOK
<1>3. TypeOK'
  BY <1>1 DEF TypeOK, StepPCs, StepStatuses
<1>4. StepsInLevels'
  BY <1>1, <1>2, GraphFacts DEF StepsInLevels
<1>5. RecordsFollowSteps'
  BY <1>1, <1>2 DEF RecordsFollowSteps
<1>6. VerdictsStand'
  BY <1>1, <1>2 DEF VerdictsStand, HasFailedDeps, Skips, NothingFailedBefore, EarlierSteps
<1>7. JobAndPhase'
  BY <1>1 DEF JobAndPhase
<1>8. QuietStatus' /\ StatusMatchesJob'
  BY <1>1 DEF QuietStatus, StatusMatchesJob, JobAndPhase
<1>9. SuccessIsFinal'
  BY <1>1 DEF SuccessIsFinal, JobAndPhase
<1> QED  BY <1>3, <1>4, <1>5, <1>6, <1>7, <1>8, <1>9

\* The steps of the levels before that of a started step have ended.
LEMMA EarlierDone ==
  ASSUME TypeOK, StepsInLevels, NEW s \in Steps, stepPc[s] # "idle", NEW t \in EarlierSteps(s)
  PROVE  stepPc[t] = "done"
<1> DEFINE F == FinishedBy(wf.deps)
<1>1. PICK m, n \in 1..Cardinality(Steps) :
             m < n /\ t \in LevelOf(wf.deps, m) /\ s \in LevelOf(wf.deps, n)
  BY DEF EarlierSteps
<1>2. /\ m \in Nat /\ n \in Nat /\ n - 1 \in Nat /\ (n - 1) + 1 = n
      /\ m - 1 \in Nat /\ (m - 1) + 1 = m /\ m <= n - 1
  BY <1>1, GraphFacts
<1>3. s \in F[level]
  BY DEF StepsInLevels
<1>4. s \notin F[n - 1] /\ t \in F[m]
  <2>1. LevelOf(wf.deps, (n - 1) + 1) = F[(n - 1) + 1] \ F[n - 1]
    BY <1>2, LevelIsRound
  <2>2. LevelOf(wf.deps, (m - 1) + 1) = F[(m - 1) + 1] \ F[m - 1]
    BY <1>2, LevelIsRound
  <2> QED  BY <1>1, <1>2, <2>1, <2>2
<1>5. m <= level - 1
  <2>1. ~(level <= n - 1)
    BY <1>2, <1>3, <1>4, RoundsGrow, GraphFacts
  <2> QED  BY <1>2, <2>1, GraphFacts
<1>6. t \in F[level - 1] /\ level > 0
  BY <1>2, <1>4, <1>5, RoundsGrow, GraphFacts
<1> QED  BY <1>6 DEF StepsInLevels

LEMMA WriteResultInv ==
  ASSUME CoreInv, NEW s \in Steps, WriteResult(s)
  PROVE  CoreInv'
<1> USE DEF CoreInv
<1>1. /\ UNCHANGED <<wf, status, job, retries, phase, level, decided, ranNow, panicked,
                     cancelled, fatal, attempts, faults, stops>>
      /\ phase = "levels" /\ stepPc[s] = "write"
      /\ results' = [results EXCEPT ![s] = decided[s]]
      /\ stepPc' = [stepPc EXCEPT ![s] = "done"]
  BY DEF WriteResult, boundVars
<1>2. /\ results'[s] = decided[s] /\ \A t \in Steps \ {s} : results'[t] = results[t]
      /\ stepPc'[s] = "done" /\ \A t \in Steps \ {s} : stepPc'[t] = stepPc[t]
      /\ results[s] = "none" /\ decided[s] # "none"
  BY <1>1 DEF TypeOK, RecordsFollowSteps
<1>3. TypeOK'
  BY <1>1 DEF TypeOK, StepPCs
<1>4. StepsInLevels'
  BY <1>1, <1>2, GraphFacts DEF StepsInLevels
<1>5. RecordsFollowSteps'
  BY <1>1, <1>2 DEF RecordsFollowSteps
<1>6. VerdictsStand'
  <2>1. ASSUME NEW t \in Steps, stepPc[t] # "idle"
        PROVE  /\ HasFailedDeps(t)' <=> HasFailedDeps(t)
               /\ \A u \in EarlierSteps(t) : results'[u] = results[u]
               /\ EarlierSteps(t)' = EarlierSteps(t)
    <3>1. \A d \in wf.deps[t] : d \in Steps \ {s}
      BY <1>1, <2>1, DependenciesDone
    <3>2. \A u \in EarlierSteps(t) : u \in Steps \ {s}
      BY <1>1, <2>1, EarlierDone DEF EarlierSteps
    <3> QED  BY <1>1, <1>2, <3>1, <3>2 DEF HasFailedDeps, EarlierSteps
  <2>2. \A t \in Steps : Skips(t) => Skips(t)'
    <3>1. SUFFICES ASSUME NEW t \in Steps, Skips(t) PROVE Skips(t)'
      OBVIOUS
    <3> DEFINE x == wf.skipIfFailed[t]
    <3>2. x # NoStep /\ results[x] = "failed"
      BY <3>1 DEF Skips
    <3>3. x \in Steps \ {s}
      <4>1. x \in Steps \union {NoStep}
        BY EngineAssumption DEF TypeOK, IsWorkflow
      <4> QED  BY <1>2, <3>2, <4>1
    <3> QED  BY <1>1, <1>2, <3>2, <3>3 DEF Skips
  <2>3. \A t \in Steps : /\ stepPc'[t] \in {"write", "done"} => stepPc[t] \in {"write", "done"}
                         /\ stepPc'[t] = "act" => stepPc[t] = "act"
                         /\ t \in ranNow => stepPc[t] \in {"write", "done"}
    BY <1>1, <1>2 DEF RecordsFollowSteps
  <2> SUFFICES ASSUME NEW t \in Steps
               PROVE  /\ stepPc'[t] = "act" \/ t \in ranNow' =>
                           wf'.runWhen[t] = "always" \/ ~HasFailedDeps(t)'
                      /\ stepPc'[t] \in {"write", "done"} /\ t \notin ranNow' =>
                           /\ wf'.runWhen[t] = "always" => Skips(t)'
                           /\ wf'.runWhen[t] = "on_failure" =>
                                Skips(t)' \/ HasFailedDeps(t)' \/ NothingFailedBefore(t)'
    BY DEF VerdictsStand
  <2>4. stepPc'[t] = "act" \/ t \in ranNow' => wf'.runWhen[t] = "always" \/ ~HasFailedDeps(t)'
    BY <1>1, <2>1, <2>3 DEF VerdictsStand
  <2>5. ASSUME stepPc'[t] \in {"write", "done"}, t \notin ranNow'
        PROVE  /\ wf'.runWhen[t] = "always" => Skips(t)'
               /\ wf'.runWhen[t] = "on_failure" =>
                    Skips(t)' \/ HasFailedDeps(t)' \/ NothingFailedBefore(t)'
    BY <1>1, <2>1, <2>2, <2>3, <2>5 DEF VerdictsStand, NothingFailedBefore
  <2> QED  BY <2>4, <2>5
<1>7. JobAndPhase' /\ QuietStatus' /\ StatusMatchesJob'
  BY <1>1 DEF JobAndPhase, QuietStatus, StatusMatchesJob
<1>8. SuccessIsFinal'
  BY <1>1 DEF SuccessIsFinal, JobAndPhase
<1> QED  BY <1>3, <1>4, <1>5, <1>6, <1>7, <1>8

-----------------------------------------------------------------------------
(* WorkflowEngine: theorems *)

LEMMA InitCoreInv == Init => CoreInv
<1> SUFFICES ASSUME Init PROVE CoreInv
  OBVIOUS
<1>1. FinishedBy(wf.deps)[0] = {}
  BY FinishedByDef
<1>2. TypeOK
  <2>1. 0 \in 0..Cardinality(Steps) /\ 0 \in 0..MaxRetries /\ 0 \in 0..MaxFaults /\ 0 \in 0..MaxStops
    BY EngineAssumption, FS_CardinalityType
  <2> QED  BY <2>1 DEF Init, TypeOK, AllIdle, NoStatuses, StepPCs, StepStatuses, Phases
<1>3. StepsInLevels
  BY <1>1, FS_EmptySet DEF Init, StepsInLevels, AllIdle
<1>4. RecordsFollowSteps /\ VerdictsStand
  BY DEF Init, RecordsFollowSteps, VerdictsStand, AllIdle, NoStatuses
<1>5. JobAndPhase /\ QuietStatus /\ SuccessIsFinal /\ StatusMatchesJob
  BY DEF Init, JobAndPhase, QuietStatus, SuccessIsFinal, StatusMatchesJob
<1> QED  BY <1>2, <1>3, <1>4, <1>5 DEF CoreInv

LEMMA NextCoreInv == CoreInv /\ [Next]_vars => CoreInv'
<1> SUFFICES ASSUME CoreInv, [Next]_vars PROVE CoreInv'
  OBVIOUS
<1>1. CASE Around
  BY <1>1, AroundInv
<1>2. CASE Pop
  BY <1>2, PopInv
<1>3. CASE StartLevel
  BY <1>3, StartLevelInv
<1>4. CASE \E s \in Steps : Decide(s) \/ Act(s) \/ WriteResult(s)
  BY <1>4, DecideInv, ActInv, WriteResultInv
<1> QED  BY <1>1, <1>2, <1>3, <1>4 DEF Next, WorkOnJob, Around

LEMMA CoreInvariance == Spec => []CoreInv
BY InitCoreInv, NextCoreInv, PTL DEF Spec

LEMMA CoreImplies ==
  ASSUME CoreInv
  PROVE  DependenciesSettledFirst /\ NoActionAfterFailedDependency
<1>1. DependenciesSettledFirst
  BY DependenciesDone DEF CoreInv, DependenciesSettledFirst, Active
<1>2. NoActionAfterFailedDependency
  BY DEF CoreInv, VerdictsStand, HasFailedDeps, NoActionAfterFailedDependency, TypeOK
<1> QED  BY <1>1, <1>2

\* A step starts only when everything it depends on has recorded its result,
\* whatever graph, conditions, faults and retries (engine.go:109-141).
THEOREM DependenciesFirst == Spec => []LevelsInv
<1>1. CoreInv => LevelsInv
  BY CoreImplies DEF CoreInv, LevelsInv
<1> QED  BY <1>1, CoreInvariance, PTL

\* The inductive invariant of the engine, with what it implies of the steps.
THEOREM EngineInvariance == Spec => []EngineInv
<1>1. CoreInv => EngineInv
  BY CoreImplies DEF EngineInv
<1> QED  BY <1>1, CoreInvariance, PTL

\* A failed dependency stops every step that did not ask to run always, in any
\* order of the goroutines (engine.go:488-492).
THEOREM FailureStopsDependents == Spec => []NoActionAfterFailedDependency
<1>1. CoreInv => NoActionAfterFailedDependency
  BY CoreImplies
<1> QED  BY <1>1, CoreInvariance, PTL

\* A successful execution had no failed step and is not run again
\* (engine.go:169-181, main.go:210-212).
THEOREM SuccessStays == Spec => []SuccessIsFinal
<1>1. CoreInv => SuccessIsFinal
  BY DEF CoreInv
<1> QED  BY <1>1, CoreInvariance, PTL

\* Without faults and shutdowns a completed job means success and a dead one
\* failure, however often the execution was retried, unless a recovered panic
\* ended the last attempt: then the row never says failed (engine.go:60-66).
THEOREM StatusAgreesWithJob == Spec => []StatusMatchesJob
<1>1. CoreInv => StatusMatchesJob
  BY DEF CoreInv
<1> QED  BY <1>1, CoreInvariance, PTL

\* What the engine owes its failure handlers when it returns.
HandlersRan == \A s \in Steps \ ranNow :
  /\ wf.runWhen[s] = "always" => Skips(s)
  /\ wf.runWhen[s] = "on_failure" => \/ Skips(s) \/ HasFailedDeps(s)
                                    \/ NothingFailedBefore(s)

\* When the levels end, every always step has run, unless its skip_when held
\* (engine.go:143-144), and so has every on_failure step after a failure that
\* was not the failure of a step it depends on (engine.go:483-492).
THEOREM HandlersRun == Spec => FailureHandlersRun
<1>1. CoreInv => [Finish => HandlersRan]_vars
  <2> SUFFICES ASSUME CoreInv, Finish, NEW s \in Steps \ ranNow
               PROVE  /\ wf.runWhen[s] = "always" => Skips(s)
                      /\ wf.runWhen[s] = "on_failure" => \/ Skips(s) \/ HasFailedDeps(s)
                                                        \/ NothingFailedBefore(s)
    BY DEF HandlersRan
  <2>1. stepPc[s] = "done"
    BY AllDoneAtFinish
  <2> QED  BY <2>1 DEF CoreInv, RecordsFollowSteps, VerdictsStand
<1>2. [][Finish => HandlersRan]_vars => FailureHandlersRun
  BY DEF FailureHandlersRun, HandlersRan
<1> QED  BY <1>1, <1>2, CoreInvariance, PTL

-----------------------------------------------------------------------------
(* WorkflowEngine: the refinement of JobLifecycle *)

LEMMA StepRefines ==
  ASSUME CoreInv, [Next]_vars
  PROVE  [JL!LifeNext]_(JL!lifeVars)
<1> USE DEF CoreInv, JL!LifeNext, JL!lifeVars
<1>1. CASE EnqueueJob
  <2>1. JL!Submit("job")
    BY <1>1 DEF EnqueueJob, JL!Submit
  <2> QED  BY <2>1
<1>2. CASE Pop
  <2>1. JL!Start("job")
    <3>1. attempts = retries /\ retries <= MaxRetries
      BY <1>2, EngineAssumption DEF Pop, JobAndPhase, TypeOK
    <3>2. /\ job = "waiting" /\ job' = "running" /\ attempts' = attempts + 1
      BY <1>2 DEF Pop
    <3> QED  BY <3>1, <3>2 DEF JL!Start
  <2> QED  BY <2>1
<1>3. CASE CompleteJob
  <2>1. JL!Complete("job")
    BY <1>3 DEF CompleteJob, JobAndPhase, JL!Complete
  <2> QED  BY <2>1
<1>4. CASE Requeue
  <2>1. JL!Retry("job")
    BY <1>4, EngineAssumption DEF Requeue, RetriesLeft, JobAndPhase, TypeOK, JL!Retry
  <2> QED  BY <2>1
<1>5. CASE DeadLetter
  <2>1. JL!GiveUp("job")
    BY <1>5, EngineAssumption DEF DeadLetter, RetriesLeft, JobAndPhase, TypeOK, JL!GiveUp
  <2> QED  BY <2>1
<1>6. CASE MapRaceFatal \/ LoseJob \/ \E s \in Steps : PanicFatal(s)
  <2>1. JL!Lose({"job"})
    BY <1>6 DEF MapRaceFatal, LoseJob, PanicFatal, Panics, JobAndPhase, JL!Lose
  <2> QED  BY <2>1
<1>7. CASE \/ CreateExecution \/ MarkRunning \/ LoadSteps \/ Reject \/ StartLevel \/ Finish
           \/ Shutdown \/ Restart \/ UNCHANGED vars
           \/ \E s \in Steps : Decide(s) \/ Act(s) \/ WriteResult(s) \/ PanicRecovered(s)
  <2>1. UNCHANGED <<job, attempts>>
    BY <1>7 DEF CreateExecution, MarkRunning, LoadSteps, Reject, StartLevel, Finish,
       Shutdown, Restart, vars, Decide, Act, WriteResult, PanicRecovered
  <2> QED  BY <2>1
<1> QED  BY <1>1, <1>2, <1>3, <1>4, <1>5, <1>6, <1>7 DEF Next, WorkOnJob

\* The job of an execution is attempted at most 1 + MaxRetries times and ends
\* done, dead or lost, as JobLifecycle promises of every job.
THEOREM EngineImplementsLifecycle == Spec => LifecycleSpec
<1>1. Init => JL!LifeInit
  BY DEF Init, JL!LifeInit
<1> QED  BY <1>1, StepRefines, CoreInvariance, PTL DEF Spec, LifecycleSpec, JL!LifeSpec

-----------------------------------------------------------------------------
(* WorkflowDag: step lists and their entries *)

\* Where a list has an entry in S.
Positions(list, S) == {k \in DOMAIN list : list[k] \in S}

LEMMA PositionFacts ==
  ASSUME NEW list, list \in Seq(Range(list))
  PROVE  /\ Len(list) \in Nat
         /\ DOMAIN list = 1..Len(list)
         /\ \A S : /\ IsFiniteSet(Positions(list, S))
                   /\ Cardinality(Positions(list, S)) \in 0..Len(list)
                   /\ Cardinality(Positions(list, S)) = 0 <=> Range(list) \intersect S = {}
                   /\ Range(list) \subseteq S => Cardinality(Positions(list, S)) = Len(list)
<1>1. Len(list) \in Nat /\ DOMAIN list = 1..Len(list)
  BY LenProperties
<1>2. IsFiniteSet(DOMAIN list) /\ Cardinality(DOMAIN list) = Len(list)
  <2>1. /\ IsFiniteSet(1..Len(list))
        /\ Cardinality(1..Len(list)) = IF 1 > Len(list) THEN 0 ELSE Len(list) - 1 + 1
    BY <1>1, FS_Interval
  <2> QED  BY <1>1, <2>1
<1>3. ASSUME NEW S
      PROVE  /\ IsFiniteSet(Positions(list, S))
             /\ Cardinality(Positions(list, S)) \in 0..Len(list)
             /\ Cardinality(Positions(list, S)) = 0 <=> Range(list) \intersect S = {}
             /\ Range(list) \subseteq S => Cardinality(Positions(list, S)) = Len(list)
  <2>1. Positions(list, S) \subseteq DOMAIN list
    BY DEF Positions
  <2>2. /\ IsFiniteSet(Positions(list, S))
        /\ Cardinality(Positions(list, S)) <= Len(list)
    BY <1>2, <2>1, FS_Subset
  <2>3. /\ Cardinality(Positions(list, S)) \in Nat
        /\ Cardinality(Positions(list, S)) = 0 <=> Positions(list, S) = {}
    BY <2>2, FS_CardinalityType, FS_EmptySet
  <2>4. Positions(list, S) = {} <=> Range(list) \intersect S = {}
    BY DEF Positions, Range
  <2>5. Range(list) \subseteq S => Positions(list, S) = DOMAIN list
    BY DEF Positions, Range
  <2> QED  BY <1>1, <1>2, <2>2, <2>3, <2>4, <2>5
<1> QED  BY <1>1, <1>3

\* Counting down: the entries in S that are not in T.
LEMMA PositionsOfDifference ==
  ASSUME NEW list, list \in Seq(Range(list)), NEW S, NEW T, T \subseteq S
  PROVE  Cardinality(Positions(list, S \ T)) =
           Cardinality(Positions(list, S)) - Cardinality(Positions(list, T))
<1>1. /\ Positions(list, S \ T) = Positions(list, S) \ Positions(list, T)
      /\ Positions(list, S) \intersect Positions(list, T) = Positions(list, T)
  BY DEF Positions
<1>2. IsFiniteSet(Positions(list, S))
  BY PositionFacts
<1> QED  BY <1>1, <1>2, FS_Difference

LEMMA StepListFacts ==
  ASSUME steps \in StepLists
  PROVE  /\ Len(steps) \in Nat
         /\ DOMAIN steps = 1..Len(steps)
         /\ \A i \in DOMAIN steps : steps[i].deps \in Seq(Range(steps[i].deps))
         /\ IsFiniteSet(Names)
         /\ Cardinality(Names) \in 0..Len(steps)
         /\ \A n \in Names : IndexOf(n) \in DOMAIN steps /\ steps[IndexOf(n)].name = n
         /\ NamesValid => Cardinality(Names) = Len(steps)
<1>1. /\ steps \in Seq(Range(steps))
      /\ \A i \in DOMAIN steps : steps[i].deps \in Seq(Range(steps[i].deps))
  BY StepListsAssumption DEF IsStepList
<1>2. Len(steps) \in Nat /\ DOMAIN steps = 1..Len(steps)
  BY <1>1, LenProperties
<1>3. IsFiniteSet(DOMAIN steps) /\ Cardinality(DOMAIN steps) = Len(steps)
  <2>1. /\ IsFiniteSet(1..Len(steps))
        /\ Cardinality(1..Len(steps)) = IF 1 > Len(steps) THEN 0 ELSE Len(steps) - 1 + 1
    BY <1>2, FS_Interval
  <2> QED  BY <1>2, <2>1
<1> DEFINE f == [i \in DOMAIN steps |-> steps[i].name]
<1>4. f \in Surjection(DOMAIN steps, Names)
  BY DEF Names, Surjection
<1>5. IsFiniteSet(Names) /\ Cardinality(Names) <= Len(steps)
  BY <1>3, <1>4, FS_Surjection
<1>6. Cardinality(Names) \in Nat
  BY <1>5, FS_CardinalityType
<1>7. ASSUME NEW n \in Names
      PROVE  IndexOf(n) \in DOMAIN steps /\ steps[IndexOf(n)].name = n
  <2>1. \E i \in DOMAIN steps : steps[i].name = n
    BY DEF Names
  <2> QED  BY <2>1 DEF IndexOf
<1>8. NamesValid => Cardinality(Names) = Len(steps)
  <2>1. ASSUME NamesValid PROVE f \in Injection(DOMAIN steps, Names)
    <3>1. ASSUME NEW i \in DOMAIN steps, NEW j \in DOMAIN steps, i < j
          PROVE  steps[i].name # steps[j].name
      BY <1>2, <2>1, <3>1 DEF NamesValid, DuplicateAt
    <3>2. \A i, j \in DOMAIN steps : steps[i].name = steps[j].name => i = j
      BY <1>2, <3>1
    <3> QED  BY <3>2 DEF Names, Injection, IsInjective
  <2> QED  BY <1>3, <1>4, <2>1, FS_Surjection
<1> QED  BY <1>1, <1>2, <1>5, <1>6, <1>7, <1>8

\* The graph of a list whose dependencies exist.
LEMMA DepsFacts ==
  ASSUME steps \in StepLists, DepsKnown
  PROVE  /\ DOMAIN Deps = Names
         /\ \A n \in Names : /\ Deps[n] = Range(steps[IndexOf(n)].deps)
                             /\ Deps[n] \subseteq Names
BY StepListFacts DEF Deps, DepsKnown

LEMMA EntriesArePositions ==
  \A i, S : Entries(i, S) = Cardinality(Positions(steps[i].deps, S))
BY DEF Entries, Positions

\* An action of the sort leaves the list alone, and all that is read from it.
LEMMA ListUnchanged ==
  ASSUME UNCHANGED steps
  PROVE  /\ Names' = Names /\ Deps' = Deps
         /\ (NamesValid' <=> NamesValid) /\ (DepsKnown' <=> DepsKnown)
         /\ \A n : IndexOf(n)' = IndexOf(n)
<1>1. Names' = Names
  BY DEF Names
<1>2. \A n : IndexOf(n)' = IndexOf(n)
  BY DEF IndexOf
<1>3. Deps' = Deps
  BY <1>1, <1>2 DEF Deps
<1>4. (NamesValid' <=> NamesValid) /\ (DepsKnown' <=> DepsKnown)
  BY <1>1 DEF NamesValid, EmptyAt, DuplicateAt, DepsKnown
<1> QED  BY <1>1, <1>2, <1>3, <1>4

LEMMA CountsAfter ==
  ASSUME UNCHANGED steps, DOMAIN inDegree' = Names \ Placed',
         \A n \in Names \ Placed' :
           inDegree'[n] = Cardinality(Positions(steps[IndexOf(n)].deps, Names \ Placed'))
  PROVE  CountsUnplaced'
<1>1. Names' = Names /\ \A n : IndexOf(n)' = IndexOf(n)
  BY ListUnchanged
<1> QED  BY <1>1 DEF CountsUnplaced, Entries, Positions

-----------------------------------------------------------------------------
(* WorkflowDag: the actions *)

LEMMA InitDagInv == DagInit => DagInv
<1> SUFFICES ASSUME DagInit PROVE DagInv
  OBVIOUS
<1>1. Len(steps) \in Nat
  BY StepListFacts DEF DagInit
<1>2. DagTypeOK
  BY <1>1 DEF DagInit, DagTypeOK
<1> QED  BY <1>2 DEF DagInit, DagInv, SortInv, CountsUnplaced, PlacedIsFinished,
            MatchesReference, LevelsMatchReference, AcceptsExactlyDags

LEMMA RejectInv ==
  ASSUME DagInv, RejectName \/ RejectDependency
  PROVE  DagInv'
<1>1. /\ UNCHANGED <<steps, inDegree, levels, processed>>
      /\ outcome' \in {"empty name", "duplicate", "unknown dependency"}
  BY DEF RejectName, RejectDependency
<1>2. Names' = Names
  BY <1>1, ListUnchanged
<1>3. DagTypeOK'
  BY <1>1, <1>2 DEF DagInv, SortInv, DagTypeOK, Errors
<1> QED  BY <1>1, <1>3 DEF DagInv, SortInv, CountsUnplaced, PlacedIsFinished,
            MatchesReference, LevelsMatchReference, AcceptsExactlyDags

LEMMA CountInv ==
  ASSUME DagInv, CountDependencies
  PROVE  DagInv'
<1> USE DEF DagInv, SortInv
<1>1. /\ UNCHANGED <<steps, levels, processed>> /\ outcome' = "sort"
      /\ inDegree' = [n \in Names |-> Len(steps[IndexOf(n)].deps)]
      /\ steps \in StepLists /\ NamesValid /\ DepsKnown
      /\ levels = <<>> /\ processed = 0
  BY DEF CountDependencies, DagTypeOK, PlacedIsFinished
<1>2. /\ Names' = Names /\ Deps' = Deps /\ NamesValid' /\ DepsKnown'
  BY <1>1, ListUnchanged
<1>3. Placed' = {} /\ Len(levels') = 0 /\ DOMAIN levels' = {}
  BY <1>1 DEF Placed, Range
<1>4. ASSUME NEW n \in Names
      PROVE  /\ Len(steps[IndexOf(n)].deps) \in Nat
             /\ Len(steps[IndexOf(n)].deps) = Entries(IndexOf(n), Names)
  <2>1. /\ IndexOf(n) \in DOMAIN steps
        /\ steps[IndexOf(n)].deps \in Seq(Range(steps[IndexOf(n)].deps))
    BY <1>1, StepListFacts
  <2>2. Range(steps[IndexOf(n)].deps) \subseteq Names
    BY <1>1, <2>1 DEF DepsKnown
  <2> QED  BY <2>1, <2>2, PositionFacts, EntriesArePositions
<1>5. DagTypeOK'
  BY <1>1, <1>2, <1>4 DEF DagTypeOK
<1>6. CountsUnplaced'
  <2>1. Names \ Placed' = Names
    BY <1>3
  <2> QED  BY <1>1, <1>4, <2>1, CountsAfter, EntriesArePositions
<1>7. PlacedIsFinished'
  BY <1>1, <1>2, <1>3, FinishedByDef, FS_EmptySet DEF PlacedIsFinished
<1>8. MatchesReference'
  BY <1>1, <1>3 DEF MatchesReference, LevelsMatchReference, AcceptsExactlyDags
<1> QED  BY <1>5, <1>6, <1>7, <1>8

\* The steps the scan finds ready are those of the next round.
LEMMA ReadyIsNextLevel ==
  ASSUME DagInv, outcome = "sort"
  PROVE  /\ Ready = LevelOf(Deps, Len(levels) + 1)
         /\ Ready \subseteq Names \ Placed
         /\ Placed \subseteq Names
         /\ FinishedBy(Deps)[Len(levels) + 1] = Placed \union Ready
         /\ Len(levels) \in Nat
<1> USE DEF DagInv, SortInv
<1>1. /\ steps \in StepLists /\ NamesValid /\ DepsKnown
      /\ Len(levels) \in Nat
      /\ Placed = FinishedBy(Deps)[Len(levels)]
      /\ DOMAIN inDegree = Names \ Placed
  BY LenProperties DEF DagTypeOK, PlacedIsFinished, CountsUnplaced
<1>2. /\ LevelOf(Deps, Len(levels) + 1) = FinishedBy(Deps)[Len(levels) + 1] \ Placed
      /\ FinishedBy(Deps)[Len(levels) + 1] = Placed \union LevelOf(Deps, Len(levels) + 1)
      /\ FinishedBy(Deps)[Len(levels) + 1] = {n \in DOMAIN Deps : Deps[n] \subseteq Placed}
      /\ Placed \subseteq Names
  BY <1>1, LevelIsRound, FinishedByDef, RoundsGrow, DepsFacts
<1>3. ASSUME NEW n \in Names \ Placed
      PROVE  inDegree[n] = 0 <=> Deps[n] \subseteq Placed
  <2>1. inDegree[n] = Cardinality(Positions(steps[IndexOf(n)].deps, Names \ Placed))
    BY <1>1, EntriesArePositions DEF CountsUnplaced
  <2>2. steps[IndexOf(n)].deps \in Seq(Range(steps[IndexOf(n)].deps))
    BY <1>1, StepListFacts
  <2>3. inDegree[n] = 0 <=> Range(steps[IndexOf(n)].deps) \intersect (Names \ Placed) = {}
    BY <2>1, <2>2, PositionFacts
  <2>4. Deps[n] = Range(steps[IndexOf(n)].deps) /\ Deps[n] \subseteq Names
    BY <1>1, DepsFacts
  <2> QED  BY <2>3, <2>4
<1>4. Ready = {n \in Names \ Placed : Deps[n] \subseteq Placed}
  BY <1>1, <1>3 DEF Ready
<1>5. Ready = LevelOf(Deps, Len(levels) + 1)
  BY <1>1, <1>2, <1>4, DepsFacts
<1> QED  BY <1>1, <1>2, <1>4, <1>5

LEMMA PlaceLevelInv ==
  ASSUME DagInv, PlaceLevel
  PROVE  DagInv'
<1> USE DEF DagInv, SortInv
<1> DEFINE L == Len(levels)
<1>0. /\ UNCHANGED <<steps, outcome>> /\ outcome = "sort"
      /\ levels' = Append(levels, Ready)
      /\ processed' = processed + Cardinality(Ready)
      /\ inDegree' = [n \in DOMAIN inDegree \ Ready |->
                        inDegree[n] - Entries(IndexOf(n), Ready)]
  BY DEF PlaceLevel
<1>1. /\ steps \in StepLists /\ NamesValid /\ DepsKnown
      /\ levels \in Seq(SUBSET Names)
      /\ DOMAIN inDegree = Names \ Placed
      /\ processed = Cardinality(Placed)
  <2>1. outcome = "sort"
    BY <1>0
  <2>2. steps \in StepLists /\ levels \in Seq(SUBSET Names)
    BY DEF DagTypeOK
  <2>3. NamesValid /\ DepsKnown /\ processed = Cardinality(Placed)
    BY <2>1 DEF PlacedIsFinished
  <2> QED  BY <2>1, <2>2, <2>3 DEF CountsUnplaced
<1>2. /\ Names' = Names /\ Deps' = Deps /\ NamesValid' /\ DepsKnown'
  BY <1>0, <1>1, ListUnchanged
<1>3. /\ Ready = LevelOf(Deps, L + 1)
      /\ Ready \subseteq Names \ Placed
      /\ Placed \subseteq Names
      /\ FinishedBy(Deps)[L + 1] = Placed \union Ready
      /\ L \in Nat
  BY <1>0, <1>1, ReadyIsNextLevel
<1>4. /\ levels' \in Seq(SUBSET Names)
      /\ Len(levels') = L + 1
      /\ DOMAIN levels = 1..L /\ DOMAIN levels' = 1..(L + 1)
      /\ \A k \in 1..L : levels'[k] = levels[k]
      /\ levels'[L + 1] = Ready
  BY <1>0, <1>1, <1>3, LenProperties
<1> HIDE DEF L
<1>5. Placed' = Placed \union Ready
  BY <1>3, <1>4 DEF Placed, Range
<1>6. ASSUME NEW n \in Names \ Placed'
      PROVE  /\ inDegree'[n] = Cardinality(Positions(steps[IndexOf(n)].deps, Names \ Placed'))
             /\ inDegree'[n] \in Nat
  <2> DEFINE list == steps[IndexOf(n)].deps
  <2>1. list \in Seq(Range(list))
    BY <1>0, <1>1, StepListFacts
  <2>2. inDegree[n] = Cardinality(Positions(list, Names \ Placed))
    BY <1>0, <1>1, <1>5, EntriesArePositions DEF CountsUnplaced
  <2>3. inDegree'[n] = inDegree[n] - Cardinality(Positions(list, Ready))
    BY <1>0, <1>1, <1>5, EntriesArePositions
  <2>4. (Names \ Placed) \ Ready = Names \ Placed'
    BY <1>5
  <2> HIDE DEF list
  <2>5. inDegree'[n] = Cardinality(Positions(list, Names \ Placed'))
    BY <1>3, <2>1, <2>2, <2>3, <2>4, PositionsOfDifference
  <2>6. Cardinality(Positions(list, Names \ Placed')) \in Nat
    BY <2>1, PositionFacts
  <2> QED  BY <2>5, <2>6 DEF list
<1>7. DOMAIN inDegree' = Names \ Placed'
  BY <1>0, <1>1, <1>5
<1>8. CountsUnplaced'
  BY <1>0, <1>1, <1>6, <1>7, CountsAfter
<1>9. processed' = Cardinality(Placed') /\ processed' \in 0..Len(steps)
  <2>1. IsFiniteSet(Placed) /\ IsFiniteSet(Ready) /\ IsFiniteSet(Placed')
    BY <1>0, <1>1, <1>3, <1>5, StepListFacts, FS_Subset
  <2>2. Placed \intersect Ready = {}
    BY <1>3
  <2>3. Cardinality(Placed') = Cardinality(Placed) + Cardinality(Ready) - 0
    BY <1>5, <2>1, <2>2, FS_Union, FS_EmptySet
  <2>4. Cardinality(Placed) \in Nat /\ Cardinality(Ready) \in Nat /\ Cardinality(Placed') \in Nat
    BY <2>1, FS_CardinalityType
  <2>5. Cardinality(Placed') <= Cardinality(Names)
    BY <1>0, <1>1, <1>3, <1>5, StepListFacts, FS_Subset
  <2> QED  BY <1>0, <1>1, <2>3, <2>4, <2>5, StepListFacts
<1>10. DagTypeOK'
  <2>1. \A n \in DOMAIN inDegree' : inDegree'[n] \in Nat
    BY <1>6, <1>7
  <2>2. outcome' \in {"validate", "sort", "ok"} \union Errors
    BY <1>0
  <2>3. steps' \in StepLists /\ Len(steps') = Len(steps)
    BY <1>0, <1>1
  <2> HIDE DEF DagInv
  <2> QED  BY <1>2, <1>4, <1>7, <1>9, <2>1, <2>2, <2>3 DEF DagTypeOK
<1>11. PlacedIsFinished'
  BY <1>0, <1>1, <1>2, <1>3, <1>4, <1>5, <1>9 DEF PlacedIsFinished
<1>12. MatchesReference'
  <2>1. \A k \in 1..(L + 1) : levels'[k] = LevelOf(Deps, k)
    <3>1. \A k \in 1..L : levels[k] = LevelOf(Deps, k)
      BY <1>0, <1>1, <1>4 DEF MatchesReference, LevelsMatchReference
    <3>2. \A k \in 1..(L + 1) : k \in 1..L \/ k = L + 1
      BY <1>3
    <3> QED  BY <1>3, <1>4, <3>1, <3>2
  <2> QED  BY <1>0, <1>1, <1>2, <1>4, <2>1
           DEF MatchesReference, LevelsMatchReference, AcceptsExactlyDags
<1> QED  BY <1>8, <1>10, <1>11, <1>12

\* The loop ends with every step placed, or with steps that wait for one
\* another.
LEMMA EndSortInv ==
  ASSUME DagInv, EndSort
  PROVE  DagInv'
<1> USE DEF DagInv, SortInv
<1>1. /\ UNCHANGED <<steps, inDegree, levels, processed>>
      /\ outcome = "sort" /\ Ready = {}
      /\ outcome' = IF processed < Len(steps) THEN "cycle" ELSE "ok"
      /\ steps \in StepLists /\ NamesValid /\ DepsKnown
      /\ processed = Cardinality(Placed)
      /\ Placed = FinishedBy(Deps)[Len(levels)]
  BY DEF EndSort, DagTypeOK, PlacedIsFinished
<1>2. Names' = Names /\ Deps' = Deps /\ NamesValid' /\ DepsKnown' /\ Placed' = Placed
  BY <1>1, ListUnchanged DEF Placed
<1>3. /\ LevelOf(Deps, Len(levels) + 1) = {}
      /\ Placed \subseteq Names
      /\ Len(levels) \in Nat
  BY <1>1, ReadyIsNextLevel
<1>4. DOMAIN Deps = Names /\ \A n \in DOMAIN Deps : Deps[n] \subseteq DOMAIN Deps
  BY <1>1, DepsFacts
<1>5. Cardinality(Names) = Len(steps) /\ IsFiniteSet(Names)
  BY <1>1, StepListFacts
<1>6. outcome' = "cycle" => Cyclic(Deps)
  <2>1. ASSUME ~Cyclic(Deps) PROVE Placed = Names
    BY <1>1, <1>3, <1>4, <2>1, LastRound
  <2>2. Placed = Names => ~(processed < Len(steps))
    BY <1>1, <1>5, FS_CardinalityType
  <2> QED  BY <1>1, <2>1, <2>2
<1>7. outcome' = "ok" => Placed = Names /\ ~Cyclic(Deps)
  <2>1. SUFFICES ASSUME ~(processed < Len(steps)) PROVE Placed = Names /\ ~Cyclic(Deps)
    BY <1>1
  <2>2. /\ IsFiniteSet(Placed) /\ Cardinality(Placed) <= Cardinality(Names)
        /\ Cardinality(Placed) = Cardinality(Names) => Placed = Names
    BY <1>3, <1>5, FS_Subset
  <2>3. Cardinality(Placed) \in Nat /\ Cardinality(Names) \in Nat
    BY <1>5, <2>2, FS_CardinalityType
  <2>4. Placed = Names
    BY <1>1, <1>5, <2>1, <2>2, <2>3
  <2> QED  BY <1>1, <1>3, <1>4, <2>4, FinishedIsAcyclic
<1>8. outcome' \in {"ok", "cycle"}
  BY <1>1
<1>9. DagTypeOK'
  BY <1>1, <1>2, <1>8 DEF DagTypeOK, Errors
<1>10. PlacedIsFinished' /\ CountsUnplaced'
  BY <1>1, <1>2, <1>8 DEF PlacedIsFinished, CountsUnplaced
<1>11. MatchesReference'
  BY <1>1, <1>2, <1>6, <1>7, <1>8
     DEF MatchesReference, LevelsMatchReference, AcceptsExactlyDags
<1> QED  BY <1>9, <1>10, <1>11

-----------------------------------------------------------------------------
(* WorkflowDag: theorems *)

LEMMA StutterDagInv == ASSUME DagInv, UNCHANGED dagVars PROVE DagInv'
<1>1. UNCHANGED <<steps, inDegree, levels, processed, outcome>>
  BY DEF dagVars
<1>2. /\ Names' = Names /\ Deps' = Deps /\ (NamesValid' <=> NamesValid)
      /\ (DepsKnown' <=> DepsKnown) /\ Placed' = Placed
      /\ \A n : IndexOf(n)' = IndexOf(n)
  BY <1>1, ListUnchanged DEF Placed
<1>3. DagTypeOK' /\ PlacedIsFinished' /\ MatchesReference'
  BY <1>1, <1>2 DEF DagInv, SortInv, DagTypeOK, PlacedIsFinished, MatchesReference,
     LevelsMatchReference, AcceptsExactlyDags
<1>4. CountsUnplaced'
  BY <1>1, <1>2 DEF DagInv, SortInv, CountsUnplaced, Entries
<1> QED  BY <1>3, <1>4 DEF DagInv, SortInv

LEMMA DagInvariance == DagSpec => []DagInv
<1>1. DagInv /\ [DagNext]_dagVars => DagInv'
  BY RejectInv, CountInv, PlaceLevelInv, EndSortInv, StutterDagInv DEF DagNext
<1> QED  BY <1>1, InitDagInv, PTL DEF DagSpec

\* The counters of the sort stay the number of entries no level holds yet, for
\* every step list, repeated entries included (engine.go:585-614).
THEOREM CountersExact == DagSpec => []SortInv
<1>1. DagInv => SortInv
  BY DEF DagInv
<1> QED  BY <1>1, DagInvariance, PTL

\* buildDAG accepts exactly the acyclic workflows with distinct names and known
\* dependencies, and sorts each into the rounds of the reference definition
\* (engine.go:559-624), for every step list.
THEOREM SortsLikeReference == DagSpec => []MatchesReference
<1>1. DagInv => MatchesReference
  BY DEF DagInv
<1> QED  BY <1>1, DagInvariance, PTL
\* Each turn of the loop places a step.
LEMMA TurnPlacesStep ==
  ASSUME DagInv, Len(levels) <= processed, [DagNext]_dagVars
  PROVE  Len(levels') <= processed'
<1>1. levels \in Seq(SUBSET Names) /\ Len(levels) \in Nat /\ processed \in Nat
  <2>1. levels \in Seq(SUBSET Names) /\ steps \in StepLists /\ processed \in 0..Len(steps)
    BY DEF DagInv, SortInv, DagTypeOK
  <2> QED  BY <2>1, LenProperties
<1>2. CASE PlaceLevel
  <2>1. /\ levels' = Append(levels, Ready)
        /\ processed' = processed + Cardinality(Ready)
        /\ Ready # {} /\ outcome = "sort"
    BY <1>2 DEF PlaceLevel
  <2>2. steps \in StepLists /\ NamesValid /\ DepsKnown /\ Ready \subseteq Names
    BY <2>1 DEF DagInv, SortInv, DagTypeOK, PlacedIsFinished, CountsUnplaced, Ready
  <2>3. IsFiniteSet(Ready)
    BY <2>2, StepListFacts, FS_Subset
  <2>4. Cardinality(Ready) \in Nat /\ Cardinality(Ready) # 0
    BY <2>1, <2>3, FS_CardinalityType, FS_EmptySet
  <2>5. Len(levels') = Len(levels) + 1
    BY <1>1, <2>1
  <2> QED  BY <1>1, <2>1, <2>4, <2>5
<1>3. CASE UNCHANGED <<levels, processed>>
  BY <1>3
<1> QED  BY <1>2, <1>3 DEF DagNext, RejectName, RejectDependency, CountDependencies,
            EndSort, dagVars

\* The loop of buildDAG goes round at most once for each step of the list, cyclic
\* lists included: it cannot go on for ever (engine.go:598-618).
THEOREM RoundsBounded == DagSpec => [](Len(levels) <= Len(steps))
<1>1. DagInit => Len(levels) <= processed
  BY DEF DagInit
<1>2. DagSpec => [](Len(levels) <= processed)
  <2>1. DagInv /\ Len(levels) <= processed /\ [DagNext]_dagVars
          => (Len(levels) <= processed)'
    BY TurnPlacesStep
  <2> QED  BY <1>1, <2>1, DagInvariance, PTL DEF DagSpec
<1>3. DagInv /\ Len(levels) <= processed => Len(levels) <= Len(steps)
  <2> SUFFICES ASSUME DagInv, Len(levels) <= processed PROVE Len(levels) <= Len(steps)
    OBVIOUS
  <2>1. levels \in Seq(SUBSET Names) /\ steps \in StepLists /\ processed \in 0..Len(steps)
    BY DEF DagInv, SortInv, DagTypeOK
  <2>2. Len(levels) \in Nat /\ Len(steps) \in Nat
    BY <2>1, StepListsAssumption, LenProperties DEF IsStepList
  <2> QED  BY <2>1, <2>2
<1> QED  BY <1>2, <1>3, DagInvariance, PTL
=============================================================================
