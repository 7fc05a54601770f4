---------------------------- MODULE UniqueEnqueue ----------------------------
(***************************************************************************)
(* EnqueueUnique and EnqueueWithDelayUnique of internal/queue/queue.go:    *)
(* the idempotency key is taken by SETNX with a time to live, and the job  *)
(* is pushed by a second Redis call.  Callers of one key race; the calls   *)
(* fail independently; a caller may die between them.                      *)
(*                                                                         *)
(* What happens to the job afterwards is JobQueue's business.              *)
(***************************************************************************)
EXTENDS Naturals

CONSTANTS Callers,     \* concurrent calls of EnqueueUnique
          Keys,        \* idempotency keys
          NoKey,       \* the key of a caller with no call in progress
          DedupTTL,    \* dedupTTL in ticks: 60 s
          MaxLatency,  \* bound: ticks a call spends between its two Redis calls
          MaxDedupFaults \* bound: failed Redis calls and caller deaths

ASSUME DedupAssumption == /\ DedupTTL \in Nat \ {0}
                          /\ MaxLatency \in Nat
                          /\ MaxDedupFaults \in Nat
                          /\ NoKey \notin Keys

VARIABLES marker,   \* ticks each key's dedup entry still lives; 0: absent
          key,      \* the key of the call each caller has in progress
          elapsed,  \* ticks since that call took its key
          result,   \* what each caller's last call returned
          since,    \* history: ticks since a job with the key was pushed
          dedupFaults \* history: faults so far

dedupVars == <<marker, key, elapsed, result, since, dedupFaults>>

Results == {"none", "ok", "duplicate", "error"}

DedupTypeOK == /\ marker \in [Keys -> 0..DedupTTL]
               /\ key \in [Callers -> Keys \union {NoKey}]
               /\ elapsed \in [Callers -> 0..MaxLatency]
               /\ result \in [Callers -> Results]
               /\ since \in [Keys -> 0..DedupTTL]
               /\ dedupFaults \in 0..MaxDedupFaults

\* `since` saturates at DedupTTL, which also stands for "never".
DedupInit == /\ marker = [k \in Keys |-> 0]
             /\ key = [c \in Callers |-> NoKey]
             /\ elapsed = [c \in Callers |-> 0]
             /\ result = [c \in Callers |-> "none"]
             /\ since = [k \in Keys |-> DedupTTL]
             /\ dedupFaults = 0

\* Slips of enqueueWithKey: a lifetime in the wrong unit, one too short, and a
\* check that is not part of the same command as the write.
ExpiryTooLong == 2 * DedupTTL
ExpiryTooShort == DedupTTL \div 2
AlwaysFree(k) == TRUE

\* What SETNX is given and what it checks.
Expiry == DedupTTL
Free(k) == marker[k] = 0

\* SETNX answers true: the call goes on to push the job.
TakeKey(c, k) ==
  /\ key[c] = NoKey
  /\ Free(k)
  /\ marker' = [marker EXCEPT ![k] = Expiry]
  /\ key' = [key EXCEPT ![c] = k]
  /\ elapsed' = [elapsed EXCEPT ![c] = 0]
  /\ result' = [result EXCEPT ![c] = "none"]
  /\ UNCHANGED <<since, dedupFaults>>

\* SETNX answers false: the call returns nil without pushing anything.
SkipDuplicate(c, k) ==
  /\ key[c] = NoKey
  /\ ~Free(k)
  /\ result' = [result EXCEPT ![c] = "duplicate"]
  /\ UNCHANGED <<marker, key, elapsed, since, dedupFaults>>

\* SETNX fails: the call returns an error.
DedupError(c) ==
  /\ key[c] = NoKey
  /\ dedupFaults < MaxDedupFaults
  /\ dedupFaults' = dedupFaults + 1
  /\ result' = [result EXCEPT ![c] = "error"]
  /\ UNCHANGED <<marker, key, elapsed, since>>

\* LPUSH or ZADD succeeds: the call returns nil.
Push(c) ==
  /\ key[c] # NoKey
  /\ since' = [since EXCEPT ![key[c]] = 0]
  /\ key' = [key EXCEPT ![c] = NoKey]
  /\ result' = [result EXCEPT ![c] = "ok"]
  /\ UNCHANGED <<marker, elapsed, dedupFaults>>

\* LPUSH or ZADD fails: the call returns an error; the key stays taken.
PushError(c) ==
  /\ key[c] # NoKey
  /\ dedupFaults < MaxDedupFaults
  /\ dedupFaults' = dedupFaults + 1
  /\ key' = [key EXCEPT ![c] = NoKey]
  /\ result' = [result EXCEPT ![c] = "error"]
  /\ UNCHANGED <<marker, elapsed, since>>

\* The caller dies between its two Redis calls and never returns.
Die(c) ==
  /\ key[c] # NoKey
  /\ dedupFaults < MaxDedupFaults
  /\ dedupFaults' = dedupFaults + 1
  /\ key' = [key EXCEPT ![c] = NoKey]
  /\ UNCHANGED <<marker, elapsed, result, since>>

DedupTick ==
  /\ \A c \in Callers : key[c] # NoKey => elapsed[c] < MaxLatency
  /\ marker' = [k \in Keys |-> IF marker[k] > 0 THEN marker[k] - 1 ELSE 0]
  /\ since' = [k \in Keys |-> IF since[k] < DedupTTL THEN since[k] + 1
                              ELSE DedupTTL]
  /\ elapsed' = [c \in Callers |-> IF key[c] # NoKey THEN elapsed[c] + 1
                                   ELSE elapsed[c]]
  /\ UNCHANGED <<key, result, dedupFaults>>

DedupNext == \/ \E c \in Callers : \/ \E k \in Keys : TakeKey(c, k)
                                   \/ \E k \in Keys : SkipDuplicate(c, k)
                                   \/ DedupError(c) \/ Push(c) \/ PushError(c)
                                   \/ Die(c)
             \/ DedupTick

DedupSpec == DedupInit /\ [][DedupNext]_dedupVars

-----------------------------------------------------------------------------
(* Properties *)

\* Two jobs with one key are never pushed closer together than the dedup
\* window less the time a call may spend between SETNX and the push, however
\* the callers race (queue.go:31-32, 61-90).
OnePerWindow ==
  [][\A k \in Keys :
       (\E c \in Callers : key[c] = k /\ key'[c] = NoKey /\ result'[c] = "ok")
         => since[k] + MaxLatency >= DedupTTL]_dedupVars

\* As long as a call is quicker than the window, two calls with one key are
\* never both between SETNX and the push, whatever fails (queue.go:61-90): the
\* entry a call has taken outlives the call.
OnePusherPerKey ==
  MaxLatency < DedupTTL =>
    \A c, d \in Callers : key[c] = key[d] /\ key[c] # NoKey => c = d

\* What the two need to be inductive: the entry a call has taken and the call
\* age together, and when an entry is gone the window since the last push is
\* over but for the time that push took.
EntryAgesWithCall ==
  MaxLatency < DedupTTL =>
    \A c \in Callers : key[c] # NoKey => marker[key[c]] + elapsed[c] = DedupTTL
WindowCovered ==
  MaxLatency < DedupTTL =>
    /\ \A k \in Keys : since[k] + marker[k] + MaxLatency >= DedupTTL
    /\ \A c \in Callers : key[c] # NoKey => since[key[c]] + MaxLatency >= DedupTTL

DedupInv == DedupTypeOK /\ OnePusherPerKey /\ EntryAgesWithCall /\ WindowCovered
=============================================================================
