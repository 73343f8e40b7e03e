---------------------------- MODULE JobQueueProofs ----------------------------
(***************************************************************************)
(* What every operation of the queue preserves, whichever processor runs   *)
(* on it.  Topups and Cashouts cite these lemmas for the queue's part of   *)
(* their own invariants.                                                   *)
(***************************************************************************)
EXTENDS JobQueue, TLAPS

\* A job has an owner exactly while it is active, and only a failed job has
\* used up its attempts or its stalls.
QueueInv ==
  /\ QueueTypeOK
  /\ \A j \in Jobs :
       /\ job[j].owner # NoSlot <=> job[j].state = "active"
       /\ job[j].state # "failed" => job[j].made < MaxAttempts /\ job[j].stalls <= MaxStalls

\* A step of the queue while no worker dies, and any step.
LiveQueueStep ==
  \/ UNCHANGED queueVars
  \/ \E j \in Jobs : Add(j) \/ Stall(j)
  \/ \E s \in Slots, j \in Jobs : Start(s, j)
  \/ \E s \in Slots : Complete(s) \/ Fail(s)
QueueStep == LiveQueueStep \/ \E s \in Slots : Crash(s)

\* Every active job is being executed.
ActiveIsExecuted == \A j \in Jobs : job[j].state = "active" => slot[job[j].owner] = j

\* The initial queue is empty, so it satisfies both invariants.
LEMMA QueueInitial == QueueInit => QueueInv /\ ExecutorHoldsLock
  BY QueueAssumption
  DEF QueueInit, QueueInv, QueueTypeOK, JobRecord, ExecutorHoldsLock

\* BullMQ never counts an attempt or a stall beyond its limit, and never
\* leaves an owner on a job it has taken away from a worker.
LEMMA QueueStepKeepsInv == QueueInv /\ QueueStep => QueueInv'
<1> SUFFICES ASSUME QueueInv, QueueStep PROVE QueueInv'
  OBVIOUS
<1> USE QueueAssumption DEF QueueInv, QueueTypeOK, JobRecord, SetJob
<1>1. CASE UNCHANGED queueVars
  BY <1>1 DEF queueVars
<1>2. ASSUME NEW j \in Jobs, Add(j) PROVE QueueInv'
  BY <1>2 DEF Add
<1>3. ASSUME NEW j \in Jobs, Stall(j) PROVE QueueInv'
  BY <1>3 DEF Stall
<1>4. ASSUME NEW s \in Slots, NEW j \in Jobs, Start(s, j) PROVE QueueInv'
  BY <1>4 DEF Start
<1>5. ASSUME NEW s \in Slots, Complete(s) PROVE QueueInv'
  BY <1>5 DEF Complete, Release, HoldsLock
<1>6. ASSUME NEW s \in Slots, Fail(s) PROVE QueueInv'
  <2>1. slot' \in [Slots -> Jobs \cup {NoJob}]
    BY <1>6 DEF Fail, Release
  <2>2. CASE ~HoldsLock(s)
    BY <1>6, <2>1, <2>2 DEF Fail
  <2>3. CASE HoldsLock(s)
    <3> DEFINE j == slot[s]
    <3>1. j \in Jobs /\ job[j].state = "active"
      BY <2>3 DEF HoldsLock
    <3>2. SetJob(j, IF Exhausted(job[j].made) THEN "failed" ELSE "waiting", NoSlot,
                 job[j].made + 1, job[j].stalls)
      BY <1>6, <2>3 DEF Fail
    <3>3. job[j].made + 1 \in 0 .. MaxAttempts
      BY <3>1
    <3> QED
      BY <2>1, <3>1, <3>2, <3>3 DEF Exhausted
  <2> QED
    BY <2>2, <2>3
<1>7. ASSUME NEW s \in Slots, Crash(s) PROVE QueueInv'
  BY <1>7 DEF Crash, Release
<1> QED
  BY <1>1, <1>2, <1>3, <1>4, <1>5, <1>6, <1>7 DEF QueueStep, LiveQueueStep

\* As long as a worker that lost its lock does not go on executing, whoever
\* executes a job holds its lock, so no job is executed twice at once.
LEMMA QueueStepKeepsLock ==
  ASSUME ~Zombies, QueueInv, ExecutorHoldsLock, QueueStep
  PROVE  ExecutorHoldsLock'
<1> USE QueueAssumption DEF QueueInv, QueueTypeOK, JobRecord, ExecutorHoldsLock, SetJob
<1>1. CASE UNCHANGED queueVars
  BY <1>1 DEF queueVars
<1>2. ASSUME NEW j \in Jobs, Add(j) PROVE ExecutorHoldsLock'
  BY <1>2 DEF Add
<1>3. ASSUME NEW j \in Jobs, Stall(j) PROVE ExecutorHoldsLock'
  BY <1>3 DEF Stall
<1>4. ASSUME NEW s \in Slots, NEW j \in Jobs, Start(s, j) PROVE ExecutorHoldsLock'
  BY <1>4 DEF Start
<1>5. ASSUME NEW s \in Slots, Complete(s) PROVE ExecutorHoldsLock'
  BY <1>5 DEF Complete, Release, HoldsLock
<1>6. ASSUME NEW s \in Slots, Fail(s) PROVE ExecutorHoldsLock'
  BY <1>6 DEF Fail, Release, HoldsLock
<1>7. ASSUME NEW s \in Slots, Crash(s) PROVE ExecutorHoldsLock'
  BY <1>7 DEF Crash, Release
<1> QED
  BY <1>1, <1>2, <1>3, <1>4, <1>5, <1>6, <1>7 DEF QueueStep, LiveQueueStep

\* A worker that lets go of its slot, however it does, leaves absent every
\* job that was absent, and no other slot changes.
LEMMA EndingAddsNothing ==
  ASSUME QueueInv, NEW s \in Slots, Complete(s) \/ Fail(s) \/ Crash(s)
  PROVE  /\ slot' = [slot EXCEPT ![s] = NoJob]
         /\ \A d \in Jobs : job[d].state = "absent" => job'[d].state = "absent"
<1> USE QueueAssumption DEF QueueInv, QueueTypeOK, JobRecord
<1>1. CASE Crash(s)
  BY <1>1 DEF Crash, Release
<1>2. CASE (Complete(s) \/ Fail(s)) /\ ~HoldsLock(s)
  BY <1>2 DEF Complete, Fail, Release
<1>3. CASE (Complete(s) \/ Fail(s)) /\ HoldsLock(s)
  <2>1. slot[s] \in Jobs /\ job[slot[s]].state = "active"
    BY <1>3 DEF HoldsLock
  <2>2. \A d \in Jobs : d # slot[s] => job'[d] = job[d]
    BY <1>3, <2>1 DEF Complete, Fail, SetJob
  <2> QED
    BY <1>3, <2>1, <2>2 DEF Complete, Fail, Release
<1> QED
  BY <1>1, <1>2, <1>3

\* While no worker dies every active job is being executed, so that none stalls.
LEMMA QueueStepKeepsActive ==
  ASSUME ~Zombies, QueueInv, ExecutorHoldsLock, ActiveIsExecuted, LiveQueueStep
  PROVE  ActiveIsExecuted'
<1> USE QueueAssumption DEF QueueInv, QueueTypeOK, JobRecord, ActiveIsExecuted
<1>1. CASE UNCHANGED queueVars
  BY <1>1 DEF queueVars
<1>2. ASSUME NEW j \in Jobs, Add(j) \/ Stall(j) PROVE ActiveIsExecuted'
  BY <1>2 DEF Add, Stall, SetJob
<1>3. ASSUME NEW s \in Slots, NEW j \in Jobs, Start(s, j) PROVE ActiveIsExecuted'
  <2>1. /\ slot[s] = NoJob /\ slot' = [slot EXCEPT ![s] = j]
        /\ job'[j].owner = s /\ \A i \in Jobs \ {j} : job'[i] = job[i]
    BY <1>3 DEF Start, SetJob
  <2>2. \A i \in Jobs \ {j} : job[i].state = "active" => job[i].owner \in Slots \ {s}
    BY <2>1
  <2> QED
    BY <2>1, <2>2
<1>4. ASSUME NEW s \in Slots, Complete(s) \/ Fail(s) PROVE ActiveIsExecuted'
  <2>1. slot' = [slot EXCEPT ![s] = NoJob]
    BY <1>4 DEF Complete, Fail, Release
  <2>2. CASE slot[s] = NoJob
    <3>1. UNCHANGED job
      BY <1>4, <2>2 DEF Complete, Fail, HoldsLock
    <3> QED
      BY <2>1, <2>2, <3>1
  <2>3. CASE slot[s] # NoJob
    <3>1. HoldsLock(s) /\ slot[s] \in Jobs
      BY <2>3 DEF ExecutorHoldsLock, HoldsLock
    <3>2. job'[slot[s]].state # "active" /\ \A i \in Jobs \ {slot[s]} : job'[i] = job[i]
      BY <1>4, <3>1 DEF Complete, Fail, SetJob
    <3> QED
      BY <2>1, <3>2
  <2> QED
    BY <2>2, <2>3
<1> QED
  BY <1>1, <1>2, <1>3, <1>4 DEF LiveQueueStep

\* While no worker dies, a job goes back to waiting only when its execution throws.
LEMMA WaitsAgainByFailing ==
  ASSUME ~Zombies, QueueInv, ActiveIsExecuted, LiveQueueStep,
         NEW j \in Jobs, job[j].state \notin {"absent", "waiting"},
         job'[j].state \in {"absent", "waiting"}
  PROVE  \E s \in Slots : slot[s] = j /\ Fail(s)
<1> USE QueueAssumption DEF QueueInv, QueueTypeOK, JobRecord, SetJob
<1>1. ASSUME NEW i \in Jobs, Add(i) \/ Stall(i) PROVE FALSE
  BY <1>1 DEF Add, Stall, ActiveIsExecuted
<1>2. ASSUME NEW s \in Slots, NEW i \in Jobs, Start(s, i) PROVE FALSE
  BY <1>2 DEF Start
<1>3. ASSUME NEW s \in Slots, Complete(s) PROVE FALSE
  BY <1>3 DEF Complete, HoldsLock
<1>4. ASSUME NEW s \in Slots, Fail(s) PROVE slot[s] = j
  BY <1>4 DEF Fail, HoldsLock
<1> QED
  BY <1>1, <1>2, <1>3, <1>4 DEF LiveQueueStep, queueVars

\* A job that has ended is never touched again.
LEMMA EndedJobRests ==
  ASSUME QueueInv, QueueStep, NEW j \in Jobs, job[j].state \in {"completed", "failed"}
  PROVE  job'[j] = job[j]
<1> USE QueueAssumption DEF QueueInv, QueueTypeOK, SetJob
<1>1. ASSUME NEW i \in Jobs, Add(i) \/ Stall(i) PROVE job'[j] = job[j]
  BY <1>1 DEF Add, Stall
<1>2. ASSUME NEW s \in Slots, NEW i \in Jobs, Start(s, i) PROVE job'[j] = job[j]
  BY <1>2 DEF Start
<1>3. ASSUME NEW s \in Slots, Complete(s) \/ Fail(s) PROVE job'[j] = job[j]
  BY <1>3 DEF Complete, Fail, HoldsLock
<1> QED
  BY <1>1, <1>2, <1>3 DEF QueueStep, LiveQueueStep, queueVars, Crash

\* A job is changed by nobody while the worker that executes it holds its
\* lock, and a worker that lost the lock gets it back only by starting anew.
LEMMA HeldJobIsKept ==
  ASSUME QueueInv, QueueStep, NEW s \in Slots, slot[s] # NoJob, slot'[s] = slot[s],
         job'[slot[s]].owner = s
  PROVE  job'[slot[s]] = job[slot[s]]
<1> DEFINE j == slot[s]
<1> USE QueueAssumption DEF QueueInv, QueueTypeOK, SetJob
<1>1. j \in Jobs
  OBVIOUS
<1>2. ASSUME NEW i \in Jobs, Add(i) \/ Stall(i) PROVE job'[j] = job[j]
  BY <1>1, <1>2 DEF Add, Stall
<1>3. ASSUME NEW t \in Slots, NEW i \in Jobs, Start(t, i) PROVE job'[j] = job[j]
  <2>1. slot'[t] = i /\ slot[t] = NoJob
    BY <1>3 DEF Start
  <2>2. t # s
    BY <2>1, <1>1
  <2> QED
    BY <1>1, <1>3, <2>2 DEF Start
<1>4. ASSUME NEW t \in Slots, Complete(t) \/ Fail(t) PROVE job'[j] = job[j]
  <2>1. HoldsLock(t) => job'[slot[t]].owner = NoSlot /\ \A i \in Jobs \ {slot[t]} : job'[i] = job[i]
    BY <1>4 DEF Complete, Fail, HoldsLock
  <2> QED
    BY <1>1, <1>4, <2>1 DEF Complete, Fail
<1> QED
  BY <1>2, <1>3, <1>4 DEF QueueStep, LiveQueueStep, queueVars, Crash

\* A job ends by an execution that holds its lock, which returns or throws on
\* the last attempt; or by stalling once too often.
LEMMA HowJobsEnd ==
  ASSUME QueueInv, QueueStep, NEW j \in Jobs, job[j].state \notin {"completed", "failed"},
         job'[j].state \in {"completed", "failed"}
  PROVE  \/ \E s \in Slots : /\ slot[s] = j /\ HoldsLock(s)
                             /\ \/ Complete(s)
                                \/ Fail(s) /\ Exhausted(job[j].made) /\ job'[j].state = "failed"
         \/ job'[j].state = "failed" /\ job'[j].stalls > MaxStalls
<1> USE QueueAssumption DEF QueueInv, QueueTypeOK, JobRecord, SetJob
<1>1. ASSUME NEW i \in Jobs, Add(i) PROVE FALSE
  BY <1>1 DEF Add
<1>2. ASSUME NEW i \in Jobs, Stall(i) PROVE job'[j].state = "failed" /\ job'[j].stalls > MaxStalls
  BY <1>2 DEF Stall
<1>3. ASSUME NEW s \in Slots, NEW i \in Jobs, Start(s, i) PROVE FALSE
  BY <1>3 DEF Start
<1>4. ASSUME NEW s \in Slots, Complete(s) PROVE slot[s] = j /\ HoldsLock(s)
  BY <1>4 DEF Complete, HoldsLock
<1>5. ASSUME NEW s \in Slots, Fail(s)
      PROVE  slot[s] = j /\ HoldsLock(s) /\ Exhausted(job[j].made) /\ job'[j].state = "failed"
  BY <1>5 DEF Fail, HoldsLock
<1> QED
  BY <1>1, <1>2, <1>3, <1>4, <1>5 DEF QueueStep, LiveQueueStep, queueVars, Crash

\* While no worker dies, no job stalls.
LEMMA NobodyStalls ==
  ASSUME QueueInv, ActiveIsExecuted, ~Zombies, LiveQueueStep, NEW j \in Jobs, job[j].stalls = 0
  PROVE  job'[j].stalls = 0
<1> USE QueueAssumption DEF QueueInv, QueueTypeOK, JobRecord, SetJob
<1>1. ASSUME NEW i \in Jobs, Stall(i) PROVE FALSE
  BY <1>1 DEF Stall, ActiveIsExecuted
<1>2. ASSUME NEW i \in Jobs, Add(i) PROVE job'[j].stalls = 0
  BY <1>2 DEF Add
<1>3. ASSUME NEW s \in Slots, NEW i \in Jobs, Start(s, i) PROVE job'[j].stalls = 0
  BY <1>3 DEF Start
<1>4. ASSUME NEW s \in Slots, Complete(s) \/ Fail(s) PROVE job'[j].stalls = 0
  BY <1>4 DEF Complete, Fail, HoldsLock
<1> QED
  BY <1>1, <1>2, <1>3, <1>4 DEF LiveQueueStep, queueVars

\* A job gets into the queue by being added.
LEMMA AddedOnce ==
  ASSUME QueueInv, QueueStep, NEW j \in Jobs, (job[j].state = "absent") # (job'[j].state = "absent")
  PROVE  job[j].state = "absent" /\ Add(j)
<1> USE QueueAssumption DEF QueueInv, QueueTypeOK, JobRecord, SetJob
<1>1. ASSUME NEW i \in Jobs, Add(i) PROVE i = j /\ job[j].state = "absent"
  BY <1>1 DEF Add
<1>2. ASSUME NEW i \in Jobs, Stall(i) PROVE FALSE
  BY <1>2 DEF Stall
<1>3. ASSUME NEW s \in Slots, NEW i \in Jobs, Start(s, i) PROVE FALSE
  BY <1>3 DEF Start
<1>4. ASSUME NEW s \in Slots, Complete(s) \/ Fail(s) PROVE FALSE
  BY <1>4 DEF Complete, Fail, HoldsLock
<1> QED
  BY <1>1, <1>2, <1>3, <1>4 DEF QueueStep, LiveQueueStep, queueVars, Crash

\* What a worker executes is in the queue.
ExecutedIsPresent == \A s \in Slots : slot[s] # NoJob => job[slot[s]].state # "absent"

LEMMA QueueStepKeepsPresent ==
  ASSUME QueueInv, QueueStep, ExecutedIsPresent
  PROVE  ExecutedIsPresent'
<1> SUFFICES ASSUME NEW s \in Slots, slot'[s] # NoJob PROVE job'[slot'[s]].state # "absent"
  BY DEF ExecutedIsPresent
<1> USE QueueAssumption DEF QueueInv, QueueTypeOK, ExecutedIsPresent
<1>1. CASE slot'[s] = slot[s]
  BY <1>1, AddedOnce
<1>2. CASE slot'[s] # slot[s]
  <2>1. ASSUME NEW t \in Slots, Complete(t) \/ Fail(t) \/ Crash(t) PROVE FALSE
    BY <1>2, <2>1 DEF Complete, Fail, Crash, Release
  <2>2. ASSUME NEW t \in Slots, NEW i \in Jobs, Start(t, i) PROVE job'[slot'[s]].state # "absent"
    BY <1>2, <2>2 DEF Start, SetJob
  <2> QED
    BY <1>2, <2>1, <2>2 DEF QueueStep, LiveQueueStep, queueVars, Add, Stall
<1> QED
  BY <1>1, <1>2
=============================================================================
