------------------------------ MODULE JobQueue ------------------------------
(****************************************************************************)
(* A BullMQ queue and the worker slots that drain it, as src/jobs/queues.ts *)
(* and src/worker.ts configure it.  BullMQ is a library: this module is     *)
(* what the processors in src/jobs rely on, and what they must survive.     *)
(*                                                                          *)
(* A job is delivered at least once.  A processor that throws is retried    *)
(* until MaxAttempts executions have failed.  A worker holds a lock on the  *)
(* job it runs; when the lock is not renewed in time the job is "stalled"   *)
(* and handed out again, at most MaxStalls times, after which BullMQ marks  *)
(* it failed without calling the processor.  Delays between attempts        *)
(* (exponential backoff) are abstracted: a retried job simply waits.        *)
(****************************************************************************)
EXTENDS Naturals

CONSTANTS
  Jobs,         \* the jobs of the queue, one per row they process
  Slots,        \* worker executions that may run at once (concurrency x replicas)
  MaxAttempts,  \* defaultJobOptions.attempts
  MaxStalls,    \* BullMQ's maxStalledCount
  Zombies,      \* TRUE: a worker that lost its lock may go on executing
  NoJob, NoSlot

ASSUME QueueAssumption ==
  /\ MaxAttempts \in Nat \ {0}
  /\ MaxStalls \in Nat
  /\ Zombies \in BOOLEAN
  /\ NoJob \notin Jobs
  /\ NoSlot \notin Slots

VARIABLES
  job,    \* what Redis knows of each job
  slot    \* the job each worker slot is executing

queueVars == <<job, slot>>

JobRecord == [state  : {"absent", "waiting", "active", "completed", "failed"},
              owner  : Slots \cup {NoSlot},
              made   : 0 .. MaxAttempts,
              stalls : 0 .. (MaxStalls + 1)]

QueueTypeOK ==
  /\ job \in [Jobs -> JobRecord]
  /\ slot \in [Slots -> Jobs \cup {NoJob}]

QueueInit ==
  /\ job = [j \in Jobs |-> [state |-> "absent", owner |-> NoSlot, made |-> 0, stalls |-> 0]]
  /\ slot = [s \in Slots |-> NoJob]

-----------------------------------------------------------------------------
SetJob(j, state, owner, made, stalls) ==
  job' = [job EXCEPT ![j] = [state |-> state, owner |-> owner, made |-> made, stalls |-> stalls]]

(* queue.add(...): every row is enqueued under a fresh job id. *)
Add(j) ==
  /\ job[j].state = "absent"
  /\ SetJob(j, "waiting", NoSlot, 0, 0)
  /\ UNCHANGED slot

(* A free slot takes a waiting job and becomes the holder of its lock. *)
Start(s, j) ==
  /\ slot[s] = NoJob
  /\ job[j].state = "waiting"
  /\ SetJob(j, "active", s, job[j].made, job[j].stalls)
  /\ slot' = [slot EXCEPT ![s] = j]

(* Only the holder of the lock may finish a job; a slot that lost it is    *)
(* told so and its outcome is dropped.                                     *)
HoldsLock(s) == slot[s] # NoJob /\ job[slot[s]].owner = s

Release(s) == slot' = [slot EXCEPT ![s] = NoJob]

(* The processor returned. *)
Complete(s) ==
  /\ Release(s)
  /\ \/ /\ HoldsLock(s)
        /\ LET j == slot[s] IN SetJob(j, "completed", NoSlot, job[j].made, job[j].stalls)
     \/ ~HoldsLock(s) /\ UNCHANGED job

(* The processor threw: attemptsMade grows and the job waits for its next  *)
(* attempt, or has failed for good.                                        *)
Exhausted(made) == made + 1 >= MaxAttempts

Fail(s) ==
  /\ Release(s)
  /\ \/ /\ HoldsLock(s)
        /\ LET j == slot[s] IN
           SetJob(j, IF Exhausted(job[j].made) THEN "failed" ELSE "waiting", NoSlot,
                  job[j].made + 1, job[j].stalls)
     \/ ~HoldsLock(s) /\ UNCHANGED job

(* The worker process dies: Redis still records the slot as the owner. *)
Crash(s) ==
  /\ slot[s] # NoJob
  /\ Release(s)
  /\ UNCHANGED job

(* The stalled check hands the job out again.  Without Zombies it only     *)
(* happens to a job whose worker died.                                     *)
Stall(j) ==
  /\ job[j].state = "active"
  /\ Zombies \/ slot[job[j].owner] # j
  /\ SetJob(j, IF job[j].stalls + 1 > MaxStalls THEN "failed" ELSE "waiting", NoSlot,
            job[j].made, job[j].stalls + 1)
  /\ UNCHANGED slot

(* An execution that runs is the one that holds the job's lock. *)
ExecutorHoldsLock ==
  \A s \in Slots : slot[s] # NoJob => /\ job[slot[s]].state = "active"
                                      /\ job[slot[s]].owner = s
=============================================================================
