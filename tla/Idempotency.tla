------------------------------ MODULE Idempotency ------------------------------
(****************************************************************************)
(* The middleware in front of every money-moving POST (src/idempotency.ts): *)
(* it replays a cached response, or takes a lock in Redis, runs the handler *)
(* and caches what it answered.  A key here is the cacheKey of the code: a  *)
(* user, an endpoint and the Idempotency-Key header.                        *)
(*                                                                          *)
(* A step is one Redis command, or the handler.  The lock is not owned: it  *)
(* holds "1", anyone may delete it, and it expires by itself after 30       *)
(* seconds.  A cached response expires after a day; the model is about that *)
(* day.  A request without a key is answered 400 and never gets here.       *)
(*                                                                          *)
(* Several API nodes serve the requests, each with one connection to Redis  *)
(* (src/redis.ts).  A node does not wait for the commands it sends with an  *)
(* answer, but Redis executes the commands of one connection in order.      *)
(****************************************************************************)
EXTENDS Naturals

CONSTANTS
  Requests, Keys,
  Nodes,
  KeyOf,      \* the key each request is sent under
  NodeOf,     \* the API node that serves it
  Careful,    \* keys whose client awaits an answer before it sends the next request
  NoResponse,
  Faults

\* "check": a command of the check throws.  "set", "del": the command that
\* caches the response, or frees the lock, fails unnoticed.  "crash": the API
\* process dies.  "slow": a handler runs longer than its lock lives.
FaultKinds == {"check", "set", "del", "crash", "slow"}

ASSUME IdempotencyAssumption ==
  /\ KeyOf \in [Requests -> Keys]
  /\ NodeOf \in [Requests -> Nodes]
  /\ Careful \subseteq Keys
  /\ NoResponse \notin Requests
  /\ Faults \subseteq FaultKinds

VARIABLES
  cache,  \* the request whose response each key replays
  lock,   \* whether lockKey exists
  at      \* where each request is

vars == <<cache, lock, at>>

Init ==
  /\ cache = [k \in Keys |-> NoResponse]
  /\ lock  = [k \in Keys |-> FALSE]
  /\ at    = [r \in Requests |-> "idle"]

-----------------------------------------------------------------------------
Goto(r, place) == at' = [at EXCEPT ![r] = place]
SetLock(k, locked) == lock' = [lock EXCEPT ![k] = locked]

InFlight(r) == at[r] \in {"lock", "run", "store", "unlock"}
Unanswered(r) == at[r] \in {"lock", "run"}
OnOneNode(r, q) == NodeOf[r] = NodeOf[q]

\* A command of the check gets to Redis after those its node sent with an
\* earlier answer.
InOrderPooled(r) == TRUE                                           \* mutant
InOrder(r) == \A q \in Requests : OnOneNode(r, q) => at[q] \notin {"store", "unlock"}

\* A careful client knows of its earlier requests that they were answered, and
\* not what became of the commands that were sent with the answers.
Awaited(r) == KeyOf[r] \in Careful => \A q \in Requests : KeyOf[q] = KeyOf[r] => ~Unanswered(q)

\* redis.get(cacheKey): a hit is replayed and the handler never runs.
Missed(r) == cache[KeyOf[r]] = NoResponse

Look(r) ==
  /\ at[r] = "idle"
  /\ Awaited(r) /\ InOrder(r)
  /\ \/ Missed(r)  /\ Goto(r, "lock")
     \/ ~Missed(r) /\ Goto(r, "done")
  /\ UNCHANGED <<cache, lock>>

\* redis.set(lockKey, "1", "EX", 30, "NX"): who does not get it answers 409.
UnlockedAlways(r) == TRUE                                          \* mutant
Unlocked(r) == ~lock[KeyOf[r]]

TryLock(r) ==
  /\ at[r] = "lock"
  /\ InOrder(r)
  /\ \/ Unlocked(r) /\ SetLock(KeyOf[r], TRUE) /\ Goto(r, "run")
     \/ ~Unlocked(r) /\ Goto(r, "done") /\ UNCHANGED lock
  /\ UNCHANGED cache

\* Either command throws and the answer is 503; the lock may have been taken.
CheckFails(r) ==
  /\ "check" \in Faults
  /\ \/ at[r] = "idle" /\ UNCHANGED lock
     \/ at[r] = "lock" /\ (UNCHANGED lock \/ SetLock(KeyOf[r], TRUE))
  /\ Goto(r, "done")
  /\ UNCHANGED cache

\* The handler, or the error handler of app.ts for it, calls res.json: below
\* 500 the response is cached, and the lock is deleted in either case.
RunHandler(r) ==
  /\ at[r] = "run"
  /\ Goto(r, "store") \/ Goto(r, "unlock")
  /\ UNCHANGED <<cache, lock>>

payload(r) == r

StoreResponse(r) ==
  /\ at[r] = "store"
  /\ \/ cache' = [cache EXCEPT ![KeyOf[r]] = payload(r)]
     \/ "set" \in Faults /\ UNCHANGED cache
  /\ Goto(r, "unlock")
  /\ UNCHANGED lock

DeleteLock(r) ==
  /\ at[r] = "unlock"
  /\ \/ SetLock(KeyOf[r], FALSE)
     \/ "del" \in Faults /\ UNCHANGED lock
  /\ Goto(r, "done")
  /\ UNCHANGED cache

CrashRequest(r) ==
  /\ "crash" \in Faults
  /\ InFlight(r)
  /\ Goto(r, "dead")
  /\ UNCHANGED <<cache, lock>>

\* The 30 seconds are over; unless handlers are slow nobody relies on them then.
ExpireLockNever(k) == FALSE                                        \* mutant
ExpireLock(k) ==
  /\ lock[k]
  /\ "slow" \in Faults \/ \A r \in Requests : KeyOf[r] = k => at[r] \notin {"run", "store", "unlock"}
  /\ SetLock(k, FALSE)
  /\ UNCHANGED <<cache, at>>

Handle(r) == TryLock(r) \/ RunHandler(r) \/ StoreResponse(r) \/ DeleteLock(r)
RequestStep(r) == Look(r) \/ Handle(r) \/ CheckFails(r) \/ CrashRequest(r)

Next == (\E r \in Requests : RequestStep(r)) \/ (\E k \in Keys : ExpireLock(k))
Spec == Init /\ [][Next]_vars

-----------------------------------------------------------------------------
(* What the routes behind the middleware rely on.                          *)

\* Every variable keeps its type.
TypeOK ==
  /\ cache \in [Keys -> Requests \cup {NoResponse}]
  /\ lock  \in [Keys -> BOOLEAN]
  /\ at    \in [Requests -> {"idle", "lock", "run", "store", "unlock", "done", "dead"}]

\* Two handlers never run under one key at the same time, whichever requests
\* crash, are refused by Redis or find the lock of a dead one expired.
HandlersNeverOverlap ==
  \A r, q \in Requests : r # q /\ KeyOf[r] = KeyOf[q] => ~(at[r] = "run" /\ at[q] = "run")

Starts(r) == at[r] # "run" /\ at'[r] = "run"
Uncached(r) == cache[KeyOf[r]] = NoResponse

\* A client that repeats a request when it was answered, though the response
\* may still be on its way to the cache, does not make the handler run again
\* on the node that answered: the commands of a node overtake each other no
\* more than its client does.
RetriesOnOneNodeAreReplayed ==
  [][\A r \in Requests : KeyOf[r] \in Careful /\ Starts(r) =>
       Uncached(r) \/ ~OnOneNode(cache[KeyOf[r]], r)]_vars

\* Nor on any other node.  (It may: the next request's GET overtakes the SET.)
RetriesAreReplayed == [][\A r \in Requests : KeyOf[r] \in Careful /\ Starts(r) => Uncached(r)]_vars

\* "cached response is replayed verbatim, the underlying handler never runs
\* again" (idempotency.ts:13-14), for every client.
CachedNeverRunsAgain == [][\A r \in Requests : Starts(r) => Uncached(r)]_vars

\* No key stays locked: what a crash or a lost delete leaves behind expires.
LockIsFreed == \A k \in Keys : lock[k] ~> ~lock[k]
=============================================================================
