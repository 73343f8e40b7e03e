----------------------------- MODULE TopupsProofs -----------------------------
(***************************************************************************)
(* Theorems of Topups, for any number of purchases, events, handlers and   *)
(* workers.  One inductive invariant types the state and ties every        *)
(* execution to the job it runs (StateInv); the safety properties rest on  *)
(* it, each with the strengthening that makes it inductive.                *)
(***************************************************************************)
EXTENDS Topups, JobQueueProofs

\* A handler past its select, or an execution past its start, is at work on
\* an event; an execution about to settle a row found it by that reference.
StateInv ==
  /\ QueueInv
  /\ TypeOK
  /\ \A h \in Hooks : hook[h].at # "idle" => hook[h].ev \in Jobs
  /\ \A s \in Slots : exec[s].at # "idle" => slot[s] \in Jobs
  /\ \A s \in Slots : exec[s].at = "settle" =>
       /\ exec[s].target \in Purchases
       /\ ChargeRef[exec[s].target] = EventRef[slot[s]]

\* Every step of the module is a step of the queue or leaves it alone.
LEMMA StepsOfTheQueue == StateInv /\ [Next]_vars => QueueStep
<1> SUFFICES ASSUME StateInv, [Next]_vars PROVE QueueStep
  OBVIOUS
<1> USE DEF QueueStep, LiveQueueStep, queueVars, topupVars
<1>1. CASE UNCHANGED vars
  BY <1>1 DEF vars
<1>2. ASSUME NEW p \in Purchases, PurchaseStep(p) PROVE QueueStep
  BY <1>2 DEF PurchaseStep, ChargeAtGateway, ChargeThrows, InsertTopup, CreditTopup, ApiFault
<1>3. ASSUME NEW r \in Refs, GatewaySettles(r) PROVE QueueStep
  BY <1>3 DEF GatewaySettles
<1>4. ASSUME NEW h \in Hooks, HookStep(h) PROVE QueueStep
  <2>1. CASE EnqueueEvent(h)
    BY <2>1 DEF EnqueueEvent, StateInv
  <2>2. CASE (\E e \in Jobs : Deliver(h, e)) \/ StoreEvent(h) \/ HookFault(h)
    BY <2>2 DEF Deliver, StoreEvent, HookFault
  <2> QED
    BY <1>4, <2>1, <2>2 DEF HookStep
<1>5. ASSUME NEW s \in Slots, JobStep(s) PROVE QueueStep
  <2>1. CASE \E e \in Jobs : StartJob(s, e)
    BY <2>1 DEF StartJob
  <2>2. CASE ReadEvent(s) \/ ReadTopup(s) \/ SettleTopup(s) \/ MarkProcessed(s)
    BY <2>2 DEF ReadEvent, ReadTopup, SettleTopup, MarkProcessed
  <2>3. CASE FinishJob(s) \/ JobThrows(s) \/ WorkerCrash(s)
    BY <2>3 DEF FinishJob, JobThrows, WorkerCrash
  <2> QED
    BY <1>5, <2>1, <2>2, <2>3 DEF JobStep
<1>6. ASSUME NEW e \in Jobs, StallJob(e) PROVE QueueStep
  BY <1>6 DEF StallJob
<1> QED
  BY <1>1, <1>2, <1>3, <1>4, <1>5, <1>6 DEF Next

-----------------------------------------------------------------------------
\* At first there is nothing to execute.
LEMMA StateInitial == Init => StateInv
<1> SUFFICES ASSUME Init PROVE StateInv
  OBVIOUS
<1>1. QueueInv
  BY QueueInitial DEF Init
<1> QED
  BY <1>1 DEF Init, StateInv, QueueInv, TypeOK, IdleHook, IdleExec, ChargeStates,
              BuyerRecord, HookRecord, ExecRecord, Mishaps

\* Types, and the tie of an execution to its event, are kept by every step.
LEMMA StateStep == StateInv /\ [Next]_vars => StateInv'
<1> SUFFICES ASSUME StateInv, [Next]_vars PROVE StateInv'
  OBVIOUS
<1>0. QueueInv'
  BY StepsOfTheQueue, QueueStepKeepsInv DEF StateInv
<1> USE TopupAssumption, <1>0
    DEF StateInv, QueueInv, TypeOK, ChargeStates, BuyerRecord, HookRecord, ExecRecord,
        IdleHook, IdleExec, Goto, topupVars
<1>1. CASE UNCHANGED vars
  BY <1>1 DEF vars
<1>2. ASSUME NEW p \in Purchases, ChargeAtGateway(p) PROVE StateInv'
  BY <1>2 DEF ChargeAtGateway, Replies, FreshReplies, StripeReplies, WaafiPayReplies, PromptReplies
<1>3. ASSUME NEW p \in Purchases, ChargeThrows(p) PROVE StateInv'
  BY <1>3 DEF ChargeThrows, Replies, FreshReplies, StripeReplies, WaafiPayReplies, PromptReplies
<1>4. ASSUME NEW p \in Purchases, InsertTopup(p) PROVE StateInv'
  BY <1>4 DEF InsertTopup, RowStatus
<1>5. ASSUME NEW p \in Purchases, CreditTopup(p) PROVE StateInv'
  BY <1>5 DEF CreditTopup
<1>6. ASSUME NEW p \in Purchases, ApiFault(p) PROVE StateInv'
  BY <1>6 DEF ApiFault
<1>7. ASSUME NEW r \in Refs, GatewaySettles(r) PROVE StateInv'
  BY <1>7 DEF GatewaySettles
<1>8. ASSUME NEW h \in Hooks, NEW e \in Jobs, Deliver(h, e) PROVE StateInv'
  BY <1>8 DEF Deliver
<1>9. ASSUME NEW h \in Hooks, StoreEvent(h) PROVE StateInv'
  <2>1. UNCHANGED <<charge, buyer, topup, credits, exec, mishap, job, slot>>
    BY <1>9 DEF StoreEvent
  <2>2. \/ hook' = [hook EXCEPT ![h] = [at |-> "enqueue", ev |-> hook[h].ev]]
        \/ hook' = [hook EXCEPT ![h] = IdleHook]
    BY <1>9 DEF StoreEvent
  <2>3. /\ hook' \in [Hooks -> HookRecord]
        /\ \A g \in Hooks : hook'[g].at # "idle" => hook'[g].ev \in Jobs
    <3>1. hook[h].at = "insert" /\ hook[h].ev \in Jobs
      BY <1>9 DEF StoreEvent
    <3>2. CASE hook' = [hook EXCEPT ![h] = [at |-> "enqueue", ev |-> hook[h].ev]]
      BY <3>1, <3>2
    <3>3. CASE hook' = [hook EXCEPT ![h] = IdleHook]
      BY <3>3
    <3> QED
      BY <2>2, <3>2, <3>3
  <2>4. event' \in [Jobs -> {"none", "stored", "processed"}]
    BY <1>9 DEF StoreEvent
  <2> QED
    BY <2>1, <2>3, <2>4
<1>10. ASSUME NEW h \in Hooks, EnqueueEvent(h) PROVE StateInv'
  BY <1>10 DEF EnqueueEvent, Add
<1>11. ASSUME NEW h \in Hooks, HookFault(h) PROVE StateInv'
  <2>1. /\ hook' = [hook EXCEPT ![h] = IdleHook]
        /\ UNCHANGED <<charge, buyer, topup, credits, event, exec, job, slot>>
    BY <1>11 DEF HookFault
  <2>2. mishap' \in [Jobs -> SUBSET Mishaps]
    BY <1>11 DEF HookFault, Mishaps
  <2> QED
    BY <2>1, <2>2
<1>12. ASSUME NEW s \in Slots, NEW e \in Jobs, StartJob(s, e) PROVE StateInv'
  <2>1. UNCHANGED <<charge, buyer, topup, credits, event, hook, mishap>>
    BY <1>12 DEF StartJob
  <2>2. slot' = [slot EXCEPT ![s] = e] /\ Goto(s, "event")
    BY <1>12 DEF StartJob, Start
  <2>3. /\ exec' \in [Slots -> ExecRecord]
        /\ \A t \in Slots : exec'[t].at # "idle" => slot'[t] \in Jobs
    BY <2>2 DEF QueueTypeOK
  <2>4. ASSUME NEW t \in Slots, exec'[t].at = "settle"
        PROVE  exec'[t] = exec[t] /\ slot'[t] = slot[t]
    BY <2>2, <2>4 DEF QueueTypeOK
  <2> QED
    BY <2>1, <2>3, <2>4
<1>13. ASSUME NEW s \in Slots, ReadEvent(s) PROVE StateInv'
  BY <1>13 DEF ReadEvent
<1>14. ASSUME NEW s \in Slots, ReadTopup(s) PROVE StateInv'
  <2>1. /\ UNCHANGED <<charge, buyer, topup, credits, event, hook, job, slot>>
        /\ mishap' \in [Jobs -> SUBSET Mishaps]
    BY <1>14 DEF ReadTopup, Mishaps
  <2>2. CASE Goto(s, "mark")
    BY <1>14, <2>1, <2>2 DEF ReadTopup
  <2>3. ASSUME NEW p \in RowsOf(slot[s]),
               exec' = [exec EXCEPT ![s] = [at |-> "settle", target |-> p]]
        PROVE  StateInv'
    <3>1. p \in Purchases /\ ChargeRef[p] = EventRef[slot[s]] /\ exec[s].at = "topup"
      BY <1>14 DEF RowsOf, ReadTopup
    <3> QED
      BY <2>1, <2>3, <3>1
  <2> QED
    BY <1>14, <2>2, <2>3 DEF ReadTopup
<1>15. ASSUME NEW s \in Slots, SettleTopup(s) PROVE StateInv'
  BY <1>15 DEF SettleTopup
<1>16. ASSUME NEW s \in Slots, MarkProcessed(s) PROVE StateInv'
  BY <1>16 DEF MarkProcessed
<1>17. ASSUME NEW s \in Slots, FinishJob(s) PROVE StateInv'
  BY <1>17 DEF FinishJob, Complete, Release
<1>18. ASSUME NEW s \in Slots, JobThrows(s) PROVE StateInv'
  BY <1>18 DEF JobThrows, Fail, Release
<1>19. ASSUME NEW s \in Slots, WorkerCrash(s) PROVE StateInv'
  BY <1>19 DEF WorkerCrash, Crash, Release
<1>20. ASSUME NEW e \in Jobs, StallJob(e) PROVE StateInv'
  BY <1>20 DEF StallJob, Stall
<1> QED
  BY <1>1, <1>2, <1>3, <1>4, <1>5, <1>6, <1>7, <1>8, <1>9, <1>10, <1>11, <1>12, <1>13,
     <1>14, <1>15, <1>16, <1>17, <1>18, <1>19, <1>20
  DEF Next, PurchaseStep, HookStep, JobStep

\* The state invariant holds throughout.
THEOREM StateCorrect == Spec => []StateInv
  BY StateInitial, StateStep, PTL DEF Spec

\* Rows, handlers and jobs keep their types, whatever faults happen.
THEOREM TypeCorrect == Spec => []TypeOK
<1>1. StateInv => TypeOK
  BY DEF StateInv
<1> QED
  BY <1>1, StateCorrect, PTL

-----------------------------------------------------------------------------
(* No charge is credited twice.                                            *)

\* One Idempotency-Key per purchase, so one charge per row.
DistinctKeys == \A p, q \in Purchases : ChargeRef[p] = ChargeRef[q] => p = q

\* The gateway sends one event per charge (it may deliver it repeatedly).
OneEventPerCharge == \A d, e \in Jobs : EventRef[d] = EventRef[e] => d = e

\* Whoever is about to credit a row is the only one who can: the handler
\* that inserted it as succeeded, or the execution that read it as pending.
CreditInv ==
  /\ StateInv
  /\ ExecutorHoldsLock
  /\ \A p \in Purchases :
       /\ buyer[p].at \in {"idle", "insert"} => topup[p] = "none"
       /\ topup[p] # "succeeded" => credits[p] = 0
       /\ buyer[p].at = "credit" => topup[p] = "succeeded" /\ credits[p] = 0
       /\ credits[p] <= 1
  /\ \A s \in Slots : exec[s].at = "settle" => topup[exec[s].target] = "pending"

\* At first no row is written and no coin credited.
LEMMA CreditInitial == Init => CreditInv
<1> SUFFICES ASSUME Init PROVE CreditInv
  OBVIOUS
<1>1. StateInv /\ ExecutorHoldsLock
  BY StateInitial, QueueInitial DEF Init
<1> QED
  BY <1>1 DEF Init, CreditInv, IdleExec

\* A row is credited by whoever made it succeed: one handler or one execution.
LEMMA CreditStep ==
  ASSUME DistinctKeys, OneEventPerCharge, ~Zombies, CreditInv, [Next]_vars
  PROVE  CreditInv'
<1>0. StateInv' /\ ExecutorHoldsLock'
  BY StateStep, StepsOfTheQueue, QueueStepKeepsLock DEF CreditInv, StateInv
<1> USE TopupAssumption, <1>0
    DEF CreditInv, StateInv, TypeOK, BuyerRecord, ExecRecord, IdleExec, Goto, topupVars
<1>1. CASE UNCHANGED vars
  BY <1>1 DEF vars
<1>2. ASSUME NEW p \in Purchases, ChargeAtGateway(p) PROVE CreditInv'
  BY <1>2 DEF ChargeAtGateway
<1>3. ASSUME NEW p \in Purchases, ChargeThrows(p) PROVE CreditInv'
  BY <1>3 DEF ChargeThrows
<1>4. ASSUME NEW p \in Purchases, InsertTopup(p) PROVE CreditInv'
  BY <1>4 DEF InsertTopup, RowStatus, CreditsNow
<1>5. ASSUME NEW p \in Purchases, CreditTopup(p) PROVE CreditInv'
  BY <1>5 DEF CreditTopup
<1>6. ASSUME NEW p \in Purchases, ApiFault(p) PROVE CreditInv'
  BY <1>6 DEF ApiFault
<1>7. ASSUME NEW r \in Refs, GatewaySettles(r) PROVE CreditInv'
  BY <1>7 DEF GatewaySettles
<1>8. ASSUME NEW h \in Hooks, HookStep(h) PROVE CreditInv'
  BY <1>8 DEF HookStep, Deliver, StoreEvent, EnqueueEvent, HookFault
<1>9. ASSUME NEW s \in Slots, NEW e \in Jobs, StartJob(s, e) PROVE CreditInv'
  BY <1>9 DEF StartJob
<1>10. ASSUME NEW s \in Slots, ReadEvent(s) PROVE CreditInv'
  BY <1>10 DEF ReadEvent
<1>11. ASSUME NEW s \in Slots, ReadTopup(s) PROVE CreditInv'
  <2>1. UNCHANGED <<charge, buyer, topup, credits, event, hook, job, slot>>
    BY <1>11 DEF ReadTopup
  <2>2. CASE Goto(s, "mark")
    BY <2>1, <2>2
  <2>3. ASSUME NEW p \in RowsOf(slot[s]), NeedsSettling(p),
               exec' = [exec EXCEPT ![s] = [at |-> "settle", target |-> p]]
        PROVE  CreditInv'
    BY <2>1, <2>3 DEF RowsOf, NeedsSettling
  <2> QED
    BY <1>11, <2>2, <2>3 DEF ReadTopup
<1>12. ASSUME NEW s \in Slots, SettleTopup(s) PROVE CreditInv'
  <2> DEFINE p == exec[s].target
  <2>1. /\ p \in Purchases /\ topup[p] = "pending" /\ credits[p] = 0
        /\ buyer[p].at \in {"cut", "done"}
    BY <1>12 DEF SettleTopup
  <2>2. ASSUME NEW t \in Slots, t # s, exec[t].at = "settle" PROVE exec[t].target # p
    <3>1. slot[s] \in Jobs /\ slot[t] \in Jobs
      BY <1>12, <2>2 DEF SettleTopup
    <3>2. slot[s] # slot[t]
      <4>1. slot[s] # NoJob /\ slot[t] # NoJob
        BY <3>1, QueueAssumption
      <4>2. job[slot[s]].owner = s /\ job[slot[t]].owner = t
        BY <4>1 DEF ExecutorHoldsLock
      <4> QED
        BY <4>2, <2>2
    <3>3. EventRef[slot[s]] # EventRef[slot[t]]
      BY <3>1, <3>2 DEF OneEventPerCharge
    <3> QED
      BY <3>3, <2>2, <1>12 DEF SettleTopup
  <2>3. /\ topup' = [topup EXCEPT ![p] = "succeeded"]
        /\ credits' = [credits EXCEPT ![p] = @ + 1]
        /\ exec' = [exec EXCEPT ![s] = [at |-> "mark", target |-> NoPurchase]]
        /\ UNCHANGED buyer
    BY <1>12 DEF SettleTopup
  <2> QED
    BY <2>1, <2>2, <2>3
<1>13. ASSUME NEW s \in Slots, MarkProcessed(s) PROVE CreditInv'
  BY <1>13 DEF MarkProcessed
<1>14. ASSUME NEW s \in Slots, FinishJob(s) \/ JobThrows(s) \/ WorkerCrash(s) PROVE CreditInv'
  <2>1. exec' = [exec EXCEPT ![s] = IdleExec] /\ UNCHANGED <<topup, credits, buyer>>
    BY <1>14 DEF FinishJob, JobThrows, WorkerCrash
  <2>2. \A t \in Slots : exec'[t].at = "settle" => exec[t].at = "settle" /\ exec'[t] = exec[t]
    BY <2>1
  <2> QED
    BY <2>1, <2>2
<1>15. ASSUME NEW e \in Jobs, StallJob(e) PROVE CreditInv'
  BY <1>15 DEF StallJob
<1> QED
  BY <1>1, <1>2, <1>3, <1>4, <1>5, <1>6, <1>7, <1>8, <1>9, <1>10, <1>11, <1>12, <1>13,
     <1>14, <1>15
  DEF Next, PurchaseStep, JobStep

\* With one charge per purchase, one event per charge and workers that stop
\* when they lose a lock, no charge is credited twice: neither redelivery,
\* nor a retry, nor a crash between any two steps of the job can do it.
THEOREM NoDoubleCredit ==
  ASSUME DistinctKeys, OneEventPerCharge, ~Zombies
  PROVE  Spec => []CreditedAtMostOnce
<1>1. CreditInv => CreditedAtMostOnce
  BY DEF CreditInv, CreditedAtMostOnce, DistinctKeys
<1>2. Init => CreditInv
  BY CreditInitial
<1>3. CreditInv /\ [Next]_vars => CreditInv'
  BY CreditStep
<1> QED
  BY <1>1, <1>2, <1>3, PTL DEF Spec

-----------------------------------------------------------------------------
(* Coins only on the gateway's word.                                       *)

\* No coins are credited for a charge that neither was collected nor has a
\* webhook event about it stored.
CreditedOnlyWhenConfirmed == \A p \in Purchases : credits[p] > 0 => Confirmed(p)

\* A handler credits on a reply that said collected, and a collected charge
\* stays so; a job and its executions come after the event they are about.
ConfirmInv ==
  /\ StateInv
  /\ \A p \in Purchases :
       /\ buyer[p].at \in {"insert", "credit"} /\ buyer[p].reply = "collected"
            => charge[ChargeRef[p]] = "collected"
       /\ buyer[p].at = "credit" => buyer[p].reply = "collected"
  /\ \A h \in Hooks : hook[h].at = "enqueue" => event[hook[h].ev] # "none"
  /\ \A e \in Jobs : job[e].state # "absent" => event[e] # "none"
  /\ \A s \in Slots : slot[s] # NoJob => event[slot[s]] # "none"
  /\ CreditedOnlyWhenConfirmed

\* At first nothing is credited, and no event is received.
LEMMA ConfirmInitial == Init => ConfirmInv
<1> SUFFICES ASSUME Init PROVE ConfirmInv
  OBVIOUS
<1>1. StateInv
  BY StateInitial
<1> QED
  BY <1>1 DEF Init, QueueInit, ConfirmInv, CreditedOnlyWhenConfirmed, IdleHook

\* The gateway never takes back what it collected, and no event is deleted.
LEMMA WordIsFinal ==
  ASSUME StateInv, [Next]_vars
  PROVE  /\ \A r \in Refs : charge[r] = "collected" => charge'[r] = "collected"
         /\ \A e \in Jobs : event[e] # "none" => event'[e] # "none"
<1> DEFINE Charges == \A r \in Refs : charge[r] = "collected" => charge'[r] = "collected"
           Events  == \A e \in Jobs : event[e] # "none" => event'[e] # "none"
<1> USE TopupAssumption DEF StateInv, TypeOK, topupVars
<1>1. CASE UNCHANGED vars
  BY <1>1 DEF vars
<1>2. ASSUME NEW p \in Purchases, PurchaseStep(p) PROVE Charges /\ UNCHANGED event
  <2>1. CASE ChargeAtGateway(p)
    BY <2>1 DEF ChargeAtGateway, Replies, FreshReplies, StripeReplies, WaafiPayReplies, PromptReplies
  <2>2. CASE ChargeThrows(p)
    BY <2>2 DEF ChargeThrows, Replies, FreshReplies, StripeReplies, WaafiPayReplies, PromptReplies
  <2>3. CASE InsertTopup(p) \/ CreditTopup(p) \/ ApiFault(p)
    BY <2>3 DEF InsertTopup, CreditTopup, ApiFault
  <2> QED
    BY <1>2, <2>1, <2>2, <2>3 DEF PurchaseStep
<1>3. ASSUME NEW r \in Refs, GatewaySettles(r) PROVE Charges /\ UNCHANGED event
  BY <1>3 DEF GatewaySettles
<1>4. ASSUME NEW h \in Hooks, HookStep(h) PROVE Events /\ UNCHANGED charge
  <2>1. CASE StoreEvent(h)
    BY <2>1 DEF StoreEvent
  <2>2. CASE (\E e \in Jobs : Deliver(h, e)) \/ EnqueueEvent(h) \/ HookFault(h)
    BY <2>2 DEF Deliver, EnqueueEvent, HookFault
  <2> QED
    BY <1>4, <2>1, <2>2 DEF HookStep
<1>5. ASSUME NEW s \in Slots, MarkProcessed(s) PROVE Events /\ UNCHANGED charge
  BY <1>5 DEF MarkProcessed
<1>6. ASSUME NEW s \in Slots, JobStep(s), ~MarkProcessed(s) PROVE UNCHANGED <<charge, event>>
  BY <1>6 DEF JobStep, StartJob, ReadEvent, ReadTopup, SettleTopup, MarkProcessed, FinishJob,
              JobThrows, WorkerCrash
<1>7. ASSUME NEW e \in Jobs, StallJob(e) PROVE UNCHANGED <<charge, event>>
  BY <1>7 DEF StallJob
<1> QED
  BY <1>1, <1>2, <1>3, <1>4, <1>5, <1>6, <1>7 DEF Next

\* A charge is confirmed before anything is credited on behalf of it.
LEMMA ConfirmStep ==
  ASSUME ConfirmInv, [Next]_vars
  PROVE  ConfirmInv'
<1>0. /\ StateInv'
      /\ \A r \in Refs : charge[r] = "collected" => charge'[r] = "collected"
      /\ \A e \in Jobs : event[e] # "none" => event'[e] # "none"
      /\ \A p \in Purchases : ChargeRef[p] \in Refs
  BY StateStep, WordIsFinal, TopupAssumption DEF ConfirmInv
<1>c. \A p \in Purchases : Confirmed(p) => Confirmed(p)'
  BY <1>0 DEF Confirmed
<1> USE TopupAssumption, <1>0, <1>c
    DEF ConfirmInv, CreditedOnlyWhenConfirmed, StateInv, TypeOK, QueueTypeOK, QueueInv,
        BuyerRecord, ExecRecord, IdleExec, Goto, topupVars
<1>1. CASE UNCHANGED vars
  BY <1>1 DEF vars
<1>2. ASSUME NEW p \in Purchases, ChargeAtGateway(p) PROVE ConfirmInv'
  BY <1>2 DEF ChargeAtGateway
<1>3. ASSUME NEW p \in Purchases, ChargeThrows(p) PROVE ConfirmInv'
  BY <1>3 DEF ChargeThrows
<1>4. ASSUME NEW p \in Purchases, InsertTopup(p) PROVE ConfirmInv'
  BY <1>4 DEF InsertTopup, CreditsNow
<1>5. ASSUME NEW p \in Purchases, CreditTopup(p) PROVE ConfirmInv'
  <2>1. Confirmed(p)
    BY <1>5 DEF CreditTopup, Confirmed
  <2>2. \A q \in Purchases : credits'[q] > 0 => q = p \/ credits[q] > 0
    BY <1>5 DEF CreditTopup
  <2> QED
    BY <1>5, <2>1, <2>2 DEF CreditTopup
<1>6. ASSUME NEW p \in Purchases, ApiFault(p) PROVE ConfirmInv'
  BY <1>6 DEF ApiFault
<1>7. ASSUME NEW r \in Refs, GatewaySettles(r) PROVE ConfirmInv'
  BY <1>7 DEF GatewaySettles
<1>8. ASSUME NEW h \in Hooks, NEW e \in Jobs, Deliver(h, e) PROVE ConfirmInv'
  BY <1>8 DEF Deliver, HookRecord
<1>9. ASSUME NEW h \in Hooks, StoreEvent(h) PROVE ConfirmInv'
  <2>1. UNCHANGED <<charge, buyer, topup, credits, exec, job, slot>>
    BY <1>9 DEF StoreEvent
  <2> DEFINE Ahead(g) == hook[g].at = "enqueue" => event[hook[g].ev] # "none"
  <2>2. \A g \in Hooks : Ahead(g)'
    <3> DEFINE e == hook[h].ev
    <3>0. /\ e \in Jobs
          /\ \A g \in Hooks : Ahead(g) /\ (hook[g].at = "enqueue" => hook[g].ev \in Jobs)
          /\ hook \in [Hooks -> HookRecord] /\ event \in [Jobs -> {"none", "stored", "processed"}]
          /\ \A d \in Jobs : event[d] # "none" => event'[d] # "none"
      BY <1>9 DEF StoreEvent
    <3> HIDE DEF StateInv, ConfirmInv
    <3>1. \A g \in Hooks \ {h} : hook'[g] = hook[g]
      BY <1>9, <3>0 DEF StoreEvent
    <3>2. hook'[h].at = "enqueue" => event'[hook'[h].ev] # "none"
      BY <1>9, <3>0 DEF StoreEvent, IdleHook
    <3> QED
      BY <3>0, <3>1, <3>2
  <2> QED
    BY <2>1, <2>2
<1>10. ASSUME NEW h \in Hooks, EnqueueEvent(h) PROVE ConfirmInv'
  <2> DEFINE e == hook[h].ev
  <2>1. e \in Jobs /\ event[e] # "none"
    BY <1>10 DEF EnqueueEvent
  <2>2. /\ job' = [job EXCEPT ![e] = [state |-> "waiting", owner |-> NoSlot, made |-> 0, stalls |-> 0]]
        /\ hook' = [hook EXCEPT ![h] = IdleHook]
        /\ UNCHANGED <<charge, buyer, topup, credits, event, exec, slot>>
    BY <1>10 DEF EnqueueEvent, Add, SetJob
  <2>3. \A g \in Hooks : hook'[g].at # "idle" => hook'[g] = hook[g]
    BY <2>2 DEF IdleHook
  <2>4. \A d \in Jobs : job'[d].state # "absent" => job[d].state # "absent" \/ d = e
    BY <2>2
  <2> QED
    BY <2>1, <2>2, <2>3, <2>4
<1>11. ASSUME NEW h \in Hooks, HookFault(h) PROVE ConfirmInv'
  BY <1>11 DEF HookFault, IdleHook, HookRecord
<1>12. ASSUME NEW s \in Slots, NEW e \in Jobs, StartJob(s, e) PROVE ConfirmInv'
  BY <1>12 DEF StartJob, Start, SetJob, JobRecord
<1>13. ASSUME NEW s \in Slots, ReadEvent(s) \/ ReadTopup(s) PROVE ConfirmInv'
  BY <1>13 DEF ReadEvent, ReadTopup
<1>14. ASSUME NEW s \in Slots, MarkProcessed(s) PROVE ConfirmInv'
  BY <1>14 DEF MarkProcessed
<1>15. ASSUME NEW s \in Slots, SettleTopup(s) PROVE ConfirmInv'
  <2> DEFINE p == exec[s].target
  <2>1. p \in Purchases /\ slot[s] \in Jobs /\ ChargeRef[p] = EventRef[slot[s]]
    BY <1>15 DEF SettleTopup
  <2>2. Confirmed(p)
    BY <2>1, QueueAssumption DEF Confirmed
  <2>3. \A q \in Purchases : credits'[q] > 0 => q = p \/ credits[q] > 0
    BY <1>15 DEF SettleTopup
  <2> QED
    BY <1>15, <2>1, <2>2, <2>3 DEF SettleTopup
<1>16. ASSUME NEW s \in Slots, FinishJob(s) \/ JobThrows(s) \/ WorkerCrash(s) PROVE ConfirmInv'
  <2>1. UNCHANGED <<charge, buyer, topup, credits, event, hook>>
    BY <1>16 DEF FinishJob, JobThrows, WorkerCrash
  <2>2. /\ slot' = [slot EXCEPT ![s] = NoJob]
        /\ \A d \in Jobs : job[d].state = "absent" => job'[d].state = "absent"
    BY <1>16, EndingAddsNothing DEF FinishJob, JobThrows, WorkerCrash
  <2>3. \A t \in Slots : slot'[t] # NoJob => slot'[t] = slot[t]
    BY <2>2
  <2> HIDE DEF StateInv
  <2> QED
    BY <2>1, <2>2, <2>3
<1>17. ASSUME NEW e \in Jobs, StallJob(e) PROVE ConfirmInv'
  BY <1>17 DEF StallJob, Stall, SetJob, JobRecord
<1> QED
  BY <1>1, <1>2, <1>3, <1>4, <1>5, <1>6, <1>7, <1>8, <1>9, <1>10, <1>11, <1>12, <1>13,
     <1>14, <1>15, <1>16, <1>17
  DEF Next, PurchaseStep, HookStep, JobStep

\* Coins are only credited once the gateway has answered that the charge is
\* collected or a webhook about it is stored: under every fault, for shared
\* keys, for any number of events per charge, whatever they report, and even
\* if workers outlive their locks.
THEOREM NoUnconfirmedCredit == Spec => []CreditedOnlyWhenConfirmed
<1>1. ConfirmInv => CreditedOnlyWhenConfirmed
  BY DEF ConfirmInv
<1>2. Init => ConfirmInv
  BY ConfirmInitial
<1>3. ConfirmInv /\ [Next]_vars => ConfirmInv'
  BY ConfirmStep
<1> QED
  BY <1>1, <1>2, <1>3, PTL DEF Spec

-----------------------------------------------------------------------------
(* No row and no event is orphaned, but by a named failure of the API.      *)

\* An execution about to finish has seen, or set, processed_at.
QueuedInv ==
  /\ StateInv
  /\ \A s \in Slots : exec[s].at = "finish" => event[slot[s]] = "processed"
  /\ StoredReachesQueue

\* At first no event is received.
LEMMA QueuedInitial == Init => QueuedInv
<1> SUFFICES ASSUME Init PROVE QueuedInv
  OBVIOUS
<1>1. StateInv
  BY StateInitial
<1> QED
  BY <1>1 DEF Init, QueuedInv, StoredReachesQueue, IdleExec

\* An event that is stored reaches the queue, or its handler is known to have
\* failed just before.
LEMMA QueuedStep ==
  ASSUME QueuedInv, [Next]_vars
  PROVE  QueuedInv'
<1>0. StateInv'
  BY StateStep DEF QueuedInv
<1> USE <1>0
    DEF QueuedInv, StateInv, StoredReachesQueue, TypeOK, QueueInv, QueueTypeOK,
        ExecRecord, HookRecord, IdleExec, IdleHook, Goto, topupVars
<1>1. CASE UNCHANGED vars
  BY <1>1 DEF vars
<1>2. ASSUME NEW p \in Purchases, PurchaseStep(p) PROVE QueuedInv'
  BY <1>2 DEF PurchaseStep, ChargeAtGateway, ChargeThrows, InsertTopup, CreditTopup, ApiFault
<1>3. ASSUME NEW r \in Refs, GatewaySettles(r) PROVE QueuedInv'
  BY <1>3 DEF GatewaySettles
<1>4. ASSUME NEW h \in Hooks, NEW e \in Jobs, Deliver(h, e) PROVE QueuedInv'
  BY <1>4 DEF Deliver
<1>5. ASSUME NEW h \in Hooks, StoreEvent(h) PROVE QueuedInv'
  BY <1>5 DEF StoreEvent
<1>6. ASSUME NEW h \in Hooks, EnqueueEvent(h) PROVE QueuedInv'
  <2> DEFINE e == hook[h].ev
  <2>1. e \in Jobs
    BY <1>6 DEF EnqueueEvent
  <2>2. /\ job' = [job EXCEPT ![e] = [state |-> "waiting", owner |-> NoSlot, made |-> 0, stalls |-> 0]]
        /\ hook' = [hook EXCEPT ![h] = IdleHook]
        /\ UNCHANGED <<event, exec, mishap, slot>>
    BY <1>6 DEF EnqueueEvent, Add, SetJob
  <2>3. \A g \in Hooks, d \in Jobs :
          hook[g] = [at |-> "enqueue", ev |-> d] /\ d # e => hook'[g] = [at |-> "enqueue", ev |-> d]
    BY <2>2
  <2>4. job'[e].state = "waiting" /\ \A d \in Jobs : d # e => job'[d] = job[d]
    BY <2>1, <2>2
  <2> QED
    BY <2>1, <2>2, <2>3, <2>4
<1>7. ASSUME NEW s \in Slots, NEW e \in Jobs, StartJob(s, e) PROVE QueuedInv'
  BY <1>7 DEF StartJob, Start, SetJob
<1>8. ASSUME NEW s \in Slots, ReadEvent(s) PROVE QueuedInv'
  <2>1. UNCHANGED <<event, hook, mishap, job, slot>>
    BY <1>8 DEF ReadEvent
  <2>2. /\ exec'[s].at = "finish" => event[slot[s]] = "processed"
        /\ \A t \in Slots : t # s => exec'[t] = exec[t]
    BY <1>8 DEF ReadEvent
  <2> QED
    BY <2>1, <2>2
<1>9. ASSUME NEW s \in Slots, ReadTopup(s) \/ SettleTopup(s) PROVE QueuedInv'
  <2>1. /\ UNCHANGED <<event, hook, job, slot>>
        /\ \A e \in Jobs : "dropped" \in mishap[e] => "dropped" \in mishap'[e]
    BY <1>9 DEF ReadTopup, SettleTopup
  <2>2. \A t \in Slots : exec'[t].at = "finish" => exec[t].at = "finish"
    BY <1>9 DEF ReadTopup, SettleTopup
  <2> QED
    BY <2>1, <2>2
<1>10. ASSUME NEW s \in Slots, MarkProcessed(s) PROVE QueuedInv'
  BY <1>10 DEF MarkProcessed
<1>11. ASSUME NEW s \in Slots, FinishJob(s) PROVE QueuedInv'
  BY <1>11 DEF FinishJob, Complete, Release, SetJob, HoldsLock
<1>12. ASSUME NEW s \in Slots, JobThrows(s) PROVE QueuedInv'
  <2>1. UNCHANGED <<event, hook, mishap>> /\ Fail(s) /\ exec' = [exec EXCEPT ![s] = IdleExec]
    BY <1>12 DEF JobThrows
  <2>2. slot' = [slot EXCEPT ![s] = NoJob]
    BY <2>1 DEF Fail, Release
  <2>3. ASSUME NEW e \in Jobs, job[e].state \in {"waiting", "active", "failed"}
        PROVE  job'[e].state \in {"waiting", "active", "failed"}
    <3>1. CASE UNCHANGED job
      BY <2>3, <3>1
    <3>2. CASE \E made : SetJob(slot[s], "failed", NoSlot, made, job[slot[s]].stalls)
      BY <2>3, <3>2 DEF SetJob
    <3>3. CASE \E made : SetJob(slot[s], "waiting", NoSlot, made, job[slot[s]].stalls)
      BY <2>3, <3>3 DEF SetJob
    <3> QED
      BY <2>1, <3>1, <3>2, <3>3 DEF Fail
  <2>4. StoredReachesQueue'
    BY <2>1, <2>3
  <2>5. \A t \in Slots : exec'[t].at = "finish" => event'[slot'[t]] = "processed"
    BY <2>1, <2>2
  <2> QED
    BY <2>4, <2>5
<1>13. ASSUME NEW s \in Slots, WorkerCrash(s) PROVE QueuedInv'
  BY <1>13 DEF WorkerCrash, Crash, Release
<1>14. ASSUME NEW e \in Jobs, StallJob(e) PROVE QueuedInv'
  BY <1>14 DEF StallJob, Stall, SetJob
<1>15. ASSUME NEW h \in Hooks, HookFault(h) PROVE QueuedInv'
  <2> DEFINE e == hook[h].ev
  <2>1. hook' = [hook EXCEPT ![h] = IdleHook] /\ UNCHANGED <<event, exec, job, slot>>
    BY <1>15 DEF HookFault
  <2>2. /\ \A d \in Jobs : "dropped" \in mishap[d] => "dropped" \in mishap'[d]
        /\ e \in Jobs /\ hook[h].at = "enqueue" => "dropped" \in mishap'[e]
    BY <1>15 DEF HookFault
  <2>3. ASSUME NEW d \in Jobs, event'[d] = "stored"
        PROVE  \/ \E g \in Hooks : hook'[g] = [at |-> "enqueue", ev |-> d]
               \/ job'[d].state \in {"waiting", "active", "failed"}
               \/ "dropped" \in mishap'[d]
    <3>1. CASE \E g \in Hooks : hook[g] = [at |-> "enqueue", ev |-> d]
      <4>1. PICK g \in Hooks : hook[g] = [at |-> "enqueue", ev |-> d]
        BY <3>1
      <4>2. CASE g = h
        BY <2>2, <4>1, <4>2
      <4>3. CASE g # h
        BY <2>1, <4>1, <4>3
      <4> QED
        BY <4>2, <4>3
    <3>2. CASE job[d].state \in {"waiting", "active", "failed"} \/ "dropped" \in mishap[d]
      BY <2>1, <2>2, <3>2
    <3> QED
      BY <2>1, <2>3, <3>1, <3>2
  <2> QED
    BY <2>1, <2>3
<1> QED
  BY <1>1, <1>2, <1>3, <1>4, <1>5, <1>6, <1>7, <1>8, <1>9, <1>10, <1>11, <1>12, <1>13,
     <1>14, <1>15
  DEF Next, HookStep, JobStep

\* Every stored event is in the queue until it is processed, or is about to
\* be, unless its own handler failed between the insert and the enqueue:
\* under every fault, for any keys and events, with zombies too.
THEOREM NoEventLost == Spec => []StoredReachesQueue
<1>1. QueuedInv => StoredReachesQueue
  BY DEF QueuedInv
<1>2. Init => QueuedInv
  BY QueuedInitial
<1>3. QueuedInv /\ [Next]_vars => QueuedInv'
  BY QueuedStep
<1> QED
  BY <1>1, <1>2, <1>3, PTL DEF Spec

\* A row that says succeeded was written with its credit, its credit is the
\* next thing its handler does, or that very handler was cut down, under
\* every fault, for any keys and events, with zombies too.
THEOREM SucceededRowsAreCredited == Spec => []SucceededIsCredited
<1> DEFINE Inv == StateInv /\ SucceededIsCredited
<1>1. Init => Inv
  BY StateInitial DEF Init, SucceededIsCredited
<1>2. Inv /\ [Next]_vars => Inv'
  <2> SUFFICES ASSUME Inv, [Next]_vars PROVE SucceededIsCredited'
    BY StateStep
  <2> USE DEF StateInv, SucceededIsCredited, TypeOK, BuyerRecord, topupVars
  <2>1. CASE UNCHANGED vars
    BY <2>1 DEF vars
  <2>2. ASSUME NEW p \in Purchases, ChargeAtGateway(p) \/ ChargeThrows(p)
        PROVE  SucceededIsCredited'
    BY <2>2 DEF ChargeAtGateway, ChargeThrows
  <2>3. ASSUME NEW p \in Purchases, InsertTopup(p) PROVE SucceededIsCredited'
    BY <2>3 DEF InsertTopup, RowStatus, CreditsNow
  <2>4. ASSUME NEW p \in Purchases, CreditTopup(p) PROVE SucceededIsCredited'
    BY <2>4 DEF CreditTopup
  <2>5. ASSUME NEW r \in Refs, GatewaySettles(r) PROVE SucceededIsCredited'
    BY <2>5 DEF GatewaySettles
  <2>6. ASSUME NEW h \in Hooks, HookStep(h) PROVE SucceededIsCredited'
    BY <2>6 DEF HookStep, Deliver, StoreEvent, EnqueueEvent, HookFault
  <2>7. ASSUME NEW s \in Slots, SettleTopup(s) PROVE SucceededIsCredited'
    BY <2>7 DEF SettleTopup
  <2>8. ASSUME NEW s \in Slots, JobStep(s), ~SettleTopup(s) PROVE SucceededIsCredited'
    BY <2>8 DEF JobStep, StartJob, ReadEvent, ReadTopup, MarkProcessed, FinishJob, JobThrows,
                WorkerCrash
  <2>9. ASSUME NEW e \in Jobs, StallJob(e) PROVE SucceededIsCredited'
    BY <2>9 DEF StallJob
  <2>10. ASSUME NEW p \in Purchases, ApiFault(p) PROVE SucceededIsCredited'
    BY <2>10 DEF ApiFault
  <2> QED
    BY <2>1, <2>2, <2>3, <2>4, <2>5, <2>6, <2>7, <2>8, <2>9, <2>10 DEF Next, PurchaseStep
<1>3. Inv => SucceededIsCredited
  OBVIOUS
<1> QED
  BY <1>1, <1>2, <1>3, PTL DEF Spec

-----------------------------------------------------------------------------
(* A job that finds the row leaves no row of its charge pending.           *)

\* The job missed the row, or the row of the event's charge has succeeded.
Settled(e) ==
  \/ "early" \in mishap[e]
  \/ \A p \in Purchases : ChargeRef[p] = EventRef[e] => topup[p] = "succeeded"

\* A row is inserted once, and an execution that is past the row has settled
\* it, found it settled, or missed it.
SettledInv ==
  /\ StateInv
  /\ \A p \in Purchases : buyer[p].at \in {"idle", "insert"} => topup[p] = "none"
  /\ \A s \in Slots : exec[s].at = "settle" => topup[exec[s].target] # "none"
  /\ \A s \in Slots : exec[s].at = "mark" => Settled(slot[s])
  /\ \A e \in Jobs : event[e] = "processed" => Settled(e)

\* At first no event is processed.
LEMMA SettledInitial == Init => SettledInv
<1> SUFFICES ASSUME Init PROVE SettledInv
  OBVIOUS
<1>1. StateInv
  BY StateInitial
<1> QED
  BY <1>1 DEF Init, SettledInv, IdleExec

\* A row that succeeded stays so, a job that missed a row has missed it, and
\* no handler writes its row twice.
LEMMA SettledStays ==
  ASSUME SettledInv, [Next]_vars
  PROVE  /\ \A e \in Jobs : Settled(e) => Settled(e)'
         /\ \A p \in Purchases : topup[p] # "none" => topup'[p] # "none"
         /\ \A p \in Purchases : buyer'[p].at \in {"idle", "insert"} => topup'[p] = "none"
<1> DEFINE Rows == \A p \in Purchases : /\ topup[p] = "succeeded" => topup'[p] = "succeeded"
                                        /\ topup[p] # "none" => topup'[p] # "none"
           Unwritten == \A p \in Purchases :
                          buyer'[p].at \in {"idle", "insert"} => topup'[p] = "none"
           Missed == \A e \in Jobs : "early" \in mishap[e] => "early" \in mishap'[e]
<1> USE DEF SettledInv, StateInv, TypeOK, BuyerRecord, topupVars
<1>1. CASE UNCHANGED vars
  BY <1>1 DEF vars, Settled
<1>2. ASSUME NEW p \in Purchases, ChargeAtGateway(p) \/ ChargeThrows(p) \/ CreditTopup(p) \/ ApiFault(p)
      PROVE  Rows /\ Unwritten /\ UNCHANGED mishap
  BY <1>2 DEF ChargeAtGateway, ChargeThrows, CreditTopup, ApiFault
<1>3. ASSUME NEW p \in Purchases, InsertTopup(p) PROVE Rows /\ Unwritten /\ UNCHANGED mishap
  BY <1>3 DEF InsertTopup, CreditsNow, RowStatus
<1>4. ASSUME NEW r \in Refs, GatewaySettles(r) PROVE UNCHANGED <<buyer, topup, mishap>>
  BY <1>4 DEF GatewaySettles
<1>5. ASSUME NEW h \in Hooks, HookStep(h) PROVE Missed /\ UNCHANGED <<buyer, topup>>
  <2>1. CASE HookFault(h)
    BY <2>1 DEF HookFault
  <2>2. CASE ~HookFault(h)
    BY <1>5, <2>2 DEF HookStep, Deliver, StoreEvent, EnqueueEvent
  <2> QED
    BY <2>1, <2>2
<1>6. ASSUME NEW s \in Slots, SettleTopup(s) PROVE Rows /\ Unwritten /\ UNCHANGED mishap
  <2> DEFINE q == exec[s].target
  <2>1. q \in Purchases /\ topup' = [topup EXCEPT ![q] = "succeeded"] /\ UNCHANGED <<buyer, mishap>>
    BY <1>6 DEF SettleTopup
  <2>2. exec[s].at = "settle"
    BY <1>6 DEF SettleTopup
  <2>3. buyer[q].at \notin {"idle", "insert"}
    BY <2>2 DEF SettledInv
  <2> QED
    BY <2>1, <2>3
<1>7. ASSUME NEW s \in Slots, ReadTopup(s) PROVE Missed /\ UNCHANGED <<buyer, topup>>
  BY <1>7 DEF ReadTopup
<1>8. ASSUME NEW s \in Slots, JobStep(s), ~SettleTopup(s), ~ReadTopup(s)
      PROVE  UNCHANGED <<buyer, topup, mishap>>
  BY <1>8 DEF JobStep, StartJob, ReadEvent, MarkProcessed, FinishJob, JobThrows, WorkerCrash
<1>9. ASSUME NEW e \in Jobs, StallJob(e) PROVE UNCHANGED <<buyer, topup, mishap>>
  BY <1>9 DEF StallJob
<1>a. Rows /\ Unwritten /\ Missed
  BY <1>1, <1>2, <1>3, <1>4, <1>5, <1>6, <1>7, <1>8, <1>9 DEF Next, PurchaseStep, vars
<1> QED
  BY <1>a DEF Settled

\* An event is not marked processed while a row of its charge is pending.
LEMMA SettledStep ==
  ASSUME DistinctKeys, SettledInv, [Next]_vars
  PROVE  SettledInv'
<1> DEFINE Rest == /\ \A s \in Slots : exec[s].at = "settle" => topup[exec[s].target] # "none"
                   /\ \A s \in Slots : exec[s].at = "mark" => Settled(slot[s])
                   /\ \A e \in Jobs : event[e] = "processed" => Settled(e)
<1>0. /\ StateInv'
      /\ \A p \in Purchases : buyer'[p].at \in {"idle", "insert"} => topup'[p] = "none"
  BY StateStep, SettledStays DEF SettledInv
<1>a. /\ \A e \in Jobs : Settled(e) => Settled(e)'
      /\ \A p \in Purchases : topup[p] # "none" => topup'[p] # "none"
  BY SettledStays
<1>b. /\ Rest
      /\ \A h \in Hooks : hook[h].at # "idle" => hook[h].ev \in Jobs
      /\ \A s \in Slots : exec[s].at # "idle" => slot[s] \in Jobs
      /\ \A s \in Slots : exec[s].at = "settle" => exec[s].target \in Purchases
      /\ exec \in [Slots -> ExecRecord] /\ event \in [Jobs -> {"none", "stored", "processed"}]
      /\ mishap \in [Jobs -> SUBSET Mishaps]
      /\ QueueTypeOK
  BY DEF SettledInv, StateInv, TypeOK
<1> SUFFICES Rest'
  BY <1>0 DEF SettledInv
<1> HIDE DEF Rest
<1> USE DEF ExecRecord, IdleExec, Goto, topupVars
\* Steps that leave events, executions and slots alone.
<1>k. ASSUME UNCHANGED <<event, exec, slot>> PROVE Rest'
  BY <1>a, <1>b, <1>k DEF Rest
<1>1. CASE UNCHANGED vars
  BY <1>1, <1>k DEF vars
<1>2. ASSUME NEW p \in Purchases, PurchaseStep(p) PROVE Rest'
  BY <1>2, <1>k DEF PurchaseStep, ChargeAtGateway, ChargeThrows, InsertTopup, CreditTopup, ApiFault
<1>3. ASSUME NEW r \in Refs, GatewaySettles(r) PROVE Rest'
  BY <1>3, <1>k DEF GatewaySettles
<1>4. ASSUME NEW h \in Hooks, HookStep(h), ~StoreEvent(h) PROVE Rest'
  BY <1>4, <1>k DEF HookStep, Deliver, EnqueueEvent, Add, HookFault
<1>5. ASSUME NEW h \in Hooks, StoreEvent(h) PROVE Rest'
  <2>1. /\ UNCHANGED <<exec, slot>>
        /\ \A e \in Jobs : event'[e] = "processed" => event[e] = "processed"
    BY <1>5, <1>b DEF StoreEvent
  <2> QED
    BY <1>a, <1>b, <2>1 DEF Rest
<1>6. ASSUME NEW s \in Slots, NEW e \in Jobs, StartJob(s, e) PROVE Rest'
  <2>1. /\ slot' = [slot EXCEPT ![s] = e]
        /\ exec' = [exec EXCEPT ![s] = [at |-> "event", target |-> NoPurchase]]
        /\ UNCHANGED event
    BY <1>6 DEF StartJob, Start
  <2>2. \A t \in Slots : exec'[t].at \in {"settle", "mark"} => exec'[t] = exec[t] /\ slot'[t] = slot[t]
    BY <1>b, <2>1 DEF QueueTypeOK
  <2> QED
    BY <1>a, <1>b, <2>1, <2>2 DEF Rest
<1>7. ASSUME NEW s \in Slots, ReadEvent(s) PROVE Rest'
  <2>1. UNCHANGED <<event, slot>>
        /\ \A t \in Slots : exec'[t].at \in {"settle", "mark"} => exec'[t] = exec[t]
    BY <1>b, <1>7 DEF ReadEvent
  <2> QED
    BY <1>a, <1>b, <2>1 DEF Rest
<1>8. ASSUME NEW s \in Slots, ReadTopup(s) PROVE Rest'
  <2>1. slot[s] \in Jobs /\ UNCHANGED <<event, slot, topup>>
    BY <1>8, <1>b DEF ReadTopup
  <2>2. ASSUME NEW p \in RowsOf(slot[s]),
               exec' = [exec EXCEPT ![s] = [at |-> "settle", target |-> p]]
        PROVE  Rest'
    <3>1. p \in Purchases /\ topup'[p] # "none"
      BY <2>1 DEF RowsOf
    <3>2. \A t \in Slots : t # s => exec'[t] = exec[t]
      BY <2>2
    <3>3. exec'[s] = [at |-> "settle", target |-> p]
      BY <1>b, <2>2
    <3> QED
      BY <1>a, <1>b, <2>1, <3>1, <3>2, <3>3 DEF Rest
  <2>3. ASSUME Goto(s, "mark"), RowsOf(slot[s]) = {} \/ \E p \in RowsOf(slot[s]) : ~NeedsSettling(p)
        PROVE  Rest'
    <3>1. CASE RowsOf(slot[s]) = {}
      <4>1. mishap' = [mishap EXCEPT ![slot[s]] = @ \cup {"early"}]
        BY <1>8, <3>1 DEF ReadTopup
      <4>2. "early" \in mishap'[slot[s]]
        BY <1>b, <2>1, <4>1
      <4>3. Settled(slot[s])'
        BY <2>1, <4>2 DEF Settled
      <4> QED
        BY <1>a, <1>b, <2>1, <2>3, <4>3 DEF Rest
    <3>2. CASE \E p \in RowsOf(slot[s]) : ~NeedsSettling(p)
      <4>1. Settled(slot[s])
        BY <3>2 DEF Settled, RowsOf, NeedsSettling, DistinctKeys
      <4>2. Settled(slot[s])'
        BY <1>a, <2>1, <4>1
      <4> QED
        BY <1>a, <1>b, <2>1, <2>3, <4>2 DEF Rest
    <3> QED
      BY <2>3, <3>1, <3>2
  <2> QED
    BY <1>8, <2>2, <2>3 DEF ReadTopup
<1>9. ASSUME NEW s \in Slots, SettleTopup(s) PROVE Rest'
  <2> DEFINE p == exec[s].target
  <2>1. /\ p \in Purchases /\ ChargeRef[p] = EventRef[slot[s]]
        /\ exec' = [exec EXCEPT ![s] = [at |-> "mark", target |-> NoPurchase]]
        /\ topup' = [topup EXCEPT ![p] = "succeeded"]
        /\ UNCHANGED <<event, slot>>
    BY <1>9 DEF SettleTopup, SettledInv, StateInv
  <2>2. topup'[p] = "succeeded"
    BY <2>1 DEF SettledInv, StateInv, TypeOK
  <2>3. Settled(slot[s])'
    BY <2>1, <2>2 DEF Settled, DistinctKeys
  <2>4. \A t \in Slots : t # s => exec'[t] = exec[t]
    BY <2>1
  <2>5. exec'[s].at = "mark"
    BY <1>b, <2>1
  <2> HIDE DEF p
  <2> QED
    BY <1>a, <1>b, <2>1, <2>3, <2>4, <2>5 DEF Rest
<1>10. ASSUME NEW s \in Slots, MarkProcessed(s) PROVE Rest'
  <2>1. /\ slot[s] \in Jobs /\ Settled(slot[s])
        /\ exec' = [exec EXCEPT ![s] = [at |-> "finish", target |-> NoPurchase]]
        /\ event' = [event EXCEPT ![slot[s]] = "processed"]
        /\ UNCHANGED slot
    BY <1>10, <1>b DEF MarkProcessed, Rest
  <2> QED
    BY <1>a, <1>b, <2>1 DEF Rest
<1>11. ASSUME NEW s \in Slots, FinishJob(s) \/ JobThrows(s) \/ WorkerCrash(s) PROVE Rest'
  <2>1. UNCHANGED event /\ exec' = [exec EXCEPT ![s] = IdleExec] /\ slot' = [slot EXCEPT ![s] = NoJob]
    BY <1>11 DEF FinishJob, JobThrows, WorkerCrash, Complete, Fail, Crash, Release
  <2>2. \A t \in Slots : exec'[t].at \in {"settle", "mark"} => exec'[t] = exec[t] /\ slot'[t] = slot[t]
    BY <1>b, <2>1 DEF QueueTypeOK
  <2> QED
    BY <1>a, <1>b, <2>1, <2>2 DEF Rest
<1>12. ASSUME NEW e \in Jobs, StallJob(e) PROVE Rest'
  BY <1>12, <1>k DEF StallJob, Stall
<1> QED
  BY <1>1, <1>2, <1>3, <1>4, <1>5, <1>6, <1>7, <1>8, <1>9, <1>10, <1>11, <1>12
  DEF Next, JobStep

\* If keys are distinct, an event that is marked processed leaves no row of
\* its charge pending, unless its job looked for the row too early: under
\* every fault, with several events per charge and with workers that outlive
\* their locks.
THEOREM ProcessedIsSettled ==
  ASSUME DistinctKeys
  PROVE  Spec => []ProcessedMeansSettled
<1>1. SettledInv => ProcessedMeansSettled
  BY DEF SettledInv, ProcessedMeansSettled, Settled
<1>2. Init => SettledInv
  BY SettledInitial
<1>3. SettledInv /\ [Next]_vars => SettledInv'
  BY SettledStep
<1> QED
  BY <1>1, <1>2, <1>3, PTL DEF Spec

-----------------------------------------------------------------------------
(* Topups implements CoinSale.                                             *)

\* What a step can do to the variables a sale is made of: settle one charge,
\* store one event, credit one purchase, or none of these.
LEMMA OneThingAtATime ==
  ASSUME StateInv, [Next]_vars
  PROVE  \/ UNCHANGED <<charge, event, credits>>
         \/ /\ UNCHANGED <<event, credits>>
            /\ \E r \in Refs : \A q \in Refs \ {r} : charge'[q] = charge[q]
         \/ /\ UNCHANGED <<charge, credits>>
            /\ \E e \in Jobs : \A d \in Jobs \ {e} : event'[d] = event[d]
         \/ /\ UNCHANGED <<charge, event>>
            /\ \E p \in Purchases : credits' = [credits EXCEPT ![p] = @ + 1]
<1> DEFINE Still      == UNCHANGED <<charge, event, credits>>
           SettlesOne == /\ UNCHANGED <<event, credits>>
                         /\ \E r \in Refs : \A q \in Refs \ {r} : charge'[q] = charge[q]
           StoresOne  == /\ UNCHANGED <<charge, credits>>
                         /\ \E e \in Jobs : \A d \in Jobs \ {e} : event'[d] = event[d]
           CreditsOne == /\ UNCHANGED <<charge, event>>
                         /\ \E p \in Purchases : credits' = [credits EXCEPT ![p] = @ + 1]
<1>0. /\ charge \in [Refs -> ChargeStates] /\ event \in [Jobs -> {"none", "stored", "processed"}]
      /\ \A p \in Purchases : ChargeRef[p] \in Refs
  BY TopupAssumption DEF StateInv, TypeOK
<1>1. CASE UNCHANGED vars
  BY <1>1 DEF vars
<1>2. ASSUME NEW p \in Purchases, ChargeAtGateway(p) \/ ChargeThrows(p) PROVE SettlesOne
  <2>1. UNCHANGED <<event, credits>> /\ \A q \in Refs \ {ChargeRef[p]} : charge'[q] = charge[q]
    BY <1>0, <1>2 DEF ChargeAtGateway, ChargeThrows
  <2> QED
    BY <1>0, <2>1
<1>3. ASSUME NEW p \in Purchases, CreditTopup(p) PROVE CreditsOne
  BY <1>3 DEF CreditTopup
<1>4. ASSUME NEW p \in Purchases, InsertTopup(p) \/ ApiFault(p) PROVE Still
  BY <1>4 DEF InsertTopup, ApiFault
<1>5. ASSUME NEW r \in Refs, GatewaySettles(r) PROVE SettlesOne
  <2>1. UNCHANGED <<event, credits>> /\ \A q \in Refs \ {r} : charge'[q] = charge[q]
    BY <1>0, <1>5 DEF GatewaySettles
  <2> QED
    BY <2>1
<1>6. ASSUME NEW h \in Hooks, StoreEvent(h) PROVE StoresOne
  <2>1. hook[h].ev \in Jobs /\ UNCHANGED <<charge, credits>>
    BY <1>6 DEF StoreEvent, StateInv, topupVars
  <2>2. \A d \in Jobs \ {hook[h].ev} : event'[d] = event[d]
    BY <1>0, <1>6 DEF StoreEvent
  <2> QED
    BY <2>1, <2>2
<1>7. ASSUME NEW h \in Hooks, HookStep(h), ~StoreEvent(h) PROVE Still
  BY <1>7 DEF HookStep, Deliver, EnqueueEvent, HookFault, topupVars
<1>8. ASSUME NEW s \in Slots, SettleTopup(s) PROVE CreditsOne
  BY <1>8 DEF SettleTopup, StateInv
<1>9. ASSUME NEW s \in Slots, MarkProcessed(s) PROVE StoresOne
  <2>1. slot[s] \in Jobs /\ UNCHANGED <<charge, credits>>
    BY <1>9 DEF MarkProcessed, StateInv, topupVars
  <2>2. \A d \in Jobs \ {slot[s]} : event'[d] = event[d]
    BY <1>0, <1>9 DEF MarkProcessed
  <2> QED
    BY <2>1, <2>2
<1>10. ASSUME NEW s \in Slots, JobStep(s), ~SettleTopup(s), ~MarkProcessed(s) PROVE Still
  BY <1>10 DEF JobStep, StartJob, ReadEvent, ReadTopup, FinishJob, JobThrows, WorkerCrash, topupVars
<1>11. ASSUME NEW e \in Jobs, StallJob(e) PROVE Still
  BY <1>11 DEF StallJob, topupVars
<1> QED
  BY <1>1, <1>2, <1>3, <1>4, <1>5, <1>6, <1>7, <1>8, <1>9, <1>10, <1>11 DEF Next, PurchaseStep

\* With a key of its own for every purchase, a step confirms one of them at most.
LEMMA OneIsConfirmed ==
  ASSUME DistinctKeys, StateInv, [Next]_vars,
         NEW p \in Purchases, ~Confirmed(p), Confirmed(p)',
         NEW q \in Purchases, ~Confirmed(q), Confirmed(q)'
  PROVE  p = q
<1>0. ChargeRef[p] \in Refs /\ ChargeRef[q] \in Refs
  BY TopupAssumption
<1>1. ASSUME UNCHANGED event, NEW r \in Refs, \A t \in Refs \ {r} : charge'[t] = charge[t]
      PROVE  p = q
  <2>1. ChargeRef[p] = r /\ ChargeRef[q] = r
    BY <1>0, <1>1 DEF Confirmed
  <2> QED
    BY <2>1 DEF DistinctKeys
<1>2. ASSUME UNCHANGED charge, NEW e \in Jobs, \A d \in Jobs \ {e} : event'[d] = event[d]
      PROVE  p = q
  <2>1. ChargeRef[p] = EventRef[e] /\ ChargeRef[q] = EventRef[e]
    BY <1>2 DEF Confirmed
  <2> QED
    BY <2>1 DEF DistinctKeys
<1>3. ~UNCHANGED <<charge, event>>
  BY DEF Confirmed
<1> QED
  BY <1>1, <1>2, <1>3, OneThingAtATime

\* A charge collected or an event stored confirms the one sale it belongs to,
\* and a credit is the delivery of a sale that was confirmed and not delivered.
LEMMA StepsOfTheSale ==
  ASSUME DistinctKeys, CreditInv, ConfirmInv, CreditInv', ConfirmInv', [Next]_vars
  PROVE  [Sale!Next]_saleOf
<1> USE DEF Sale!Next, Sale!Confirm, Sale!Deliver, saleOf
<1>0. /\ credits \in [Purchases -> Nat] /\ StateInv
      /\ \A p \in Purchases : credits[p] <= 1 /\ credits'[p] <= 1
      /\ \A p \in Purchases : credits[p] > 0 => Confirmed(p)
      /\ \A p \in Purchases : credits'[p] > 0 => Confirmed(p)'
  BY DEF CreditInv, ConfirmInv, CreditedOnlyWhenConfirmed, StateInv, TypeOK
<1>a. \A p \in Purchases : Confirmed(p) => Confirmed(p)'
  BY <1>0, WordIsFinal, TopupAssumption DEF Confirmed
<1>1. CASE UNCHANGED credits
  <2>1. CASE \A p \in Purchases : Confirmed(p)' => Confirmed(p)
    <3>1. \A p \in Purchases : Confirmed(p)' <=> Confirmed(p)
      BY <1>a, <2>1
    <3> QED
      BY <1>1, <3>1
  <2>2. ASSUME NEW p \in Purchases, Confirmed(p)', ~Confirmed(p) PROVE [Sale!Next]_saleOf
    <3>1. credits[p] = 0 /\ credits'[p] = 0
      BY <1>0, <1>1, <2>2
    <3>2. \A q \in Purchases \ {p} : Confirmed(q)' <=> Confirmed(q)
      BY <1>0, <1>a, <2>2, OneIsConfirmed
    <3>3. saleOf[p] = "open" /\ saleOf'[p] = "confirmed"
      BY <2>2, <3>1
    <3>4. \A q \in Purchases \ {p} : saleOf'[q] = saleOf[q]
      BY <1>1, <3>2
    <3>5. saleOf' = [saleOf EXCEPT ![p] = "confirmed"]
      BY <3>3, <3>4
    <3> QED
      BY <3>3, <3>5
  <2> QED
    BY <2>1, <2>2
<1>2. ASSUME UNCHANGED <<charge, event>>, NEW p \in Purchases, credits' = [credits EXCEPT ![p] = @ + 1]
      PROVE  [Sale!Next]_saleOf
  <2>0. \A q \in Purchases : Confirmed(q)' <=> Confirmed(q)
    BY <1>2 DEF Confirmed
  <2>1. credits[p] = 0 /\ credits'[p] = 1 /\ Confirmed(p)
    BY <1>0, <1>2, <2>0
  <2>2. \A q \in Purchases \ {p} : credits'[q] = credits[q]
    BY <1>0, <1>2
  <2>3. saleOf[p] = "confirmed" /\ saleOf'[p] = "delivered"
    BY <2>0, <2>1
  <2>4. \A q \in Purchases \ {p} : saleOf'[q] = saleOf[q]
    BY <2>0, <2>2
  <2>5. saleOf' = [saleOf EXCEPT ![p] = "delivered"]
    BY <2>3, <2>4
  <2> QED
    BY <2>3, <2>5
<1> QED
  BY <1>0, <1>1, <1>2, OneThingAtATime

\* Under the assumptions of NoDoubleCredit, and under every fault, buying
\* coins is a sale: confirmed by the gateway, then delivered at most once, and
\* never delivered before it is confirmed.
THEOREM TopupsImplementCoinSale ==
  ASSUME DistinctKeys, OneEventPerCharge, ~Zombies
  PROVE  Spec => SaleSpec
<1> DEFINE Inv == CreditInv /\ ConfirmInv
<1>1. Init => Inv
  BY CreditInitial, ConfirmInitial
<1>2. Inv /\ [Next]_vars => Inv'
  BY CreditStep, ConfirmStep
<1>3. Init => Sale!Init
  BY TopupAssumption DEF Init, Sale!Init, saleOf, Confirmed
<1>4. Inv /\ Inv' /\ [Next]_vars => [Sale!Next]_saleOf
  BY StepsOfTheSale
<1> QED
  BY <1>1, <1>2, <1>3, <1>4, PTL DEF Spec, SaleSpec, Sale!Spec
=============================================================================
