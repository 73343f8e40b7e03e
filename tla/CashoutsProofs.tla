---------------------------- MODULE CashoutsProofs ----------------------------
(***************************************************************************)
(* Theorems of Cashouts, for any number of creators, cashouts and workers. *)
(* Whatever fails: no balance is overdrawn, a cashout is marked paid only  *)
(* on the gateway's word, and a payout job completes only once the gateway *)
(* has taken its payout or the cashout was refunded.  While no worker      *)
(* dies: a cashout is refunded once at most.  As long as the gateway only  *)
(* fails by refusing: a cashout is a withdrawal.                           *)
(***************************************************************************)
EXTENDS Cashouts, JobQueueProofs

\* An execution past its start is at work on a cashout.
StateInv ==
  /\ QueueInv
  /\ TypeOK
  /\ \A s \in Slots : exec[s].at # "idle" => slot[s] \in Jobs

\* Every step of the module is a step of the queue or leaves it alone.
LEMMA StepsOfTheQueue == [Next]_vars => QueueStep /\ ("crash" \notin Faults => LiveQueueStep)
<1> DEFINE Goal == QueueStep /\ ("crash" \notin Faults => LiveQueueStep)
<1> SUFFICES ASSUME [Next]_vars PROVE Goal
  OBVIOUS
<1> USE DEF QueueStep, LiveQueueStep, queueVars, payoutVars
<1>1. CASE UNCHANGED vars
  BY <1>1 DEF vars
<1>2. ASSUME NEW c \in Jobs, RequestStep(c) PROVE Goal
  BY <1>2 DEF RequestStep, CheckProfile, DebitAndInsert, EnqueuePayout, EnqueueFault
<1>3. ASSUME NEW s \in Slots, PayoutStep(s) PROVE Goal
  <2>1. CASE \E c \in Jobs : StartPayout(s, c)
    BY <2>1 DEF StartPayout
  <2>2. CASE \/ ReadCashout(s) \/ MarkProcessing(s) \/ CallGateway(s) \/ RecordPaid(s)
             \/ SendEmail(s) \/ RecordAccepted(s) \/ RefundAndFail(s)
    BY <2>2 DEF ReadCashout, MarkProcessing, CallGateway, RecordPaid, SendEmail,
                RecordAccepted, RefundAndFail
  <2>3. CASE ThrowUnrouted(s) \/ Catch(s) \/ FinishPayout(s) \/ DbFault(s) \/ WorkerCrash(s)
    BY <2>3 DEF ThrowUnrouted, Catch, FinishPayout, DbFault, WorkerCrash
  <2> QED
    BY <1>3, <2>1, <2>2, <2>3 DEF PayoutStep
<1>4. ASSUME NEW c \in Jobs, StallPayout(c) PROVE Goal
  BY <1>4 DEF StallPayout
<1>5. ASSUME NEW n \in Notices, NoticeStep(n) PROVE Goal
  BY <1>5 DEF NoticeStep, FindPayout, ConfirmPayout
<1>6. ASSUME NEW k \in Keys, GatewayEnds(k) PROVE Goal
  BY <1>6 DEF GatewayEnds
<1> QED
  BY <1>1, <1>2, <1>3, <1>4, <1>5, <1>6 DEF Next

\* The product of two positive numbers, as an amount at a rate, is positive.
LEMMA AskedIsPositive == \A c \in Jobs : Asked(c) \in Nat \ {0}
<1>1. \A a, b \in Nat \ {0} : a * b \in Nat \ {0}
  OBVIOUS
<1> QED
  BY <1>1, CashoutAssumption DEF Asked

\* At first there is nothing to execute.
LEMMA StateInitial == Init => StateInv
<1> SUFFICES ASSUME Init PROVE StateInv
  OBVIOUS
<1>1. QueueInv
  BY QueueInitial DEF Init
<1> QED
  BY <1>1, CashoutAssumption, QueueAssumption
  DEF Init, StateInv, QueueInv, TypeOK, IdleExec, ExecRecord, Statuses, Outcomes

\* What the two ways an execution moves leave true of the executions.
ExecOK == /\ exec \in [Slots -> ExecRecord]
          /\ \A s \in Slots : exec[s].at # "idle" => slot[s] \in Jobs

\* An execution that goes on, or ends, keeps what ties it to its job.
LEMMA ExecutionMoves ==
  ASSUME StateInv, NEW s \in Slots,
         \/ /\ UNCHANGED slot /\ exec[s].at # "idle"
            /\ \E at \in {"mark", "unrouted", "call", "paid", "accepted", "email", "catch",
                         "refund", "finish"} : Goto(s, at)
         \/ /\ slot' = [slot EXCEPT ![s] = NoJob]
            /\ Halt(s)
  PROVE  ExecOK'
<1> USE QueueAssumption DEF StateInv, TypeOK, ExecRecord, ExecOK
<1>1. CASE UNCHANGED slot /\ exec[s].at # "idle"
           /\ \E at \in {"mark", "unrouted", "call", "paid", "accepted", "email", "catch",
                         "refund", "finish"} : Goto(s, at)
  BY <1>1 DEF Goto
<1>2. CASE slot' = [slot EXCEPT ![s] = NoJob] /\ Halt(s)
  BY <1>2 DEF Halt, IdleExec, QueueTypeOK, QueueInv
<1> QED
  BY <1>1, <1>2

\* Types, and the tie of an execution to its cashout, are kept by every step.
LEMMA StateStep == StateInv /\ [Next]_vars => StateInv'
<1> SUFFICES ASSUME StateInv, [Next]_vars PROVE StateInv'
  OBVIOUS
<1>0. QueueInv'
  BY StepsOfTheQueue, QueueStepKeepsInv DEF StateInv
<1> USE CashoutAssumption, QueueAssumption, <1>0
    DEF StateInv, QueueInv, TypeOK, Statuses, Outcomes, ExecRecord, IdleExec, Goto, Halt, payoutVars
<1>1. CASE UNCHANGED vars
  BY <1>1 DEF vars
<1>2. ASSUME NEW c \in Jobs, CheckProfile(c) \/ EnqueueFault(c) PROVE StateInv'
  BY <1>2 DEF CheckProfile, EnqueueFault
<1>3. ASSUME NEW c \in Jobs, DebitAndInsert(c) PROVE StateInv'
  <2>1. UNCHANGED <<hasRef, refunds, transfer, outcome, exec, notice, job, slot>>
    BY <1>3 DEF DebitAndInsert
  <2>2. balance' \in [Creators -> Int]
    BY <1>3 DEF DebitAndInsert
  <2>3. status' \in [Jobs -> Statuses]
    BY <1>3 DEF DebitAndInsert
  <2>4. request' \in [Jobs -> {"idle", "debit", "enqueue", "done"}]
    BY <1>3 DEF DebitAndInsert
  <2> QED
    BY <2>1, <2>2, <2>3, <2>4
<1>4. ASSUME NEW c \in Jobs, EnqueuePayout(c) PROVE StateInv'
  BY <1>4 DEF EnqueuePayout, Add
<1>5. ASSUME NEW s \in Slots, NEW c \in Jobs, StartPayout(s, c) PROVE StateInv'
  <2>1. job[c].made \in 0 .. MaxAttempts
    BY DEF QueueTypeOK, JobRecord
  <2>2. /\ slot' = [slot EXCEPT ![s] = c]
        /\ exec' = [exec EXCEPT ![s] = [at |-> "read", made |-> job[c].made]]
    BY <1>5 DEF StartPayout, Start
  <2>3. /\ exec' \in [Slots -> ExecRecord]
        /\ \A t \in Slots : exec'[t].at # "idle" => slot'[t] \in Jobs
    BY <2>1, <2>2 DEF QueueTypeOK
  <2> QED
    BY <1>5, <2>3 DEF StartPayout
<1>6. ASSUME NEW s \in Slots, ReadCashout(s) PROVE StateInv'
  BY <1>6 DEF ReadCashout
<1>7. ASSUME NEW s \in Slots, MarkProcessing(s) PROVE StateInv'
  BY <1>7 DEF MarkProcessing
<1>8. ASSUME NEW s \in Slots, CallGateway(s) PROVE StateInv'
  <2>1. transfer' \in [Keys -> Nat]
    <3>1. slot[s] \in Jobs /\ (UNCHANGED transfer \/ transfer' = Taken(slot[s]))
      BY <1>8 DEF CallGateway
    <3>2. Asked(slot[s]) \in Nat
      BY <3>1, AskedIsPositive
    <3> QED
      BY <3>1, <3>2 DEF Taken
  <2>2. outcome' \in [Keys -> Outcomes]
    <3>1. UNCHANGED outcome \/ \E state \in {"moved", "underway"} : outcome' = Begun(slot[s], state)
      BY <1>8 DEF CallGateway, OutcomeOf
    <3> QED
      BY <3>1 DEF Begun
  <2>3. /\ UNCHANGED <<balance, request, status, hasRef, refunds, notice, job, slot>>
        /\ ExecOK'
    BY <1>8, ExecutionMoves DEF CallGateway, Answers
  <2> QED
    BY <2>1, <2>2, <2>3 DEF ExecOK
<1>9. ASSUME NEW s \in Slots, RecordPaid(s) \/ RecordAccepted(s) PROVE StateInv'
  <2>1. /\ UNCHANGED <<balance, request, refunds, transfer, outcome, notice, job, slot>>
        /\ ExecOK'
    BY <1>9, ExecutionMoves DEF RecordPaid, RecordAccepted
  <2>2. status' \in [Jobs -> Statuses]
    BY <1>9 DEF RecordPaid, RecordAccepted
  <2>3. hasRef' \in [Jobs -> BOOLEAN]
    BY <1>9 DEF RecordPaid, RecordAccepted
  <2> QED
    BY <2>1, <2>2, <2>3 DEF ExecOK
<1>10. ASSUME NEW s \in Slots, SendEmail(s) PROVE StateInv'
  BY <1>10 DEF SendEmail
<1>11. ASSUME NEW s \in Slots, Catch(s) PROVE StateInv'
  <2>1. UNCHANGED <<balance, request, payoutVars, notice>> /\ ExecOK'
    BY <1>11, ExecutionMoves DEF Catch, Fail, Release
  <2> QED
    BY <2>1 DEF ExecOK
<1>12. ASSUME NEW s \in Slots, RefundAndFail(s) PROVE StateInv'
  BY <1>12 DEF RefundAndFail
<1>13. ASSUME NEW s \in Slots, ThrowUnrouted(s) PROVE StateInv'
  BY <1>13 DEF ThrowUnrouted, Fail, Release
<1>14. ASSUME NEW s \in Slots, FinishPayout(s) PROVE StateInv'
  BY <1>14 DEF FinishPayout, Complete, Release
<1>15. ASSUME NEW s \in Slots, DbFault(s) PROVE StateInv'
  <2>1. UNCHANGED <<balance, request, payoutVars, notice>> /\ ExecOK'
    BY <1>15, ExecutionMoves DEF DbFault, Fail, Release
  <2> QED
    BY <2>1 DEF ExecOK
<1>16. ASSUME NEW s \in Slots, WorkerCrash(s) PROVE StateInv'
  BY <1>16 DEF WorkerCrash, Crash, Release
<1>17. ASSUME NEW c \in Jobs, StallPayout(c) PROVE StateInv'
  BY <1>17 DEF StallPayout, Stall
<1>18. ASSUME NEW n \in Notices, NEW c \in Jobs, FindPayout(n, c) PROVE StateInv'
  BY <1>18 DEF FindPayout
<1>19. ASSUME NEW n \in Notices, ConfirmPayout(n) PROVE StateInv'
  BY <1>19 DEF ConfirmPayout
<1>20. ASSUME NEW k \in Keys, GatewayEnds(k) PROVE StateInv'
  BY <1>20 DEF GatewayEnds
<1> QED
  BY <1>1, <1>2, <1>3, <1>4, <1>5, <1>6, <1>7, <1>8, <1>9, <1>10, <1>11, <1>12, <1>13,
     <1>14, <1>15, <1>16, <1>17, <1>18, <1>19, <1>20
  DEF Next, RequestStep, PayoutStep, NoticeStep

\* Every reachable state has its type and every execution past its start is
\* at work on a cashout.
THEOREM StateCorrect == Spec => []StateInv
  BY StateInitial, StateStep, PTL DEF Spec

\* Rows, balances, handlers and jobs keep their types, whatever faults happen.
THEOREM TypeCorrect == Spec => []TypeOK
<1>1. StateInv => TypeOK
  BY DEF StateInv
<1> QED
  BY <1>1, StateCorrect, PTL

-----------------------------------------------------------------------------
\* No payout balance is overdrawn: under every fault, with shared keys and
\* with workers that outlive their locks, however requests interleave.
THEOREM NeverOverdrawn == Spec => []BalanceNonNegative
<1> DEFINE Inv == StateInv /\ BalanceNonNegative
<1>1. Init => Inv
  BY StateInitial, CashoutAssumption DEF Init, BalanceNonNegative
<1>2. Inv /\ [Next]_vars => Inv'
  <2> SUFFICES ASSUME Inv, [Next]_vars PROVE BalanceNonNegative'
    BY StateStep
  <2> USE CashoutAssumption DEF StateInv, BalanceNonNegative, TypeOK, payoutVars
  <2>1. CASE UNCHANGED vars
    BY <2>1 DEF vars
  <2>2. ASSUME NEW c \in Jobs, DebitAndInsert(c) PROVE BalanceNonNegative'
    BY <2>2 DEF DebitAndInsert, Covered
  <2>3. ASSUME NEW s \in Slots, RefundAndFail(s) PROVE BalanceNonNegative'
    <3>1. slot[s] \in Jobs
      BY <2>3 DEF RefundAndFail
    <3>2. Owner[slot[s]] \in Creators /\ Amount[slot[s]] \in Nat
      BY <3>1
    <3>3. balance' = [balance EXCEPT ![Owner[slot[s]]] = @ + Amount[slot[s]]]
      BY <2>3 DEF RefundAndFail
    <3> QED
      BY <3>2, <3>3
  <2>4. ASSUME NEW c \in Jobs, RequestStep(c), ~DebitAndInsert(c) PROVE UNCHANGED balance
    BY <2>4 DEF RequestStep, CheckProfile, EnqueuePayout, EnqueueFault
  <2>5. ASSUME NEW s \in Slots, PayoutStep(s), ~RefundAndFail(s) PROVE UNCHANGED balance
    BY <2>5 DEF PayoutStep, StartPayout, ReadCashout, MarkProcessing, ThrowUnrouted, CallGateway,
                RecordPaid, SendEmail, RecordAccepted, Catch, FinishPayout, DbFault, WorkerCrash
  <2>6. ASSUME NEW c \in Jobs, StallPayout(c) PROVE UNCHANGED balance
    BY <2>6 DEF StallPayout
  <2>7. ASSUME NEW n \in Notices, NoticeStep(n) PROVE UNCHANGED balance
    BY <2>7 DEF NoticeStep, FindPayout, ConfirmPayout
  <2>8. ASSUME NEW k \in Keys, GatewayEnds(k) PROVE UNCHANGED balance
    BY <2>8 DEF GatewayEnds
  <2> QED
    BY <2>1, <2>2, <2>3, <2>4, <2>5, <2>6, <2>7, <2>8 DEF Next
<1>3. Inv => BalanceNonNegative
  OBVIOUS
<1> QED
  BY <1>1, <1>2, <1>3, PTL DEF Spec

-----------------------------------------------------------------------------
(* Who changes what.                                                       *)

Sent(c) == transfer[Key[c]] # 0

\* Two executions are never at work on the same cashout.
LEMMA OneExecution ==
  ASSUME ExecutorHoldsLock, NEW s \in Slots, NEW t \in Slots, s # t, slot[s] \in Jobs
  PROVE  slot[t] # slot[s]
<1> SUFFICES ASSUME slot[t] = slot[s] PROVE FALSE
  OBVIOUS
<1>1. slot[s] # NoJob
  BY QueueAssumption
<1>2. job[slot[s]].owner = s /\ job[slot[s]].owner = t
  BY <1>1 DEF ExecutorHoldsLock
<1> QED
  BY <1>2

\* An execution moves only by its own steps.
LEMMA WhoMoves ==
  ASSUME StateInv, [Next]_vars, NEW s \in Slots, ~UNCHANGED <<exec[s], slot[s]>>
  PROVE  PayoutStep(s)
<1> USE DEF StateInv, TypeOK, Goto, Halt
<1>1. ~UNCHANGED <<exec, slot>>
  OBVIOUS
<1>2. ~UNCHANGED vars
  BY <1>1 DEF vars
<1>3. ASSUME NEW d \in Jobs, RequestStep(d) \/ StallPayout(d) PROVE FALSE
  BY <1>1, <1>3 DEF RequestStep, CheckProfile, DebitAndInsert, EnqueuePayout, Add, EnqueueFault,
                    StallPayout, Stall
<1>4. ASSUME NEW n \in Notices, NoticeStep(n) PROVE FALSE
  BY <1>1, <1>4 DEF NoticeStep, FindPayout, ConfirmPayout
<1>5. ASSUME NEW k \in Keys, GatewayEnds(k) PROVE FALSE
  BY <1>1, <1>5 DEF GatewayEnds
<1>6. ASSUME NEW t \in Slots, PayoutStep(t), t # s PROVE FALSE
  <2>1. CASE \E c \in Jobs : StartPayout(t, c)
    BY <1>6, <2>1 DEF StartPayout, Start, QueueInv, QueueTypeOK
  <2>2. CASE UNCHANGED slot /\ \E at \in STRING : Goto(t, at)
    BY <1>6, <2>2
  <2>3. CASE Release(t) /\ Halt(t)
    BY <1>6, <2>3 DEF Release, QueueInv, QueueTypeOK
  <2> QED
    BY <1>6, <2>1, <2>2, <2>3
    DEF PayoutStep, ReadCashout, MarkProcessing, ThrowUnrouted, CallGateway, RecordPaid,
        SendEmail, RecordAccepted, Catch, RefundAndFail, FinishPayout, DbFault, WorkerCrash,
        Fail, Complete, Crash
<1> QED
  BY <1>2, <1>3, <1>4, <1>5, <1>6 DEF Next

\* Unless it has just started, an execution that has moved is still at work on
\* its cashout, in the same attempt.
LEMMA ExecutionAdvances ==
  ASSUME StateInv, [Next]_vars, NEW s \in Slots, exec'[s].at \notin {"idle", "read"},
         ~UNCHANGED <<exec[s], slot[s]>>
  PROVE  /\ slot'[s] = slot[s] /\ slot[s] \in Jobs /\ exec'[s].made = exec[s].made
         /\ UNCHANGED <<job, slot>> /\ exec[s].at # "idle"
         /\ \/ ReadCashout(s) \/ MarkProcessing(s) \/ CallGateway(s) \/ RecordPaid(s)
            \/ SendEmail(s) \/ RecordAccepted(s) \/ Catch(s) \/ RefundAndFail(s) \/ DbFault(s)
<1> USE DEF StateInv, TypeOK, Goto, IdleExec
<1>1. ~(\E c \in Jobs : StartPayout(s, c)) /\ ~ThrowUnrouted(s) /\ ~FinishPayout(s) /\ ~WorkerCrash(s)
  BY DEF StartPayout, ThrowUnrouted, FinishPayout, WorkerCrash, Halt
<1>2. \/ ReadCashout(s) \/ MarkProcessing(s) \/ CallGateway(s) \/ RecordPaid(s)
      \/ SendEmail(s) \/ RecordAccepted(s) \/ Catch(s) \/ RefundAndFail(s) \/ DbFault(s)
  BY <1>1, WhoMoves DEF PayoutStep
<1>3. ~Halt(s)
  BY DEF Halt
<1>4. UNCHANGED <<job, slot>> /\ exec[s].at # "idle" /\ exec'[s].made = exec[s].made
  BY <1>2, <1>3 DEF ReadCashout, MarkProcessing, CallGateway, RecordPaid, SendEmail, RecordAccepted,
                    Catch, RefundAndFail, DbFault
<1> QED
  BY <1>2, <1>4

\* An execution that lets go of its slot returned, threw, or died.
LEMMA HowExecutionsEnd ==
  ASSUME StateInv, [Next]_vars, NEW s \in Slots, slot[s] # NoJob, slot'[s] = NoJob
  PROVE  \/ FinishPayout(s) \/ ThrowUnrouted(s) \/ WorkerCrash(s)
         \/ Catch(s) /\ ~IsFinalAttempt(exec[s].made)
         \/ DbFault(s)
<1>1. PayoutStep(s)
  BY WhoMoves
<1> QED
  BY <1>1, QueueAssumption
  DEF PayoutStep, StartPayout, Start, ReadCashout, MarkProcessing, CallGateway, RecordPaid, SendEmail,
      RecordAccepted, Catch, RefundAndFail, StateInv, QueueInv, QueueTypeOK

\* A webhook job takes up a cashout by finding its row.
LEMMA WhoIsNotified ==
  ASSUME StateInv, [Next]_vars, NEW n \in Notices, notice'[n] # NoJob, notice'[n] # notice[n]
  PROVE  \E c \in Jobs : FindPayout(n, c)
BY DEF Next, vars, RequestStep, CheckProfile, DebitAndInsert, EnqueuePayout, EnqueueFault,
       PayoutStep, StartPayout, ReadCashout, MarkProcessing, ThrowUnrouted, CallGateway,
       RecordPaid, SendEmail, RecordAccepted, Catch, RefundAndFail, FinishPayout, DbFault,
       WorkerCrash, StallPayout, NoticeStep, FindPayout, ConfirmPayout, GatewayEnds, StateInv, TypeOK

\* No step takes a transfer back, under any key and any fault.
LEMMA SentIsForGood ==
  ASSUME StateInv, [Next]_vars, NEW c \in Jobs, Sent(c)
  PROVE  Sent(c)'
<1> USE CashoutAssumption DEF StateInv, TypeOK, Sent, payoutVars
<1>1. CASE UNCHANGED transfer
  BY <1>1
<1>2. ASSUME NEW s \in Slots, CallGateway(s) PROVE Sent(c)'
  <2>1. slot[s] \in Jobs
    BY <1>2 DEF CallGateway
  <2>2. Key[c] \in Keys /\ Key[slot[s]] \in Keys
    BY <2>1
  <2>3. transfer' = Taken(slot[s]) => transfer'[Key[c]] = transfer[Key[c]]
    BY <2>2 DEF Taken
  <2> QED
    BY <1>2, <2>3 DEF CallGateway
<1>3. CASE UNCHANGED vars
  BY <1>3 DEF vars
<1>4. ASSUME NEW d \in Jobs, RequestStep(d) \/ StallPayout(d) PROVE UNCHANGED transfer
  BY <1>4 DEF RequestStep, CheckProfile, DebitAndInsert, EnqueuePayout, EnqueueFault, StallPayout
<1>5. ASSUME NEW s \in Slots, PayoutStep(s), ~CallGateway(s) PROVE UNCHANGED transfer
  BY <1>5 DEF PayoutStep, StartPayout, ReadCashout, MarkProcessing, ThrowUnrouted, RecordPaid,
              SendEmail, RecordAccepted, Catch, RefundAndFail, FinishPayout, DbFault, WorkerCrash
<1>6. ASSUME NEW n \in Notices, NoticeStep(n) PROVE UNCHANGED transfer
  BY <1>6 DEF NoticeStep, FindPayout, ConfirmPayout
<1>7. ASSUME NEW k \in Keys, GatewayEnds(k) PROVE UNCHANGED transfer
  BY <1>7 DEF GatewayEnds
<1> QED
  BY <1>1, <1>2, <1>3, <1>4, <1>5, <1>6, <1>7 DEF Next

\* The reference of a cashout is written by its own execution, once for all.
LEMMA WhoRecords ==
  ASSUME StateInv, [Next]_vars, NEW c \in Jobs, hasRef'[c] # hasRef[c]
  PROVE  hasRef'[c] /\ \E s \in Slots : (RecordPaid(s) \/ RecordAccepted(s)) /\ slot[s] = c
<1> USE DEF payoutVars
<1>1. ASSUME NEW s \in Slots, RecordPaid(s) \/ RecordAccepted(s) PROVE hasRef'[c] /\ slot[s] = c
  BY <1>1 DEF RecordPaid, RecordAccepted, StateInv, TypeOK
<1>2. ~UNCHANGED hasRef
  OBVIOUS
<1>3. ~UNCHANGED vars
  BY <1>2 DEF vars
<1>4. ASSUME NEW d \in Jobs, RequestStep(d) \/ StallPayout(d) PROVE FALSE
  BY <1>2, <1>4 DEF RequestStep, CheckProfile, DebitAndInsert, EnqueuePayout, EnqueueFault, StallPayout
<1>5. ASSUME NEW s \in Slots, PayoutStep(s) PROVE RecordPaid(s) \/ RecordAccepted(s)
  BY <1>2, <1>5 DEF PayoutStep, StartPayout, ReadCashout, MarkProcessing, ThrowUnrouted, CallGateway,
              SendEmail, Catch, RefundAndFail, FinishPayout, DbFault, WorkerCrash
<1>6. ASSUME NEW n \in Notices, NoticeStep(n) PROVE FALSE
  BY <1>2, <1>6 DEF NoticeStep, FindPayout, ConfirmPayout
<1>7. ASSUME NEW k \in Keys, GatewayEnds(k) PROVE FALSE
  BY <1>2, <1>7 DEF GatewayEnds
<1> QED
  BY <1>1, <1>3, <1>4, <1>5, <1>6, <1>7 DEF Next

\* The status of a cashout is written by its request, by its execution, or by
\* a webhook job that found its row.
LEMMA WhoWritesStatus ==
  ASSUME StateInv, [Next]_vars, NEW c \in Jobs, status'[c] # status[c]
  PROVE  \/ DebitAndInsert(c) /\ status'[c] = "pending"
         \/ \E s \in Slots :
              /\ slot[s] = c
              /\ \/ (MarkProcessing(s) \/ RecordAccepted(s)) /\ status'[c] = "processing"
                 \/ RecordPaid(s) /\ status'[c] = "paid"
                 \/ RefundAndFail(s) /\ status'[c] = "failed"
         \/ \E n \in Notices : ConfirmPayout(n) /\ notice[n] = c /\ status'[c] = "paid"
<1> USE CashoutAssumption DEF StateInv, TypeOK, payoutVars
<1>1. status' # status
  OBVIOUS
<1>2. ASSUME NEW d \in Jobs, DebitAndInsert(d) PROVE d = c /\ status'[c] = "pending"
  BY <1>2 DEF DebitAndInsert
<1>3. ASSUME NEW s \in Slots, MarkProcessing(s) \/ RecordAccepted(s)
      PROVE  slot[s] = c /\ status'[c] = "processing"
  BY <1>3 DEF MarkProcessing, RecordAccepted
<1>4. ASSUME NEW s \in Slots, RefundAndFail(s) PROVE slot[s] = c /\ status'[c] = "failed"
  BY <1>4 DEF RefundAndFail
<1>5. ASSUME NEW s \in Slots, RecordPaid(s) PROVE slot[s] = c /\ status'[c] = "paid"
  BY <1>5 DEF RecordPaid
<1>6. ASSUME NEW n \in Notices, ConfirmPayout(n) PROVE notice[n] = c /\ status'[c] = "paid"
  BY <1>6 DEF ConfirmPayout
<1>7. ~UNCHANGED vars
  BY <1>1 DEF vars
<1>8. ASSUME NEW d \in Jobs, RequestStep(d) \/ StallPayout(d) PROVE DebitAndInsert(d)
  BY <1>1, <1>8 DEF RequestStep, CheckProfile, EnqueuePayout, EnqueueFault, StallPayout
<1>9. ASSUME NEW s \in Slots, PayoutStep(s)
      PROVE  MarkProcessing(s) \/ RecordPaid(s) \/ RecordAccepted(s) \/ RefundAndFail(s)
  BY <1>1, <1>9 DEF PayoutStep, StartPayout, ReadCashout, ThrowUnrouted, CallGateway, SendEmail,
                    Catch, FinishPayout, DbFault, WorkerCrash
<1>10. ASSUME NEW n \in Notices, NoticeStep(n) PROVE ConfirmPayout(n)
  BY <1>1, <1>10 DEF NoticeStep, FindPayout
<1>11. ASSUME NEW k \in Keys, GatewayEnds(k) PROVE FALSE
  BY <1>1, <1>11 DEF GatewayEnds
<1> QED
  BY <1>2, <1>3, <1>4, <1>5, <1>6, <1>7, <1>8, <1>9, <1>10, <1>11 DEF Next

\* A cashout is refunded by its execution, one refund at a time.
LEMMA WhoRefunds ==
  ASSUME StateInv, [Next]_vars, NEW c \in Jobs, refunds'[c] # refunds[c]
  PROVE  refunds'[c] = refunds[c] + 1 /\ \E s \in Slots : RefundAndFail(s) /\ slot[s] = c
<1> USE DEF payoutVars
<1>1. ASSUME NEW s \in Slots, RefundAndFail(s) PROVE slot[s] = c /\ refunds'[c] = refunds[c] + 1
  BY <1>1 DEF RefundAndFail, StateInv, TypeOK
<1>2. ~UNCHANGED refunds
  OBVIOUS
<1>3. ~UNCHANGED vars
  BY <1>2 DEF vars
<1>4. ASSUME NEW d \in Jobs, RequestStep(d) \/ StallPayout(d) PROVE FALSE
  BY <1>2, <1>4 DEF RequestStep, CheckProfile, DebitAndInsert, EnqueuePayout, EnqueueFault, StallPayout
<1>5. ASSUME NEW s \in Slots, PayoutStep(s) PROVE RefundAndFail(s)
  BY <1>2, <1>5 DEF PayoutStep, StartPayout, ReadCashout, MarkProcessing, ThrowUnrouted, CallGateway,
              RecordPaid, SendEmail, RecordAccepted, Catch, FinishPayout, DbFault, WorkerCrash
<1>6. ASSUME NEW n \in Notices, NoticeStep(n) PROVE FALSE
  BY <1>2, <1>6 DEF NoticeStep, FindPayout, ConfirmPayout
<1>7. ASSUME NEW k \in Keys, GatewayEnds(k) PROVE FALSE
  BY <1>2, <1>7 DEF GatewayEnds
<1> QED
  BY <1>1, <1>3, <1>4, <1>5, <1>6, <1>7 DEF Next

\* A request moves by its own steps, and only the one that enqueues puts a
\* job into the queue.
LEMMA WhoRequests ==
  ASSUME StateInv, [Next]_vars, NEW c \in Jobs, request'[c] # request[c]
  PROVE  RequestStep(c)
BY DEF Next, vars, RequestStep, CheckProfile, DebitAndInsert, EnqueuePayout, EnqueueFault,
       PayoutStep, StartPayout, ReadCashout, MarkProcessing, ThrowUnrouted, CallGateway,
       RecordPaid, SendEmail, RecordAccepted, Catch, RefundAndFail, FinishPayout, DbFault,
       WorkerCrash, StallPayout, NoticeStep, FindPayout, ConfirmPayout, GatewayEnds, StateInv, TypeOK

LEMMA WhoEnqueues ==
  ASSUME StateInv, [Next]_vars, NEW c \in Jobs, (job[c].state = "absent") # (job'[c].state = "absent")
  PROVE  EnqueuePayout(c)
<1>1. QueueInv /\ QueueStep
  BY StepsOfTheQueue DEF StateInv
<1>2. job[c].state = "absent" /\ job'[c].state = "waiting"
  BY <1>1, AddedOnce DEF Add, SetJob, QueueInv, QueueTypeOK
<1>3. ~UNCHANGED job
  BY <1>2
<1>4. ASSUME NEW d \in Jobs, EnqueuePayout(d) PROVE d = c
  BY <1>1, <1>2, <1>4 DEF EnqueuePayout, Add, SetJob, QueueInv, QueueTypeOK
<1>5. ASSUME NEW d \in Jobs, Stall(d) PROVE FALSE
  BY <1>1, <1>2, <1>5 DEF Stall, SetJob, QueueInv, QueueTypeOK
<1>6. ASSUME NEW s \in Slots, NEW d \in Jobs, Start(s, d) PROVE FALSE
  BY <1>1, <1>2, <1>6 DEF Start, SetJob, QueueInv, QueueTypeOK
<1>7. ASSUME NEW s \in Slots, Complete(s) \/ Fail(s) \/ Crash(s) PROVE FALSE
  BY <1>1, <1>2, <1>7, EndingAddsNothing
  DEF Complete, Fail, Crash, SetJob, HoldsLock, QueueInv, QueueTypeOK
<1>8. ~UNCHANGED vars
  BY <1>3 DEF vars
<1>9. ASSUME NEW d \in Jobs, RequestStep(d) \/ StallPayout(d) PROVE EnqueuePayout(d)
  BY <1>3, <1>5, <1>9 DEF RequestStep, CheckProfile, DebitAndInsert, EnqueueFault, StallPayout
<1>10. ASSUME NEW s \in Slots, PayoutStep(s) PROVE FALSE
  BY <1>3, <1>6, <1>7, <1>10
  DEF PayoutStep, StartPayout, ReadCashout, MarkProcessing, ThrowUnrouted, CallGateway, RecordPaid,
      SendEmail, RecordAccepted, Catch, RefundAndFail, FinishPayout, DbFault, WorkerCrash
<1>11. ASSUME NEW n \in Notices, NoticeStep(n) PROVE FALSE
  BY <1>3, <1>11 DEF NoticeStep, FindPayout, ConfirmPayout
<1>12. ASSUME NEW k \in Keys, GatewayEnds(k) PROVE FALSE
  BY <1>3, <1>12 DEF GatewayEnds
<1> QED
  BY <1>4, <1>8, <1>9, <1>10, <1>11, <1>12 DEF Next

\* An execution that has come to its first statement has just taken a
\* waiting job.
LEMMA ExecutionStarts ==
  ASSUME StateInv, [Next]_vars, NEW s \in Slots, exec'[s].at = "read",
         ~UNCHANGED <<exec[s], slot[s]>>
  PROVE  /\ slot'[s] \in Jobs /\ job[slot'[s]].state = "waiting"
         /\ exec'[s].made = job[slot'[s]].made /\ job'[slot'[s]].made = job[slot'[s]].made
         /\ UNCHANGED payoutVars
<1>1. PayoutStep(s)
  BY WhoMoves
<1>2. PICK c \in Jobs : StartPayout(s, c)
  BY <1>1
  DEF PayoutStep, ReadCashout, MarkProcessing, ThrowUnrouted, CallGateway, Answers, RecordPaid,
      SendEmail, RecordAccepted, Catch, RefundAndFail, FinishPayout, DbFault, WorkerCrash,
      Goto, Halt, IdleExec, StateInv, TypeOK
<1>3. slot'[s] = c /\ job[c].state = "waiting" /\ exec'[s].made = job[c].made
      /\ job'[c].made = job[c].made /\ UNCHANGED payoutVars
  BY <1>2 DEF StartPayout, Start, SetJob, StateInv, QueueInv, QueueTypeOK, TypeOK
<1> QED
  BY <1>3

\* While one execution rests, no other acts on its cashout.
LEMMA OthersActElsewhere ==
  ASSUME StateInv, ExecutorHoldsLock, NEW s \in Slots, exec[s].at # "idle", UNCHANGED exec[s],
         NEW t \in Slots, slot[t] = slot[s]
  PROVE  ~MarkProcessing(t) /\ ~CallGateway(t) /\ ~RecordPaid(t) /\ ~RecordAccepted(t) /\ ~RefundAndFail(t)
<1>1. t = s
  BY OneExecution DEF StateInv
<1> QED
  BY <1>1 DEF MarkProcessing, CallGateway, Answers, RecordPaid, RecordAccepted, RefundAndFail, Goto,
              StateInv, TypeOK

-----------------------------------------------------------------------------
(* A debit reaches the queue.                                              *)

\* A row comes before its job, and a job before whoever works on it.
RequestInv ==
  /\ \A c \in Jobs : /\ request[c] \in {"idle", "debit"} => status[c] = "none"
                     /\ request[c] = "enqueue" => status[c] # "none"
                     /\ request[c] # "done" \/ status[c] = "none" => job[c].state = "absent"
                     /\ hasRef[c] => status[c] # "none"
  /\ ExecutedIsPresent
  /\ \A n \in Notices : notice[n] # NoJob => status[notice[n]] # "none"

\* What is executed has a row.
LEMMA ExecutedHasRow ==
  ASSUME StateInv, RequestInv, NEW s \in Slots, exec[s].at # "idle"
  PROVE  slot[s] \in Jobs /\ status[slot[s]] # "none"
BY QueueAssumption DEF StateInv, RequestInv, ExecutedIsPresent

\* A row is inserted once and never deleted.
LEMMA RowsStay ==
  ASSUME StateInv, [Next]_vars, NEW c \in Jobs, status[c] # "none"
  PROVE  status'[c] # "none"
BY WhoWritesStatus

\* Under every fault.
LEMMA RequestInvariant == Spec => []RequestInv
<1>1. Init => RequestInv
  BY DEF Init, QueueInit, RequestInv, ExecutedIsPresent
<1>2. StateInv /\ RequestInv /\ [Next]_vars => RequestInv'
  <2> SUFFICES ASSUME StateInv, RequestInv, [Next]_vars PROVE RequestInv'
    OBVIOUS
  <2>1. ASSUME NEW c \in Jobs, status[c] = "none", status'[c] # "none"
        PROVE  request[c] = "debit" /\ request'[c] = "enqueue"
    <3>1. DebitAndInsert(c)
      BY <2>1, WhoWritesStatus, ExecutedHasRow
      DEF MarkProcessing, RecordPaid, RecordAccepted, RefundAndFail, ConfirmPayout, RequestInv
    <3> QED
      BY <2>1, <3>1 DEF DebitAndInsert, StateInv, TypeOK
  <2>2. ASSUME NEW c \in Jobs
        PROVE  /\ request'[c] \in {"idle", "debit"} => status'[c] = "none"
               /\ request'[c] = "enqueue" => status'[c] # "none"
               /\ request'[c] # "done" \/ status'[c] = "none" => job'[c].state = "absent"
    <3>1. request[c] \in {"idle", "debit", "enqueue", "done"}
      BY DEF StateInv, TypeOK
    <3>2. CASE request'[c] = request[c]
      <4>1. status'[c] = "none" <=> status[c] = "none"
        BY <2>1, <3>2, RowsStay
      <4>2. ~EnqueuePayout(c)
        BY <3>2 DEF EnqueuePayout, StateInv, TypeOK
      <4>3. job'[c].state = "absent" <=> job[c].state = "absent"
        BY <4>2, WhoEnqueues
      <4> QED
        BY <3>1, <3>2, <4>1, <4>3 DEF RequestInv
    <3>3. CASE RequestStep(c)
      <4>1. CASE CheckProfile(c)
        BY <4>1 DEF CheckProfile, payoutVars, RequestInv, StateInv, TypeOK
      <4>2. CASE DebitAndInsert(c)
        BY <4>2 DEF DebitAndInsert, RequestInv, StateInv, TypeOK
      <4>3. CASE EnqueuePayout(c)
        BY <4>3 DEF EnqueuePayout, payoutVars, RequestInv, StateInv, TypeOK
      <4>4. CASE EnqueueFault(c)
        BY <4>4 DEF EnqueueFault, payoutVars, RequestInv, StateInv, TypeOK
      <4> QED
        BY <3>3, <4>1, <4>2, <4>3, <4>4 DEF RequestStep
    <3> QED
      BY <3>2, <3>3, WhoRequests
  <2>3. ASSUME NEW c \in Jobs, hasRef'[c] PROVE status'[c] # "none"
    <3>1. CASE hasRef'[c] = hasRef[c]
      BY <2>3, <3>1, RowsStay DEF RequestInv
    <3>2. CASE hasRef'[c] # hasRef[c]
      <4>1. status[c] # "none"
        BY <3>2, WhoRecords, ExecutedHasRow DEF RecordPaid, RecordAccepted
      <4> QED
        BY <4>1, RowsStay
    <3> QED
      BY <3>1, <3>2
  <2>4. ExecutedIsPresent'
    BY StepsOfTheQueue, QueueStepKeepsPresent DEF StateInv, RequestInv
  <2>5. ASSUME NEW n \in Notices, notice'[n] # NoJob PROVE status'[notice'[n]] # "none"
    <3>1. CASE notice'[n] = notice[n]
      <4>1. notice[n] \in Jobs /\ status[notice[n]] # "none"
        BY <2>5, <3>1 DEF RequestInv, StateInv, TypeOK
      <4> QED
        BY <3>1, <4>1, RowsStay
    <3>2. CASE notice'[n] # notice[n]
      <4>1. PICK c \in Jobs : FindPayout(n, c)
        BY <2>5, <3>2, WhoIsNotified
      <4>2. notice'[n] = c /\ hasRef[c] /\ UNCHANGED status
        BY <4>1 DEF FindPayout, payoutVars, StateInv, TypeOK
      <4> QED
        BY <4>2 DEF RequestInv
    <3> QED
      BY <3>1, <3>2
  <2> QED
    BY <2>2, <2>3, <2>4, <2>5 DEF RequestInv
<1> QED
  BY <1>1, <1>2, StateCorrect, PTL DEF Spec

\* As long as Redis takes the job and the API process survives until it has,
\* a cashout that was debited has a job or is about to, whatever the worker,
\* the gateway and the database do.
THEOREM NoDebitIsLost ==
  ASSUME "enqueue" \notin Faults
  PROVE  Spec => []DebitedReachesQueue
<1>1. Init => DebitedReachesQueue
  BY DEF Init, DebitedReachesQueue
<1>2. StateInv /\ RequestInv /\ DebitedReachesQueue /\ [Next]_vars => DebitedReachesQueue'
  <2> SUFFICES ASSUME StateInv, RequestInv, DebitedReachesQueue, [Next]_vars,
                      NEW c \in Jobs, status'[c] # "none", job'[c].state = "absent"
               PROVE  request'[c] = "enqueue"
    BY DEF DebitedReachesQueue
  <2>1. job[c].state = "absent"
    BY WhoEnqueues DEF EnqueuePayout, Add
  <2>2. CASE status[c] = "none"
    <3>1. DebitAndInsert(c)
      BY <2>2, WhoWritesStatus, ExecutedHasRow
      DEF MarkProcessing, RecordPaid, RecordAccepted, RefundAndFail, ConfirmPayout, RequestInv
    <3> QED
      BY <2>2, <3>1 DEF DebitAndInsert, StateInv, TypeOK
  <2>3. CASE status[c] # "none"
    <3>1. request[c] = "enqueue"
      BY <2>1, <2>3 DEF DebitedReachesQueue
    <3>2. ~EnqueuePayout(c)
      BY DEF EnqueuePayout, Add, SetJob, StateInv, QueueInv, QueueTypeOK
    <3>3. ~RequestStep(c)
      BY <3>1, <3>2 DEF RequestStep, CheckProfile, DebitAndInsert, EnqueueFault
    <3> QED
      BY <3>1, <3>3, WhoRequests
  <2> QED
    BY <2>2, <2>3
<1> QED
  BY <1>1, <1>2, StateCorrect, RequestInvariant, PTL DEF Spec

-----------------------------------------------------------------------------
(* What the gateway has taken, and what it says of it.                     *)

PaidIsSent == \A c \in Jobs : status[c] = "paid" => Sent(c)

\* Whoever is about to mark a cashout paid knows of a payout the gateway took.
TransferInv ==
  /\ PaidIsSent
  /\ \A s \in Slots : exec[s].at \in {"paid", "accepted", "email"} => Sent(slot[s])
  /\ \A n \in Notices : notice[n] # NoJob => Sent(notice[n])
  /\ \A k \in Keys : outcome[k] # "none" => transfer[k] # 0

\* What became of a payout changes when it is made, or when it ends.
LEMMA WhoMakes ==
  ASSUME [Next]_vars, outcome' # outcome
  PROVE  (\E s \in Slots : CallGateway(s)) \/ \E k \in Keys : GatewayEnds(k)
BY DEF Next, vars, RequestStep, CheckProfile, DebitAndInsert, EnqueuePayout, EnqueueFault,
       PayoutStep, StartPayout, ReadCashout, MarkProcessing, ThrowUnrouted, RecordPaid, SendEmail,
       RecordAccepted, Catch, RefundAndFail, FinishPayout, DbFault, WorkerCrash, StallPayout,
       NoticeStep, FindPayout, ConfirmPayout, payoutVars

\* An outcome comes with a payout the gateway has taken.
LEMMA OutcomeIsOfAPayout ==
  ASSUME StateInv, TransferInv, [Next]_vars, NEW k \in Keys, outcome'[k] # "none"
  PROVE  transfer'[k] # 0
<1> USE DEF StateInv, TypeOK
<1>1. transfer[k] # 0 => transfer'[k] # 0
  <2>1. CASE UNCHANGED transfer
    BY <2>1
  <2>2. ASSUME NEW s \in Slots, transfer' = Taken(slot[s]), transfer[k] # 0 PROVE transfer'[k] # 0
    BY <2>2 DEF Taken
  <2>3. UNCHANGED transfer \/ \E s \in Slots : transfer' = Taken(slot[s])
    BY DEF Next, vars, RequestStep, CheckProfile, DebitAndInsert, EnqueuePayout, EnqueueFault,
           PayoutStep, StartPayout, ReadCashout, MarkProcessing, ThrowUnrouted, CallGateway,
           RecordPaid, SendEmail, RecordAccepted, Catch, RefundAndFail, FinishPayout, DbFault,
           WorkerCrash, StallPayout, NoticeStep, FindPayout, ConfirmPayout, GatewayEnds, payoutVars
  <2> QED
    BY <2>1, <2>2, <2>3
<1>2. CASE outcome[k] # "none"
  BY <1>1, <1>2 DEF TransferInv
<1>3. CASE outcome[k] = "none"
  <2>1. outcome' # outcome
    BY <1>3
  <2>2. ~(\E l \in Keys : GatewayEnds(l))
    BY <1>3 DEF GatewayEnds
  <2>3. PICK s \in Slots : CallGateway(s)
    BY <2>1, <2>2, WhoMakes
  <2>4. /\ slot[s] \in Jobs /\ transfer' = Taken(slot[s])
        /\ \E state \in {"moved", "underway"} : outcome' = Begun(slot[s], state)
    BY <2>1, <2>3 DEF CallGateway, OutcomeOf
  <2>5. k = Key[slot[s]]
    BY <1>3, <2>4 DEF Begun
  <2>6. Asked(slot[s]) # 0
    BY <2>4, AskedIsPositive
  <2> QED
    BY <2>4, <2>5, <2>6 DEF Taken
<1> QED
  BY <1>2, <1>3

\* Under every fault, with shared keys and with workers that outlive their locks.
LEMMA TransferInvariant == Spec => []TransferInv
<1>1. Init => TransferInv
  BY DEF Init, TransferInv, PaidIsSent, IdleExec
<1>2. StateInv /\ TransferInv /\ [Next]_vars => TransferInv'
  <2> SUFFICES ASSUME StateInv, TransferInv, [Next]_vars PROVE TransferInv'
    OBVIOUS
  <2>1. ASSUME NEW c \in Jobs, status'[c] = "paid" PROVE Sent(c)'
    <3>1. CASE status[c] = "paid"
      BY <3>1, SentIsForGood DEF TransferInv, PaidIsSent
    <3>2. CASE \E s \in Slots : RecordPaid(s) /\ c = slot[s]
      BY <3>2, SentIsForGood DEF TransferInv, RecordPaid
    <3>3. CASE \E n \in Notices : ConfirmPayout(n) /\ c = notice[n]
      BY <3>3, SentIsForGood DEF TransferInv, ConfirmPayout
    <3> QED
      BY <2>1, <3>1, <3>2, <3>3, WhoWritesStatus
  <2>2. ASSUME NEW s \in Slots, exec'[s].at \in {"paid", "accepted", "email"} PROVE Sent(slot[s])'
    <3>1. CASE UNCHANGED <<exec[s], slot[s]>>
      BY <2>2, <3>1, SentIsForGood DEF TransferInv, StateInv
    <3>2. CASE ~UNCHANGED <<exec[s], slot[s]>>
      <4>1. /\ slot'[s] = slot[s] /\ slot[s] \in Jobs
            /\ \/ ReadCashout(s) \/ MarkProcessing(s) \/ CallGateway(s) \/ RecordPaid(s)
               \/ SendEmail(s) \/ RecordAccepted(s) \/ Catch(s) \/ RefundAndFail(s) \/ DbFault(s)
        BY <2>2, <3>2, ExecutionAdvances
      <4>2. CASE RecordPaid(s)
        BY <4>1, <4>2, SentIsForGood DEF TransferInv, RecordPaid
      <4>3. CASE CallGateway(s)
        <5>1. transfer' = Taken(slot[s])
          BY <2>2, <4>3 DEF CallGateway, Goto, StateInv, TypeOK
        <5>2. Asked(slot[s]) # 0 /\ Key[slot[s]] \in Keys /\ transfer \in [Keys -> Nat]
          BY <4>1, AskedIsPositive, CashoutAssumption DEF StateInv, TypeOK
        <5> QED
          BY <4>1, <5>1, <5>2 DEF Taken, Sent
      <4>4. ~ReadCashout(s) /\ ~MarkProcessing(s) /\ ~SendEmail(s) /\ ~RecordAccepted(s)
            /\ ~Catch(s) /\ ~RefundAndFail(s) /\ ~DbFault(s)
        BY <2>2 DEF ReadCashout, MarkProcessing, SendEmail, RecordAccepted, Catch,
                    RefundAndFail, DbFault, Goto, Halt, IdleExec, StateInv, TypeOK
      <4> QED
        BY <4>1, <4>2, <4>3, <4>4
    <3> QED
      BY <3>1, <3>2
  <2>3. ASSUME NEW n \in Notices, notice'[n] # NoJob PROVE Sent(notice[n])'
    <3>1. CASE notice'[n] = notice[n]
      BY <2>3, <3>1, SentIsForGood DEF TransferInv, StateInv, TypeOK, Sent
    <3>2. CASE notice'[n] # notice[n]
      <4>1. PICK c \in Jobs : FindPayout(n, c)
        BY <2>3, <3>2, WhoIsNotified
      <4>2. Sent(c) /\ UNCHANGED transfer /\ notice'[n] = c
        BY <4>1, CashoutAssumption DEF FindPayout, Sent, TransferInv, payoutVars, StateInv, TypeOK
      <4> QED
        BY <4>2 DEF Sent
    <3> QED
      BY <3>1, <3>2
  <2>4. \A k \in Keys : outcome'[k] # "none" => transfer'[k] # 0
    BY OutcomeIsOfAPayout
  <2> QED
    BY <2>1, <2>2, <2>3, <2>4 DEF TransferInv, PaidIsSent, Sent
<1> QED
  BY <1>1, <1>2, StateCorrect, PTL DEF Spec

\* Money that has moved does not come back.
LEMMA MovedIsForGood ==
  ASSUME StateInv, [Next]_vars, NEW k \in Keys, outcome[k] = "moved"
  PROVE  outcome'[k] = "moved"
<1> USE DEF StateInv, TypeOK
<1>1. ASSUME NEW s \in Slots, CallGateway(s) PROVE outcome'[k] = "moved"
  <2>1. UNCHANGED outcome \/ \E state \in {"moved", "underway"} : outcome' = Begun(slot[s], state)
    BY <1>1 DEF CallGateway, OutcomeOf
  <2> QED
    BY <2>1 DEF Begun
<1>2. ASSUME NEW l \in Keys, GatewayEnds(l) PROVE outcome'[k] = "moved"
  BY <1>2 DEF GatewayEnds
<1> QED
  BY <1>1, <1>2, WhoMakes

\* The job records a payout as paid once its money has moved, and a webhook
\* job is at work on a row it found by its reference.
WordInv ==
  /\ \A s \in Slots : exec[s].at = "paid" => outcome[Key[slot[s]]] = "moved"
  /\ \A n \in Notices : notice[n] # NoJob => hasRef[notice[n]]

\* Under every fault, with shared keys and with workers that outlive their locks.
LEMMA WordInvariant == Spec => []WordInv
<1>1. Init => WordInv
  BY DEF Init, WordInv, IdleExec
<1>2. StateInv /\ WordInv /\ [Next]_vars => WordInv'
  <2> SUFFICES ASSUME StateInv, WordInv, [Next]_vars PROVE WordInv'
    OBVIOUS
  <2>1. ASSUME NEW s \in Slots, exec'[s].at = "paid" PROVE outcome'[Key[slot'[s]]] = "moved"
    <3>1. CASE UNCHANGED <<exec[s], slot[s]>>
      <4>1. slot[s] \in Jobs /\ outcome[Key[slot[s]]] = "moved"
        BY <2>1, <3>1 DEF WordInv, StateInv
      <4> QED
        BY <3>1, <4>1, MovedIsForGood, CashoutAssumption
    <3>2. CASE ~UNCHANGED <<exec[s], slot[s]>>
      <4>1. /\ slot'[s] = slot[s] /\ slot[s] \in Jobs
            /\ \/ ReadCashout(s) \/ MarkProcessing(s) \/ CallGateway(s) \/ RecordPaid(s)
               \/ SendEmail(s) \/ RecordAccepted(s) \/ Catch(s) \/ RefundAndFail(s) \/ DbFault(s)
        BY <2>1, <3>2, ExecutionAdvances
      <4>2. CallGateway(s)
        BY <2>1, <4>1 DEF ReadCashout, MarkProcessing, RecordPaid, SendEmail, RecordAccepted, Catch,
             RefundAndFail, DbFault, Goto, Halt, IdleExec, StateInv, TypeOK
      <4>3. outcome' = Begun(slot[s], "moved") /\ outcome[Key[slot[s]]] \in {"none", "moved"}
        BY <2>1, <4>2 DEF CallGateway, Answers, OutcomeOf, Goto, StateInv, TypeOK
      <4>4. Key[slot[s]] \in Keys /\ outcome \in [Keys -> Outcomes]
        BY <4>1, CashoutAssumption DEF StateInv, TypeOK
      <4> QED
        BY <4>1, <4>3, <4>4 DEF Begun
    <3> QED
      BY <3>1, <3>2
  <2>2. ASSUME NEW n \in Notices, notice'[n] # NoJob PROVE hasRef'[notice'[n]]
    <3>1. CASE notice'[n] = notice[n]
      <4>1. notice[n] \in Jobs /\ hasRef[notice[n]]
        BY <2>2, <3>1 DEF WordInv, StateInv, TypeOK
      <4> QED
        BY <3>1, <4>1, WhoRecords
    <3>2. CASE notice'[n] # notice[n]
      BY <2>2, <3>2, WhoIsNotified DEF FindPayout, payoutVars, StateInv, TypeOK
    <3> QED
      BY <3>1, <3>2
  <2> QED
    BY <2>1, <2>2 DEF WordInv
<1> QED
  BY <1>1, <1>2, StateCorrect, PTL DEF Spec

\* A cashout becomes paid only once the gateway's money has moved, or by a
\* webhook job that found it by its reference: under every fault, with shared
\* keys and with workers that outlive their locks, no payout the gateway only
\* accepted is recorded as paid by the payout job.
THEOREM PaidOnlyOnWord == Spec => PaidOnWord
<1>1. StateInv /\ WordInv /\ [Next]_vars
      => [\A c \in Jobs : status[c] # "paid" /\ status'[c] = "paid" =>
            /\ hasRef'[c]
            /\ outcome[Key[c]] = "moved" \/ \E n \in Notices : notice[n] = c]_vars
  <2> SUFFICES ASSUME StateInv, WordInv, [Next]_vars,
                      NEW c \in Jobs, status[c] # "paid", status'[c] = "paid"
               PROVE  /\ hasRef'[c]
                      /\ outcome[Key[c]] = "moved" \/ \E n \in Notices : notice[n] = c
    OBVIOUS
  <2>1. CASE \E s \in Slots : RecordPaid(s) /\ slot[s] = c
    BY <2>1 DEF RecordPaid, WordInv, StateInv, TypeOK
  <2>2. CASE \E n \in Notices : ConfirmPayout(n) /\ notice[n] = c
    BY <2>2 DEF ConfirmPayout, WordInv
  <2> QED
    BY <2>1, <2>2, WhoWritesStatus
<1> QED
  BY <1>1, StateCorrect, WordInvariant, PTL DEF Spec, PaidOnWord

-----------------------------------------------------------------------------
(* When the queue is done with a cashout.                                  *)

Settled(c) == Sent(c) \/ refunds[c] > 0

\* Whatever lets the processor return knows the cashout settled.
FinishInv ==
  /\ CompletedIsSettled
  /\ \A s \in Slots : exec[s].at = "finish" => Settled(slot[s])

\* Neither a transfer nor a refund is taken back.
LEMMA SettledIsForGood ==
  ASSUME StateInv, [Next]_vars, NEW c \in Jobs, Settled(c)
  PROVE  Settled(c)'
<1>1. CASE Sent(c)
  BY <1>1, SentIsForGood DEF Settled
<1>2. CASE refunds[c] > 0
  <2> USE DEF payoutVars
  <2>1. CASE UNCHANGED refunds
    BY <1>2, <2>1 DEF Settled
  <2>2. ASSUME NEW s \in Slots, RefundAndFail(s) PROVE Settled(c)'
    BY <1>2, <2>2 DEF RefundAndFail, Settled, StateInv, TypeOK
  <2>3. CASE UNCHANGED vars
    BY <2>1, <2>3 DEF vars
  <2>4. ASSUME NEW d \in Jobs, RequestStep(d) \/ StallPayout(d) PROVE UNCHANGED refunds
    BY <2>4 DEF RequestStep, CheckProfile, DebitAndInsert, EnqueuePayout, EnqueueFault, StallPayout
  <2>5. ASSUME NEW s \in Slots, PayoutStep(s), ~RefundAndFail(s) PROVE UNCHANGED refunds
    BY <2>5 DEF PayoutStep, StartPayout, ReadCashout, MarkProcessing, ThrowUnrouted, CallGateway,
                RecordPaid, SendEmail, RecordAccepted, Catch, FinishPayout, DbFault, WorkerCrash
  <2>6. ASSUME NEW n \in Notices, NoticeStep(n) PROVE UNCHANGED refunds
    BY <2>6 DEF NoticeStep, FindPayout, ConfirmPayout
  <2>7. ASSUME NEW k \in Keys, GatewayEnds(k) PROVE UNCHANGED refunds
    BY <2>7 DEF GatewayEnds
  <2> QED
    BY <2>1, <2>2, <2>3, <2>4, <2>5, <2>6, <2>7 DEF Next
<1> QED
  BY <1>1, <1>2 DEF Settled

\* An execution comes to its return by a status that says paid, or by a step
\* that makes or records a transfer, or the refund.
LEMMA FinishesSettled ==
  ASSUME StateInv, StateInv', TransferInv, FinishInv, [Next]_vars,
         NEW s \in Slots, exec'[s].at = "finish"
  PROVE  Settled(slot[s])'
<1>1. CASE UNCHANGED <<exec[s], slot[s]>>
  <2>1. slot[s] \in Jobs /\ Settled(slot[s]) /\ slot'[s] = slot[s]
    BY <1>1 DEF FinishInv, StateInv
  <2> QED
    BY <2>1, SettledIsForGood DEF Settled, Sent
<1>2. CASE ~UNCHANGED <<exec[s], slot[s]>>
  <2>1. /\ slot'[s] = slot[s] /\ slot[s] \in Jobs
        /\ \/ ReadCashout(s) \/ MarkProcessing(s) \/ CallGateway(s) \/ RecordPaid(s)
           \/ SendEmail(s) \/ RecordAccepted(s) \/ Catch(s) \/ RefundAndFail(s) \/ DbFault(s)
    BY <1>2, ExecutionAdvances
  <2>2. \/ ReadCashout(s) /\ status[slot[s]] = "paid"
        \/ SendEmail(s) \/ RecordAccepted(s) \/ RefundAndFail(s)
    BY <2>1 DEF ReadCashout, MarkProcessing, CallGateway, Answers, RecordPaid, Catch, DbFault,
         Goto, Halt, IdleExec, StateInv, TypeOK
  <2>3. CASE Sent(slot[s])
    BY <2>1, <2>3, SentIsForGood DEF Settled, Sent
  <2>4. CASE RefundAndFail(s)
    BY <2>1, <2>4 DEF RefundAndFail, Settled, StateInv, TypeOK
  <2> QED
    BY <2>1, <2>2, <2>3, <2>4 DEF TransferInv, PaidIsSent, SendEmail, RecordAccepted
<1> QED
  BY <1>1, <1>2

\* A job completes only by an execution that returns.
LEMMA CompletesByReturning ==
  ASSUME StateInv, [Next]_vars, NEW c \in Jobs, job[c].state \notin {"completed", "failed"},
         job'[c].state = "completed"
  PROVE  \E s \in Slots : FinishPayout(s) /\ slot[s] = c
<1>1. QueueInv /\ QueueStep
  BY StepsOfTheQueue DEF StateInv
<1>2. PICK s \in Slots : slot[s] = c /\ HoldsLock(s) /\ Complete(s)
  BY <1>1, HowJobsEnd
<1>3. slot[s] # NoJob /\ slot'[s] = NoJob
  BY <1>1, <1>2 DEF Complete, Release, HoldsLock, QueueInv, QueueTypeOK
<1>4. ~Fail(s) /\ ~Crash(s)
  <2>1. Fail(s) => job'[c].state # "completed"
    BY <1>1, <1>2 DEF Fail, SetJob, QueueInv, QueueTypeOK
  <2> QED
    BY <2>1 DEF Crash
<1> QED
  BY <1>2, <1>3, <1>4, HowExecutionsEnd DEF ThrowUnrouted, WorkerCrash, Catch, DbFault, StateInv, QueueInv

\* Whatever fails, and with workers that outlive their locks.
LEMMA FinishInvariant == Spec => []FinishInv
<1>1. Init => FinishInv
  BY DEF Init, QueueInit, FinishInv, CompletedIsSettled, IdleExec
<1>2. StateInv /\ StateInv' /\ TransferInv /\ FinishInv /\ [Next]_vars => FinishInv'
  <2> SUFFICES ASSUME StateInv, StateInv', TransferInv, FinishInv, [Next]_vars PROVE FinishInv'
    OBVIOUS
  <2>1. ASSUME NEW c \in Jobs, job'[c].state = "completed" PROVE Settled(c)'
    <3>1. CASE Settled(c)
      BY <3>1, SettledIsForGood
    <3>2. CASE ~Settled(c)
      <4>1. job[c].state # "completed"
        BY <3>2 DEF FinishInv, CompletedIsSettled, Settled, Sent
      <4>2. job[c].state # "failed"
        BY <2>1, StepsOfTheQueue, EndedJobRests DEF StateInv
      <4>3. PICK s \in Slots : FinishPayout(s) /\ slot[s] = c
        BY <2>1, <4>1, <4>2, CompletesByReturning
      <4> QED
        BY <3>2, <4>3 DEF FinishPayout, FinishInv
    <3> QED
      BY <3>1, <3>2
  <2>2. ASSUME NEW s \in Slots, exec'[s].at = "finish" PROVE Settled(slot[s])'
    BY <2>2, FinishesSettled
  <2> QED
    BY <2>1, <2>2 DEF FinishInv, CompletedIsSettled, Settled, Sent
<1> QED
  BY <1>1, <1>2, StateCorrect, TransferInvariant, PTL DEF Spec

\* A payout job that completes leaves its cashout paid out or refunded:
\* under every fault, with shared keys, unsupported methods and workers that
\* outlive their locks.
THEOREM NoneCompletesUnsettled == Spec => []CompletedIsSettled
<1>1. FinishInv => CompletedIsSettled
  BY DEF FinishInv
<1> QED
  BY <1>1, FinishInvariant, PTL

\* No statement fails that the catch block does not see, and every method has
\* a gateway.  Workers may die, or go on after they lost their lock.
OnlyCaught == "db" \notin Faults /\ \A c \in Jobs : HasGateway[c]

StalledOut(c) == job[c].stalls > MaxStalls

\* An execution that holds its job's lock counts the attempts as the queue
\* does, and it is never at a throw outside the try block.
AttemptInv ==
  \A s \in Slots :
    /\ exec[s].at # "idle" /\ HoldsLock(s) => exec[s].made = job[slot[s]].made
    /\ exec[s].at # "unrouted"

\* A failed job had its last attempt caught, unless it stalled too often.
FailedInv ==
  \A c \in Jobs : job[c].state = "failed" /\ ~StalledOut(c) => Settled(c)

\* Every step keeps the two counts together, and fails a job for good only after
\* the catch block has refunded its cashout.
LEMMA AttemptStep ==
  ASSUME OnlyCaught, StateInv, StateInv', AttemptInv, [Next]_vars
  PROVE  AttemptInv'
<1> SUFFICES ASSUME NEW s \in Slots
             PROVE  /\ exec'[s].at # "idle" /\ HoldsLock(s)' => exec'[s].made = job'[slot'[s]].made
                    /\ exec'[s].at # "unrouted"
  BY DEF AttemptInv
<1>1. QueueInv /\ QueueStep
  BY StepsOfTheQueue DEF StateInv
<1>2. CASE UNCHANGED <<exec[s], slot[s]>>
  <2>1. exec[s].at # "unrouted"
    BY DEF AttemptInv
  <2>2. ASSUME exec[s].at # "idle", slot[s] # NoJob, job'[slot[s]].owner = s
        PROVE  exec[s].made = job'[slot[s]].made
    BY <1>1, <1>2, <2>2, HeldJobIsKept DEF AttemptInv, HoldsLock
  <2> QED
    BY <1>2, <2>1, <2>2 DEF HoldsLock
<1>3. CASE ~UNCHANGED <<exec[s], slot[s]>> /\ exec'[s].at \in {"idle", "read"}
  BY <1>3, ExecutionStarts
<1>4. CASE ~UNCHANGED <<exec[s], slot[s]>> /\ exec'[s].at \notin {"idle", "read"}
  <2>1. /\ slot'[s] = slot[s] /\ slot[s] \in Jobs /\ exec'[s].made = exec[s].made
        /\ UNCHANGED <<job, slot>> /\ exec[s].at # "idle"
        /\ \/ ReadCashout(s) \/ MarkProcessing(s) \/ CallGateway(s) \/ RecordPaid(s)
           \/ SendEmail(s) \/ RecordAccepted(s) \/ Catch(s) \/ RefundAndFail(s) \/ DbFault(s)
    BY <1>4, ExecutionAdvances
  <2>2. exec'[s].at # "unrouted"
    BY <2>1 DEF ReadCashout, MarkProcessing, CallGateway, Answers, RecordPaid, SendEmail, RecordAccepted,
         Catch, RefundAndFail, DbFault, Goto, Halt, IdleExec, OnlyCaught, StateInv, TypeOK
  <2> QED
    BY <2>1, <2>2 DEF AttemptInv, HoldsLock
<1> QED
  BY <1>2, <1>3, <1>4

\* A throw that ends a job for good is not the catch block's: on the last
\* attempt that refunds and returns.
LEMMA FailedStep ==
  ASSUME OnlyCaught, StateInv, AttemptInv, FailedInv, [Next]_vars
  PROVE  FailedInv'
<1> SUFFICES ASSUME NEW c \in Jobs, job'[c].state = "failed", ~StalledOut(c)'
             PROVE  Settled(c)'
  BY DEF FailedInv
<1>1. QueueInv /\ QueueStep
  BY StepsOfTheQueue DEF StateInv
<1>2. CASE job[c].state \in {"completed", "failed"}
  <2>1. job'[c] = job[c]
    BY <1>1, <1>2, EndedJobRests
  <2>2. Settled(c)
    BY <2>1 DEF FailedInv, StalledOut
  <2> QED
    BY <2>2, SettledIsForGood
<1>3. CASE job[c].state \notin {"completed", "failed"}
  <2>1. PICK s \in Slots : /\ slot[s] = c /\ HoldsLock(s)
                           /\ Complete(s) \/ (Fail(s) /\ Exhausted(job[c].made))
    BY <1>1, <1>3, HowJobsEnd DEF StalledOut
  <2>2. slot[s] # NoJob /\ slot'[s] = NoJob
    BY <1>1, <2>1 DEF Complete, Fail, Release, HoldsLock, QueueInv, QueueTypeOK
  <2>3. ~Complete(s) /\ ~UNCHANGED job
    BY <1>1, <1>3, <2>1 DEF Complete, SetJob, QueueInv, QueueTypeOK
  <2>4. ~FinishPayout(s) /\ ~ThrowUnrouted(s) /\ ~WorkerCrash(s) /\ ~(DbFault(s) /\ slot'[s] = NoJob)
    BY <2>3 DEF FinishPayout, ThrowUnrouted, WorkerCrash, Crash, DbFault, OnlyCaught, AttemptInv
  <2>5. ~IsFinalAttempt(exec[s].made) /\ exec[s].at = "catch"
    BY <2>2, <2>4, HowExecutionsEnd DEF Catch
  <2> QED
    BY <2>1, <2>3, <2>5 DEF AttemptInv, IsFinalAttempt
<1> QED
  BY <1>2, <1>3

\* As long as every failure is one that the catch block sees, a cashout the
\* queue is done with was paid out or refunded, unless its workers died or
\* lost their lock more often than the queue hands a job out again.
THEOREM OnlyStallsEndUnsettled ==
  ASSUME OnlyCaught
  PROVE  Spec => []SettledUnlessStalled
<1>1. Init => AttemptInv /\ FailedInv
  BY DEF Init, QueueInit, AttemptInv, FailedInv, IdleExec
<1>2. StateInv /\ StateInv' /\ AttemptInv /\ FailedInv /\ [Next]_vars => (AttemptInv /\ FailedInv)'
  BY AttemptStep, FailedStep
<1>3. StateInv /\ FinishInv /\ FailedInv => SettledUnlessStalled
  BY QueueAssumption
  DEF StateInv, QueueInv, QueueTypeOK, JobRecord, FinishInv, FailedInv, CompletedIsSettled,
      SettledUnlessStalled, StalledOut, Settled, Sent
<1> QED
  BY <1>1, <1>2, <1>3, StateCorrect, FinishInvariant, PTL DEF Spec

\* While no worker dies or outlives its lock, no job stalls at all.
UnstalledInv == ExecutorHoldsLock /\ ActiveIsExecuted /\ \A c \in Jobs : job[c].stalls = 0

LEMMA UnstalledInvariant ==
  ASSUME "crash" \notin Faults, ~Zombies
  PROVE  Spec => []UnstalledInv
<1>1. Init => UnstalledInv
  BY QueueInitial DEF Init, QueueInit, UnstalledInv, ActiveIsExecuted
<1>2. StateInv /\ UnstalledInv /\ [Next]_vars => UnstalledInv'
  <2> SUFFICES ASSUME StateInv, UnstalledInv, [Next]_vars PROVE UnstalledInv'
    OBVIOUS
  <2>1. QueueInv /\ QueueStep /\ LiveQueueStep
    BY StepsOfTheQueue DEF StateInv
  <2> QED
    BY <2>1, QueueStepKeepsLock, QueueStepKeepsActive, NobodyStalls DEF UnstalledInv
<1> QED
  BY <1>1, <1>2, StateCorrect, PTL DEF Spec

\* Then every cashout the queue is done with was paid out or refunded,
\* with shared keys too: no attempt ends without the catch block knowing
\* whether it was the last.
THEOREM NoneEndsUnsettled ==
  ASSUME OnlyCaught, "crash" \notin Faults, ~Zombies
  PROVE  Spec => []SettledWhenJobEnds
<1>1. UnstalledInv /\ SettledUnlessStalled => SettledWhenJobEnds
  BY QueueAssumption DEF UnstalledInv, SettledUnlessStalled, SettledWhenJobEnds
<1> QED
  BY <1>1, UnstalledInvariant, OnlyStallsEndUnsettled, PTL

-----------------------------------------------------------------------------
(* A refund is made once, and is the end of a cashout.                     *)

\* A waiting cashout was never refunded, and the execution that refunds one
\* does nothing else after it.
RefundInv ==
  /\ \A c \in Jobs : /\ refunds[c] \in {0, 1}
                     /\ job[c].state \in {"absent", "waiting"} => refunds[c] = 0
  /\ \A s \in Slots : exec[s].at \notin {"idle", "finish"} => refunds[slot[s]] = 0

\* A job goes back to waiting because its execution threw before it had done
\* anything that lasts.
LEMMA WaitingAgain ==
  ASSUME "crash" \notin Faults, ~Zombies, StateInv, UnstalledInv, [Next]_vars, NEW c \in Jobs,
         job'[c].state \in {"absent", "waiting"}, job[c].state \notin {"absent", "waiting"}
  PROVE  /\ \E s \in Slots : slot[s] = c /\ exec[s].at \notin {"idle", "email", "finish"}
         /\ UNCHANGED payoutVars
<1>1. QueueInv /\ LiveQueueStep
  BY StepsOfTheQueue DEF StateInv
<1>2. PICK s \in Slots : slot[s] = c /\ Fail(s)
  BY <1>1, WaitsAgainByFailing DEF UnstalledInv
<1>3. slot[s] # NoJob /\ slot'[s] = NoJob
  BY <1>1, <1>2, QueueAssumption DEF Fail, Release, QueueInv, QueueTypeOK
<1>4. ~FinishPayout(s)
  <2>1. HoldsLock(s)
    BY <1>3 DEF HoldsLock, UnstalledInv, ExecutorHoldsLock
  <2>2. Complete(s) => job'[c].state = "completed"
    BY <1>1, <1>2, <2>1 DEF Complete, SetJob, QueueInv, QueueTypeOK
  <2> QED
    BY <2>2 DEF FinishPayout
<1> QED
  BY <1>2, <1>3, <1>4, HowExecutionsEnd DEF ThrowUnrouted, WorkerCrash, Catch, DbFault

\* Whatever the gateway, the database and Redis refuse.
LEMMA RefundInvariant ==
  ASSUME "crash" \notin Faults, ~Zombies
  PROVE  Spec => []RefundInv
<1>1. Init => RefundInv
  BY DEF Init, RefundInv, IdleExec
<1>2. StateInv /\ UnstalledInv /\ RefundInv /\ [Next]_vars => RefundInv'
  <2> SUFFICES ASSUME StateInv, UnstalledInv, RefundInv, [Next]_vars PROVE RefundInv'
    OBVIOUS
  <2>1. ASSUME NEW c \in Jobs PROVE refunds'[c] \in {0, 1}
    BY WhoRefunds DEF RefundInv, RefundAndFail
  <2>2. ASSUME NEW c \in Jobs, job'[c].state \in {"absent", "waiting"} PROVE refunds'[c] = 0
    <3>1. CASE job[c].state \in {"absent", "waiting"}
      <4>1. \A s \in Slots : RefundAndFail(s) => slot[s] # c
        BY <3>1, QueueAssumption DEF RefundAndFail, StateInv, UnstalledInv, ExecutorHoldsLock
      <4> QED
        BY <3>1, <4>1, WhoRefunds DEF RefundInv
    <3>2. CASE job[c].state \notin {"absent", "waiting"}
      BY <2>2, <3>2, WaitingAgain DEF RefundInv, payoutVars
    <3> QED
      BY <3>1, <3>2
  <2>3. ASSUME NEW s \in Slots, exec'[s].at \notin {"idle", "finish"} PROVE refunds'[slot'[s]] = 0
    <3>1. CASE UNCHANGED <<exec[s], slot[s]>>
      <4>1. slot[s] \in Jobs /\ refunds[slot[s]] = 0 /\ exec[s].at # "idle"
        BY <2>3, <3>1 DEF StateInv, RefundInv
      <4>2. refunds'[slot[s]] = refunds[slot[s]]
        BY <3>1, <4>1, WhoRefunds, OthersActElsewhere DEF UnstalledInv
      <4> QED
        BY <3>1, <4>1, <4>2
    <3>2. CASE ~UNCHANGED <<exec[s], slot[s]>> /\ exec'[s].at = "read"
      BY <3>2, ExecutionStarts DEF RefundInv, payoutVars
    <3>3. CASE ~UNCHANGED <<exec[s], slot[s]>> /\ exec'[s].at # "read"
      <4>1. /\ slot'[s] = slot[s] /\ slot[s] \in Jobs /\ exec[s].at # "idle"
            /\ \/ ReadCashout(s) \/ MarkProcessing(s) \/ CallGateway(s) \/ RecordPaid(s)
               \/ SendEmail(s) \/ RecordAccepted(s) \/ Catch(s) \/ RefundAndFail(s) \/ DbFault(s)
        BY <2>3, <3>3, ExecutionAdvances
      <4>2. exec[s].at # "finish" /\ UNCHANGED refunds
        BY <2>3, <4>1 DEF ReadCashout, MarkProcessing, CallGateway, RecordPaid, SendEmail,
             RecordAccepted, Catch, RefundAndFail, DbFault, payoutVars, Goto, StateInv, TypeOK
      <4> QED
        BY <4>1, <4>2 DEF RefundInv
    <3> QED
      BY <2>3, <3>1, <3>2, <3>3
  <2> QED
    BY <2>1, <2>2, <2>3 DEF RefundInv
<1> QED
  BY <1>1, <1>2, StateCorrect, UnstalledInvariant, PTL DEF Spec

\* No cashout is refunded twice, whichever statement, mail or answer fails, and
\* with shared keys.
AtMostOneRefund == \A c \in Jobs : refunds[c] <= 1

THEOREM RefundedAtMostOnce ==
  ASSUME "crash" \notin Faults, ~Zombies
  PROVE  Spec => []AtMostOneRefund
<1>1. ASSUME RefundInv, NEW c \in Jobs PROVE refunds[c] <= 1
  <2>1. refunds[c] = 0 \/ refunds[c] = 1
    BY <1>1 DEF RefundInv
  <2> QED
    BY <2>1
<1> QED
  <2>1. RefundInv => AtMostOneRefund
    BY <1>1 DEF AtMostOneRefund
  <2> QED
    BY <2>1, RefundInvariant, PTL

\* No worker dies or outlives its lock, and Redis takes the mail that follows
\* a payment, the one failure the catch block mistakes for the gateway's.
OnlyBeforePaying == Faults \cap {"email", "crash"} = {} /\ ~Zombies

\* The gateway's reference is recorded at the end of an execution, if at all:
\* a cashout that can still be paid or refunded has none.
OutcomeInv ==
  /\ \A c \in Jobs : /\ job[c].state \in {"absent", "waiting"} => ~hasRef[c]
                     /\ status[c] = "paid" => hasRef[c]
                     /\ refunds[c] > 0 => status[c] = "failed" /\ ~hasRef[c]
  /\ \A s \in Slots : exec[s].at \notin {"idle", "email", "finish"} => ~hasRef[slot[s]]
  /\ \A n \in Notices : notice[n] # NoJob => hasRef[notice[n]]

\* A reference is recorded for good, by an execution that has not refunded.
LEMMA ReferencesStay ==
  ASSUME StateInv, RefundInv, OutcomeInv, [Next]_vars, NEW c \in Jobs
  PROVE  /\ hasRef[c] => hasRef'[c]
         /\ hasRef'[c] # hasRef[c] => refunds[c] = 0 /\ refunds'[c] = 0
<1>1. ASSUME hasRef'[c] # hasRef[c] PROVE hasRef'[c] /\ refunds[c] = 0 /\ refunds'[c] = 0
  BY <1>1, WhoRecords DEF RecordPaid, RecordAccepted, RefundInv
<1> QED
  BY <1>1

\* Every step keeps the outcome of a cashout apart from its refund.
LEMMA OutcomeStep ==
  ASSUME OnlyBeforePaying, StateInv, UnstalledInv, RequestInv, RefundInv, OutcomeInv, [Next]_vars
  PROVE  OutcomeInv'
<1>1. ASSUME NEW c \in Jobs, job'[c].state \in {"absent", "waiting"} PROVE ~hasRef'[c]
  <2>1. CASE job[c].state \in {"absent", "waiting"}
    <3>1. \A s \in Slots : RecordPaid(s) \/ RecordAccepted(s) => slot[s] # c
      BY <2>1, QueueAssumption DEF RecordPaid, RecordAccepted, StateInv, UnstalledInv, ExecutorHoldsLock
    <3> QED
      BY <2>1, <3>1, WhoRecords DEF OutcomeInv
  <2>2. CASE job[c].state \notin {"absent", "waiting"}
    BY <1>1, <2>2, WaitingAgain DEF OutcomeInv, OnlyBeforePaying, payoutVars
  <2> QED
    BY <2>1, <2>2
<1>2. ASSUME NEW c \in Jobs, status'[c] = "paid" PROVE hasRef'[c]
  <2>1. CASE status[c] = "paid"
    BY <2>1, ReferencesStay DEF OutcomeInv
  <2>2. CASE \E s \in Slots : RecordPaid(s) /\ slot[s] = c
    BY <2>2 DEF RecordPaid, StateInv, TypeOK
  <2>3. CASE \E n \in Notices : ConfirmPayout(n) /\ notice[n] = c
    BY <2>3, ReferencesStay, QueueAssumption DEF ConfirmPayout, OutcomeInv
  <2> QED
    BY <1>2, <2>1, <2>2, <2>3, WhoWritesStatus
<1>3. ASSUME NEW c \in Jobs, refunds'[c] > 0 PROVE status'[c] = "failed" /\ ~hasRef'[c]
  <2>1. CASE \E s \in Slots : RefundAndFail(s) /\ slot[s] = c
    BY <2>1 DEF RefundAndFail, OutcomeInv, StateInv, TypeOK
  <2>2. CASE refunds'[c] = refunds[c]
    <3>1. refunds[c] > 0 /\ status[c] = "failed" /\ ~hasRef[c]
      BY <1>3, <2>2 DEF OutcomeInv
    <3>2. ~hasRef'[c]
      BY <3>1, ReferencesStay
    <3>3. ~DebitAndInsert(c)
      BY <3>1 DEF DebitAndInsert, RequestInv
    <3>4. ASSUME NEW s \in Slots, slot[s] = c,
                 MarkProcessing(s) \/ RecordPaid(s) \/ RecordAccepted(s) \/ RefundAndFail(s)
          PROVE  FALSE
      BY <3>1, <3>4 DEF MarkProcessing, RecordPaid, RecordAccepted, RefundAndFail, RefundInv
    <3>5. ASSUME NEW n \in Notices, notice[n] = c PROVE FALSE
      BY <3>1, <3>5, QueueAssumption DEF OutcomeInv
    <3> QED
      BY <3>1, <3>2, <3>3, <3>4, <3>5, WhoWritesStatus
  <2> QED
    BY <2>1, <2>2, WhoRefunds
<1>4. ASSUME NEW s \in Slots, exec'[s].at \notin {"idle", "email", "finish"} PROVE ~hasRef'[slot'[s]]
  <2>1. CASE UNCHANGED <<exec[s], slot[s]>>
    <3>1. slot[s] \in Jobs /\ ~hasRef[slot[s]] /\ exec[s].at # "idle"
      BY <1>4, <2>1 DEF StateInv, OutcomeInv
    <3>2. hasRef'[slot[s]] = hasRef[slot[s]]
      BY <2>1, <3>1, WhoRecords, OthersActElsewhere DEF UnstalledInv
    <3> QED
      BY <2>1, <3>1, <3>2
  <2>2. CASE ~UNCHANGED <<exec[s], slot[s]>> /\ exec'[s].at = "read"
    BY <2>2, ExecutionStarts DEF OutcomeInv, payoutVars
  <2>3. CASE ~UNCHANGED <<exec[s], slot[s]>> /\ exec'[s].at # "read"
    <3>1. /\ slot'[s] = slot[s] /\ slot[s] \in Jobs /\ exec[s].at # "idle"
          /\ \/ ReadCashout(s) \/ MarkProcessing(s) \/ CallGateway(s) \/ RecordPaid(s)
             \/ SendEmail(s) \/ RecordAccepted(s) \/ Catch(s) \/ RefundAndFail(s) \/ DbFault(s)
      BY <1>4, <2>3, ExecutionAdvances
    <3>2. exec[s].at \notin {"email", "finish"} /\ UNCHANGED hasRef
      BY <1>4, <3>1 DEF ReadCashout, MarkProcessing, CallGateway, RecordPaid, SendEmail,
           RecordAccepted, Catch, RefundAndFail, DbFault, OnlyBeforePaying, payoutVars, Goto,
           StateInv, TypeOK
    <3> QED
      BY <3>1, <3>2 DEF OutcomeInv
  <2> QED
    BY <1>4, <2>1, <2>2, <2>3
<1>5. ASSUME NEW n \in Notices, notice'[n] # NoJob PROVE hasRef'[notice'[n]]
  <2>1. CASE notice'[n] = notice[n]
    BY <1>5, <2>1, ReferencesStay DEF OutcomeInv, StateInv, TypeOK
  <2>2. CASE notice'[n] # notice[n]
    BY <1>5, <2>2, WhoIsNotified DEF FindPayout, payoutVars, StateInv, TypeOK
  <2> QED
    BY <2>1, <2>2
<1> QED
  BY <1>1, <1>2, <1>3, <1>4, <1>5 DEF OutcomeInv

LEMMA OutcomeInvariant ==
  ASSUME OnlyBeforePaying
  PROVE  Spec => []OutcomeInv
<1>1. Init => OutcomeInv
  BY DEF Init, OutcomeInv, IdleExec
<1>2. "crash" \notin Faults /\ ~Zombies
  BY DEF OnlyBeforePaying
<1>3. StateInv /\ UnstalledInv /\ RequestInv /\ RefundInv /\ OutcomeInv /\ [Next]_vars => OutcomeInv'
  BY OutcomeStep
<1> QED
  BY <1>1, <1>2, <1>3, StateCorrect, UnstalledInvariant, RequestInvariant, RefundInvariant, PTL DEF Spec

\* As long as nothing fails once the money was paid, and no worker dies or
\* outlives its lock, a refunded cashout was refunded once and is never taken
\* up again, not by another attempt and not by a webhook: though the gateway
\* refuses or does not answer, statements throw, and cashouts share keys.
THEOREM RefundedStaysFailed ==
  ASSUME OnlyBeforePaying
  PROVE  Spec => []RefundedIsFailed
<1>1. "crash" \notin Faults /\ ~Zombies
  BY DEF OnlyBeforePaying
<1>2. RefundInv /\ OutcomeInv => RefundedIsFailed
  BY DEF RefundInv, OutcomeInv, RefundedIsFailed
<1> QED
  BY <1>1, <1>2, RefundInvariant, OutcomeInvariant, PTL

\* Under the same assumption a cashout that the job or a webhook has marked
\* paid keeps that status: a retry reads it, and an answer "accepted" is
\* recorded before a webhook can find the row.
THEOREM PaidStaysPaid ==
  ASSUME OnlyBeforePaying
  PROVE  Spec => PaidIsFinal
<1>1. "crash" \notin Faults /\ ~Zombies
  BY DEF OnlyBeforePaying
<1>2. StateInv /\ RequestInv /\ OutcomeInv /\ [Next]_vars
      => [\A c \in Jobs : status[c] = "paid" => status'[c] = "paid"]_vars
  <2> SUFFICES ASSUME StateInv, RequestInv, OutcomeInv, [Next]_vars, NEW c \in Jobs,
                      status[c] = "paid", status'[c] # "paid"
               PROVE  FALSE
    OBVIOUS
  <2>1. hasRef[c] /\ ~DebitAndInsert(c)
    BY DEF OutcomeInv, RequestInv, DebitAndInsert
  <2>2. PICK s \in Slots : slot[s] = c /\ (MarkProcessing(s) \/ RecordAccepted(s) \/ RefundAndFail(s))
    BY <2>1, WhoWritesStatus
  <2> QED
    BY <2>1, <2>2 DEF MarkProcessing, RecordAccepted, RefundAndFail, OutcomeInv
<1> QED
  BY <1>1, <1>2, StateCorrect, RequestInvariant, OutcomeInvariant, PTL DEF Spec, PaidIsFinal

-----------------------------------------------------------------------------
(* A cashout is a withdrawal.                                              *)

\* The gateway fails only by refusing, and nothing else fails; the API may
\* still lose a job.  Every cashout was requested under a key of its own.
OnlyRefusals == Faults \subseteq {"refused", "enqueue"}
DistinctKeys == \A c, d \in Jobs : Key[c] = Key[d] => c = d

\* With distinct keys a transfer is made only by the cashout's own execution.
LEMMA WhoSends ==
  ASSUME DistinctKeys, StateInv, [Next]_vars, NEW c \in Jobs, ~Sent(c), Sent(c)'
  PROVE  \E s \in Slots : CallGateway(s) /\ slot[s] = c
<1> USE CashoutAssumption DEF payoutVars
<1>1. ~UNCHANGED transfer
  BY DEF Sent
<1>2. ASSUME NEW s \in Slots, CallGateway(s) PROVE slot[s] = c
  <2>1. slot[s] \in Jobs /\ transfer' = Taken(slot[s])
    BY <1>1, <1>2 DEF CallGateway, StateInv
  <2>2. Key[c] \in Keys /\ Key[slot[s]] \in Keys /\ transfer \in [Keys -> Nat]
    BY <2>1 DEF StateInv, TypeOK
  <2>3. Key[c] # Key[slot[s]] => transfer'[Key[c]] = transfer[Key[c]]
    BY <2>1, <2>2 DEF Taken
  <2> QED
    BY <2>1, <2>3 DEF Sent, DistinctKeys
<1>3. ~UNCHANGED vars
  BY <1>1 DEF vars
<1>4. ASSUME NEW d \in Jobs, RequestStep(d) \/ StallPayout(d) PROVE FALSE
  BY <1>1, <1>4 DEF RequestStep, CheckProfile, DebitAndInsert, EnqueuePayout, EnqueueFault, StallPayout
<1>5. ASSUME NEW s \in Slots, PayoutStep(s) PROVE CallGateway(s)
  BY <1>1, <1>5 DEF PayoutStep, StartPayout, ReadCashout, MarkProcessing, ThrowUnrouted, RecordPaid,
              SendEmail, RecordAccepted, Catch, RefundAndFail, FinishPayout, DbFault, WorkerCrash
<1>6. ASSUME NEW n \in Notices, NoticeStep(n) PROVE FALSE
  BY <1>1, <1>6 DEF NoticeStep, FindPayout, ConfirmPayout
<1>7. ASSUME NEW k \in Keys, GatewayEnds(k) PROVE FALSE
  BY <1>1, <1>7 DEF GatewayEnds
<1> QED
  BY <1>2, <1>3, <1>4, <1>5, <1>6, <1>7 DEF Next

\* Money is sent for a cashout that has a row, and not for one that is
\* refunded or about to be.
SendInv ==
  /\ \A c \in Jobs : status[c] = "none" \/ refunds[c] > 0 => ~Sent(c)
  /\ \A s \in Slots : exec[s].at \in {"catch", "refund"} => ~Sent(slot[s])

\* What the rows and the executions are known to be, from the invariants above.
ContractInv == StateInv /\ UnstalledInv /\ RequestInv /\ RefundInv /\ SendInv

\* A refusal is the gateway's only failure, so what it refused was never sent.
LEMMA SendStep ==
  ASSUME OnlyRefusals, DistinctKeys, ContractInv, [Next]_vars
  PROVE  SendInv'
<1> USE DEF ContractInv
<1>1. ASSUME NEW c \in Jobs, ~Sent(c), Sent(c)'
      PROVE  refunds[c] = 0 /\ status[c] # "none" /\ UNCHANGED <<refunds, status>>
  <2>1. PICK s \in Slots : CallGateway(s) /\ slot[s] = c
    BY <1>1, WhoSends
  <2>2. exec[s].at = "call" /\ UNCHANGED <<refunds, status>>
    BY <2>1 DEF CallGateway
  <2> QED
    BY <2>1, <2>2, ExecutedHasRow DEF RefundInv
<1>2. ASSUME NEW c \in Jobs, status'[c] = "none" PROVE ~Sent(c)'
  BY <1>1, <1>2, RowsStay DEF SendInv
<1>3. ASSUME NEW c \in Jobs, refunds'[c] > 0 PROVE ~Sent(c)'
  <2>1. CASE refunds'[c] = refunds[c]
    BY <1>1, <1>3, <2>1 DEF SendInv
  <2>2. CASE refunds'[c] # refunds[c]
    <3>1. PICK s \in Slots : RefundAndFail(s) /\ slot[s] = c
      BY <2>2, WhoRefunds
    <3> QED
      BY <3>1 DEF RefundAndFail, SendInv, Sent
  <2> QED
    BY <2>1, <2>2
<1>4. ASSUME NEW s \in Slots, exec'[s].at \in {"catch", "refund"} PROVE ~Sent(slot[s])'
  <2>1. CASE UNCHANGED <<exec[s], slot[s]>>
    <3> DEFINE c == slot[s]
    <3>1. c \in Jobs /\ ~Sent(c) /\ exec[s].at # "idle"
      BY <1>4, <2>1 DEF StateInv, SendInv
    <3>2. \A t \in Slots : slot[t] = c => ~CallGateway(t)
      BY <2>1, <3>1, OthersActElsewhere DEF UnstalledInv
    <3>3. PICK d \in Jobs : d = c
      BY <3>1
    <3>4. ~Sent(d) /\ \A t \in Slots : slot[t] = d => ~CallGateway(t)
      BY <3>1, <3>2, <3>3
    <3>5. ~Sent(d)'
      BY <3>4, WhoSends
    <3> QED
      BY <2>1, <3>3, <3>5 DEF Sent
  <2>2. CASE ~UNCHANGED <<exec[s], slot[s]>>
    <3>1. /\ slot'[s] = slot[s] /\ slot[s] \in Jobs /\ exec[s].at # "idle"
          /\ \/ ReadCashout(s) \/ MarkProcessing(s) \/ CallGateway(s) \/ RecordPaid(s)
             \/ SendEmail(s) \/ RecordAccepted(s) \/ Catch(s) \/ RefundAndFail(s) \/ DbFault(s)
      BY <1>4, <2>2, ExecutionAdvances
    <3>2. /\ UNCHANGED transfer
          /\ exec[s].at = "catch" \/ ~Sent(slot[s])
      BY <1>4, <3>1 DEF ReadCashout, MarkProcessing, CallGateway, Answers, RecordPaid, SendEmail,
           RecordAccepted, Catch, RefundAndFail, DbFault, OnlyRefusals, payoutVars, Goto, Halt, IdleExec,
           StateInv, TypeOK, Sent
    <3> QED
      BY <3>1, <3>2 DEF SendInv, Sent
  <2> QED
    BY <2>1, <2>2
<1> QED
  BY <1>2, <1>3, <1>4 DEF SendInv

LEMMA ContractInvariant ==
  ASSUME OnlyRefusals, DistinctKeys, ~Zombies
  PROVE  Spec => []ContractInv
<1>1. Init => SendInv
  BY CashoutAssumption DEF Init, SendInv, Sent, IdleExec
<1>2. "crash" \notin Faults
  BY DEF OnlyRefusals
<1>3. ContractInv /\ [Next]_vars => SendInv'
  BY SendStep
<1> QED
  BY <1>1, <1>2, <1>3, StateCorrect, UnstalledInvariant, RequestInvariant, RefundInvariant, PTL
  DEF Spec, ContractInv

\* What one step can do to the rows a withdrawal is read from: nothing that
\* matters, insert a cashout, move its money, or refund it.
Unmoved(c) == Sent(c)' <=> Sent(c)
Kept(c) == Unmoved(c) /\ refunds'[c] = refunds[c] /\ (status'[c] = "none" <=> status[c] = "none")

Requested(c) == status[c] = "none" /\ status'[c] # "none" /\ Unmoved(c) /\ refunds'[c] = refunds[c]
Paid(c) == /\ status[c] # "none" /\ status'[c] # "none"
           /\ refunds[c] = 0 /\ refunds'[c] = 0 /\ Sent(c)'
Refunded(c) == /\ status[c] # "none" /\ status'[c] # "none"
               /\ refunds[c] = 0 /\ refunds'[c] = 1 /\ ~Sent(c) /\ ~Sent(c)'

\* The rows a withdrawal is read from are consistent.
LEMMA ContractFacts ==
  ASSUME ContractInv, NEW c \in Jobs
  PROVE  /\ refunds[c] > 0 => refunds[c] = 1 /\ ~Sent(c)
         /\ status[c] = "none" => ~Sent(c) /\ refunds[c] = 0
BY DEF ContractInv, RefundInv, SendInv, RequestInv

\* A step changes the row, the transfer or the refund of one cashout only.
LEMMA OneCashoutAtATime ==
  ASSUME OnlyRefusals, DistinctKeys, ContractInv, [Next]_vars
  PROVE  \/ \A c \in Jobs : Kept(c)
         \/ \E c \in Jobs : /\ Requested(c) \/ Paid(c) \/ Refunded(c)
                            /\ \A d \in Jobs \ {c} : Kept(d)
<1> DEFINE Goal == \/ \A c \in Jobs : Kept(c)
                   \/ \E c \in Jobs : /\ Requested(c) \/ Paid(c) \/ Refunded(c)
                                      /\ \A d \in Jobs \ {c} : Kept(d)
<1>0. /\ StateInv
      /\ status \in [Jobs -> Statuses] /\ refunds \in [Jobs -> Nat] /\ transfer \in [Keys -> Nat]
      /\ \A c \in Jobs : Key[c] \in Keys
  BY CashoutAssumption DEF ContractInv, StateInv, TypeOK
<1>1. ASSUME NEW c \in Jobs, DebitAndInsert(c) PROVE Goal
  <2>1. UNCHANGED <<refunds, transfer>> /\ status[c] = "none"
    BY <1>1 DEF DebitAndInsert, ContractInv, RequestInv
  <2>2. CASE UNCHANGED status
    BY <2>1, <2>2 DEF Kept, Unmoved, Sent
  <2>3. CASE status' = [status EXCEPT ![c] = "pending"]
    BY <1>0, <2>1, <2>3 DEF Requested, Kept, Unmoved, Sent
  <2> QED
    BY <1>1, <2>2, <2>3 DEF DebitAndInsert
<1>2. ASSUME NEW s \in Slots, CallGateway(s) PROVE Goal
  <2> DEFINE c == slot[s]
  <2>1. exec[s].at = "call" /\ UNCHANGED <<status, refunds>>
    BY <1>2 DEF CallGateway
  <2>2. c \in Jobs /\ status[c] # "none" /\ refunds[c] = 0
    BY <2>1, ExecutedHasRow DEF ContractInv, RefundInv
  <2>3. CASE transfer' = Taken(c)
    <3>1. Asked(c) # 0
      BY <2>2, AskedIsPositive
    <3>2. Key[c] \in Keys /\ \A d \in Jobs \ {c} : Key[d] \in Keys /\ Key[d] # Key[c]
      BY <1>0, <2>2 DEF DistinctKeys
    <3>3. transfer'[Key[c]] # 0 /\ \A k \in Keys \ {Key[c]} : transfer'[k] = transfer[k]
      BY <1>0, <2>3, <3>1, <3>2 DEF Taken
    <3>4. PICK e \in Jobs : e = c
      BY <2>2
    <3>5. Paid(e)
      BY <2>1, <2>2, <3>3, <3>4 DEF Paid, Sent
    <3>6. \A d \in Jobs \ {e} : Kept(d)
      BY <2>1, <3>2, <3>3, <3>4 DEF Kept, Unmoved, Sent
    <3> QED
      BY <3>5, <3>6
  <2>4. CASE UNCHANGED transfer
    BY <2>1, <2>4 DEF Kept, Unmoved, Sent
  <2> QED
    BY <1>2, <2>3, <2>4 DEF CallGateway
<1>3. ASSUME NEW s \in Slots, RefundAndFail(s) PROVE Goal
  <2>1. exec[s].at = "refund"
    BY <1>3 DEF RefundAndFail
  <2>2. PICK c \in Jobs : c = slot[s] /\ status[c] # "none" /\ refunds[c] = 0 /\ ~Sent(c)
    BY <2>1, ExecutedHasRow DEF ContractInv, RefundInv, SendInv
  <2>3. /\ UNCHANGED transfer
        /\ refunds' = [refunds EXCEPT ![c] = @ + 1]
        /\ status' = [status EXCEPT ![c] = "failed"]
    BY <1>3, <2>2 DEF RefundAndFail
  <2>4. Refunded(c)
    BY <1>0, <2>2, <2>3 DEF Refunded, Sent
  <2>5. \A d \in Jobs \ {c} : Kept(d)
    BY <1>0, <2>3 DEF Kept, Unmoved, Sent
  <2> QED
    BY <2>4, <2>5
<1>4. ASSUME \A c \in Jobs : ~DebitAndInsert(c), \A s \in Slots : ~CallGateway(s) /\ ~RefundAndFail(s),
             NEW c \in Jobs
      PROVE  Kept(c)
  <2>1. Unmoved(c)
    BY <1>0, <1>4, SentIsForGood, WhoSends DEF Unmoved
  <2>2. refunds'[c] = refunds[c]
    BY <1>0, <1>4, WhoRefunds
  <2>3. status[c] = "none" => status'[c] = "none"
    BY <1>0, <1>4, WhoWritesStatus, ExecutedHasRow
    DEF MarkProcessing, RecordPaid, RecordAccepted, ConfirmPayout, ContractInv, RequestInv
  <2> QED
    BY <1>0, <2>1, <2>2, <2>3, RowsStay DEF Kept
<1> QED
  BY <1>1, <1>2, <1>3, <1>4

\* A step on the rows is a step of the withdrawals, or none.
LEMMA StepsOfTheContract ==
  ASSUME OnlyRefusals, DistinctKeys, ContractInv, [Next]_vars
  PROVE  [Contract!Next]_dueOf
<1>1. \A c \in Jobs : Kept(c) => dueOf'[c] = dueOf[c]
  BY DEF Kept, Unmoved, Sent, dueOf
<1>2. CASE \A c \in Jobs : Kept(c)
  <2>1. dueOf' = dueOf
    BY <1>1, <1>2 DEF dueOf
  <2> QED
    BY <2>1
<1>3. ASSUME NEW c \in Jobs, Requested(c) \/ Paid(c) \/ Refunded(c),
             \A d \in Jobs \ {c} : Kept(d)
      PROVE  [Contract!Next]_dueOf
  <2>1. \A new : dueOf'[c] = new => dueOf' = [dueOf EXCEPT ![c] = new]
    BY <1>1, <1>3 DEF dueOf
  <2>2. CASE Requested(c)
    <3>1. dueOf[c] = "none" /\ dueOf'[c] = "owed"
      BY <2>2, ContractFacts DEF dueOf, Requested, Unmoved, Sent
    <3> QED
      BY <2>1, <3>1 DEF Contract!Next, Contract!Request
  <2>3. CASE Paid(c)
    <3>1. dueOf[c] \in {"owed", "sent"} /\ dueOf'[c] = "sent"
      BY <2>3 DEF dueOf, Paid, Sent
    <3>2. CASE dueOf[c] = "sent"
      BY <2>1, <3>1, <3>2 DEF dueOf
    <3>3. CASE dueOf[c] = "owed"
      BY <2>1, <3>1, <3>3 DEF Contract!Next, Contract!Send
    <3> QED
      BY <3>1, <3>2, <3>3
  <2>4. CASE Refunded(c)
    <3>1. dueOf[c] = "owed" /\ dueOf'[c] = "returned"
      BY <2>4 DEF dueOf, Refunded, Sent
    <3> QED
      BY <2>1, <3>1 DEF Contract!Next, Contract!Return
  <2> QED
    BY <1>3, <2>2, <2>3, <2>4
<1> QED
  BY <1>2, <1>3, OneCashoutAtATime

\* As long as the gateway fails only by refusing, no worker dies or outlives
\* its lock, and no two cashouts share a key, a cashout is a withdrawal: what
\* was debited is sent or returned, never both and never twice.
THEOREM CashoutsImplementWithdrawal ==
  ASSUME OnlyRefusals, DistinctKeys, ~Zombies
  PROVE  Spec => WithdrawalSpec
<1>1. Init => Contract!Init
  BY CashoutAssumption DEF Init, Contract!Init, dueOf
<1>2. ContractInv /\ ContractInv' /\ [Next]_vars => [Contract!Next]_dueOf
  BY StepsOfTheContract
<1> QED
  BY <1>1, <1>2, ContractInvariant, PTL DEF Spec, WithdrawalSpec, Contract!Spec
=============================================================================
