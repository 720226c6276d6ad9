--------------------- MODULE NotificationPipeline_proofs ---------------------
(***************************************************************************)
(* Proofs about NotificationPipeline: producers and workers together       *)
(* implement each module's specification, so that what is proved of one of *)
(* them holds of the whole.                                                *)
(***************************************************************************)
EXTENDS NotificationPipeline, TLAPS

\* The theorems of the two modules, about the same variables.
DP == INSTANCE NotificationDispatch_proofs
  WITH MaxFaults <- MaxProducerFaults, faults <- producerFaults

QP == INSTANCE NotificationQueue_proofs
  WITH MaxFaults <- MaxWorkerFaults, faults <- workerFaults, info <- workerInfo

-----------------------------------------------------------------------------
(* The instances of a module and of its proofs say the same.               *)

LEMMA SameDispatchVars == UNCHANGED DP!vars <=> UNCHANGED Dispatch!vars
BY DEF DP!vars, Dispatch!vars, DP!logVars, Dispatch!logVars, DP!dispatchVars,
    Dispatch!dispatchVars

LEMMA SameDispatchInit == DP!Init <=> Dispatch!Init
BY DEF DP!Init, Dispatch!Init, DP!NoKey, Dispatch!NoKey

LEMMA SameCall == \A p : DP!Call(p) <=> Dispatch!Call(p)
BY DEF DP!Call, Dispatch!Call, DP!Request, Dispatch!Request, DP!ChannelsToSend,
    Dispatch!ChannelsToSend, DP!Expand, Dispatch!Expand, DP!Usable, Dispatch!Usable,
    DP!GoTo, Dispatch!GoTo, DP!logVars, Dispatch!logVars

LEMMA SameCapCheck == \A p : DP!CapCheck(p) <=> Dispatch!CapCheck(p)
BY DEF DP!CapCheck, Dispatch!CapCheck, DP!check_daily_cap, Dispatch!check_daily_cap,
    DP!Counted, Dispatch!Counted, DP!Cardinality, Dispatch!Cardinality, DP!Day,
    Dispatch!Day, DP!GoTo, Dispatch!GoTo, DP!NextChannel, Dispatch!NextChannel, DP!NoKey,
    Dispatch!NoKey, DP!Fault, Dispatch!Fault, DP!logVars, Dispatch!logVars

LEMMA SameDedupCheck == \A p : DP!DedupCheck(p) <=> Dispatch!DedupCheck(p)
BY DEF DP!DedupCheck, Dispatch!DedupCheck, DP!check_dedup, Dispatch!check_dedup, DP!SameKey,
    Dispatch!SameKey, DP!Day, Dispatch!Day, DP!GoTo, Dispatch!GoTo, DP!NextChannel,
    Dispatch!NextChannel, DP!NoKey, Dispatch!NoKey, DP!Fault, Dispatch!Fault, DP!logVars,
    Dispatch!logVars

LEMMA SameWriteLog == \A p : DP!WriteLog(p) <=> Dispatch!WriteLog(p)
BY DEF DP!WriteLog, Dispatch!WriteLog, DP!create_notification_log,
    Dispatch!create_notification_log, DP!GoTo, Dispatch!GoTo, DP!NextChannel,
    Dispatch!NextChannel, DP!NoKey, Dispatch!NoKey, DP!Fault, Dispatch!Fault

LEMMA SameWriteQueue == \A p : DP!WriteQueue(p) <=> Dispatch!WriteQueue(p)
BY DEF DP!WriteQueue, Dispatch!WriteQueue, DP!insert_queue_row, Dispatch!insert_queue_row,
    DP!NextChannel, Dispatch!NextChannel, DP!NoKey, Dispatch!NoKey, DP!Fault, Dispatch!Fault

LEMMA SameProducerCrash == \A p : DP!ProducerCrash(p) <=> Dispatch!ProducerCrash(p)
BY DEF DP!ProducerCrash, Dispatch!ProducerCrash, DP!GoTo, Dispatch!GoTo, DP!NoKey,
    Dispatch!NoKey, DP!Fault, Dispatch!Fault, DP!logVars, Dispatch!logVars

LEMMA SameProduce == \A p : DP!Produce(p) <=> Dispatch!Produce(p)
BY SameCall, SameCapCheck, SameDedupCheck, SameWriteLog, SameWriteQueue, SameProducerCrash
DEF DP!Produce, Dispatch!Produce

LEMMA SameDispatchEnvironment == DP!Environment <=> Dispatch!Environment
BY DEF DP!Environment, Dispatch!Environment, DP!Tick, Dispatch!Tick, DP!Report,
    Dispatch!Report, DP!Leave, Dispatch!Leave, DP!ContactChange, Dispatch!ContactChange,
    DP!logVars, Dispatch!logVars, DP!dispatchVars, Dispatch!dispatchVars

LEMMA SameDispatchNext == DP!Next <=> Dispatch!Next
BY SameProduce, SameDispatchEnvironment DEF DP!Next, Dispatch!Next

LEMMA SameQueueVars == UNCHANGED QP!vars <=> UNCHANGED QueueOnly!vars
BY DEF QP!vars, QueueOnly!vars, QP!logVars, QueueOnly!logVars, QP!queueVars,
    QueueOnly!queueVars, QP!workerVars, QueueOnly!workerVars, QP!historyVars,
    QueueOnly!historyVars

LEMMA SameQueueInit == QP!Init <=> QueueOnly!Init
BY DEF QP!Init, QueueOnly!Init

LEMMA SamePoll == \A w : QP!Poll(w) <=> QueueOnly!Poll(w)
BY DEF QP!Poll, QueueOnly!Poll, QP!Claim, QueueOnly!Claim, QP!SelectRows,
    QueueOnly!SelectRows, QP!LockRows, QueueOnly!LockRows, QP!Batches, QueueOnly!Batches,
    QP!Claimable, QueueOnly!Claimable, QP!Cardinality, QueueOnly!Cardinality, QP!GoTo,
    QueueOnly!GoTo, QP!logVars, QueueOnly!logVars, QP!queueVars, QueueOnly!queueVars,
    QP!historyVars, QueueOnly!historyVars

LEMMA SameBegin == \A w : QP!Begin(w) <=> QueueOnly!Begin(w)
BY DEF QP!Begin, QueueOnly!Begin, QP!GivesUp, QueueOnly!GivesUp, QP!Addressable,
    QueueOnly!Addressable, QP!GoTo, QueueOnly!GoTo, QP!Fault, QueueOnly!Fault, QP!logVars,
    QueueOnly!logVars, QP!queueVars, QueueOnly!queueVars, QP!historyVars,
    QueueOnly!historyVars

LEMMA SameSend == \A w : QP!Send(w) <=> QueueOnly!Send(w)
BY DEF QP!Send, QueueOnly!Send, QP!AfterRefusal, QueueOnly!AfterRefusal, QP!GoTo,
    QueueOnly!GoTo, QP!logVars, QueueOnly!logVars, QP!queueVars, QueueOnly!queueVars

LEMMA SameUpdateLog == \A w : QP!UpdateLog(w) <=> QueueOnly!UpdateLog(w)
BY DEF QP!UpdateLog, QueueOnly!UpdateLog, QP!update_notification_status,
    QueueOnly!update_notification_status, QP!Answered, QueueOnly!Answered, QP!GoTo,
    QueueOnly!GoTo, QP!Fault, QueueOnly!Fault, QP!queueVars, QueueOnly!queueVars,
    QP!historyVars, QueueOnly!historyVars

LEMMA SameAck == \A w : QP!Ack(w) <=> QueueOnly!Ack(w)
BY DEF QP!Ack, QueueOnly!Ack, QP!ack_queue_item, QueueOnly!ack_queue_item, QP!Finish,
    QueueOnly!Finish, QP!GoTo, QueueOnly!GoTo, QP!Fault, QueueOnly!Fault, QP!logVars,
    QueueOnly!logVars, QP!queueVars, QueueOnly!queueVars, QP!historyVars,
    QueueOnly!historyVars

LEMMA SameNack == \A w : QP!Nack(w) <=> QueueOnly!Nack(w)
BY DEF QP!Nack, QueueOnly!Nack, QP!ack_queue_item, QueueOnly!ack_queue_item, QP!Finish,
    QueueOnly!Finish, QP!GoTo, QueueOnly!GoTo, QP!Fault, QueueOnly!Fault, QP!logVars,
    QueueOnly!logVars, QP!queueVars, QueueOnly!queueVars, QP!historyVars,
    QueueOnly!historyVars

LEMMA SameWorkerCrash == \A w : QP!WorkerCrash(w) <=> QueueOnly!WorkerCrash(w)
BY DEF QP!WorkerCrash, QueueOnly!WorkerCrash, QP!GoTo, QueueOnly!GoTo, QP!Fault,
    QueueOnly!Fault, QP!logVars, QueueOnly!logVars, QP!queueVars, QueueOnly!queueVars,
    QP!historyVars, QueueOnly!historyVars

LEMMA SameLockExpires == \A n : QP!LockExpires(n) <=> QueueOnly!LockExpires(n)
BY DEF QP!LockExpires, QueueOnly!LockExpires, QP!Holders, QueueOnly!Holders, QP!Fault,
    QueueOnly!Fault, QP!logVars, QueueOnly!logVars, QP!workerVars, QueueOnly!workerVars,
    QP!historyVars, QueueOnly!historyVars

LEMMA SameQueueEnvironment == QP!QueueEnvironment <=> QueueOnly!QueueEnvironment
BY DEF QP!QueueEnvironment, QueueOnly!QueueEnvironment, QP!NewLogRow, QueueOnly!NewLogRow,
    QP!Address, QueueOnly!Address, QP!Channels, QueueOnly!Channels, QP!NewQueueRow,
    QueueOnly!NewQueueRow, QP!NotQueued, QueueOnly!NotQueued, QP!MarkRead,
    QueueOnly!MarkRead, QP!ProviderReport, QueueOnly!ProviderReport, QP!ContactChange,
    QueueOnly!ContactChange,
    QP!update_notification_status, QueueOnly!update_notification_status, QP!logVars,
    QueueOnly!logVars, QP!queueVars, QueueOnly!queueVars, QP!workerVars,
    QueueOnly!workerVars, QP!historyVars, QueueOnly!historyVars

LEMMA SameQueueNext == QP!Next <=> QueueOnly!Next
BY SamePoll, SameBegin, SameSend, SameUpdateLog, SameAck, SameNack, SameWorkerCrash,
   SameLockExpires, SameQueueEnvironment
DEF QP!Next, QueueOnly!Next, QP!WorkerNext, QueueOnly!WorkerNext, QP!Work, QueueOnly!Work

-----------------------------------------------------------------------------
(* What the two modules' theorems assume of the constants.                 *)

LEMMA DispatchInitType == DP!Init => DP!TypeInv
BY DP!InitTypeInv, PipelineIdsAssumption, PipelineLimitsAssumption,
   PipelineBoundsAssumption, PipelineRowsAssumption, PipelineContactsAssumption
DEF DP!InitTypeInv, IsFiniteSet, DP!IsFiniteSet, DP!Channels, Dispatch!Channels,
    DP!ContactFields, Dispatch!ContactFields, DP!LogRow, Dispatch!LogRow, DP!NoKey,
    Dispatch!NoKey

LEMMA DispatchNextType == DP!TypeInv /\ [DP!Next]_(DP!vars) => DP!TypeInv'
BY DP!NextTypeInv, PipelineIdsAssumption, PipelineLimitsAssumption,
   PipelineBoundsAssumption, PipelineRowsAssumption, PipelineContactsAssumption
DEF DP!NextTypeInv, IsFiniteSet, DP!IsFiniteSet, DP!Channels, Dispatch!Channels,
    DP!ContactFields, Dispatch!ContactFields, DP!LogRow, Dispatch!LogRow, DP!NoKey,
    Dispatch!NoKey

LEMMA QueueInitType == QP!Init => QP!TypeInv
BY QP!InitTypeInv, PipelineIdsAssumption, PipelineLimitsAssumption,
   PipelineBoundsAssumption, PipelineContactsAssumption
DEF QP!InitTypeInv, IsFiniteSet, QP!IsFiniteSet, QP!ContactFields, Dispatch!ContactFields

LEMMA QueueNextType == QP!TypeInv /\ [QP!Next]_(QP!vars) => QP!TypeInv'
BY QP!NextTypeInv, PipelineIdsAssumption, PipelineLimitsAssumption,
   PipelineBoundsAssumption, PipelineContactsAssumption
DEF QP!NextTypeInv, IsFiniteSet, QP!IsFiniteSet, QP!ContactFields, Dispatch!ContactFields

-----------------------------------------------------------------------------
(* The invariant.                                                          *)

\* A log row between its insert and its queue row is its producer's alone: no
\* worker can know of it, and its status can only have become "read".
Handover ==
  /\ \A p \in Producers :
       pc[p] = "queue" => logId[p] \notin entered /\ status[logId[p]] \in {"queued", "read"}
  /\ \A p, q \in Producers :
       p # q /\ pc[p] = "queue" /\ pc[q] = "queue" => logId[p] # logId[q]

PipeInv == DP!TypeInv /\ QP!TypeInv /\ Handover

\* The types the steps below use, of the variables both modules see.
LEMMA SharedTypes ==
  ASSUME PipeInv
  PROVE  /\ status \in [Ids -> {"none", "queued", "sent", "delivered", "failed", "read"}]
         /\ info \in [Ids -> DP!LogRow \cup {None}]
         /\ contact \in [Users -> Contacts]
         /\ \A n \in Ids : status[n] = "none" <=> info[n] = None
         /\ \A n \in entered : n \in Ids /\ status[n] # "none"
         /\ inQueue \subseteq entered
BY DEF PipeInv, DP!TypeInv, DP!TypeOK, DP!RowsWritten, DP!LogStatus, QP!TypeInv, QP!TypeOK

\* A row that exists has the same user and channel for both.
LEMMA SameRow ==
  ASSUME PipeInv, NEW n \in Ids, status[n] # "none"
  PROVE  /\ workerInfo[n].user = info[n].user /\ workerInfo[n].channel = info[n].channel
         /\ info[n].user \in Users /\ info[n].channel \in QP!Channels
<1>1. info[n] \in DP!LogRow /\ info[n] # None
  BY SharedTypes
<1>2. workerInfo[n] = [user |-> info[n].user, channel |-> info[n].channel]
  BY <1>1 DEF workerInfo
<1>3. info[n].user \in Users /\ info[n].channel \in QP!Channels
  BY <1>1 DEF DP!LogRow, DP!Channels, QP!Channels
<1>4. QED
  BY <1>2, <1>3

-----------------------------------------------------------------------------
(* Producers.                                                              *)

\* Before it writes a row, and when it dies, a producer changes nothing others see.
LEMMA ProducerCallSteps ==
  ASSUME PipeInv, NEW p \in Producers, UNCHANGED workerVars,
         DP!Call(p) \/ DP!CapCheck(p) \/ DP!DedupCheck(p) \/ DP!ProducerCrash(p)
  PROVE  UNCHANGED QP!vars /\ Handover'
<1>1. UNCHANGED <<status, info, inQueue, contact, entered, failed>>
  BY DEF DP!Call, DP!CapCheck, DP!DedupCheck, DP!ProducerCrash, DP!logVars
<1>2. \A q \in Producers : pc'[q] = "queue" => pc[q] = "queue" /\ logId'[q] = logId[q]
  BY DEF DP!Call, DP!CapCheck, DP!DedupCheck, DP!ProducerCrash, DP!GoTo, DP!NextChannel,
         PipeInv, DP!TypeInv, DP!TypeOK
<1>3. UNCHANGED QP!vars
  BY <1>1 DEF workerVars, workerInfo, QP!vars, QP!logVars, QP!queueVars, QP!workerVars,
              QP!historyVars
<1>4. Handover'
  BY <1>1, <1>2 DEF PipeInv, Handover
<1>5. QED
  BY <1>3, <1>4

LEMMA ProducerWriteLog ==
  ASSUME PipeInv, NEW p \in Producers, UNCHANGED workerVars, DP!WriteLog(p)
  PROVE  [QP!Next]_(QP!vars) /\ Handover'
<1>1. pc[p] = "log" /\ UNCHANGED <<inQueue, entered, failed, contact>>
  BY DEF DP!WriteLog
<1>2. ASSUME NEW n \in Ids,
             DP!create_notification_log(n, req[p], Head(left[p]), keyDay[p]),
             logId' = [logId EXCEPT ![p] = n], DP!GoTo(p, "queue")
      PROVE  QP!NewLogRow(n) /\ Handover'
  <2>1. /\ status[n] = "none"
        /\ status' = [status EXCEPT ![n] = "queued"]
        /\ info' = [info EXCEPT ![n] =
                      [user |-> req[p].user, case |-> req[p].case,
                       trigger |-> req[p].trigger, channel |-> Head(left[p]),
                       sentAt |-> clock, keyDay |-> keyDay[p]]]
    BY <1>2 DEF DP!create_notification_log
  <2>2. req[p].user \in Users /\ Head(left[p]) \in QP!Channels
    BY <1>1 DEF PipeInv, DP!TypeInv, DP!TypeOK, DP!CallOK, DP!Request, DP!Channels, QP!Channels
  <2> DEFINE a == [user |-> req[p].user, channel |-> Head(left[p])]
  <2>3. a \in QP!Address
    BY <2>2 DEF QP!Address
  <2>4. info'[n] # None
    <3>1. req[p] \in DP!Request /\ Head(left[p]) \in DP!Channels /\ clock \in Nat
          /\ keyDay[p] \in Nat \cup {DP!NoKey}
      BY <1>1 DEF PipeInv, DP!TypeInv, DP!TypeOK, DP!CallOK
    <3>2. info'[n] = [user |-> req[p].user, case |-> req[p].case,
                      trigger |-> req[p].trigger, channel |-> Head(left[p]),
                      sentAt |-> clock, keyDay |-> keyDay[p]]
      BY <2>1, SharedTypes
    <3>3. info'[n] \in DP!LogRow
      BY <3>1, <3>2 DEF DP!LogRow, DP!Request
    <3>4. None \notin DP!LogRow
      BY PipelineRowsAssumption
      DEF DP!LogRow, Dispatch!LogRow, DP!Channels, Dispatch!Channels, DP!NoKey,
          Dispatch!NoKey
    <3>5. QED
      BY <3>3, <3>4
  <2>5. workerInfo' = [workerInfo EXCEPT ![n] = a]
    BY <2>1, <2>4, SharedTypes DEF workerInfo
  <2>6. QP!NewLogRow(n)
    BY <1>1, <2>1, <2>3, <2>5
    DEF QP!NewLogRow, workerVars, QP!queueVars, QP!workerVars, QP!historyVars
  <2>7. Handover'
    <3>1. \A q \in Producers \ {p} : pc'[q] = pc[q] /\ logId'[q] = logId[q]
      BY <1>2 DEF DP!GoTo, PipeInv, DP!TypeInv, DP!TypeOK
    <3>2. logId'[p] = n /\ n \notin entered /\ status'[n] = "queued"
      BY <1>2, <2>1, SharedTypes DEF PipeInv, DP!TypeInv, DP!TypeOK
    <3>3. ASSUME NEW q \in Producers, q # p, pc[q] = "queue"
          PROVE  /\ logId[q] # n /\ status'[logId[q]] = status[logId[q]]
                 /\ logId[q] \notin entered /\ status[logId[q]] \in {"queued", "read"}
      <4>1. logId[q] \notin entered /\ status[logId[q]] \in {"queued", "read"}
        BY <3>3 DEF PipeInv, Handover
      <4>2. logId[q] \in Ids
        BY <3>3 DEF PipeInv, DP!TypeInv, DP!CallOK
      <4>3. QED
        BY <4>1, <4>2, <2>1, SharedTypes
    <3>4. QED
      BY <1>1, <3>1, <3>2, <3>3 DEF PipeInv, Handover
  <2>8. QED
    BY <2>6, <2>7
<1>3. ASSUME DP!NextChannel(p), UNCHANGED <<status, info>>
      PROVE  UNCHANGED QP!vars /\ Handover'
  <2>1. \A q \in Producers : pc'[q] = "queue" => pc[q] = "queue" /\ logId'[q] = logId[q]
    BY <1>3 DEF DP!NextChannel, PipeInv, DP!TypeInv, DP!TypeOK
  <2>2. UNCHANGED QP!vars
    BY <1>1, <1>3 DEF workerVars, workerInfo, QP!vars, QP!logVars, QP!queueVars,
                      QP!workerVars, QP!historyVars
  <2>3. QED
    BY <1>1, <1>3, <2>1, <2>2 DEF PipeInv, Handover
<1>4. QED
  BY <1>2, <1>3 DEF DP!WriteLog, QP!Next, QP!QueueEnvironment

LEMMA ProducerWriteQueue ==
  ASSUME PipeInv, NEW p \in Producers, UNCHANGED workerVars, DP!WriteQueue(p)
  PROVE  [QP!Next]_(QP!vars) /\ Handover'
<1> DEFINE n == logId[p]
<1>1. /\ pc[p] = "queue" /\ DP!NextChannel(p) /\ UNCHANGED <<info, contact>>
      /\ \/ DP!insert_queue_row(n) /\ UNCHANGED <<status, failed>>
         \/ /\ status' = [status EXCEPT ![n] = "failed"]
            /\ failed' = failed \cup {n}
            /\ UNCHANGED <<inQueue, entered>>
         \/ UNCHANGED <<inQueue, entered, status, failed>>
  BY DEF DP!WriteQueue
<1>2. n \in Ids /\ n \notin entered /\ status[n] \in {"queued", "read"}
  BY <1>1 DEF PipeInv, Handover, DP!TypeInv, DP!CallOK
<1>3. /\ \A q \in Producers : pc'[q] = "queue" => pc[q] = "queue" /\ logId'[q] = logId[q]
      /\ pc'[p] # "queue"
  BY <1>1 DEF DP!NextChannel, PipeInv, DP!TypeInv, DP!TypeOK
<1>4. UNCHANGED workerInfo
  BY <1>1 DEF workerInfo
<1>5. ASSUME NEW q \in Producers, pc'[q] = "queue"
      PROVE  /\ q # p /\ logId'[q] = logId[q] /\ logId[q] # n /\ logId[q] \in Ids
             /\ logId[q] \notin entered /\ status[logId[q]] \in {"queued", "read"}
  <2>1. q # p /\ pc[q] = "queue" /\ logId'[q] = logId[q]
    BY <1>3, <1>5
  <2>2. QED
    BY <1>1, <2>1 DEF PipeInv, Handover, DP!TypeInv, DP!CallOK
<1>6. \A q, r \in Producers :
        q # r /\ pc'[q] = "queue" /\ pc'[r] = "queue" => logId'[q] # logId'[r]
  BY <1>3 DEF PipeInv, Handover
<1>7. CASE DP!insert_queue_row(n) /\ UNCHANGED <<status, failed>>
  <2>1. QP!NewQueueRow(n)
    BY <1>1, <1>2, <1>4, <1>7
    DEF DP!insert_queue_row, QP!NewQueueRow, workerVars, QP!workerVars, QP!historyVars
  <2>2. Handover'
    BY <1>5, <1>6, <1>7 DEF DP!insert_queue_row, Handover
  <2>3. QED
    BY <1>2, <2>1, <2>2 DEF QP!Next, QP!QueueEnvironment
<1>8. CASE /\ status' = [status EXCEPT ![n] = "failed"]
           /\ failed' = failed \cup {n}
           /\ UNCHANGED <<inQueue, entered>>
  <2>1. QP!NotQueued(n)
    BY <1>1, <1>2, <1>4, <1>8
    DEF QP!NotQueued, QP!update_notification_status, workerVars, QP!queueVars,
        QP!workerVars, QP!historyVars
  <2>2. Handover'
    BY <1>5, <1>6, <1>8, SharedTypes DEF Handover
  <2>3. QED
    BY <1>2, <2>1, <2>2 DEF QP!Next, QP!QueueEnvironment
<1>9. CASE UNCHANGED <<inQueue, entered, status, failed>>
  <2>1. UNCHANGED QP!vars
    BY <1>1, <1>4, <1>9 DEF workerVars, QP!vars, QP!logVars, QP!queueVars, QP!workerVars,
                            QP!historyVars
  <2>2. Handover'
    BY <1>5, <1>6, <1>9 DEF Handover
  <2>3. QED
    BY <2>1, <2>2
<1>10. QED
  BY <1>1, <1>7, <1>8, <1>9

LEMMA ProducerSteps ==
  ASSUME PipeInv, NEW p \in Producers, ProducerStep(p)
  PROVE  DP!Next /\ [QP!Next]_(QP!vars) /\ Handover'
<1>1. DP!Produce(p) /\ UNCHANGED workerVars
  BY SameProduce DEF ProducerStep
<1>2. DP!Next
  BY <1>1 DEF DP!Next
<1>3. QED
  BY <1>1, <1>2, ProducerCallSteps, ProducerWriteLog, ProducerWriteQueue DEF DP!Produce

-----------------------------------------------------------------------------
(* Workers.                                                                *)

\* A worker's step, as the queue's module sees it: what it reads of a row is
\* the same, and it writes no row's user or channel.
LEMMA WorkerPoll ==
  ASSUME PipeInv, NEW w \in Workers, Queue!Poll(w)
  PROVE  /\ QP!Poll(w)
         /\ UNCHANGED <<status, info, inQueue, contact, entered, failed>>
<1>1. UNCHANGED <<status, info, inQueue, contact, entered, failed>>
  BY DEF Queue!Poll, Queue!Claim, Queue!SelectRows, Queue!LockRows, Queue!logVars,
         Queue!queueVars
<1>2. UNCHANGED workerInfo
  BY <1>1 DEF workerInfo
<1>3. QP!Poll(w)
  BY <1>2
  DEF Queue!Poll, QP!Poll, Queue!Claim, QP!Claim, Queue!SelectRows, QP!SelectRows,
      Queue!LockRows, QP!LockRows, Queue!Batches, QP!Batches, Queue!Claimable, QP!Claimable,
      Queue!Cardinality, QP!Cardinality, Queue!GoTo, QP!GoTo, Queue!logVars, QP!logVars,
      Queue!queueVars, QP!queueVars, Queue!historyVars, QP!historyVars
<1>4. QED
  BY <1>1, <1>3

LEMMA WorkerBegin ==
  ASSUME PipeInv, NEW w \in Workers, Queue!Begin(w)
  PROVE  /\ QP!Begin(w)
         /\ UNCHANGED <<status, info, inQueue, contact, entered, failed>>
<1>1. UNCHANGED <<status, info, inQueue, contact, entered, failed>>
  BY DEF Queue!Begin, Queue!logVars, Queue!queueVars
<1>2. UNCHANGED workerInfo
  BY <1>1 DEF workerInfo
<1>3. \A n \in batch[w] : Queue!GivesUp(n) <=> QP!GivesUp(n)
  <2>1. ASSUME NEW n \in batch[w] PROVE Queue!GivesUp(n) <=> QP!GivesUp(n)
    <3>1. n \in Ids /\ status[n] # "none"
      BY SharedTypes DEF PipeInv, QP!TypeInv, QP!BatchEntered
    <3>2. workerInfo[n].user = info[n].user /\ workerInfo[n].channel = info[n].channel
      BY <3>1, SameRow
    <3>3. QED
      BY <3>2
      DEF Queue!GivesUp, QP!GivesUp, Queue!Addressable, QP!Addressable
  <2>2. QED
    BY <2>1
<1>4. QP!Begin(w)
  BY <1>2, <1>3
  DEF Queue!Begin, QP!Begin, Queue!GoTo, QP!GoTo, Queue!Fault, QP!Fault, Queue!logVars,
      QP!logVars, Queue!queueVars, QP!queueVars, Queue!historyVars, QP!historyVars
<1>5. QED
  BY <1>1, <1>4

\* The row a worker sends, logs or acknowledges was queued.
LEMMA WorkerRow ==
  ASSUME PipeInv, NEW w \in Workers, wpc[w] \in {"send", "log", "ack", "nack"}
  PROVE  cur[w] \in entered /\ cur[w] \in Ids /\ status[cur[w]] # "none"
BY SharedTypes DEF PipeInv, QP!TypeInv, QP!CurOK, QP!BatchEntered

LEMMA WorkerSend ==
  ASSUME PipeInv, NEW w \in Workers, Queue!Send(w)
  PROVE  /\ QP!Send(w)
         /\ UNCHANGED <<status, info, inQueue, entered, failed>>
         /\ \/ UNCHANGED contact
            \/ \E u \in Users, fields \in Contacts : contact' = [contact EXCEPT ![u] = fields]
<1>1. wpc[w] = "send" /\ UNCHANGED <<status, info, inQueue, entered, failed>>
  BY DEF Queue!Send, Queue!logVars, Queue!queueVars
<1>2. cur[w] \in Ids /\ status[cur[w]] # "none"
  BY <1>1, WorkerRow
<1>3. /\ workerInfo[cur[w]].user = info[cur[w]].user
      /\ workerInfo[cur[w]].channel = info[cur[w]].channel
      /\ info[cur[w]].user \in Users
  BY <1>2, SameRow
<1>4. UNCHANGED workerInfo
  BY <1>1 DEF workerInfo
<1>5. QP!Send(w)
  BY <1>3, <1>4
  DEF Queue!Send, QP!Send, Queue!AfterRefusal, QP!AfterRefusal, Queue!GoTo, QP!GoTo,
      Queue!logVars, QP!logVars, Queue!queueVars, QP!queueVars
<1>6. \/ UNCHANGED contact
      \/ contact' = [contact EXCEPT ![info[cur[w]].user] = @ \cup {"bounced"}]
  BY DEF Queue!Send, Queue!AfterRefusal
<1>7. contact[info[cur[w]].user] \cup {"bounced"} \in Contacts
  BY <1>3, SharedTypes, PipelineContactsAssumption
<1>8. QED
  BY <1>1, <1>3, <1>5, <1>6, <1>7

LEMMA WorkerUpdateLog ==
  ASSUME PipeInv, NEW w \in Workers, Queue!UpdateLog(w)
  PROVE  /\ QP!UpdateLog(w)
         /\ UNCHANGED <<info, inQueue, contact, entered>>
         /\ \/ UNCHANGED <<status, failed>>
            \/ \E n \in entered, s \in {"sent", "delivered", "failed"} :
                 /\ status' = [status EXCEPT ![n] = s]
                 /\ failed' = IF s = "failed" THEN failed \cup {n} ELSE failed
<1>1. wpc[w] = "log" /\ UNCHANGED <<info, inQueue, contact, entered>>
  BY DEF Queue!UpdateLog, Queue!queueVars
<1>2. UNCHANGED workerInfo
  BY <1>1 DEF workerInfo
<1>3. QP!UpdateLog(w)
  <2>1. workerInfo[cur[w]].channel = info[cur[w]].channel
    BY <1>1, WorkerRow, SameRow
  <2>2. Queue!Answered(cur[w]) = QP!Answered(cur[w])
    BY <2>1 DEF Queue!Answered, QP!Answered
  <2>3. QED
    BY <1>2, <2>2
    DEF Queue!UpdateLog, QP!UpdateLog, Queue!update_notification_status,
      QP!update_notification_status, Queue!GoTo, QP!GoTo, Queue!Fault, QP!Fault,
      Queue!queueVars, QP!queueVars, Queue!historyVars, QP!historyVars
<1>4. cur[w] \in entered
  BY <1>1, WorkerRow
<1>5. \/ UNCHANGED <<status, failed>>
      \/ \E s \in {"sent", "delivered", "failed"} :
           /\ status' = [status EXCEPT ![cur[w]] = s]
           /\ failed' = IF s = "failed" THEN failed \cup {cur[w]} ELSE failed
  BY DEF Queue!UpdateLog, Queue!update_notification_status
<1>6. QED
  BY <1>1, <1>3, <1>4, <1>5

LEMMA WorkerAck ==
  ASSUME PipeInv, NEW w \in Workers, Queue!Ack(w) \/ Queue!Nack(w)
  PROVE  /\ QP!Ack(w) \/ QP!Nack(w)
         /\ UNCHANGED <<status, info, contact, entered, failed>>
         /\ \/ UNCHANGED inQueue
            \/ \E n \in inQueue : inQueue' = inQueue \ {n}
<1>1. UNCHANGED <<status, info, contact, entered, failed>>
  BY DEF Queue!Ack, Queue!Nack, Queue!logVars
<1>2. UNCHANGED workerInfo
  BY <1>1 DEF workerInfo
<1>3. QP!Ack(w) \/ QP!Nack(w)
  BY <1>2
  DEF Queue!Ack, QP!Ack, Queue!Nack, QP!Nack, Queue!ack_queue_item, QP!ack_queue_item,
      Queue!Finish, QP!Finish, Queue!GoTo, QP!GoTo, Queue!Fault, QP!Fault, Queue!logVars,
      QP!logVars, Queue!queueVars, QP!queueVars, Queue!historyVars, QP!historyVars
<1>4. ASSUME NEW n, NEW ok, Queue!ack_queue_item(n, ok)
      PROVE  \/ UNCHANGED inQueue
             \/ \E m \in inQueue : inQueue' = inQueue \ {m}
  BY <1>4 DEF Queue!ack_queue_item, Queue!queueVars
<1>5. QED
  BY <1>1, <1>3, <1>4 DEF Queue!Ack, Queue!Nack, Queue!queueVars

LEMMA WorkerOther ==
  ASSUME PipeInv,
         \/ \E w \in Workers : Queue!WorkerCrash(w)
         \/ \E n \in Ids : Queue!LockExpires(n)
  PROVE  /\ \/ \E w \in Workers : QP!WorkerCrash(w)
            \/ \E n \in Ids : QP!LockExpires(n)
         /\ UNCHANGED <<status, info, inQueue, contact, entered, failed>>
<1>1. UNCHANGED <<status, info, inQueue, contact, entered, failed>>
  BY DEF Queue!WorkerCrash, Queue!LockExpires, Queue!logVars, Queue!queueVars
<1>2. UNCHANGED workerInfo
  BY <1>1 DEF workerInfo
<1>3. \A w \in Workers : Queue!WorkerCrash(w) => QP!WorkerCrash(w)
  BY <1>2
  DEF Queue!WorkerCrash, QP!WorkerCrash, Queue!GoTo, QP!GoTo, Queue!Fault, QP!Fault,
      Queue!logVars, QP!logVars, Queue!queueVars, QP!queueVars, Queue!historyVars,
      QP!historyVars
<1>4. \A n \in Ids : Queue!LockExpires(n) => QP!LockExpires(n)
  BY <1>2
  DEF Queue!LockExpires, QP!LockExpires, Queue!Holders, QP!Holders, Queue!Fault, QP!Fault,
      Queue!logVars, QP!logVars, Queue!workerVars, QP!workerVars, Queue!historyVars,
      QP!historyVars
<1>5. QED
  BY <1>1, <1>3, <1>4

\* What workers and users do to the rows, for a producer: set a status, remove
\* a row from the queue, change a user row.
LEMMA SharedChange ==
  ASSUME PipeInv, UNCHANGED producerVars, UNCHANGED info,
         \/ UNCHANGED <<status, failed, inQueue, contact, entered>>
         \/ /\ UNCHANGED <<inQueue, contact, entered>>
            /\ \E n \in entered, s \in {"sent", "delivered", "failed"} :
                 /\ status' = [status EXCEPT ![n] = s]
                 /\ failed' = IF s = "failed" THEN failed \cup {n} ELSE failed
         \/ /\ UNCHANGED <<inQueue, contact, entered, failed>>
            /\ \E n \in Ids : status[n] # "none" /\ status' = [status EXCEPT ![n] = "read"]
         \/ /\ UNCHANGED <<status, failed, contact, entered>>
            /\ \E n \in inQueue : inQueue' = inQueue \ {n}
         \/ /\ UNCHANGED <<status, failed, inQueue, entered>>
            /\ \E u \in Users, fields \in Contacts : contact' = [contact EXCEPT ![u] = fields]
  PROVE  [DP!Next]_(DP!vars) /\ Handover'
<1> USE DEF producerVars, DP!dispatchVars, DP!logVars
<1>1. CASE UNCHANGED <<status, failed, inQueue, contact, entered>>
  <2>1. UNCHANGED DP!vars
    BY <1>1 DEF DP!vars
  <2>2. Handover'
    BY <1>1 DEF PipeInv, Handover
  <2>3. QED
    BY <2>1, <2>2
<1>2. ASSUME NEW n \in entered, NEW s \in {"sent", "delivered", "failed"},
             status' = [status EXCEPT ![n] = s],
             failed' = IF s = "failed" THEN failed \cup {n} ELSE failed,
             UNCHANGED <<inQueue, contact, entered>>
      PROVE  [DP!Next]_(DP!vars) /\ Handover'
  <2>1. n \in Ids
    BY SharedTypes
  <2>2. DP!Report(n)
    BY <1>2 DEF DP!Report
  <2>3. Handover'
    BY <1>2, SharedTypes DEF PipeInv, Handover
  <2>4. QED
    BY <2>1, <2>2, <2>3 DEF DP!Next, DP!Environment
<1>3. ASSUME NEW n \in Ids, status[n] # "none", status' = [status EXCEPT ![n] = "read"],
             UNCHANGED <<inQueue, contact, entered, failed>>
      PROVE  [DP!Next]_(DP!vars) /\ Handover'
  <2>1. DP!Report(n)
    BY <1>3 DEF DP!Report
  <2>2. \A m \in Ids : status[m] \in {"queued", "read"} => status'[m] \in {"queued", "read"}
    BY <1>3, SharedTypes
  <2>3. Handover'
    BY <1>3, <2>2 DEF PipeInv, Handover, DP!TypeInv, DP!CallOK
  <2>4. QED
    BY <2>1, <2>3 DEF DP!Next, DP!Environment
<1>4. ASSUME NEW n \in inQueue, inQueue' = inQueue \ {n},
             UNCHANGED <<status, failed, contact, entered>>
      PROVE  [DP!Next]_(DP!vars) /\ Handover'
  <2>1. n \in Ids
    BY SharedTypes
  <2>2. DP!Leave(n)
    BY <1>4 DEF DP!Leave
  <2>3. Handover'
    BY <1>4 DEF PipeInv, Handover
  <2>4. QED
    BY <2>1, <2>2, <2>3 DEF DP!Next, DP!Environment
<1>5. ASSUME NEW u \in Users, NEW fields \in Contacts,
             contact' = [contact EXCEPT ![u] = fields],
             UNCHANGED <<status, failed, inQueue, entered>>
      PROVE  [DP!Next]_(DP!vars) /\ Handover'
  <2>1. DP!ContactChange(u)
    BY <1>5 DEF DP!ContactChange
  <2>2. Handover'
    BY <1>5 DEF PipeInv, Handover
  <2>3. QED
    BY <2>1, <2>2 DEF DP!Next, DP!Environment
<1>6. QED
  BY <1>1, <1>2, <1>3, <1>4, <1>5

LEMMA WorkerSteps ==
  ASSUME PipeInv, WorkerStep
  PROVE  QP!Next /\ [DP!Next]_(DP!vars) /\ Handover'
<1>1. Queue!WorkerNext /\ UNCHANGED producerVars
  BY DEF WorkerStep
<1> USE DEF QP!Next, QP!WorkerNext, QP!Work
<1>2. ASSUME NEW w \in Workers, Queue!Poll(w)
      PROVE  QP!Next /\ [DP!Next]_(DP!vars) /\ Handover'
  <2>1. QP!Poll(w) /\ UNCHANGED <<status, info, inQueue, contact, entered, failed>>
    BY <1>2, WorkerPoll
  <2>2. QED
    BY <1>1, <2>1, SharedChange
<1>3. ASSUME NEW w \in Workers, Queue!Begin(w)
      PROVE  QP!Next /\ [DP!Next]_(DP!vars) /\ Handover'
  <2>1. QP!Begin(w) /\ UNCHANGED <<status, info, inQueue, contact, entered, failed>>
    BY <1>3, WorkerBegin
  <2>2. QED
    BY <1>1, <2>1, SharedChange
<1>4. ASSUME NEW w \in Workers, Queue!Send(w)
      PROVE  QP!Next /\ [DP!Next]_(DP!vars) /\ Handover'
  <2>1. QP!Send(w)
    BY <1>4, WorkerSend
  <2>2. [DP!Next]_(DP!vars) /\ Handover'
    BY <1>1, <1>4, WorkerSend, SharedChange
  <2>3. QED
    BY <2>1, <2>2
<1>5. ASSUME NEW w \in Workers, Queue!UpdateLog(w)
      PROVE  QP!Next /\ [DP!Next]_(DP!vars) /\ Handover'
  <2>1. QP!UpdateLog(w)
    BY <1>5, WorkerUpdateLog
  <2>2. [DP!Next]_(DP!vars) /\ Handover'
    BY <1>1, <1>5, WorkerUpdateLog, SharedChange
  <2>3. QED
    BY <2>1, <2>2
<1>6. ASSUME NEW w \in Workers, Queue!Ack(w) \/ Queue!Nack(w)
      PROVE  QP!Next /\ [DP!Next]_(DP!vars) /\ Handover'
  <2>1. QP!Ack(w) \/ QP!Nack(w)
    BY <1>6, WorkerAck
  <2>2. [DP!Next]_(DP!vars) /\ Handover'
    BY <1>1, <1>6, WorkerAck, SharedChange
  <2>3. QED
    BY <2>1, <2>2
<1>7. ASSUME \/ \E w \in Workers : Queue!WorkerCrash(w)
             \/ \E n \in Ids : Queue!LockExpires(n)
      PROVE  QP!Next /\ [DP!Next]_(DP!vars) /\ Handover'
  <2>1. QP!Next
    BY <1>7, WorkerOther
  <2>2. UNCHANGED <<status, info, inQueue, contact, entered, failed>>
    BY <1>7, WorkerOther
  <2>3. QED
    BY <1>1, <2>1, <2>2, SharedChange
<1>8. QED
  BY <1>1, <1>2, <1>3, <1>4, <1>5, <1>6, <1>7 DEF Queue!WorkerNext, Queue!Work

-----------------------------------------------------------------------------
(* Users, providers and time.                                              *)

LEMMA ReceiptSteps ==
  ASSUME PipeInv, NEW n \in Ids, Receipt(n)
  PROVE  QP!Next /\ [DP!Next]_(DP!vars) /\ Handover'
<1>1. UNCHANGED workerInfo
  BY DEF Receipt, Queue!ProviderReport, workerInfo
<1>2. QP!ProviderReport(n)
  BY <1>1
  DEF Receipt, Queue!ProviderReport, QP!ProviderReport, Queue!update_notification_status,
      QP!update_notification_status, Queue!queueVars, QP!queueVars, Queue!workerVars,
      QP!workerVars, Queue!historyVars, QP!historyVars
<1>3. PICK s \in {"sent", "delivered", "read", "failed"} :
        /\ status' = [status EXCEPT ![n] = s]
        /\ failed' = IF s = "failed" THEN failed \cup {n} ELSE failed
  BY PipelineLimitsAssumption
  DEF Receipt, Queue!ProviderReport, Queue!update_notification_status
<1>4. /\ n \in entered /\ status[n] # "none"
      /\ UNCHANGED <<producerVars, info, inQueue, contact, entered>>
  BY SharedTypes
  DEF Receipt, Queue!ProviderReport, Queue!queueVars, PipeInv, QP!TypeInv, QP!TypeOK
<1>5. [DP!Next]_(DP!vars) /\ Handover'
  <2>1. CASE s = "read"
    BY <1>3, <1>4, <2>1, SharedChange
  <2>2. CASE s # "read"
    BY <1>3, <1>4, <2>2, SharedChange
  <2>3. QED
    BY <2>1, <2>2
<1>6. QED
  BY <1>2, <1>5 DEF QP!Next, QP!QueueEnvironment


LEMMA UserSteps ==
  ASSUME PipeInv,
         \/ \E n \in Ids : Read(n) \/ Receipt(n)
         \/ \E u \in Users : ChangeContact(u)
         \/ Pass
  PROVE  [QP!Next]_(QP!vars) /\ [DP!Next]_(DP!vars) /\ Handover'
<1>1. ASSUME NEW n \in Ids, Read(n)
      PROVE  QP!Next /\ [DP!Next]_(DP!vars) /\ Handover'
  <2>1. UNCHANGED workerInfo
    BY <1>1 DEF Read, Queue!MarkRead, workerInfo
  <2>2. QP!MarkRead(n)
    BY <1>1, <2>1
    DEF Read, Queue!MarkRead, QP!MarkRead, Queue!queueVars, QP!queueVars, Queue!workerVars,
        QP!workerVars, Queue!historyVars, QP!historyVars
  <2>3. [DP!Next]_(DP!vars) /\ Handover'
    <3>1. /\ status[n] # "none" /\ status' = [status EXCEPT ![n] = "read"]
          /\ UNCHANGED <<producerVars, info, inQueue, contact, entered, failed>>
      BY <1>1 DEF Read, Queue!MarkRead, Queue!queueVars
    <3>2. QED
      BY <3>1, SharedChange
  <2>4. QED
    BY <2>2, <2>3 DEF QP!Next, QP!QueueEnvironment
<1>2. ASSUME NEW u \in Users, ChangeContact(u)
      PROVE  QP!Next /\ [DP!Next]_(DP!vars) /\ Handover'
  <2>1. UNCHANGED workerInfo
    BY <1>2 DEF ChangeContact, Queue!ContactChange, Queue!logVars, workerInfo
  <2>2. QP!ContactChange(u)
    BY <1>2, <2>1
    DEF ChangeContact, Queue!ContactChange, QP!ContactChange, Queue!logVars, QP!logVars,
        Queue!queueVars, QP!queueVars, Queue!workerVars, QP!workerVars, Queue!historyVars,
        QP!historyVars
  <2>3. [DP!Next]_(DP!vars) /\ Handover'
    <3>1. /\ \E fields \in Contacts : contact' = [contact EXCEPT ![u] = fields]
          /\ UNCHANGED <<producerVars, info, status, failed, inQueue, entered>>
      BY <1>2 DEF ChangeContact, Queue!ContactChange, Queue!logVars, Queue!queueVars
    <3>2. QED
      BY <3>1, SharedChange
  <2>4. QED
    BY <2>2, <2>3 DEF QP!Next, QP!QueueEnvironment
<1>3. CASE Pass
  <2>1. DP!Tick /\ UNCHANGED workerVars
    BY <1>3
    DEF Pass, Dispatch!Tick, DP!Tick, Dispatch!logVars, DP!logVars, Dispatch!dispatchVars,
        DP!dispatchVars
  <2>2. UNCHANGED <<status, info, inQueue, contact, entered, failed, pc, logId>>
    BY <2>1 DEF DP!Tick, DP!logVars, DP!dispatchVars
  <2>3. UNCHANGED QP!vars
    BY <2>1, <2>2 DEF workerVars, workerInfo, QP!vars, QP!logVars, QP!queueVars,
                      QP!workerVars, QP!historyVars
  <2>4. Handover'
    BY <2>2 DEF PipeInv, Handover
  <2>5. QED
    BY <2>1, <2>3, <2>4 DEF DP!Next, DP!Environment
<1>4. QED
  BY <1>1, <1>2, <1>3, ReceiptSteps

-----------------------------------------------------------------------------
(* Every step of the pipeline is a step, or a stutter, of each module.     *)

LEMMA PipeStep ==
  ASSUME PipeInv, [Next]_vars
  PROVE  [DP!Next]_(DP!vars) /\ [QP!Next]_(QP!vars) /\ Handover'
<1>1. CASE UNCHANGED vars
  <2>1. UNCHANGED DP!vars
    BY <1>1 DEF vars, producerVars, DP!vars, DP!logVars, DP!dispatchVars
  <2>2. UNCHANGED QP!vars
    BY <1>1 DEF vars, workerVars, workerInfo, QP!vars, QP!logVars, QP!queueVars,
                QP!workerVars, QP!historyVars
  <2>3. Handover'
    BY <1>1 DEF vars, producerVars, PipeInv, Handover
  <2>4. QED
    BY <2>1, <2>2, <2>3
<1>2. CASE Next
  BY <1>2, ProducerSteps, WorkerSteps, UserSteps DEF Next
<1>3. QED
  BY <1>1, <1>2

LEMMA PipeInit == Init => DP!Init /\ QP!Init /\ PipeInv
<1> SUFFICES ASSUME Init PROVE DP!Init /\ QP!Init /\ PipeInv
  OBVIOUS
<1>1. DP!Init
  BY SameDispatchInit DEF Init
<1>2. QP!Init
  <2>1. info = [n \in Ids |-> None]
    BY DEF Init, Queue!Init
  <2>2. workerInfo = [n \in Ids |-> None]
    BY <2>1 DEF workerInfo
  <2>3. QED
    BY <2>2
    DEF Init, Queue!Init, QP!Init
<1>3. Handover
  BY <1>1 DEF DP!Init, Handover
<1>4. QED
  BY <1>1, <1>2, <1>3, DispatchInitType, QueueInitType DEF PipeInv

LEMMA PipeNext ==
  PipeInv /\ [Next]_vars => PipeInv' /\ [DP!Next]_(DP!vars) /\ [QP!Next]_(QP!vars)
<1> SUFFICES ASSUME PipeInv, [Next]_vars
             PROVE  PipeInv' /\ [DP!Next]_(DP!vars) /\ [QP!Next]_(QP!vars)
  OBVIOUS
<1>1. [DP!Next]_(DP!vars) /\ [QP!Next]_(QP!vars) /\ Handover'
  BY PipeStep
<1>2. DP!TypeInv' /\ QP!TypeInv'
  BY <1>1, DispatchNextType, QueueNextType DEF PipeInv
<1>3. QED
  BY <1>1, <1>2 DEF PipeInv

\* What workers and users do to the rows is what enqueue_notification expects of
\* its environment: producers of the whole system behave as NotificationDispatch.
THEOREM PipelineImplementsDispatch == Spec => ImplementsDispatch
<1>1. Init => Dispatch!Init
  BY DEF Init
<1>2. PipeInv /\ [Next]_vars => [Dispatch!Next]_(Dispatch!vars)
  BY PipeNext, SameDispatchNext, SameDispatchVars
<1>3. Init => PipeInv
  BY PipeInit
<1>4. PipeInv /\ [Next]_vars => PipeInv'
  BY PipeNext
<1>5. QED
  BY <1>1, <1>2, <1>3, <1>4, PTL DEF Spec, ImplementsDispatch, Dispatch!Spec

\* And what producers and users do to them is what run_retry_worker expects: the
\* workers of the whole system behave as NotificationQueue.
THEOREM PipelineImplementsQueue == Spec => ImplementsQueue
<1>1. Init => QueueOnly!Init
  BY PipeInit, SameQueueInit
<1>2. PipeInv /\ [Next]_vars => [QueueOnly!Next]_(QueueOnly!vars)
  BY PipeNext, SameQueueNext, SameQueueVars
<1>3. Init => PipeInv
  BY PipeInit
<1>4. PipeInv /\ [Next]_vars => PipeInv'
  BY PipeNext
<1>5. QED
  BY <1>1, <1>2, <1>3, <1>4, PTL DEF Spec, ImplementsQueue, QueueOnly!Spec

-----------------------------------------------------------------------------
(* The modules' results, of the whole.                                     *)

LEMMA SameResults ==
  /\ DP!CapOvershootBounded <=> Dispatch!CapOvershootBounded
  /\ DP!DedupOvershootBounded <=> Dispatch!DedupOvershootBounded
  /\ DP!OrphansAccounted <=> Dispatch!OrphansAccounted
  /\ QP!SendsBounded <=> QueueOnly!SendsBounded
  /\ QP!HoldersBounded <=> QueueOnly!HoldersBounded
  /\ QP!LogAgrees <=> QueueOnly!LogAgrees
<1> USE DEF DP!Cardinality, Dispatch!Cardinality
<1> USE DEF QP!Cardinality, QueueOnly!Cardinality
<1>1. DP!CapOvershootBounded <=> Dispatch!CapOvershootBounded
  BY DEF DP!CapOvershootBounded, Dispatch!CapOvershootBounded, DP!NeverFailedToday,
      Dispatch!NeverFailedToday, DP!Counted, Dispatch!Counted, DP!Day, Dispatch!Day,
      DP!Channels, Dispatch!Channels
<1>2. DP!DedupOvershootBounded <=> Dispatch!DedupOvershootBounded
  BY DEF DP!DedupOvershootBounded, Dispatch!DedupOvershootBounded, DP!SameKey,
      Dispatch!SameKey, DP!NoKey, Dispatch!NoKey
<1>3. DP!OrphansAccounted <=> Dispatch!OrphansAccounted
  BY DEF DP!OrphansAccounted, Dispatch!OrphansAccounted, DP!Orphans, Dispatch!Orphans
<1>4. QP!SendsBounded <=> QueueOnly!SendsBounded
  BY DEF QP!SendsBounded, QueueOnly!SendsBounded
<1>5. QP!HoldersBounded <=> QueueOnly!HoldersBounded
  BY DEF QP!HoldersBounded, QueueOnly!HoldersBounded, QP!Holders, QueueOnly!Holders
<1>6. QP!LogAgrees <=> QueueOnly!LogAgrees
  BY DEF QP!LogAgrees, QueueOnly!LogAgrees
<1>7. QED
  BY <1>1, <1>2, <1>3, <1>4, <1>5, <1>6

LEMMA SpecImpliesBoth == Spec => DP!Spec /\ QP!Spec
<1>1. Init => DP!Init /\ QP!Init /\ PipeInv
  BY PipeInit
<1>2. PipeInv /\ [Next]_vars => PipeInv' /\ [DP!Next]_(DP!vars) /\ [QP!Next]_(QP!vars)
  BY PipeNext
<1>3. QED
  BY <1>1, <1>2, PTL DEF Spec, DP!Spec, QP!Spec

\* With producers, retry workers and users in the place of the environments each
\* module was proved in: rows over the daily cap, duplicates, orphaned log rows and
\* sends stay within the same bounds.
THEOREM PipelineCorrect ==
  Spec => [](/\ Dispatch!CapOvershootBounded
             /\ Dispatch!DedupOvershootBounded
             /\ Dispatch!OrphansAccounted
             /\ QueueOnly!SendsBounded)
<1> USE PipelineIdsAssumption, PipelineLimitsAssumption, PipelineBoundsAssumption,
        PipelineRowsAssumption, PipelineContactsAssumption
    DEF IsFiniteSet, DP!IsFiniteSet, QP!IsFiniteSet, QP!ContactFields, DP!Channels,
        Dispatch!Channels, DP!ContactFields, Dispatch!ContactFields, DP!LogRow,
        Dispatch!LogRow, DP!NoKey, Dispatch!NoKey
<1>1. DP!Spec => []DP!CapOvershootBounded
  BY DP!CapIsOvershotByProducers DEF DP!CapIsOvershotByProducers
<1>2. DP!Spec => []DP!DedupOvershootBounded
  BY DP!DuplicatesAreByProducers DEF DP!DuplicatesAreByProducers
<1>3. DP!Spec => []DP!OrphansAccounted
  BY DP!OrphansArePaidFor DEF DP!OrphansArePaidFor
<1>4. QP!Spec => []QP!SendsBounded
  BY QP!QueueSendsBounded DEF QP!QueueSendsBounded
<1>5. QED
  BY <1>1, <1>2, <1>3, <1>4, SpecImpliesBoth, SameResults, PTL

\* On PostgreSQL, whoever opens a notification or loses a channel meanwhile and
\* whatever providers' webhooks report: a row has one worker but for the faults, and
\* without faults the log of a row that left the queue tells what became of it,
\* unless a webhook wrote it last.
THEOREM PipelineLogAgrees ==
  ASSUME Dialect = "postgresql"
  PROVE  Spec => [](QueueOnly!HoldersBounded /\ QueueOnly!LogAgrees)
<1> USE PipelineIdsAssumption, PipelineLimitsAssumption, PipelineBoundsAssumption,
        PipelineContactsAssumption
    DEF IsFiniteSet, QP!IsFiniteSet, QP!ContactFields, Dispatch!ContactFields
<1>1. QP!Spec => []QP!HoldersBounded
  BY QP!QueueHoldersBounded DEF QP!QueueHoldersBounded
<1>2. QP!Spec => []QP!LogAgrees
  BY QP!QueueLogAgrees DEF QP!QueueLogAgrees
<1>3. QED
  BY <1>1, <1>2, SpecImpliesBoth, SameResults, PTL

\* The whole system's queue delivers as NotificationDelivery says.
THEOREM PipelineDelivers == Spec => QueueOnly!ImplementsDelivery
<1> USE PipelineIdsAssumption, PipelineLimitsAssumption, PipelineBoundsAssumption,
        PipelineContactsAssumption
    DEF IsFiniteSet, QP!IsFiniteSet, QP!ContactFields, Dispatch!ContactFields
<1>1. QP!Spec => QP!ImplementsDelivery
  BY QP!QueueImplementsDelivery DEF QP!QueueImplementsDelivery
<1>2. QP!Delivery!Init <=> QueueOnly!Delivery!Init
  BY DEF QP!Delivery!Init, QueueOnly!Delivery!Init, QP!Outcome, QueueOnly!Outcome
<1>3. [QP!Delivery!Next]_(QP!Delivery!vars) <=> [QueueOnly!Delivery!Next]_(QueueOnly!Delivery!vars)
  BY DEF QP!Delivery!Next, QueueOnly!Delivery!Next, QP!Delivery!Submit,
      QueueOnly!Delivery!Submit, QP!Delivery!Succeed, QueueOnly!Delivery!Succeed,
      QP!Delivery!Complete, QueueOnly!Delivery!Complete, QP!Delivery!Fail,
      QueueOnly!Delivery!Fail, QP!Delivery!vars, QueueOnly!Delivery!vars, QP!Outcome,
      QueueOnly!Outcome
<1>4. QED
  BY <1>1, <1>2, <1>3, SpecImpliesBoth, PTL
  DEF QP!ImplementsDelivery, QueueOnly!ImplementsDelivery, QP!Delivery!Spec,
      QueueOnly!Delivery!Spec

=============================================================================
