---------------------- MODULE NotificationQueue_proofs ----------------------
(***************************************************************************)
(* Proofs about NotificationQueue, for any number of rows and workers.     *)
(***************************************************************************)
EXTENDS NotificationQueue, TLAPS, FiniteSetTheorems

-----------------------------------------------------------------------------
(* Type correctness.                                                       *)

LEMMA InitType == Init => TypeOK
BY AttemptsAssumption, QueueContactsAssumption DEF Init, TypeOK, LogStatus, WorkerStep

\* A claim takes rows of the queue that are not locked.
LEMMA BatchOfClaimable ==
  ASSUME NEW S \in Batches
  PROVE  /\ S # {}
         /\ S \subseteq inQueue \ locked
         /\ \A n \in S : attempts[n] < MaxAttempts
BY DEF Batches, Claimable

\* Every step of the worker that has a row in hand took it from its batch.
CurOK ==
  \A w \in Workers :
    wpc[w] \in {"send", "log", "ack", "nack"} => cur[w] \in batch[w]

\* Rows still in the queue have attempts left, rows not yet in it all of them.
AttemptsLeft ==
  /\ \A n \in inQueue : attempts[n] < MaxAttempts
  /\ \A n \in Ids \ entered : attempts[n] = 0

\* A worker only has rows that were queued.
BatchEntered == \A w \in Workers : batch[w] \subseteq entered

TypeInv == TypeOK /\ CurOK /\ AttemptsLeft /\ BatchEntered

LEMMA InitTypeInv == Init => TypeInv
BY InitType DEF Init, TypeInv, CurOK, AttemptsLeft, BatchEntered

LEMMA PollType ==
  ASSUME TypeInv, NEW w \in Workers, Poll(w)
  PROVE  TypeInv'
<1> USE DEF TypeInv, TypeOK, CurOK, AttemptsLeft, BatchEntered, GoTo, WorkerStep
<1>1. CASE Claim(w)
  BY <1>1, BatchOfClaimable DEF Claim, logVars, historyVars
<1>2. CASE SelectRows(w)
  BY <1>2, BatchOfClaimable DEF SelectRows, logVars, queueVars, historyVars
<1>3. CASE LockRows(w)
  BY <1>3 DEF LockRows, logVars, historyVars
<1>4. QED
  BY <1>1, <1>2, <1>3 DEF Poll

LEMMA AckQueueType ==
  ASSUME TypeInv, NEW n \in entered, NEW ok \in BOOLEAN, ack_queue_item(n, ok)
  PROVE  /\ attempts' \in [Ids -> 0 .. MaxAttempts]
         /\ inQueue' \subseteq inQueue
         /\ locked' \subseteq locked
         /\ \A m \in inQueue' : attempts'[m] < MaxAttempts
         /\ \A m \in Ids \ {n} : /\ attempts'[m] = attempts[m]
                                 /\ m \in inQueue <=> m \in inQueue'
                                 /\ m \in locked <=> m \in locked'
<1>1. CASE n \notin inQueue
  BY <1>1 DEF ack_queue_item, TypeInv, TypeOK, AttemptsLeft, queueVars
<1>2. CASE n \in inQueue /\ ok
  BY <1>2 DEF ack_queue_item, TypeInv, TypeOK, AttemptsLeft
<1>3. CASE n \in inQueue /\ ~ ok
  <2>1. attempts[n] + 1 \in 0 .. MaxAttempts
    BY <1>3, AttemptsAssumption DEF TypeInv, TypeOK, AttemptsLeft
  <2>2. attempts' = [attempts EXCEPT ![n] = @ + 1] /\ locked' = locked \ {n}
    BY <1>3 DEF ack_queue_item
  <2>3. inQueue' = IF attempts[n] + 1 >= MaxAttempts THEN inQueue \ {n} ELSE inQueue
    BY <1>3 DEF ack_queue_item
  <2>4. QED
    BY <1>3, <2>1, <2>2, <2>3, AttemptsAssumption
    DEF TypeInv, TypeOK, AttemptsLeft
<1>4. QED
  BY <1>1, <1>2, <1>3

LEMMA BeginType ==
  ASSUME TypeInv, NEW w \in Workers, Begin(w)
  PROVE  TypeInv'
<1>1. PICK n \in batch[w] :
        /\ cur' = [cur EXCEPT ![w] = n]
        /\ \E step \in {"ack", "send", "nack"} : wpc' = [wpc EXCEPT ![w] = step]
        /\ success' \in {success, [success EXCEPT ![w] = FALSE]}
        /\ faults' \in {faults, faults + 1}
  BY DEF Begin, GoTo, Fault
<1>2. UNCHANGED <<logVars, queueVars, contact, batch, historyVars>>
  BY DEF Begin
<1>3. n \in Ids
  BY <1>1 DEF TypeInv, TypeOK
<1>4. PICK step \in {"ack", "send", "nack"} : wpc' = [wpc EXCEPT ![w] = step]
  BY <1>1
<1>9. success' \in [Workers -> BOOLEAN]
  <2>1. CASE success' = success
    BY <2>1 DEF TypeInv, TypeOK
  <2>2. CASE success' = [success EXCEPT ![w] = FALSE]
    BY <2>2 DEF TypeInv, TypeOK
  <2>3. QED
    BY <1>1, <2>1, <2>2
<1>10. cur' \in [Workers -> Ids \cup {None}]
  BY <1>1, <1>3 DEF TypeInv, TypeOK
<1>11. wpc' \in [Workers -> WorkerStep]
  BY <1>4 DEF TypeInv, TypeOK, WorkerStep
<1>12. faults' \in Nat
  BY <1>1 DEF TypeInv, TypeOK
<1>5. TypeOK'
  BY <1>2, <1>9, <1>10, <1>11, <1>12
  DEF TypeInv, TypeOK, logVars, queueVars, historyVars
<1>6. CurOK'
  BY <1>1, <1>2, <1>4 DEF TypeInv, TypeOK, CurOK
<1>7. AttemptsLeft' /\ BatchEntered'
  BY <1>2 DEF TypeInv, AttemptsLeft, BatchEntered, logVars, queueVars
<1>8. QED
  BY <1>5, <1>6, <1>7 DEF TypeInv

LEMMA SendType ==
  ASSUME TypeInv, NEW w \in Workers, Send(w)
  PROVE  TypeInv'
<1>1. cur[w] \in Ids /\ cur[w] \in entered /\ info[cur[w]].user \in Users
  BY DEF Send, TypeInv, TypeOK, CurOK, BatchEntered
<1>2. sends' \in [Ids -> Nat]
  BY <1>1 DEF Send, TypeInv, TypeOK
<1>8. success' \in [Workers -> BOOLEAN]
  <2>1. PICK b \in BOOLEAN : success' = [success EXCEPT ![w] = b]
    <3>1. (info[cur[w]].channel = "whatsapp") \in BOOLEAN
      OBVIOUS
    <3>2. QED
      BY <3>1, Zenon DEF Send
  <2>2. QED
    BY <2>1 DEF TypeInv, TypeOK
<1>3. contact' \in [Users -> SUBSET ContactFields]
  BY <1>1 DEF Send, AfterRefusal, ContactFields, TypeInv, TypeOK
<1>4. accepted' \subseteq Ids
  BY <1>1 DEF Send, TypeInv, TypeOK
<1>5. UNCHANGED <<logVars, queueVars, batch, cur, faults>> /\ wpc' = [wpc EXCEPT ![w] = "log"]
  BY DEF Send, GoTo
<1>6. wpc[w] = "send"
  BY DEF Send
<1>7. QED
  BY <1>1, <1>2, <1>3, <1>4, <1>5, <1>6, <1>8
  DEF TypeInv, TypeOK, CurOK, AttemptsLeft, BatchEntered, WorkerStep, logVars,
      queueVars

LEMMA UpdateLogType ==
  ASSUME TypeInv, NEW w \in Workers, UpdateLog(w)
  PROVE  TypeInv'
<1>1. cur[w] \in Ids /\ cur[w] \in entered
  BY DEF UpdateLog, TypeInv, TypeOK, CurOK, BatchEntered
<1>2. /\ answered' \subseteq entered /\ reported' \subseteq answered'
      /\ status' \in [Ids -> LogStatus] /\ failed' \subseteq Ids /\ faults' \in Nat
      /\ \A n \in Ids : status'[n] = "none" <=> status[n] = "none"
  BY <1>1
  DEF UpdateLog, update_notification_status, Answered, Fault, TypeInv, TypeOK, LogStatus
<1>3. /\ wpc[w] = "log" /\ wpc' = [wpc EXCEPT ![w] = "ack"]
      /\ UNCHANGED <<info, entered, queueVars, contact, batch, cur, success, historyVars>>
  BY DEF UpdateLog, GoTo
<1>4. TypeOK'
  <2>1. wpc' \in [Workers -> WorkerStep]
    BY <1>3 DEF TypeInv, TypeOK, WorkerStep
  <2>2. /\ \A n \in Ids : status'[n] # "none" =>
             info'[n].user \in Users /\ info'[n].channel \in Channels
        /\ entered' \subseteq {n \in Ids : status'[n] # "none"}
        /\ info' = [n \in Ids |-> info'[n]]
    BY <1>2, <1>3 DEF TypeInv, TypeOK
  <2>3. QED
    BY <1>2, <1>3, <2>1, <2>2 DEF TypeInv, TypeOK, queueVars, historyVars
<1>5. QED
  BY <1>3, <1>4 DEF TypeInv, TypeOK, CurOK, AttemptsLeft, BatchEntered, queueVars

LEMMA FinishType ==
  ASSUME TypeInv, NEW w \in Workers, Finish(w), cur[w] \in batch[w]
  PROVE  /\ wpc' \in [Workers -> WorkerStep]
         /\ batch' \in [Workers -> SUBSET Ids]
         /\ cur' \in [Workers -> Ids \cup {None}]
         /\ success' \in [Workers -> BOOLEAN]
         /\ CurOK'
         /\ \A v \in Workers : batch'[v] \subseteq entered
BY DEF Finish, GoTo, TypeInv, TypeOK, CurOK, BatchEntered, WorkerStep

LEMMA AckType ==
  ASSUME TypeInv, NEW w \in Workers, Ack(w) \/ Nack(w)
  PROVE  TypeInv'
<1>1. cur[w] \in batch[w] /\ cur[w] \in entered
  BY DEF Ack, Nack, TypeInv, CurOK, BatchEntered
<1>2. UNCHANGED <<logVars, contact, historyVars>>
  BY DEF Ack, Nack
<1>3. ASSUME NEW ok \in BOOLEAN, ack_queue_item(cur[w], ok), Finish(w), UNCHANGED faults
      PROVE  TypeInv'
  BY <1>1, <1>2, <1>3, AckQueueType, FinishType
  DEF TypeInv, TypeOK, AttemptsLeft, BatchEntered, logVars, historyVars
<1>4. ASSUME Fault, Finish(w), UNCHANGED queueVars
      PROVE  TypeInv'
  BY <1>1, <1>2, <1>4, FinishType
  DEF TypeInv, TypeOK, AttemptsLeft, BatchEntered, logVars, queueVars, historyVars, Fault
<1>5. ASSUME wpc[w] = "ack", Fault, GoTo(w, "nack"), UNCHANGED <<queueVars, batch, cur, success>>
      PROVE  TypeInv'
  BY <1>1, <1>2, <1>5
  DEF TypeInv, TypeOK, CurOK, AttemptsLeft, BatchEntered, logVars, queueVars, historyVars, Fault,
      GoTo, WorkerStep
<1>6. success[w] \in BOOLEAN
  BY DEF TypeInv, TypeOK
<1>7. QED
  BY <1>3, <1>4, <1>5, <1>6 DEF Ack, Nack

LEMMA CrashType ==
  ASSUME TypeInv, NEW w \in Workers, WorkerCrash(w)
  PROVE  TypeInv'
BY DEF WorkerCrash, Fault, GoTo, TypeInv, TypeOK, CurOK, AttemptsLeft,
       BatchEntered, WorkerStep, logVars, queueVars, historyVars

LEMMA ExpiryType ==
  ASSUME TypeInv, NEW n \in Ids, LockExpires(n)
  PROVE  TypeInv'
BY DEF LockExpires, Fault, TypeInv, TypeOK, CurOK, AttemptsLeft, BatchEntered,
       logVars, workerVars, historyVars

LEMMA EnvironmentType ==
  ASSUME TypeInv, QueueEnvironment
  PROVE  TypeInv'
<1> USE DEF TypeInv, TypeOK, CurOK, AttemptsLeft, BatchEntered, LogStatus
<1>1. ASSUME NEW n \in Ids, NewLogRow(n) PROVE TypeInv'
  BY <1>1 DEF NewLogRow, Address, queueVars, workerVars, historyVars
<1>2. ASSUME NEW n \in Ids, NewQueueRow(n) PROVE TypeInv'
  <2>1. attempts[n] = 0
    BY <1>2 DEF NewQueueRow
  <2>2. QED
    BY <1>2, <2>1, AttemptsAssumption DEF NewQueueRow, workerVars, historyVars
<1>3. ASSUME NEW n \in Ids, NotQueued(n) PROVE TypeInv'
  BY <1>3 DEF NotQueued, update_notification_status, queueVars, workerVars, historyVars
<1>4. ASSUME NEW n \in Ids, MarkRead(n) PROVE TypeInv'
  BY <1>4 DEF MarkRead, queueVars, workerVars, historyVars
<1>5. ASSUME NEW u \in Users, ContactChange(u) PROVE TypeInv'
  BY <1>5, QueueContactsAssumption DEF ContactChange, logVars, queueVars, workerVars, historyVars
<1>6. ASSUME NEW n \in Ids, ProviderReport(n) PROVE TypeInv'
  <2>1. PICK s \in LogStatus :
          /\ s # "none"
          /\ status' = [status EXCEPT ![n] = s]
          /\ failed' \in {failed, failed \cup {n}}
    BY <1>6, ReceiptsAssumption DEF ProviderReport, update_notification_status
  <2> HIDE DEF LogStatus
  <2>2. QED
    BY <1>6, <2>1 DEF ProviderReport, queueVars, workerVars, historyVars
<1>7. QED
  BY <1>1, <1>2, <1>3, <1>4, <1>5, <1>6 DEF QueueEnvironment

LEMMA NextTypeInv == TypeInv /\ [Next]_vars => TypeInv'
<1> SUFFICES ASSUME TypeInv, [Next]_vars PROVE TypeInv'
  OBVIOUS
<1>1. CASE WorkerNext
  <2>1. ASSUME NEW w \in Workers, Work(w) PROVE TypeInv'
    BY <2>1, BeginType, SendType, UpdateLogType, AckType DEF Work
  <2>2. QED
    BY <1>1, <2>1, PollType, CrashType, ExpiryType DEF WorkerNext
<1>2. CASE QueueEnvironment
  BY <1>2, EnvironmentType
<1>3. CASE UNCHANGED vars
  BY <1>3
  DEF vars, logVars, queueVars, workerVars, historyVars, TypeInv, TypeOK, CurOK,
      AttemptsLeft, BatchEntered
<1>4. QED
  BY <1>1, <1>2, <1>3 DEF Next

\* Every variable of the queue and its workers keeps its type: in particular
\* attempt_count stays within max_attempts, whatever workers and faults do.
THEOREM QueueTypeCorrect == Spec => []TypeOK
<1>1. TypeInv => TypeOK
  BY DEF TypeInv
<1>2. QED
  BY <1>1, InitTypeInv, NextTypeInv, PTL DEF Spec

-----------------------------------------------------------------------------
(* Locks: on PostgreSQL, and while no lock is outlived, one worker at most *)
(* has a row in hand.                                                      *)

LocksHold == Dialect = "postgresql" /\ MaySlow = FALSE

\* A row in a worker's hand is in no other's, and is locked while it exists.
LockInv ==
  /\ \A w \in Workers : wpc[w] # "selected"
  /\ \A w \in Workers : wpc[w] = "idle" => batch[w] = {}
  /\ \A v, w \in Workers : v # w => batch[v] \cap batch[w] = {}
  /\ \A w \in Workers : batch[w] \cap inQueue \subseteq locked

LEMMA FinishBatch ==
  ASSUME TypeInv, NEW w \in Workers, Finish(w)
  PROVE  /\ batch' = [batch EXCEPT ![w] = batch[w] \ {cur[w]}]
         /\ \A v \in Workers : v # w => batch'[v] = batch[v] /\ wpc'[v] = wpc[v]
         /\ wpc'[w] \in {"idle", "next"}
         /\ wpc'[w] = "idle" => batch'[w] = {}
BY DEF Finish, GoTo, TypeInv, TypeOK

LEMMA LockInvAck ==
  ASSUME TypeInv, LockInv, NEW w \in Workers, Ack(w) \/ Nack(w)
  PROVE  LockInv'
<1>1. cur[w] \in batch[w] /\ cur[w] \in entered /\ success[w] \in BOOLEAN
  BY DEF Ack, Nack, TypeInv, TypeOK, CurOK, BatchEntered
<1>2. ASSUME NEW ok \in BOOLEAN, ack_queue_item(cur[w], ok), Finish(w)
      PROVE  LockInv'
  <2>1. \A m \in Ids \ {cur[w]} : /\ m \in inQueue <=> m \in inQueue'
                                  /\ m \in locked <=> m \in locked'
    BY <1>1, <1>2, AckQueueType
  <2>2. \A v \in Workers : batch'[v] \subseteq batch[v] /\ cur[w] \notin batch'[v]
    BY <1>1, <1>2, FinishBatch DEF TypeInv, TypeOK, LockInv
  <2>3. \A v \in Workers : batch'[v] \cap inQueue' \subseteq locked'
    BY <2>1, <2>2 DEF TypeInv, TypeOK, LockInv
  <2>4. QED
    BY <1>2, <2>2, <2>3, FinishBatch DEF LockInv
<1>3. ASSUME Finish(w), UNCHANGED queueVars
      PROVE  LockInv'
  <2>1. \A v \in Workers : batch'[v] \subseteq batch[v]
    BY <1>3, FinishBatch DEF TypeInv, TypeOK
  <2>2. QED
    BY <1>3, <2>1, FinishBatch DEF LockInv, queueVars
<1>4. ASSUME wpc[w] = "ack", GoTo(w, "nack"), UNCHANGED <<queueVars, batch>>
      PROVE  LockInv'
  BY <1>4 DEF LockInv, GoTo, queueVars, TypeInv, TypeOK
<1>5. QED
  BY <1>1, <1>2, <1>3, <1>4 DEF Ack, Nack

LEMMA LockInvWork ==
  ASSUME TypeInv, LockInv, NEW w \in Workers, Begin(w) \/ Send(w) \/ UpdateLog(w)
  PROVE  LockInv'
<1>1. UNCHANGED <<queueVars, batch>> /\ wpc[w] # "idle"
  BY DEF Begin, Send, UpdateLog
<1>2. \E step \in {"ack", "send", "nack", "log"} : wpc' = [wpc EXCEPT ![w] = step]
  BY DEF Begin, Send, UpdateLog, GoTo
<1>3. QED
  BY <1>1, <1>2 DEF LockInv, queueVars, TypeInv, TypeOK

LEMMA LockInvNext ==
  ASSUME Dialect = "postgresql", MaySlow = FALSE \/ faults' = 0,
         TypeInv, LockInv, [Next]_vars
  PROVE  LockInv'
<1>1. ASSUME NEW w \in Workers, Poll(w) PROVE LockInv'
  <2>1. Claim(w)
    BY <1>1 DEF Poll, SelectRows, LockRows, LockInv
  <2>2. PICK S \in Batches : batch' = [batch EXCEPT ![w] = S] /\ locked' = locked \cup S
    BY <2>1 DEF Claim
  <2>3. S \subseteq inQueue \ locked
    BY BatchOfClaimable
  <2>4. \A v \in Workers : batch[v] \cap S = {}
    BY <2>3 DEF LockInv
  <2>5. QED
    BY <2>1, <2>2, <2>4 DEF Claim, GoTo, LockInv, TypeInv, TypeOK
<1>2. ASSUME NEW w \in Workers, Work(w) PROVE LockInv'
  BY <1>2, LockInvAck, LockInvWork DEF Work
<1>3. ASSUME NEW w \in Workers, WorkerCrash(w) PROVE LockInv'
  BY <1>3 DEF WorkerCrash, GoTo, LockInv, TypeInv, TypeOK, queueVars
<1>4. ASSUME NEW n \in Ids, LockExpires(n) PROVE LockInv'
  <2>1. \A w \in Workers : n \notin batch[w]
    BY <1>4 DEF LockExpires, Fault, Holders, LockInv, TypeInv, TypeOK
  <2>2. QED
    BY <1>4, <2>1 DEF LockExpires, LockInv, workerVars
<1>5. CASE QueueEnvironment
  <2>1. UNCHANGED <<workerVars, locked>>
    BY <1>5 DEF QueueEnvironment, NewLogRow, NewQueueRow, NotQueued, MarkRead,
                ProviderReport, ContactChange, queueVars
  <2>2. \A w \in Workers : batch[w] \cap inQueue' \subseteq inQueue
    BY <1>5 DEF QueueEnvironment, NewLogRow, NewQueueRow, NotQueued, MarkRead,
                ProviderReport, ContactChange, queueVars, TypeInv, BatchEntered
  <2>3. QED
    BY <2>1, <2>2 DEF LockInv, workerVars
<1>6. CASE UNCHANGED vars
  BY <1>6 DEF vars, queueVars, workerVars, LockInv
<1>7. QED
  BY <1>1, <1>2, <1>3, <1>4, <1>5, <1>6 DEF Next, WorkerNext

LEMMA LockInvExclusive == TypeInv /\ LockInv => ExclusiveHolder
<1> SUFFICES ASSUME TypeInv, LockInv, NEW n \in Ids
             PROVE  Cardinality(Holders(n)) <= 1
  BY DEF ExclusiveHolder
<1>1. CASE Holders(n) = {}
  BY <1>1, FS_EmptySet
<1>2. CASE Holders(n) # {}
  <2>1. PICK w \in Workers : w \in Holders(n)
    BY <1>2 DEF Holders
  <2>2. Holders(n) = {w}
    BY <2>1 DEF Holders, LockInv
  <2>3. QED
    BY <2>2, FS_Singleton
<1>3. QED
  BY <1>1, <1>2

\* "Postgres-safe for multiple workers": for any number of workers and rows, any
\* interleaving, crashes and exceptions, no two workers have one row in hand, as
\* long as a batch is handled within its lock.
THEOREM QueueExclusiveHolder ==
  ASSUME LocksHold
  PROVE  Spec => []ExclusiveHolder
<1>1. Init => LockInv
  BY DEF Init, LockInv
<1>2. TypeInv /\ LockInv /\ [Next]_vars => LockInv'
  BY LockInvNext DEF LocksHold
<1>3. QED
  BY <1>1, <1>2, InitTypeInv, NextTypeInv, LockInvExclusive, PTL DEF Spec

-----------------------------------------------------------------------------
(* Sends: what an attempt costs is paid by the attempt counter or a fault. *)

\* Workers that may still call the provider for a row they have claimed.
Unsent(n) ==
  {w \in Workers : /\ n \in batch[w]
                   /\ ~ (cur[w] = n /\ wpc[w] \in {"log", "ack", "nack"})}

\* A row that can be, or will be, claimed once more without a further fault.
Free(n) == n \in inQueue /\ (n \notin locked \/ Holders(n) = {})

\* Attempts begun so far, as the attempt counter knows them.
Budget(n) ==
  IF n \in inQueue THEN 1 + attempts[n] ELSE IF n \in entered THEN MaxAttempts ELSE 0

SendInvAt(n) ==
  sends[n] + Cardinality(Unsent(n)) + (IF Free(n) THEN 1 ELSE 0) <= Budget(n) + faults

SendInv ==
  /\ \A w \in Workers : wpc[w] # "selected"
  /\ \A w \in Workers : wpc[w] = "idle" => batch[w] = {}
  /\ \A n \in Ids : SendInvAt(n)

LEMMA UnsentFinite ==
  ASSUME NEW n
  PROVE  /\ IsFiniteSet(Unsent(n))
         /\ Cardinality(Unsent(n)) \in Nat
<1>1. Unsent(n) \subseteq Workers
  BY DEF Unsent
<1>2. QED
  BY <1>1, WorkersAssumption, FS_Subset, FS_CardinalityType

\* Fewer workers with a row in hand, and no more sends: the account still holds
\* when the budget grew as much as the row became free.
LEMMA SendInvKept ==
  ASSUME TypeInv, NEW n \in Ids, SendInvAt(n), faults' \in Nat, Budget(n)' \in Nat,
         sends'[n] = sends[n], Unsent(n)' \subseteq Unsent(n),
         (IF Free(n)' THEN 1 ELSE 0) + Budget(n) + faults
           <= (IF Free(n) THEN 1 ELSE 0) + Budget(n)' + faults'
  PROVE  SendInvAt(n)'
<1>1. /\ Cardinality(Unsent(n)') <= Cardinality(Unsent(n))
      /\ Cardinality(Unsent(n)') \in Nat
      /\ Cardinality(Unsent(n)) \in Nat
  BY UnsentFinite, FS_Subset, FS_CardinalityType
<1>2. Budget(n) \in Nat /\ faults \in Nat /\ sends[n] \in Nat
  BY AttemptsAssumption DEF Budget, TypeInv, TypeOK
<1>3. QED
  BY <1>1, <1>2 DEF SendInvAt

LEMMA BudgetIsNat == TypeInv => \A n \in Ids : Budget(n) \in Nat
BY AttemptsAssumption DEF Budget, TypeInv, TypeOK

\* One more fault pays for a row that becomes free.
LEMMA FaultPays ==
  ASSUME TypeInv, SendInv, NEW n \in Ids, Unsent(n)' \subseteq Unsent(n),
         sends' = sends, Budget(n)' = Budget(n), faults' = faults + 1
  PROVE  SendInvAt(n)'
<1>1. faults \in Nat /\ Budget(n) \in Nat /\ SendInvAt(n)
  BY BudgetIsNat DEF SendInv, TypeInv, TypeOK
<1>2. (IF Free(n)' THEN 1 ELSE 0) <= 1 /\ (IF Free(n) THEN 1 ELSE 0) >= 0
  OBVIOUS
<1>3. (IF Free(n)' THEN 1 ELSE 0) + Budget(n) + faults
        <= (IF Free(n) THEN 1 ELSE 0) + Budget(n)' + faults'
  BY <1>1, <1>2
<1>4. QED
  BY <1>1, <1>3, SendInvKept

LEMMA SendInvClaim ==
  ASSUME TypeInv, TypeInv', SendInv, NEW w \in Workers, Claim(w)
  PROVE  SendInv'
<1>1. PICK S \in Batches : batch' = [batch EXCEPT ![w] = S] /\ locked' = locked \cup S
  BY DEF Claim
<1>2. S \subseteq inQueue \ locked /\ S \subseteq Ids
  BY BatchOfClaimable DEF TypeInv, TypeOK
<1>3. batch[w] = {} /\ wpc' = [wpc EXCEPT ![w] = "next"]
  BY DEF Claim, SendInv, GoTo
<1>4. UNCHANGED <<inQueue, attempts, entered, sends, faults, cur>>
  BY DEF Claim, logVars, historyVars
<1>5. ASSUME NEW n \in S PROVE SendInvAt(n)'
  <2>1. Unsent(n)' = Unsent(n) \cup {w} /\ w \notin Unsent(n)
    BY <1>1, <1>3, <1>4 DEF Unsent, TypeInv, TypeOK
  <2>2. Cardinality(Unsent(n)') = Cardinality(Unsent(n)) + 1
    BY <2>1, UnsentFinite, FS_AddElement
  <2>3. Free(n) /\ ~ Free(n)'
    BY <1>1, <1>2, <1>3 DEF Free, Holders, TypeInv, TypeOK
  <2>4. Budget(n)' = Budget(n) /\ Budget(n) \in Nat
    BY <1>2, <1>4, BudgetIsNat DEF Budget
  <2>5. SendInvAt(n) /\ n \in Ids
    BY <1>2 DEF SendInv
  <2>6. sends[n] \in Nat /\ faults \in Nat
    BY <1>2 DEF TypeInv, TypeOK
  <2>7. QED
    BY <1>4, <2>2, <2>3, <2>4, <2>5, <2>6, UnsentFinite DEF SendInvAt
<1>6. ASSUME NEW n \in Ids \ S PROVE SendInvAt(n)'
  <2>1. Unsent(n)' \subseteq Unsent(n) /\ Holders(n)' = Holders(n)
    BY <1>1, <1>3, <1>4 DEF Unsent, Holders, SendInv, TypeInv, TypeOK
  <2>2. Free(n)' <=> Free(n)
    BY <1>1, <1>4, <2>1 DEF Free
  <2>3. Budget(n)' = Budget(n)
    BY <1>4 DEF Budget
  <2>4. QED
    BY <1>4, <2>1, <2>2, <2>3, BudgetIsNat, SendInvKept DEF SendInv, TypeInv, TypeOK
<1>7. QED
  BY <1>1, <1>3, <1>5, <1>6 DEF SendInv, TypeInv, TypeOK

\* Begin and UpdateLog: no call, no acknowledgement.
LEMMA SendInvStep ==
  ASSUME TypeInv, TypeInv', SendInv, NEW w \in Workers, Begin(w) \/ UpdateLog(w)
  PROVE  SendInv'
<1>1. UNCHANGED <<queueVars, batch, entered, historyVars>>
  BY DEF Begin, UpdateLog, logVars
<1>2. faults' \in {faults, faults + 1} /\ wpc[w] # "idle"
  BY DEF Begin, UpdateLog, Fault
<1>3. PICK step \in {"ack", "send", "nack"} : wpc' = [wpc EXCEPT ![w] = step]
  BY DEF Begin, UpdateLog, GoTo
<1>4. ASSUME NEW n \in Ids PROVE SendInvAt(n)'
  <2>1. Unsent(n)' \subseteq Unsent(n)
    <3>1. CASE Begin(w)
      <4>1. wpc[w] = "next" /\ \A v \in Workers \ {w} : cur'[v] = cur[v] /\ wpc'[v] = wpc[v]
        BY <1>3, <3>1 DEF Begin, TypeInv, TypeOK
      <4>2. QED
        BY <1>1, <4>1 DEF Unsent
    <3>2. CASE UpdateLog(w)
      BY <1>1, <3>2 DEF UpdateLog, GoTo, Unsent, TypeInv, TypeOK
    <3>3. QED
      BY <3>1, <3>2
  <2>2. Holders(n)' = Holders(n)
    BY <1>1, <1>3 DEF Holders, SendInv, TypeInv, TypeOK
  <2>3. (Free(n)' <=> Free(n)) /\ Budget(n)' = Budget(n)
    BY <1>1, <2>2 DEF Free, Budget, queueVars
  <2>4. QED
    BY <1>1, <1>2, <2>1, <2>3, BudgetIsNat, SendInvKept
    DEF SendInv, TypeInv, TypeOK, historyVars
<1>5. QED
  BY <1>1, <1>2, <1>3, <1>4 DEF SendInv, TypeInv, TypeOK

LEMMA SendInvSend ==
  ASSUME TypeInv, TypeInv', SendInv, NEW w \in Workers, Send(w)
  PROVE  SendInv'
<1>1. UNCHANGED <<queueVars, batch, cur, faults, entered>>
  BY DEF Send, logVars
<1>2. wpc[w] = "send" /\ wpc' = [wpc EXCEPT ![w] = "log"]
  BY DEF Send, GoTo
<1>3. PICK n \in Ids : n = cur[w] /\ n \in batch[w]
  BY <1>2 DEF TypeInv, TypeOK, CurOK
<1>4. \/ UNCHANGED sends
      \/ sends' = [sends EXCEPT ![n] = @ + 1]
  BY <1>3 DEF Send
<1>5. ASSUME NEW m \in Ids
      PROVE  /\ Unsent(m)' = IF m = n THEN Unsent(m) \ {w} ELSE Unsent(m)
             /\ Holders(m)' = Holders(m)
             /\ Free(m)' <=> Free(m)
             /\ Budget(m)' = Budget(m)
  <2>1. Unsent(m)' = IF m = n THEN Unsent(m) \ {w} ELSE Unsent(m)
    BY <1>1, <1>2, <1>3 DEF Unsent, TypeInv, TypeOK
  <2>2. Holders(m)' = Holders(m)
    BY <1>1, <1>2 DEF Holders, TypeInv, TypeOK
  <2>3. QED
    BY <1>1, <2>1, <2>2 DEF Free, Budget, queueVars
<1>6. ASSUME NEW m \in Ids, sends'[m] = sends[m] PROVE SendInvAt(m)'
  <2>1. Unsent(m)' \subseteq Unsent(m) /\ (Free(m)' <=> Free(m)) /\ Budget(m)' = Budget(m)
    BY <1>5
  <2>2. faults' = faults /\ faults \in Nat
    BY <1>1 DEF TypeInv, TypeOK
  <2>3. SendInvAt(m) /\ Budget(m) \in Nat
    BY BudgetIsNat DEF SendInv
  <2>4. (IF Free(m)' THEN 1 ELSE 0) + Budget(m) + faults
          <= (IF Free(m) THEN 1 ELSE 0) + Budget(m)' + faults'
    BY <2>1, <2>2, <2>3
  <2>5. QED
    BY <1>6, <2>1, <2>2, <2>3, <2>4, SendInvKept
<1>7. ASSUME sends' = [sends EXCEPT ![n] = @ + 1] PROVE SendInvAt(n)'
  <2>1. w \in Unsent(n)
    BY <1>2, <1>3 DEF Unsent
  <2>2. Unsent(n)' = Unsent(n) \ {w}
    BY <1>3, <1>5
  <2>3. Cardinality(Unsent(n)') = Cardinality(Unsent(n)) - 1
    BY <2>1, <2>2, UnsentFinite, FS_RemoveElement
  <2>4. sends'[n] = sends[n] + 1 /\ sends[n] \in Nat /\ faults \in Nat
    BY <1>3, <1>7 DEF TypeInv, TypeOK
  <2>5. SendInvAt(n) /\ Budget(n) \in Nat
    BY <1>3, BudgetIsNat DEF SendInv
  <2>6. (Free(n)' <=> Free(n)) /\ Budget(n)' = Budget(n) /\ faults' = faults
    BY <1>1, <1>3, <1>5
  <2>7. QED
    BY <2>3, <2>4, <2>5, <2>6, UnsentFinite DEF SendInvAt
<1>8. \A m \in Ids : SendInvAt(m)'
  BY <1>3, <1>4, <1>6, <1>7 DEF TypeInv, TypeOK
<1>9. QED
  BY <1>1, <1>2, <1>8 DEF SendInv, TypeInv, TypeOK

\* A worker done with a row: it was not going to send it any more, and what it
\* has of other rows is as before.
LEMMA FinishSets ==
  ASSUME TypeInv, NEW w \in Workers, NEW n \in Ids, n = cur[w], Finish(w),
         wpc[w] \in {"ack", "nack"}
  PROVE  /\ Unsent(n)' \subseteq Unsent(n)
         /\ \A m \in Ids \ {n} : Unsent(m)' \subseteq Unsent(m) /\ Holders(m)' = Holders(m)
<1>1. /\ batch' = [batch EXCEPT ![w] = @ \ {n}]
      /\ \A v \in Workers \ {w} : wpc'[v] = wpc[v] /\ cur'[v] = cur[v]
      /\ wpc'[w] \in {"idle", "next"}
  BY DEF Finish, GoTo, TypeInv, TypeOK
<1>2. n \notin batch'[w]
  BY <1>1 DEF TypeInv, TypeOK
<1>3. Unsent(n)' \subseteq Unsent(n)
  BY <1>1, <1>2 DEF Unsent, TypeInv, TypeOK
<1>4. ASSUME NEW m \in Ids \ {n}
      PROVE  Unsent(m)' \subseteq Unsent(m) /\ Holders(m)' = Holders(m)
  BY <1>1, <1>4 DEF Unsent, Holders, TypeInv, TypeOK
<1>5. QED
  BY <1>3, <1>4

LEMMA SendInvAck ==
  ASSUME TypeInv, TypeInv', SendInv, NEW w \in Workers, Ack(w) \/ Nack(w)
  PROVE  SendInv'
<1>1. PICK n \in Ids : n = cur[w] /\ n \in batch[w] /\ n \in entered
  BY DEF Ack, Nack, TypeInv, TypeOK, CurOK, BatchEntered
<1>2. UNCHANGED <<entered, sends>> /\ wpc[w] \in {"ack", "nack"}
  BY DEF Ack, Nack, logVars, historyVars
<1>3. ASSUME Finish(w)
      PROVE  \A v \in Workers : wpc'[v] # "selected" /\ (wpc'[v] = "idle" => batch'[v] = {})
  BY <1>3, FinishBatch DEF SendInv
<1>4. ASSUME NEW ok \in BOOLEAN, ack_queue_item(n, ok), Finish(w), UNCHANGED faults
      PROVE  SendInv'
  <2>1. ASSUME NEW m \in Ids \ {n} PROVE SendInvAt(m)'
    <3>1. (Free(m)' <=> Free(m)) /\ Budget(m)' = Budget(m)
      BY <1>1, <1>2, <1>4, AckQueueType, FinishSets DEF Free, Budget
    <3>2. QED
      BY <1>1, <1>2, <1>4, <3>1, FinishSets, BudgetIsNat, SendInvKept
      DEF SendInv, TypeInv, TypeOK
  <2>2. (IF Free(n)' THEN 1 ELSE 0) + Budget(n) <= (IF Free(n) THEN 1 ELSE 0) + Budget(n)'
    <3>1. CASE n \notin inQueue
      <4>1. ~ Free(n)' /\ Budget(n)' = Budget(n)
        BY <1>2, <1>4, <3>1 DEF ack_queue_item, queueVars, Free, Budget
      <4>2. QED
        BY <4>1, BudgetIsNat
    <3>2. CASE n \in inQueue /\ ok
      <4>1. n \notin inQueue' /\ n \in entered'
        BY <1>1, <1>2, <1>4, <3>2 DEF ack_queue_item
      <4>2. ~ Free(n)' /\ Budget(n)' = MaxAttempts
        BY <4>1 DEF Free, Budget
      <4>3. Budget(n) <= MaxAttempts
        BY <3>2, AttemptsAssumption DEF Budget, TypeInv, TypeOK, AttemptsLeft
      <4>4. QED
        BY <4>2, <4>3, BudgetIsNat, AttemptsAssumption
    <3>3. CASE n \in inQueue /\ ~ ok
      <4>1. attempts'[n] = attempts[n] + 1 /\ attempts[n] \in Nat
        BY <1>4, <3>3 DEF ack_queue_item, TypeInv, TypeOK
      <4>2. inQueue' = IF attempts[n] + 1 >= MaxAttempts THEN inQueue \ {n} ELSE inQueue
        BY <1>4, <3>3 DEF ack_queue_item
      <4>3. CASE attempts[n] + 1 >= MaxAttempts
        <5>1. n \notin inQueue' /\ n \in entered'
          BY <1>1, <1>2, <4>2, <4>3
        <5>2. ~ Free(n)' /\ Budget(n)' = MaxAttempts
          BY <5>1 DEF Free, Budget
        <5>3. Budget(n) <= MaxAttempts
          BY <3>3, AttemptsAssumption DEF Budget, TypeInv, TypeOK, AttemptsLeft
        <5>4. QED
          BY <5>2, <5>3, BudgetIsNat, AttemptsAssumption
      <4>4. CASE attempts[n] + 1 < MaxAttempts
        <5>1. n \in inQueue'
          BY <3>3, <4>1, <4>2, <4>4, AttemptsAssumption
        <5>2. Budget(n)' = Budget(n) + 1 /\ Budget(n) \in Nat
          BY <3>3, <4>1, <5>1 DEF Budget
        <5>3. QED
          BY <5>2
      <4>5. QED
        BY <4>1, <4>3, <4>4, AttemptsAssumption
    <3>4. QED
      BY <3>1, <3>2, <3>3
  <2>3. Unsent(n)' \subseteq Unsent(n)
    BY <1>1, <1>2, <1>4, FinishSets
  <2>4. SendInvAt(n)'
    <3>1. /\ SendInvAt(n)
          /\ faults' = faults
          /\ faults \in Nat
          /\ sends'[n] = sends[n]
          /\ Budget(n) \in Nat
          /\ Budget(n)' \in Nat
      BY <1>2, <1>4, BudgetIsNat, AttemptsAssumption
      DEF SendInv, TypeInv, TypeOK, Budget
    <3>2. (IF Free(n)' THEN 1 ELSE 0) + Budget(n) + faults
            <= (IF Free(n) THEN 1 ELSE 0) + Budget(n)' + faults'
      BY <2>2, <3>1
    <3>3. QED
      BY <2>3, <3>1, <3>2, SendInvKept
  <2>5. QED
    BY <1>3, <1>4, <2>1, <2>4 DEF SendInv
<1>5. ASSUME Fault, Finish(w), UNCHANGED queueVars PROVE SendInv'
  <2>1. ASSUME NEW m \in Ids PROVE SendInvAt(m)'
    <3>1. Budget(m)' = Budget(m) /\ faults' = faults + 1
      BY <1>2, <1>5 DEF Budget, queueVars, Fault
    <3>2. Unsent(m)' \subseteq Unsent(m)
      BY <1>1, <1>2, <1>5, FinishSets
    <3>3. QED
      BY <1>2, <3>1, <3>2, FaultPays
  <2>2. QED
    BY <1>3, <1>5, <2>1 DEF SendInv
<1>6. ASSUME wpc[w] = "ack", Fault, GoTo(w, "nack"), UNCHANGED <<queueVars, batch, cur>>
      PROVE  SendInv'
  <2>1. ASSUME NEW m \in Ids PROVE SendInvAt(m)'
    <3>1. Budget(m)' = Budget(m) /\ faults' = faults + 1
      BY <1>2, <1>6 DEF Budget, queueVars, Fault
    <3>2. Unsent(m)' \subseteq Unsent(m)
      BY <1>6 DEF Unsent, GoTo, TypeInv, TypeOK
    <3>3. QED
      BY <1>2, <3>1, <3>2, FaultPays
  <2>2. \A v \in Workers : wpc'[v] # "selected" /\ (wpc'[v] = "idle" => wpc[v] = "idle")
    BY <1>6 DEF SendInv, GoTo, TypeInv, TypeOK
  <2>3. QED
    BY <1>6, <2>1, <2>2 DEF SendInv
<1>7. success[w] \in BOOLEAN
  BY DEF TypeInv, TypeOK
<1>8. QED
  BY <1>1, <1>4, <1>5, <1>6, <1>7 DEF Ack, Nack

LEMMA SendInvCrash ==
  ASSUME TypeInv, TypeInv', SendInv, NEW w \in Workers, WorkerCrash(w)
  PROVE  SendInv'
<1>1. ASSUME NEW n \in Ids PROVE SendInvAt(n)'
  <2>1. Unsent(n)' \subseteq Unsent(n)
    BY DEF WorkerCrash, GoTo, Unsent, TypeInv, TypeOK
  <2>2. Budget(n)' = Budget(n) /\ faults' = faults + 1 /\ sends' = sends
    BY DEF WorkerCrash, Fault, Budget, queueVars, logVars, historyVars
  <2>3. QED
    BY <2>1, <2>2, FaultPays
<1>2. /\ \A v \in Workers : wpc'[v] = IF v = w THEN "idle" ELSE wpc[v]
      /\ \A v \in Workers : batch'[v] = IF v = w THEN {} ELSE batch[v]
  BY DEF WorkerCrash, GoTo, TypeInv, TypeOK
<1>3. QED
  BY <1>1, <1>2 DEF SendInv

LEMMA SendInvExpiry ==
  ASSUME TypeInv, TypeInv', SendInv, NEW k \in Ids, LockExpires(k)
  PROVE  SendInv'
<1>1. UNCHANGED <<entered, inQueue, attempts, workerVars, sends>> /\ locked' = locked \ {k}
  BY DEF LockExpires, logVars, historyVars
<1>2. ASSUME NEW n \in Ids PROVE SendInvAt(n)'
  <2>1. Unsent(n)' = Unsent(n) /\ Budget(n)' = Budget(n) /\ Holders(n)' = Holders(n)
    BY <1>1 DEF Unsent, Budget, Holders, workerVars
  <2>2. CASE n # k \/ Holders(k) = {}
    <3>1. Free(n)' <=> Free(n)
      BY <1>1, <2>1, <2>2 DEF Free, LockExpires
    <3>2. faults' \in {faults, faults + 1}
      BY DEF LockExpires, Fault
    <3>3. QED
      BY <1>1, <2>1, <3>1, <3>2, BudgetIsNat, SendInvKept DEF SendInv, TypeInv, TypeOK
  <2>3. CASE n = k /\ Holders(k) # {}
    <3>1. faults' = faults + 1
      BY <2>3 DEF LockExpires, Fault
    <3>2. QED
      BY <1>1, <2>1, <3>1, FaultPays
  <2>4. QED
    BY <2>2, <2>3
<1>3. QED
  BY <1>1, <1>2 DEF SendInv, workerVars

LEMMA SendInvEnvironment ==
  ASSUME TypeInv, TypeInv', SendInv, QueueEnvironment
  PROVE  SendInv'
<1>1. UNCHANGED <<attempts, locked, workerVars, faults, sends>>
  BY DEF QueueEnvironment, NewLogRow, NewQueueRow, NotQueued, MarkRead, ProviderReport, ContactChange,
         queueVars, historyVars
<1>2. ASSUME NEW n \in Ids PROVE SendInvAt(n)'
  <2>1. Unsent(n)' = Unsent(n) /\ Holders(n)' = Holders(n)
    BY <1>1 DEF Unsent, Holders, workerVars
  <2>2. CASE (n \in inQueue' <=> n \in inQueue) /\ (n \in entered' <=> n \in entered)
    <3>1. (Free(n)' <=> Free(n)) /\ Budget(n)' = Budget(n)
      BY <1>1, <2>1, <2>2 DEF Free, Budget
    <3>2. QED
      BY <1>1, <2>1, <3>1, BudgetIsNat, SendInvKept DEF SendInv, TypeInv, TypeOK
  <2>3. CASE n \in inQueue' \ entered
    <3>1. n \notin inQueue /\ attempts[n] = 0
      BY <2>3 DEF TypeInv, TypeOK, AttemptsLeft
    <3>2. Budget(n) = 0 /\ Budget(n)' = 1 /\ ~ Free(n)
      BY <1>1, <2>3, <3>1 DEF Budget, Free
    <3>3. QED
      BY <1>1, <2>1, <3>2, SendInvKept DEF SendInv, TypeInv, TypeOK
  <2>4. QED
    BY <2>2, <2>3
    DEF QueueEnvironment, NewLogRow, NewQueueRow, NotQueued, MarkRead, ProviderReport, ContactChange,
        queueVars, logVars, TypeInv, TypeOK
<1>3. QED
  BY <1>1, <1>2 DEF SendInv, workerVars

LEMMA SendInvNext ==
  ASSUME Dialect = "postgresql", TypeInv, SendInv, [Next]_vars
  PROVE  SendInv'
<1>1. TypeInv'
  BY NextTypeInv
<1>2. ASSUME NEW w \in Workers, Poll(w) PROVE SendInv'
  BY <1>1, <1>2, SendInvClaim DEF Poll, SelectRows, LockRows, SendInv
<1>3. ASSUME NEW w \in Workers, Work(w) PROVE SendInv'
  BY <1>1, <1>3, SendInvStep, SendInvSend, SendInvAck DEF Work
<1>4. CASE UNCHANGED vars
  <2>1. ASSUME NEW n \in Ids PROVE SendInvAt(n)'
    <3>1. Unsent(n)' = Unsent(n) /\ Holders(n)' = Holders(n) /\ Budget(n)' = Budget(n)
      BY <1>4 DEF vars, logVars, queueVars, workerVars, Unsent, Holders, Budget
    <3>2. QED
      BY <1>4, <3>1 DEF SendInv, SendInvAt, Free, vars, queueVars, historyVars
  <2>2. QED
    BY <1>4, <2>1 DEF SendInv, vars, workerVars
<1>5. QED
  BY <1>1, <1>2, <1>3, <1>4, SendInvCrash, SendInvExpiry, SendInvEnvironment
  DEF Next, WorkerNext

LEMMA SendInvInit == Init => SendInv
<1> SUFFICES ASSUME Init PROVE SendInv
  OBVIOUS
<1>1. ASSUME NEW n \in Ids PROVE SendInvAt(n)
  <2>1. Unsent(n) = {} /\ ~ Free(n) /\ Budget(n) = 0 /\ sends[n] = 0 /\ faults = 0
    BY DEF Init, Unsent, Free, Budget
  <2>2. QED
    BY <2>1, FS_EmptySet DEF SendInvAt
<1>2. QED
  BY <1>1 DEF Init, SendInv

LEMMA SendInvBounds ==
  ASSUME Dialect = "postgresql", TypeInv, SendInv
  PROVE  SendsBounded
<1> SUFFICES ASSUME NEW n \in Ids
             PROVE  sends[n] <= MaxAttempts + 0 + faults
  BY DEF SendsBounded
<1>1. Budget(n) <= MaxAttempts /\ Budget(n) \in Nat
  BY AttemptsAssumption DEF Budget, TypeInv, TypeOK, AttemptsLeft
<1>2. SendInvAt(n) /\ sends[n] \in Nat /\ faults \in Nat
  BY DEF SendInv, TypeInv, TypeOK
<1>3. QED
  BY <1>1, <1>2, UnsentFinite, AttemptsAssumption DEF SendInvAt

-----------------------------------------------------------------------------
(* Sends again, for both dialects: a claim of two steps lets every other   *)
(* worker keep a row that has left the queue.                              *)

\* Workers that have sent a row, or given it up, and not acknowledged it.
Unacked(n) ==
  {w \in Workers : n \in batch[w] /\ cur[w] = n /\ wpc[w] \in {"log", "ack", "nack"}}

\* Workers that have claimed a row and may still send it.
Holding(n) == Holders(n) \ Unacked(n)

\* While the row is in the queue, a send is counted, about to be counted, or was
\* lost to a fault. Once it is gone, those who still have it in hand may each
\* send it once; the one that removed it may not.
AccountAt(n) ==
  /\ n \in inQueue => sends[n] <= attempts[n] + Cardinality(Unacked(n)) + faults
  /\ n \in entered \ inQueue =>
       sends[n] + Cardinality(Holding(n)) <= MaxAttempts + Cardinality(Workers) - 1 + faults
  /\ n \notin entered => sends[n] = 0

AccountInv == \A n \in Ids : AccountAt(n)

LEMMA AccountFinite ==
  ASSUME NEW n
  PROVE  /\ IsFiniteSet(Unacked(n)) /\ Cardinality(Unacked(n)) \in Nat
         /\ IsFiniteSet(Holding(n)) /\ Cardinality(Holding(n)) \in Nat
         /\ Cardinality(Workers) \in Nat
<1>1. Unacked(n) \subseteq Workers /\ Holding(n) \subseteq Workers
  BY DEF Unacked, Holding, Holders
<1>2. QED
  BY <1>1, WorkersAssumption, FS_Subset, FS_CardinalityType

LEMMA AccountFiniteNext ==
  ASSUME NEW n
  PROVE  /\ IsFiniteSet(Unacked(n)') /\ Cardinality(Unacked(n)') \in Nat
         /\ IsFiniteSet(Holding(n)') /\ Cardinality(Holding(n)') \in Nat
<1>1. Unacked(n)' \subseteq Workers /\ Holding(n)' \subseteq Workers
  BY DEF Unacked, Holding, Holders
<1>2. QED
  BY <1>1, WorkersAssumption, FS_Subset, FS_CardinalityType

LEMMA OneMore ==
  ASSUME NEW S, IsFiniteSet(S), NEW x
  PROVE  IsFiniteSet(S \cup {x}) /\ Cardinality(S \cup {x}) <= Cardinality(S) + 1
<1>1. CASE x \in S
  <2> DEFINE T == S \cup {x}
  <2>1. T = S
    BY <1>1
  <2>2. Cardinality(S) \in Nat
    BY FS_CardinalityType
  <2> HIDE DEF T
  <2>3. IsFiniteSet(T) /\ Cardinality(T) <= Cardinality(S) + 1
    BY <2>1, <2>2
  <2>4. QED
    BY <2>3 DEF T
<1>2. CASE x \notin S
  <2>1. Cardinality(S) \in Nat
    BY FS_CardinalityType
  <2>2. QED
    BY <1>2, <2>1, FS_AddElement
<1>3. QED
  BY <1>1, <1>2

\* A row no step sends, counts or moves: workers may take it from the queue, and
\* a fault pays for one that forgets it.
LEMMA AccountKept ==
  ASSUME TypeInv, NEW n \in Ids, AccountAt(n), NEW w \in Workers,
         sends'[n] = sends[n], attempts'[n] = attempts[n],
         n \in inQueue' <=> n \in inQueue, n \in entered' <=> n \in entered,
         n \notin inQueue => Holding(n)' \subseteq Holding(n),
         \/ faults' = faults /\ Unacked(n) \subseteq Unacked(n)'
         \/ faults' = faults + 1 /\ Unacked(n) \ {w} \subseteq Unacked(n)'
  PROVE  AccountAt(n)'
<1> DEFINE a == Cardinality(Unacked(n))
           b == Cardinality(Unacked(n)')
           h == Cardinality(Holding(n))
           k == Cardinality(Holding(n)')
           m == Cardinality(Workers)
<1>1. a \in Nat /\ b \in Nat /\ h \in Nat /\ k \in Nat /\ m \in Nat
  BY AccountFinite, AccountFiniteNext
<1>2. sends[n] \in Nat /\ attempts[n] \in Nat /\ faults \in Nat
  BY DEF TypeInv, TypeOK
<1>3. n \notin inQueue => k <= h
  BY AccountFinite, FS_Subset
<1>4. \/ faults' = faults /\ a <= b
      \/ faults' = faults + 1 /\ a <= b + 1
  <2>1. CASE faults' = faults /\ Unacked(n) \subseteq Unacked(n)'
    BY <2>1, AccountFiniteNext, FS_Subset
  <2>2. CASE faults' = faults + 1 /\ Unacked(n) \ {w} \subseteq Unacked(n)'
    <3>1. Unacked(n) \subseteq Unacked(n)' \cup {w}
      BY <2>2
    <3>2. IsFiniteSet(Unacked(n)' \cup {w}) /\ Cardinality(Unacked(n)' \cup {w}) <= b + 1
      BY OneMore, AccountFiniteNext
    <3>3. a <= Cardinality(Unacked(n)' \cup {w}) /\ Cardinality(Unacked(n)' \cup {w}) \in Nat
      BY <3>1, <3>2, FS_Subset, FS_CardinalityType
    <3>4. QED
      BY <2>2, <3>2, <3>3, <1>1
  <2>3. QED
    BY <2>1, <2>2
<1>5. /\ n \in inQueue => sends[n] <= attempts[n] + a + faults
      /\ n \in entered \ inQueue => sends[n] + h <= MaxAttempts + m - 1 + faults
      /\ n \notin entered => sends[n] = 0
  BY DEF AccountAt
<1>6. SUFFICES /\ n \in inQueue' => sends'[n] <= attempts'[n] + b + faults'
               /\ n \in entered' \ inQueue' => sends'[n] + k <= MaxAttempts + m - 1 + faults'
               /\ n \notin entered' => sends'[n] = 0
  BY DEF AccountAt
<1> HIDE DEF a, b, h, k, m
<1>7. CASE n \in inQueue
  <2>1. n \in inQueue' /\ n \in entered /\ n \in entered'
    BY <1>7 DEF TypeInv, TypeOK
  <2>2. sends[n] <= attempts[n] + b + faults'
    BY <1>1, <1>2, <1>4, <1>5, <1>7
  <2>3. QED
    BY <2>1, <2>2
<1>8. CASE n \in entered \ inQueue
  <2>1. n \notin inQueue' /\ n \in entered'
    BY <1>8
  <2>2. sends[n] + k <= MaxAttempts + m - 1 + faults'
    BY <1>1, <1>2, <1>3, <1>4, <1>5, <1>8, AttemptsAssumption
  <2>3. QED
    BY <2>1, <2>2
<1>9. CASE n \notin entered
  BY <1>9, <1>5 DEF TypeInv, TypeOK
<1>10. QED
  BY <1>7, <1>8, <1>9

LEMMA AccountPoll ==
  ASSUME TypeInv, AccountInv, NEW w \in Workers, Poll(w)
  PROVE  AccountInv'
<1>1. UNCHANGED <<logVars, inQueue, attempts, cur, faults, historyVars>>
  BY DEF Poll, Claim, SelectRows, LockRows, queueVars
<1>2. /\ wpc[w] \in {"idle", "selected"}
      /\ wpc'[w] \in {"idle", "selected", "next"}
      /\ \A v \in Workers \ {w} : wpc'[v] = wpc[v] /\ batch'[v] = batch[v]
      /\ wpc'[w] # "selected" => batch'[w] \subseteq inQueue
  <2>1. CASE Claim(w)
    BY <2>1, BatchOfClaimable DEF Claim, GoTo, TypeInv, TypeOK
  <2>2. CASE SelectRows(w)
    BY <2>2 DEF SelectRows, GoTo, TypeInv, TypeOK
  <2>3. CASE LockRows(w)
    BY <2>3 DEF LockRows, GoTo, TypeInv, TypeOK
  <2>4. QED
    BY <2>1, <2>2, <2>3 DEF Poll
<1>3. ASSUME NEW n \in Ids PROVE AccountAt(n)'
  <2>1. Unacked(n)' = Unacked(n)
    BY <1>1, <1>2 DEF Unacked
  <2>2. n \notin inQueue => Holding(n)' \subseteq Holding(n)
    BY <1>2, <2>1 DEF Holding, Holders
  <2>3. QED
    BY <1>1, <2>1, <2>2, AccountKept DEF AccountInv, logVars, historyVars
<1>4. QED
  BY <1>3 DEF AccountInv

\* Begin and UpdateLog: no call, no acknowledgement.
LEMMA AccountStep ==
  ASSUME TypeInv, AccountInv, NEW w \in Workers, Begin(w) \/ UpdateLog(w)
  PROVE  AccountInv'
<1>1. UNCHANGED <<queueVars, batch, entered, historyVars>>
  BY DEF Begin, UpdateLog, logVars
<1>2. faults' \in {faults, faults + 1}
  BY DEF Begin, UpdateLog, Fault
<1>3. /\ \A v \in Workers \ {w} : wpc'[v] = wpc[v] /\ cur'[v] = cur[v]
      /\ wpc[w] # "selected" /\ wpc'[w] # "selected"
      /\ \/ wpc[w] = "next"
         \/ wpc[w] = "log" /\ wpc'[w] = "ack" /\ cur'[w] = cur[w]
  BY DEF Begin, UpdateLog, GoTo, TypeInv, TypeOK
<1>4. ASSUME NEW n \in Ids PROVE AccountAt(n)'
  <2>1. Unacked(n) \subseteq Unacked(n)'
    BY <1>1, <1>3 DEF Unacked
  <2>2. Holding(n)' \subseteq Holding(n)
    BY <1>1, <1>3, <2>1 DEF Holding, Holders
  <2>3. QED
    BY <1>1, <1>2, <2>1, <2>2, AccountKept DEF AccountInv, queueVars, historyVars
<1>5. QED
  BY <1>4 DEF AccountInv

LEMMA AccountSend ==
  ASSUME TypeInv, AccountInv, NEW w \in Workers, Send(w)
  PROVE  AccountInv'
<1>1. UNCHANGED <<queueVars, batch, cur, faults, entered>>
  BY DEF Send, logVars
<1>2. wpc[w] = "send" /\ wpc' = [wpc EXCEPT ![w] = "log"]
  BY DEF Send, GoTo
<1>3. PICK n \in Ids : n = cur[w] /\ n \in batch[w] /\ n \in entered
  BY <1>2 DEF TypeInv, TypeOK, CurOK, BatchEntered
<1>4. \/ UNCHANGED sends
      \/ sends' = [sends EXCEPT ![n] = @ + 1]
  BY <1>3 DEF Send
<1>5. ASSUME NEW m \in Ids
      PROVE  Unacked(m) \subseteq Unacked(m)' /\ Holding(m)' \subseteq Holding(m)
  <2>1. Unacked(m) \subseteq Unacked(m)'
    BY <1>1, <1>2 DEF Unacked, TypeInv, TypeOK
  <2>2. QED
    BY <1>1, <1>2, <2>1 DEF Holding, Holders, TypeInv, TypeOK
<1>6. ASSUME NEW m \in Ids, sends'[m] = sends[m] PROVE AccountAt(m)'
  BY <1>1, <1>5, <1>6, AccountKept DEF AccountInv, queueVars
<1>7. ASSUME sends' = [sends EXCEPT ![n] = @ + 1] PROVE AccountAt(n)'
  <2> DEFINE a == Cardinality(Unacked(n))
             h == Cardinality(Holding(n))
             m == Cardinality(Workers)
             s == sends[n]
             t == attempts[n]
  <2>1. w \notin Unacked(n) /\ Unacked(n)' = Unacked(n) \cup {w}
    BY <1>1, <1>2, <1>3 DEF Unacked, TypeInv, TypeOK
  <2>2. w \in Holding(n) /\ Holding(n)' = Holding(n) \ {w}
    BY <1>1, <1>2, <1>3, <2>1 DEF Holding, Holders, TypeInv, TypeOK
  <2>3. Cardinality(Unacked(n)') = a + 1
    BY <2>1, AccountFinite, FS_AddElement
  <2>4. Cardinality(Holding(n)') = h - 1
    BY <2>2, AccountFinite, FS_RemoveElement
  <2>5. a \in Nat /\ h \in Nat /\ m \in Nat
    BY AccountFinite
  <2>6. sends'[n] = s + 1 /\ s \in Nat /\ faults \in Nat /\ t \in Nat
    BY <1>3, <1>7 DEF TypeInv, TypeOK
  <2>7. /\ n \in inQueue => s <= t + a + faults
        /\ n \in entered \ inQueue => s + h <= MaxAttempts + m - 1 + faults
    BY <1>3 DEF AccountInv, AccountAt
  <2> HIDE DEF a, h, m, s, t
  <2>8. n \in inQueue => s + 1 <= t + (a + 1) + faults
    BY <2>5, <2>6, <2>7
  <2>9. n \in entered \ inQueue => (s + 1) + (h - 1) <= MaxAttempts + m - 1 + faults
    BY <2>5, <2>6, <2>7, AttemptsAssumption
  <2>10. QED
    BY <1>1, <1>3, <2>3, <2>4, <2>6, <2>8, <2>9 DEF AccountAt, queueVars, t, m
<1>8. \A m \in Ids : AccountAt(m)'
  BY <1>3, <1>4, <1>6, <1>7 DEF TypeInv, TypeOK
<1>9. QED
  BY <1>8 DEF AccountInv

\* A worker done with a row: the sets of the others are as before.
LEMMA AccountFinish ==
  ASSUME TypeInv, NEW w \in Workers, NEW n \in Ids, n = cur[w], n \in batch[w], Finish(w),
         wpc[w] \in {"ack", "nack"}
  PROVE  /\ w \in Unacked(n) /\ Unacked(n)' = Unacked(n) \ {w}
         /\ Holding(n)' \subseteq Holding(n)
         /\ \A m \in Ids \ {n} : Unacked(m)' = Unacked(m) /\ Holding(m)' = Holding(m)
<1>1. /\ batch' = [batch EXCEPT ![w] = @ \ {n}]
      /\ \A v \in Workers \ {w} : /\ wpc'[v] = wpc[v] /\ cur'[v] = cur[v]
                                  /\ batch'[v] = batch[v]
      /\ wpc'[w] \in {"idle", "next"}
  BY DEF Finish, GoTo, TypeInv, TypeOK
<1>2. batch'[w] = batch[w] \ {n}
  BY <1>1 DEF TypeInv, TypeOK
<1>3. w \in Unacked(n) /\ Unacked(n)' = Unacked(n) \ {w}
  BY <1>1, <1>2 DEF Unacked
<1>4. Holding(n)' \subseteq Holding(n)
  BY <1>1, <1>2, <1>3 DEF Holding, Holders
<1>5. ASSUME NEW m \in Ids \ {n}
      PROVE  Unacked(m)' = Unacked(m) /\ Holding(m)' = Holding(m)
  <2>1. Unacked(m)' = Unacked(m)
    BY <1>1, <1>2 DEF Unacked
  <2>2. Holders(m)' = Holders(m)
    BY <1>1, <1>2 DEF Holders
  <2>3. QED
    BY <2>1, <2>2 DEF Holding
<1>6. QED
  BY <1>3, <1>4, <1>5

\* The worker that removes the row holds none of it any more; every other one
\* either has sent it and is not yet counted, or may still send it.
LEMMA AccountRemoved ==
  ASSUME TypeInv, NEW w \in Workers, NEW n \in Ids, w \in Unacked(n),
         Holding(n)' \subseteq Holding(n)
  PROVE  Cardinality(Unacked(n)) + Cardinality(Holding(n)') <= Cardinality(Workers)
<1>1. Unacked(n) \cup Holding(n) \subseteq Workers /\ Unacked(n) \cap Holding(n) = {}
  BY DEF Unacked, Holding, Holders
<1>2. Cardinality(Unacked(n) \cup Holding(n)) = Cardinality(Unacked(n)) + Cardinality(Holding(n))
  <2>1. Cardinality(Unacked(n) \cup Holding(n))
          = Cardinality(Unacked(n)) + Cardinality(Holding(n))
              - Cardinality(Unacked(n) \cap Holding(n))
    BY AccountFinite, FS_Union
  <2>2. Cardinality(Unacked(n) \cap Holding(n)) = 0
    BY <1>1, FS_EmptySet
  <2>3. QED
    BY <2>1, <2>2, AccountFinite
<1>3. Cardinality(Unacked(n) \cup Holding(n)) <= Cardinality(Workers)
  BY <1>1, WorkersAssumption, FS_Subset
<1>4. Cardinality(Holding(n)') <= Cardinality(Holding(n))
  BY AccountFinite, FS_Subset
<1>5. QED
  BY <1>2, <1>3, <1>4, AccountFinite, AccountFiniteNext

\* The acknowledgement counts the send of the worker that makes it, or removes the
\* row.
LEMMA AccountAckRow ==
  ASSUME TypeInv, NEW w \in Workers, NEW n \in Ids, AccountAt(n), n = cur[w], n \in batch[w],
         wpc[w] \in {"ack", "nack"}, NEW ok \in BOOLEAN, ack_queue_item(n, ok), Finish(w),
         n \in entered, entered' = entered, sends' = sends, faults' = faults
  PROVE  AccountAt(n)'
<1> DEFINE a == Cardinality(Unacked(n))
           b == Cardinality(Unacked(n)')
           h == Cardinality(Holding(n))
           k == Cardinality(Holding(n)')
           m == Cardinality(Workers)
           s == sends[n]
           t == attempts[n]
<1>1. a \in Nat /\ b \in Nat /\ h \in Nat /\ k \in Nat /\ m \in Nat
  BY AccountFinite, AccountFiniteNext
<1>2. s \in Nat /\ t \in Nat /\ faults \in Nat
  BY DEF TypeInv, TypeOK
<1>3. b = a - 1
  <2>1. w \in Unacked(n) /\ Unacked(n)' = Unacked(n) \ {w}
    BY AccountFinish
  <2>2. Cardinality(Unacked(n) \ {w}) = Cardinality(Unacked(n)) - 1
    BY <2>1, AccountFinite, FS_RemoveElement
  <2>3. QED
    BY <2>1, <2>2
<1>4. k <= h
  BY AccountFinish, AccountFinite, FS_Subset
<1>5. a + k <= m
  BY AccountFinish, AccountRemoved
<1>6. /\ n \in inQueue => s <= t + a + faults
      /\ n \in entered \ inQueue => s + h <= MaxAttempts + m - 1 + faults
  BY DEF AccountAt
<1>7. n \in inQueue => t < MaxAttempts
  BY DEF TypeInv, AttemptsLeft
<1>8. \/ n \notin inQueue /\ n \notin inQueue'
      \/ n \in inQueue /\ n \notin inQueue'
      \/ n \in inQueue /\ n \in inQueue' /\ attempts'[n] = t + 1
  <2>1. CASE n \in inQueue /\ ~ ok
    <3>1. attempts' = [attempts EXCEPT ![n] = @ + 1]
      BY <2>1 DEF ack_queue_item
    <3>2. attempts'[n] = t + 1
      BY <3>1 DEF TypeInv, TypeOK
    <3>3. QED
      BY <2>1, <3>2
  <2>2. CASE n \in inQueue /\ ok
    BY <2>2 DEF ack_queue_item
  <2>3. CASE n \notin inQueue
    BY <2>3 DEF ack_queue_item, queueVars
  <2>4. QED
    BY <2>1, <2>2, <2>3
<1>9. SUFFICES /\ n \in inQueue' => s <= attempts'[n] + b + faults
               /\ n \notin inQueue' => s + k <= MaxAttempts + m - 1 + faults
  BY DEF AccountAt
<1> HIDE DEF a, b, h, k, m, s, t
<1>10. CASE n \notin inQueue /\ n \notin inQueue'
  <2>1. s + k <= MaxAttempts + m - 1 + faults
    BY <1>1, <1>2, <1>4, <1>6, <1>10, AttemptsAssumption
  <2>2. QED
    BY <1>10, <2>1
<1>11. CASE n \in inQueue /\ n \notin inQueue'
  <2>1. s <= t + a + faults /\ t < MaxAttempts
    BY <1>6, <1>7, <1>11
  <2>2. s + k <= MaxAttempts + m - 1 + faults
    BY <1>1, <1>2, <1>5, <2>1, AttemptsAssumption
  <2>3. QED
    BY <1>11, <2>2
<1>12. CASE n \in inQueue /\ n \in inQueue' /\ attempts'[n] = t + 1
  <2>1. s <= t + a + faults
    BY <1>6, <1>12
  <2>2. s <= (t + 1) + b + faults
    BY <1>1, <1>2, <1>3, <2>1
  <2>3. QED
    BY <1>12, <2>2
<1>13. QED
  BY <1>8, <1>10, <1>11, <1>12

LEMMA AccountAck ==
  ASSUME TypeInv, AccountInv, NEW w \in Workers, Ack(w) \/ Nack(w)
  PROVE  AccountInv'
<1>1. PICK n \in Ids : n = cur[w] /\ n \in batch[w] /\ n \in entered
  BY DEF Ack, Nack, TypeInv, TypeOK, CurOK, BatchEntered
<1>2. UNCHANGED <<entered, sends>> /\ wpc[w] \in {"ack", "nack"}
  BY DEF Ack, Nack, logVars, historyVars
<1>3. ASSUME NEW ok \in BOOLEAN, ack_queue_item(n, ok), Finish(w), UNCHANGED faults
      PROVE  AccountInv'
  <2>1. AccountAt(n)'
    BY <1>1, <1>2, <1>3, AccountAckRow DEF AccountInv
  <2>2. ASSUME NEW m \in Ids \ {n} PROVE AccountAt(m)'
    <3>1. attempts'[m] = attempts[m] /\ (m \in inQueue' <=> m \in inQueue)
      BY <1>1, <1>3, AckQueueType
    <3>2. Unacked(m)' = Unacked(m) /\ Holding(m)' = Holding(m)
      BY <1>1, <1>2, <1>3, AccountFinish
    <3>3. QED
      BY <1>2, <1>3, <3>1, <3>2, AccountKept DEF AccountInv
  <2>3. QED
    BY <2>1, <2>2 DEF AccountInv
<1>4. ASSUME Fault, Finish(w), UNCHANGED queueVars PROVE AccountInv'
  <2>1. faults' = faults + 1 /\ UNCHANGED <<attempts, inQueue>>
    BY <1>4 DEF Fault, queueVars
  <2>2. ASSUME NEW m \in Ids PROVE AccountAt(m)'
    <3>1. Unacked(m) \ {w} \subseteq Unacked(m)' /\ Holding(m)' \subseteq Holding(m)
      BY <1>1, <1>2, <1>4, AccountFinish
    <3>2. QED
      BY <1>2, <2>1, <3>1, AccountKept DEF AccountInv
  <2>3. QED
    BY <2>2 DEF AccountInv
<1>5. ASSUME wpc[w] = "ack", Fault, GoTo(w, "nack"), UNCHANGED <<queueVars, batch, cur>>
      PROVE  AccountInv'
  <2>1. faults' = faults + 1 /\ UNCHANGED <<attempts, inQueue>>
    BY <1>5 DEF Fault, queueVars
  <2>2. ASSUME NEW m \in Ids PROVE AccountAt(m)'
    <3>1. Unacked(m)' = Unacked(m) /\ Holders(m)' = Holders(m)
      BY <1>5 DEF Unacked, Holders, GoTo, TypeInv, TypeOK
    <3>2. Holding(m)' = Holding(m)
      BY <3>1 DEF Holding
    <3>3. QED
      BY <1>2, <2>1, <3>1, <3>2, AccountKept DEF AccountInv
  <2>3. QED
    BY <2>2 DEF AccountInv
<1>6. success[w] \in BOOLEAN
  BY DEF TypeInv, TypeOK
<1>7. QED
  BY <1>1, <1>3, <1>4, <1>5, <1>6 DEF Ack, Nack

LEMMA AccountCrash ==
  ASSUME TypeInv, AccountInv, NEW w \in Workers, WorkerCrash(w)
  PROVE  AccountInv'
<1>1. /\ UNCHANGED <<logVars, queueVars, historyVars>>
      /\ faults' = faults + 1 /\ batch'[w] = {}
      /\ \A v \in Workers \ {w} : wpc'[v] = wpc[v] /\ cur'[v] = cur[v] /\ batch'[v] = batch[v]
  BY DEF WorkerCrash, GoTo, Fault, TypeInv, TypeOK
<1>2. ASSUME NEW n \in Ids PROVE AccountAt(n)'
  <2>1. Unacked(n) \ {w} \subseteq Unacked(n)'
    BY <1>1 DEF Unacked
  <2>2. Holding(n)' \subseteq Holding(n)
    BY <1>1 DEF Holding, Holders, Unacked
  <2>3. QED
    BY <1>1, <2>1, <2>2, AccountKept DEF AccountInv, logVars, queueVars, historyVars
<1>3. QED
  BY <1>2 DEF AccountInv

LEMMA AccountExpiry ==
  ASSUME TypeInv, AccountInv, NEW k \in Ids, LockExpires(k)
  PROVE  AccountInv'
<1>1. UNCHANGED <<entered, inQueue, attempts, workerVars, sends>>
      /\ faults' \in {faults, faults + 1}
  BY DEF LockExpires, Fault, logVars, historyVars
<1>2. ASSUME NEW n \in Ids PROVE AccountAt(n)'
  <2>1. Unacked(n)' = Unacked(n) /\ Holders(n)' = Holders(n)
    BY <1>1 DEF Unacked, Holders, workerVars
  <2>2. Holding(n)' = Holding(n)
    BY <2>1 DEF Holding
  <2>3. CASE faults' = faults
    BY <1>1, <2>1, <2>2, <2>3 DEF AccountInv, AccountAt
  <2>4. CASE faults' = faults + 1
    <3>1. \E w \in Workers : TRUE
      BY <2>4, FS_EmptySet DEF LockExpires, Holders, TypeInv, TypeOK
    <3>2. QED
      BY <1>1, <2>1, <2>2, <2>4, <3>1, AccountKept DEF AccountInv
  <2>5. QED
    BY <1>1, <2>3, <2>4
<1>3. QED
  BY <1>2 DEF AccountInv

LEMMA AccountEnvironment ==
  ASSUME TypeInv, AccountInv, QueueEnvironment
  PROVE  AccountInv'
<1>1. UNCHANGED <<attempts, workerVars, faults, sends>>
  BY DEF QueueEnvironment, NewLogRow, NewQueueRow, NotQueued, MarkRead, ProviderReport, ContactChange,
         queueVars, historyVars
<1>2. ASSUME NEW n \in Ids PROVE AccountAt(n)'
  <2>1. Unacked(n)' = Unacked(n) /\ Holders(n)' = Holders(n)
    BY <1>1 DEF Unacked, Holders, workerVars
  <2>2. Holding(n)' = Holding(n)
    BY <2>1 DEF Holding
  <2>3. CASE (n \in inQueue' <=> n \in inQueue) /\ (n \in entered' <=> n \in entered)
    BY <1>1, <2>1, <2>2, <2>3 DEF AccountInv, AccountAt
  <2>4. CASE n \in inQueue' /\ n \in entered' /\ n \notin entered
    <3>1. sends'[n] = 0 /\ attempts'[n] \in Nat /\ faults' \in Nat
      BY <1>1, <2>4 DEF AccountInv, AccountAt, TypeInv, TypeOK
    <3>2. Cardinality(Unacked(n)') \in Nat
      BY AccountFiniteNext
    <3>3. QED
      BY <2>4, <3>1, <3>2 DEF AccountAt
  <2>5. QED
    BY <2>3, <2>4
    DEF QueueEnvironment, NewLogRow, NewQueueRow, NotQueued, MarkRead, ProviderReport, ContactChange,
        queueVars, logVars, TypeInv, TypeOK
<1>3. QED
  BY <1>2 DEF AccountInv

LEMMA AccountNext == TypeInv /\ AccountInv /\ [Next]_vars => AccountInv'
<1> SUFFICES ASSUME TypeInv, AccountInv, [Next]_vars PROVE AccountInv'
  OBVIOUS
<1>1. ASSUME NEW w \in Workers, Work(w) PROVE AccountInv'
  BY <1>1, AccountStep, AccountSend, AccountAck DEF Work
<1>2. CASE UNCHANGED vars
  <2>1. ASSUME NEW n \in Ids PROVE AccountAt(n)'
    <3>1. Unacked(n)' = Unacked(n) /\ Holders(n)' = Holders(n)
      BY <1>2 DEF vars, workerVars, Unacked, Holders
    <3>2. Holding(n)' = Holding(n)
      BY <3>1 DEF Holding
    <3>3. QED
      BY <1>2, <3>1, <3>2
      DEF AccountInv, AccountAt, vars, logVars, queueVars, historyVars
  <2>2. QED
    BY <2>1 DEF AccountInv
<1>3. QED
  BY <1>1, <1>2, AccountPoll, AccountCrash, AccountExpiry, AccountEnvironment
  DEF Next, WorkerNext

LEMMA AccountInit == Init => AccountInv
BY DEF Init, AccountInv, AccountAt

LEMMA AccountBounds ==
  ASSUME Dialect = "sqlite", TypeInv, AccountInv
  PROVE  SendsBounded
<1> SUFFICES ASSUME NEW n \in Ids
             PROVE  sends[n] <= MaxAttempts + (Cardinality(Workers) - 1) + faults
  BY DEF SendsBounded
<1> DEFINE a == Cardinality(Unacked(n))
           h == Cardinality(Holding(n))
           m == Cardinality(Workers)
           s == sends[n]
           t == attempts[n]
<1>1. a \in Nat /\ h \in Nat /\ m \in Nat /\ a <= m
  <2>1. Unacked(n) \subseteq Workers
    BY DEF Unacked
  <2>2. QED
    BY <2>1, AccountFinite, WorkersAssumption, FS_Subset
<1>2. s \in Nat /\ t \in Nat /\ faults \in Nat
  BY DEF TypeInv, TypeOK
<1>3. /\ n \in inQueue => s <= t + a + faults /\ t < MaxAttempts
      /\ n \in entered \ inQueue => s + h <= MaxAttempts + m - 1 + faults
      /\ n \notin entered => s = 0
  BY DEF AccountInv, AccountAt, TypeInv, AttemptsLeft
<1> HIDE DEF a, h, m, s, t
<1>4. s <= MaxAttempts + (m - 1) + faults
  <2>1. CASE n \in inQueue
    BY <2>1, <1>1, <1>2, <1>3, AttemptsAssumption
  <2>2. CASE n \in entered \ inQueue
    BY <2>2, <1>1, <1>2, <1>3, AttemptsAssumption
  <2>3. CASE n \notin entered
    BY <2>3, <1>1, <1>2, <1>3, AttemptsAssumption
  <2>4. QED
    BY <2>1, <2>2, <2>3
<1>5. QED
  BY <1>4 DEF s, m

\* Whatever the dialect, the number of workers and rows, whatever crashes, raises
\* or outlives its lock: a notification is given to its sender at most max_attempts
\* times and once more for each fault; on SQLite, whose claim is two steps, also
\* once more for each other worker.
THEOREM QueueSendsBounded == Spec => []SendsBounded
<1>1. CASE Dialect = "postgresql"
  <2>1. TypeInv /\ SendInv /\ [Next]_vars => SendInv'
    BY <1>1, SendInvNext
  <2>2. TypeInv /\ SendInv => SendsBounded
    BY <1>1, SendInvBounds
  <2>3. QED
    BY <2>1, <2>2, InitTypeInv, NextTypeInv, SendInvInit, PTL DEF Spec
<1>2. CASE Dialect = "sqlite"
  <2>1. TypeInv /\ AccountInv => SendsBounded
    BY <1>2, AccountBounds
  <2>2. QED
    BY <2>1, InitTypeInv, NextTypeInv, AccountInit, AccountNext, PTL DEF Spec
<1>3. QED
  BY <1>1, <1>2, DialectAssumption

-----------------------------------------------------------------------------
(* Holders: with locks that may be outlived, what a fault can cost.        *)

\* Holders of a row, beyond the one its lock stands for, were paid for by faults.
HoldInv ==
  /\ \A w \in Workers : wpc[w] # "selected"
  /\ \A w \in Workers : wpc[w] = "idle" => batch[w] = {}
  /\ \A n \in Ids :
       Cardinality(Holders(n)) <= (IF n \in locked THEN 1 ELSE 0) + faults

LEMMA HoldersFinite ==
  ASSUME NEW n \in Ids
  PROVE  IsFiniteSet(Holders(n)) /\ Cardinality(Holders(n)) \in Nat
<1>1. Holders(n) \subseteq Workers
  BY DEF Holders
<1>2. QED
  BY <1>1, WorkersAssumption, FS_Subset, FS_CardinalityType

\* Fewer holders, no lock lost, no fault forgotten: nothing to prove.
LEMMA HoldersShrink ==
  ASSUME TypeInv, TypeInv', NEW n \in Ids,
         Cardinality(Holders(n)) <= (IF n \in locked THEN 1 ELSE 0) + faults,
         Holders(n)' \subseteq Holders(n),
         \/ faults' = faults /\ (n \in locked => n \in locked')
         \/ faults' = faults + 1
  PROVE  Cardinality(Holders(n)') <= (IF n \in locked' THEN 1 ELSE 0) + faults'
<1>1. Cardinality(Holders(n)') <= Cardinality(Holders(n))
  BY HoldersFinite, FS_Subset
<1>2. Cardinality(Holders(n)') \in Nat
  BY HoldersFinite, FS_Subset, FS_CardinalityType
<1>3. faults \in Nat
  BY DEF TypeInv, TypeOK
<1>4. QED
  BY <1>1, <1>2, <1>3, HoldersFinite

LEMMA HoldInvClaim ==
  ASSUME TypeInv, TypeInv', HoldInv, NEW w \in Workers, Claim(w)
  PROVE  HoldInv'
<1>1. PICK S \in Batches : batch' = [batch EXCEPT ![w] = S] /\ locked' = locked \cup S
  BY DEF Claim
<1>2. S \subseteq inQueue \ locked /\ S \subseteq Ids
  BY BatchOfClaimable DEF TypeInv, TypeOK
<1>3. batch[w] = {} /\ wpc' = [wpc EXCEPT ![w] = "next"] /\ faults' = faults
  BY DEF Claim, HoldInv, GoTo
<1>4. ASSUME NEW n \in S
      PROVE  Cardinality(Holders(n)') <= (IF n \in locked' THEN 1 ELSE 0) + faults'
  <2>1. Holders(n)' = Holders(n) \cup {w} /\ w \notin Holders(n)
    BY <1>1, <1>3 DEF Holders, HoldInv, TypeInv, TypeOK
  <2>2. n \in Ids
    BY <1>2
  <2>3. Cardinality(Holders(n)') = Cardinality(Holders(n)) + 1
    BY <2>1, <2>2, HoldersFinite, FS_AddElement
  <2>4. Cardinality(Holders(n)) <= faults
    BY <1>2, <2>2 DEF HoldInv, TypeInv, TypeOK
  <2>5. QED
    BY <1>1, <1>3, <2>2, <2>3, <2>4, HoldersFinite DEF TypeInv, TypeOK
<1>5. ASSUME NEW n \in Ids \ S
      PROVE  Cardinality(Holders(n)') <= (IF n \in locked' THEN 1 ELSE 0) + faults'
  <2>1. Holders(n)' = Holders(n)
    BY <1>1, <1>3 DEF Holders, HoldInv, TypeInv, TypeOK
  <2>2. n \in locked => n \in locked'
    BY <1>1
  <2>3. QED
    BY <1>3, <2>1, <2>2, HoldersShrink DEF HoldInv
<1>6. QED
  BY <1>1, <1>3, <1>4, <1>5 DEF HoldInv, TypeInv, TypeOK

\* Between claim and acknowledgement a worker holds what it held.
LEMMA HoldInvStep ==
  ASSUME TypeInv, TypeInv', HoldInv, NEW w \in Workers, Begin(w) \/ Send(w) \/ UpdateLog(w)
  PROVE  HoldInv'
<1>1. UNCHANGED <<queueVars, batch>> /\ wpc[w] # "idle"
  BY DEF Begin, Send, UpdateLog
<1>2. PICK step \in {"ack", "send", "nack", "log"} : wpc' = [wpc EXCEPT ![w] = step]
  BY DEF Begin, Send, UpdateLog, GoTo
<1>3. faults' \in {faults, faults + 1}
  BY DEF Begin, Send, UpdateLog, Fault
<1>4. ASSUME NEW n \in Ids
      PROVE  Cardinality(Holders(n)') <= (IF n \in locked' THEN 1 ELSE 0) + faults'
  <2>1. Holders(n)' = Holders(n)
    BY <1>1, <1>2 DEF Holders, HoldInv, TypeInv, TypeOK
  <2>2. QED
    BY <1>1, <1>3, <2>1, HoldersShrink DEF HoldInv, queueVars
<1>5. QED
  BY <1>1, <1>2, <1>4 DEF HoldInv, TypeInv, TypeOK

LEMMA HoldInvAck ==
  ASSUME TypeInv, TypeInv', HoldInv, NEW w \in Workers, Ack(w) \/ Nack(w)
  PROVE  HoldInv'
<1>1. PICK n \in Ids : n = cur[w] /\ n \in batch[w] /\ n \in entered
  BY DEF Ack, Nack, TypeInv, TypeOK, CurOK, BatchEntered
<1>2. wpc[w] \in {"ack", "nack"} /\ success[w] \in BOOLEAN
  BY DEF Ack, Nack, TypeInv, TypeOK
<1>3. ASSUME Finish(w)
      PROVE  /\ \A v \in Workers : wpc'[v] # "selected" /\ (wpc'[v] = "idle" => batch'[v] = {})
             /\ Holders(n)' = Holders(n) \ {w}
             /\ \A m \in Ids \ {n} : Holders(m)' = Holders(m)
  <2>1. \A v \in Workers : wpc'[v] # "selected" /\ (wpc'[v] = "idle" => batch'[v] = {})
    BY <1>3, FinishBatch DEF HoldInv
  <2>2. batch' = [batch EXCEPT ![w] = @ \ {n}]
    BY <1>1, <1>3, FinishBatch
  <2>3. QED
    BY <2>1, <2>2 DEF Holders, HoldInv, TypeInv, TypeOK
<1>4. ASSUME NEW ok \in BOOLEAN, ack_queue_item(n, ok), Finish(w), UNCHANGED faults
      PROVE  HoldInv'
  <2>1. ASSUME NEW m \in Ids \ {n}
        PROVE  Cardinality(Holders(m)') <= (IF m \in locked' THEN 1 ELSE 0) + faults'
    <3>1. m \in locked => m \in locked'
      BY <1>1, <1>4, AckQueueType
    <3>2. QED
      BY <1>3, <1>4, <3>1, HoldersShrink DEF HoldInv
  <2>2. Cardinality(Holders(n)') <= (IF n \in locked' THEN 1 ELSE 0) + faults'
    <3>1. w \in Holders(n)
      BY <1>1, <1>2 DEF Holders
    <3>2. Cardinality(Holders(n)') = Cardinality(Holders(n)) - 1
      BY <1>3, <1>4, <3>1, HoldersFinite, FS_RemoveElement
    <3>3. Cardinality(Holders(n)) <= 1 + faults /\ faults \in Nat
      BY HoldersFinite DEF HoldInv, TypeInv, TypeOK
    <3>4. QED
      BY <1>4, <3>2, <3>3, HoldersFinite
  <2>3. QED
    BY <1>3, <1>4, <2>1, <2>2 DEF HoldInv
<1>5. ASSUME Fault, Finish(w) PROVE HoldInv'
  <2>1. ASSUME NEW m \in Ids
        PROVE  Cardinality(Holders(m)') <= (IF m \in locked' THEN 1 ELSE 0) + faults'
    BY <1>3, <1>5, HoldersShrink DEF HoldInv, Fault
  <2>2. QED
    BY <1>3, <1>5, <2>1 DEF HoldInv
<1>6. ASSUME wpc[w] = "ack", Fault, GoTo(w, "nack"), UNCHANGED <<queueVars, batch, cur>>
      PROVE  HoldInv'
  <2>1. \A m \in Ids : Holders(m)' = Holders(m)
    BY <1>6 DEF Holders, GoTo, HoldInv, TypeInv, TypeOK
  <2>2. ASSUME NEW m \in Ids
        PROVE  Cardinality(Holders(m)') <= (IF m \in locked' THEN 1 ELSE 0) + faults'
    BY <1>6, <2>1, HoldersShrink DEF HoldInv, Fault
  <2>3. QED
    BY <1>6, <2>2 DEF HoldInv, GoTo, TypeInv, TypeOK
<1>7. QED
  BY <1>1, <1>2, <1>4, <1>5, <1>6 DEF Ack, Nack

LEMMA HoldInvNext ==
  ASSUME Dialect = "postgresql", TypeInv, HoldInv, [Next]_vars
  PROVE  HoldInv'
<1>1. TypeInv'
  BY NextTypeInv
<1>2. ASSUME NEW w \in Workers, Poll(w) PROVE HoldInv'
  BY <1>1, <1>2, HoldInvClaim DEF Poll, SelectRows, LockRows, HoldInv
<1>3. ASSUME NEW w \in Workers, Work(w) PROVE HoldInv'
  BY <1>1, <1>3, HoldInvStep, HoldInvAck DEF Work
<1>4. ASSUME NEW w \in Workers, WorkerCrash(w) PROVE HoldInv'
  <2>1. /\ \A v \in Workers : wpc'[v] = IF v = w THEN "idle" ELSE wpc[v]
        /\ \A v \in Workers : batch'[v] = IF v = w THEN {} ELSE batch[v]
    BY <1>4 DEF WorkerCrash, GoTo, TypeInv, TypeOK
  <2>2. ASSUME NEW n \in Ids
        PROVE  Cardinality(Holders(n)') <= (IF n \in locked' THEN 1 ELSE 0) + faults'
    <3>1. Holders(n)' \subseteq Holders(n) /\ faults' = faults + 1
      BY <1>4, <2>1 DEF Holders, HoldInv, WorkerCrash, Fault
    <3>2. QED
      BY <1>1, <3>1, HoldersShrink DEF HoldInv
  <2>3. QED
    BY <2>1, <2>2 DEF HoldInv
<1>5. ASSUME NEW k \in Ids, LockExpires(k) PROVE HoldInv'
  <2>1. UNCHANGED workerVars /\ locked' = locked \ {k}
    BY <1>5 DEF LockExpires
  <2>2. ASSUME NEW n \in Ids
        PROVE  Cardinality(Holders(n)') <= (IF n \in locked' THEN 1 ELSE 0) + faults'
    <3>1. Holders(n)' = Holders(n)
      BY <2>1 DEF Holders, workerVars
    <3>2. CASE n = k /\ Holders(k) = {}
      BY <1>1, <3>1, <3>2, FS_EmptySet DEF TypeInv, TypeOK
    <3>3. CASE n = k /\ Holders(k) # {}
      BY <1>1, <1>5, <3>1, <3>3, HoldersShrink DEF HoldInv, LockExpires, Fault
    <3>4. CASE n # k
      <4>1. faults' \in {faults, faults + 1}
        BY <1>5 DEF LockExpires, Fault
      <4>2. QED
        BY <1>1, <2>1, <3>1, <3>4, <4>1, HoldersShrink DEF HoldInv
    <3>5. QED
      BY <3>2, <3>3, <3>4
  <2>3. QED
    BY <2>1, <2>2 DEF HoldInv, workerVars
<1>6. ASSUME UNCHANGED <<workerVars, locked, faults>> PROVE HoldInv'
  BY <1>6 DEF HoldInv, Holders, workerVars
<1>7. CASE QueueEnvironment
  BY <1>6, <1>7
  DEF QueueEnvironment, NewLogRow, NewQueueRow, NotQueued, MarkRead, ProviderReport, ContactChange, queueVars
<1>8. CASE UNCHANGED vars
  BY <1>6, <1>8 DEF vars, queueVars
<1>9. QED
  BY <1>2, <1>3, <1>4, <1>5, <1>7, <1>8 DEF Next, WorkerNext

LEMMA HoldInvInit == Init => HoldInv
<1> SUFFICES ASSUME Init PROVE HoldInv
  OBVIOUS
<1>1. \A n \in Ids : Holders(n) = {} /\ faults = 0
  BY DEF Init, Holders
<1>2. QED
  BY <1>1, FS_EmptySet DEF Init, HoldInv

LEMMA HoldInvBounds == TypeInv /\ HoldInv => HoldersBounded
BY HoldersFinite DEF HoldInv, HoldersBounded, TypeInv, TypeOK

\* On PostgreSQL, for any number of workers and rows: a second worker has a row
\* in hand only after a fault, a third only after two, even when locks are
\* outlived.
THEOREM QueueHoldersBounded ==
  ASSUME Dialect = "postgresql"
  PROVE  Spec => []HoldersBounded
<1>1. TypeInv /\ HoldInv /\ [Next]_vars => HoldInv'
  BY HoldInvNext
<1>2. QED
  BY <1>1, InitTypeInv, NextTypeInv, HoldInvInit, HoldInvBounds, PTL DEF Spec

-----------------------------------------------------------------------------
(* Refinement: the queue, its workers and its locks implement              *)
(* NotificationDelivery.                                                   *)

\* A worker that is about to acknowledge a success has had one.
SuccessAccepted ==
  \A w \in Workers : wpc[w] \in {"log", "ack"} /\ success[w] => cur[w] \in accepted

\* Only rows of the queue are ever handed to a sender.
AcceptedEntered == accepted \subseteq entered

DeliveryInv == SuccessAccepted /\ AcceptedEntered

\* What an acknowledgement leaves of a worker's hand, whatever it does to the row.
LEMMA AckWorker ==
  ASSUME TypeInv, NEW w \in Workers, Ack(w) \/ Nack(w)
  PROVE  /\ UNCHANGED <<logVars, contact, historyVars>>
         /\ cur[w] \in batch[w] /\ cur[w] \in entered /\ cur[w] \in Ids
         /\ \A v \in Workers \ {w} : wpc'[v] = wpc[v] /\ cur'[v] = cur[v]
                                     /\ success'[v] = success[v] /\ batch'[v] = batch[v]
         /\ wpc'[w] \in {"idle", "next", "nack"}
BY DEF Ack, Nack, Finish, GoTo, TypeInv, TypeOK, CurOK, BatchEntered

LEMMA DeliveryInvNext ==
  ASSUME TypeInv, DeliveryInv, [Next]_vars
  PROVE  DeliveryInv'
<1> USE DEF DeliveryInv, SuccessAccepted, AcceptedEntered
<1>1. ASSUME NEW w \in Workers, Poll(w) PROVE DeliveryInv'
  BY <1>1 DEF Poll, Claim, SelectRows, LockRows, GoTo, logVars, historyVars, TypeInv, TypeOK
<1>2. ASSUME NEW w \in Workers, Begin(w) PROVE DeliveryInv'
  <2>1. /\ UNCHANGED <<logVars, historyVars>>
        /\ \A v \in Workers \ {w} : wpc'[v] = wpc[v] /\ cur'[v] = cur[v]
                                    /\ success'[v] = success[v]
        /\ wpc'[w] = "log" => FALSE
        /\ wpc'[w] = "ack" => success'[w] = FALSE
    BY <1>2 DEF Begin, GoTo, TypeInv, TypeOK
  <2>2. QED
    BY <2>1 DEF logVars, historyVars
<1>3. ASSUME NEW w \in Workers, Send(w) PROVE DeliveryInv'
  <2>1. /\ UNCHANGED <<logVars, batch, cur>>
        /\ \A v \in Workers \ {w} : wpc'[v] = wpc[v] /\ success'[v] = success[v]
        /\ accepted' \in {accepted, accepted \cup {cur[w]}}
    BY <1>3 DEF Send, GoTo, TypeInv, TypeOK
  <2>2. success'[w] => cur[w] \in accepted'
    BY <1>3 DEF Send, TypeInv, TypeOK
  <2>3. cur[w] \in entered
    BY <1>3 DEF Send, TypeInv, CurOK, BatchEntered
  <2>4. QED
    BY <2>1, <2>2, <2>3 DEF logVars
<1>4. ASSUME NEW w \in Workers, UpdateLog(w) PROVE DeliveryInv'
  BY <1>4 DEF UpdateLog, GoTo, historyVars, TypeInv, TypeOK
<1>5. ASSUME NEW w \in Workers, Ack(w) \/ Nack(w) PROVE DeliveryInv'
  BY <1>5, AckWorker DEF logVars, historyVars
<1>6. ASSUME NEW w \in Workers, WorkerCrash(w) PROVE DeliveryInv'
  BY <1>6 DEF WorkerCrash, GoTo, logVars, historyVars, TypeInv, TypeOK
<1>7. ASSUME NEW n \in Ids, LockExpires(n) PROVE DeliveryInv'
  BY <1>7 DEF LockExpires, logVars, workerVars, historyVars
<1>8. CASE QueueEnvironment
  <2>1. UNCHANGED <<workerVars, historyVars>> /\ entered \subseteq entered'
    BY <1>8 DEF QueueEnvironment, NewLogRow, NewQueueRow, NotQueued, MarkRead,
                ProviderReport, ContactChange, logVars
  <2>2. QED
    BY <2>1 DEF workerVars, historyVars
<1>9. CASE UNCHANGED vars
  BY <1>9 DEF vars, logVars, workerVars, historyVars
<1>10. QED
  BY <1>1, <1>2, <1>3, <1>4, <1>5, <1>6, <1>7, <1>8, <1>9
  DEF Next, WorkerNext, Work

\* The abstract state is a function of four variables.
deliveryVars == <<inQueue, entered, attempts, accepted>>

LEMMA DeliveryStutter ==
  ASSUME UNCHANGED deliveryVars
  PROVE  UNCHANGED Delivery!vars
BY DEF deliveryVars, Delivery!vars, Outcome

LEMMA DeliveryInit == Init => Delivery!Init
BY DEF Init, Delivery!Init, Outcome

\* An acknowledgement drops the row, completes it, or counts a failure; and it
\* does nothing when the row is gone.
LEMMA DeliveryAckRow ==
  ASSUME TypeInv, NEW n \in entered, NEW ok \in BOOLEAN,
         ok => n \in accepted, ack_queue_item(n, ok), UNCHANGED <<entered, accepted>>
  PROVE  [Delivery!Next]_(Delivery!vars)
<1> n \in Ids /\ attempts[n] \in 0 .. MaxAttempts
  BY DEF TypeInv, TypeOK
<1> USE DEF Delivery!vars
<1>1. CASE n \notin inQueue
  BY <1>1, DeliveryStutter DEF ack_queue_item, queueVars, deliveryVars
<1>2. CASE n \in inQueue /\ ok
  <2>1. inQueue' = inQueue \ {n} /\ UNCHANGED attempts /\ attempts[n] # MaxAttempts
    BY <1>2 DEF ack_queue_item, TypeInv, AttemptsLeft, TypeOK
  <2>2. Outcome(n) = "pending" /\ Outcome(n)' = "done"
    BY <1>2, <2>1 DEF Outcome
  <2>3. \A m \in Ids \ {n} : Outcome(m)' = Outcome(m)
    BY <2>1 DEF Outcome
  <2>4. Delivery!Complete(n)
    BY <1>2, <2>1, <2>2, <2>3 DEF Delivery!Complete
  <2>5. QED
    BY <2>4 DEF Delivery!Next
<1>3. CASE n \in inQueue /\ ~ ok
  <2>1. /\ attempts' = [attempts EXCEPT ![n] = @ + 1]
        /\ inQueue' = IF attempts[n] + 1 >= MaxAttempts THEN inQueue \ {n} ELSE inQueue
        /\ attempts[n] < MaxAttempts
    BY <1>3 DEF ack_queue_item, TypeInv, AttemptsLeft
  <2>2. attempts'[n] = attempts[n] + 1 /\ \A m \in Ids \ {n} : attempts'[m] = attempts[m]
    BY <2>1 DEF TypeInv, TypeOK
  <2>3. /\ Outcome(n) = "pending"
        /\ Outcome(n)' = IF attempts[n] + 1 = MaxAttempts THEN "dropped" ELSE "pending"
    BY <1>3, <2>1, <2>2, AttemptsAssumption DEF Outcome
  <2>4. \A m \in Ids \ {n} : Outcome(m)' = Outcome(m)
    BY <2>1, <2>2 DEF Outcome
  <2>5. Delivery!Fail(n)
    BY <2>1, <2>3, <2>4 DEF Delivery!Fail
  <2>6. QED
    BY <2>5 DEF Delivery!Next
<1>4. QED
  BY <1>1, <1>2, <1>3

LEMMA DeliveryAck ==
  ASSUME TypeInv, DeliveryInv, NEW w \in Workers, Ack(w) \/ Nack(w)
  PROVE  [Delivery!Next]_(Delivery!vars)
<1>1. cur[w] \in entered /\ UNCHANGED <<entered, accepted>>
  BY AckWorker DEF logVars, historyVars
<1>2. ASSUME wpc[w] = "ack", ack_queue_item(cur[w], success[w])
      PROVE  [Delivery!Next]_(Delivery!vars)
  <2>1. success[w] \in BOOLEAN /\ (success[w] => cur[w] \in accepted)
    BY <1>2 DEF DeliveryInv, SuccessAccepted, TypeInv, TypeOK
  <2>2. QED
    BY <1>1, <1>2, <2>1, DeliveryAckRow
<1>3. ASSUME ack_queue_item(cur[w], FALSE)
      PROVE  [Delivery!Next]_(Delivery!vars)
  BY <1>1, <1>3, DeliveryAckRow
<1>4. ASSUME UNCHANGED queueVars
      PROVE  [Delivery!Next]_(Delivery!vars)
  BY <1>1, <1>4, DeliveryStutter DEF queueVars, deliveryVars
<1>5. QED
  BY <1>2, <1>3, <1>4 DEF Ack, Nack

LEMMA DeliverySend ==
  ASSUME TypeInv, NEW w \in Workers, Send(w)
  PROVE  [Delivery!Next]_(Delivery!vars)
<1>1. cur[w] \in entered /\ cur[w] \in Ids
  BY DEF Send, TypeInv, TypeOK, CurOK, BatchEntered
<1>2. UNCHANGED <<inQueue, entered, attempts>>
  BY DEF Send, logVars, queueVars
<1>3. CASE UNCHANGED accepted
  BY <1>2, <1>3, DeliveryStutter DEF deliveryVars
<1>4. CASE accepted' = accepted \cup {cur[w]}
  <2>1. \A m \in Ids : Outcome(m)' = Outcome(m)
    BY <1>2 DEF Outcome
  <2>2. Outcome(cur[w]) # "absent"
    BY <1>1 DEF Outcome
  <2>3. Delivery!Succeed(cur[w])
    BY <1>1, <1>2, <1>4, <2>1, <2>2 DEF Delivery!Succeed
  <2>4. QED
    BY <1>1, <2>3 DEF Delivery!Next
<1>5. QED
  BY <1>3, <1>4 DEF Send

LEMMA DeliverySubmit ==
  ASSUME TypeInv, NEW n \in Ids, NewQueueRow(n)
  PROVE  [Delivery!Next]_(Delivery!vars)
<1>1. /\ n \notin entered /\ n \notin inQueue
      /\ inQueue' = inQueue \cup {n} /\ entered' = entered \cup {n}
      /\ UNCHANGED <<attempts, accepted>>
  BY DEF NewQueueRow, TypeInv, TypeOK, historyVars
<1>2. Outcome(n) = "absent" /\ Outcome(n)' = "pending"
  BY <1>1 DEF Outcome
<1>3. \A m \in Ids \ {n} : Outcome(m)' = Outcome(m)
  BY <1>1 DEF Outcome
<1>4. Delivery!Submit(n)
  BY <1>1, <1>2, <1>3 DEF Delivery!Submit
<1>5. QED
  BY <1>4 DEF Delivery!Next

LEMMA DeliveryNext ==
  ASSUME TypeInv, DeliveryInv, [Next]_vars
  PROVE  [Delivery!Next]_(Delivery!vars)
<1>1. ASSUME NEW w \in Workers, Poll(w) \/ Begin(w) \/ UpdateLog(w) \/ WorkerCrash(w)
      PROVE  UNCHANGED deliveryVars
  BY <1>1 DEF Poll, Claim, SelectRows, LockRows, Begin, UpdateLog, WorkerCrash, logVars,
              queueVars, historyVars, deliveryVars
<1>2. ASSUME NEW n \in Ids, LockExpires(n) PROVE UNCHANGED deliveryVars
  BY <1>2 DEF LockExpires, logVars, historyVars, deliveryVars
<1>3. ASSUME NEW n \in Ids,
             NewLogRow(n) \/ NotQueued(n) \/ MarkRead(n) \/ ProviderReport(n)
      PROVE  UNCHANGED deliveryVars
  BY <1>3 DEF NewLogRow, NotQueued, MarkRead, ProviderReport, queueVars, historyVars, deliveryVars
<1>4. ASSUME NEW u \in Users, ContactChange(u) PROVE UNCHANGED deliveryVars
  BY <1>4 DEF ContactChange, logVars, queueVars, historyVars, deliveryVars
<1>5. ASSUME UNCHANGED vars PROVE UNCHANGED deliveryVars
  BY <1>5 DEF vars, logVars, queueVars, historyVars, deliveryVars
<1>6. CASE UNCHANGED deliveryVars
  BY <1>6, DeliveryStutter
<1>7. QED
  BY <1>1, <1>2, <1>3, <1>4, <1>5, <1>6, DeliveryAck, DeliverySend, DeliverySubmit
  DEF Next, WorkerNext, QueueEnvironment, Work

\* Workers, batches, locks and crashes are an implementation of the four steps of
\* NotificationDelivery: a row leaves the queue only completed, after a sender
\* reported success, or dropped, after exactly max_attempts failures.
THEOREM QueueImplementsDelivery == Spec => ImplementsDelivery
<1>1. Init => DeliveryInv
  BY DEF Init, DeliveryInv, SuccessAccepted, AcceptedEntered
<1>2. TypeInv /\ DeliveryInv /\ [Next]_vars => DeliveryInv'
  BY DeliveryInvNext
<1>3. TypeInv /\ DeliveryInv /\ [Next]_vars => [Delivery!Next]_(Delivery!vars)
  BY DeliveryNext
<1>4. QED
  BY <1>1, <1>2, <1>3, InitTypeInv, NextTypeInv, DeliveryInit, PTL
  DEF Spec, ImplementsDelivery, Delivery!Spec

-----------------------------------------------------------------------------
(* The log: without faults, it tells the truth about rows that left the    *)
(* queue.                                                                  *)

\* Between the sender's answer and the write of its status.
BeingLogged(n) == \E w \in Workers : wpc[w] = "log" /\ cur[w] = n

\* A row still in the queue whose sender reported success is being completed.
BeingCompleted(n) ==
  \E w \in Workers : cur[w] = n /\ wpc[w] \in {"log", "ack"} /\ success[w]

\* A row's status, but while it is being logged, tells what was done with it, unless
\* a provider's webhook wrote it last.
TruthAt(n) ==
  /\ n \in accepted /\ n \in inQueue => BeingCompleted(n)
  /\ status[n] = "sent" /\ n \notin reported => n \in accepted
  /\ status[n] = "failed" /\ n \notin reported /\ ~ BeingLogged(n) => n \notin accepted
  /\ status[n] \in {"none", "queued"} /\ ~ BeingLogged(n) =>
       sends[n] = 0 /\ n \notin accepted
  /\ n \notin entered => sends[n] = 0

TruthInv ==
  /\ LockInv
  /\ \A w \in Workers : batch[w] \subseteq inQueue
  /\ \A w \in Workers : wpc[w] # "nack"
  /\ \A n \in Ids : TruthAt(n)

LogInv == faults = 0 => TruthInv

LEMMA LogInvInit == Init => LogInv
BY DEF Init, LogInv, TruthInv, LockInv, TruthAt

LEMMA LogInvBounds == TypeInv /\ LogInv => LogAgrees
<1> SUFFICES ASSUME TypeInv, TruthInv, NEW n \in entered \ (inQueue \cup reported),
                    faults = 0
             PROVE  TruthAt(n) /\ ~ BeingLogged(n)
  BY DEF LogInv, LogAgrees, TruthAt
<1>1. ~ BeingLogged(n)
  BY DEF BeingLogged, TruthInv, TypeInv, CurOK
<1>2. QED
  BY <1>1 DEF TruthInv, TypeInv, TypeOK

\* Without faults before and after a step there is none in between.
LEMMA NoFault ==
  ASSUME TypeInv, [Next]_vars, faults' = 0
  PROVE  faults = 0 /\ ~ Fault
<1>1. ~ Fault
  BY DEF Fault, TypeInv, TypeOK
<1>2. faults' \in {faults, faults + 1}
  BY DEF Next, WorkerNext, QueueEnvironment, Poll, Work, Claim, SelectRows, LockRows, Begin, Send,
         UpdateLog, Ack, Nack, WorkerCrash, LockExpires, NewLogRow, NewQueueRow, NotQueued,
         MarkRead, ProviderReport, ContactChange, Fault, vars
<1>3. QED
  BY <1>1, <1>2 DEF TypeInv, TypeOK

\* Steps that touch no row's status, sends or place in the queue, and do not
\* reach or leave the log step.
LEMMA TruthStutter ==
  ASSUME TruthInv, UNCHANGED <<status, inQueue, entered, reported, sends, accepted>>,
         \A n \in Ids : BeingLogged(n)' <=> BeingLogged(n),
         \A n \in Ids : BeingCompleted(n) => BeingCompleted(n)'
  PROVE  \A n \in Ids : TruthAt(n)'
BY DEF TruthInv, TruthAt

LEMMA TruthClaim ==
  ASSUME TypeInv, TruthInv, NEW w \in Workers, Claim(w)
  PROVE  /\ \A n \in Ids : TruthAt(n)'
         /\ \A v \in Workers : batch'[v] \subseteq inQueue'
         /\ \A v \in Workers : wpc'[v] # "nack"
<1>1. PICK S \in Batches : batch' = [batch EXCEPT ![w] = S]
  BY DEF Claim
<1>2. S \subseteq inQueue
  BY BatchOfClaimable
<1>3. UNCHANGED <<logVars, inQueue, cur, success, historyVars>>
      /\ wpc' = [wpc EXCEPT ![w] = "next"] /\ wpc[w] = "idle"
  BY DEF Claim, GoTo
<1>4. \A n \in Ids : BeingLogged(n)' <=> BeingLogged(n)
  BY <1>3 DEF BeingLogged, TypeInv, TypeOK
<1>5. \A n \in Ids : BeingCompleted(n) => BeingCompleted(n)'
  BY <1>3 DEF BeingCompleted, TypeInv, TypeOK
<1>6. QED
  BY <1>1, <1>2, <1>3, <1>4, <1>5, TruthStutter DEF logVars, historyVars, TruthInv, TypeInv, TypeOK

LEMMA TruthBegin ==
  ASSUME TypeInv, TruthInv, NEW w \in Workers, Begin(w), ~ Fault
  PROVE  /\ \A n \in Ids : TruthAt(n)'
         /\ \A v \in Workers : batch'[v] \subseteq inQueue'
         /\ \A v \in Workers : wpc'[v] # "nack"
<1>1. /\ UNCHANGED <<logVars, queueVars, batch, historyVars>>
      /\ wpc[w] = "next" /\ wpc'[w] \in {"ack", "send"}
      /\ \A v \in Workers \ {w} : wpc'[v] = wpc[v] /\ cur'[v] = cur[v]
                                  /\ success'[v] = success[v]
  BY DEF Begin, GoTo, TypeInv, TypeOK
<1>2. \A n \in Ids : BeingLogged(n)' <=> BeingLogged(n)
  BY <1>1 DEF BeingLogged
<1>3. \A n \in Ids : BeingCompleted(n) => BeingCompleted(n)'
  BY <1>1 DEF BeingCompleted
<1>4. QED
  BY <1>1, <1>2, <1>3, TruthStutter DEF logVars, queueVars, historyVars, TruthInv

\* A row in a worker's hand that was accepted is in the hand of the worker that
\* completes it: nobody else begins it again.
LEMMA HeldNotAccepted ==
  ASSUME TypeInv, TruthInv, NEW w \in Workers, NEW n \in batch[w], n \in accepted
  PROVE  cur[w] = n /\ wpc[w] \in {"log", "ack"} /\ success[w]
<1>1. n \in Ids /\ n \in inQueue
  BY DEF TruthInv, TypeInv, TypeOK
<1>2. PICK v \in Workers : cur[v] = n /\ wpc[v] \in {"log", "ack"} /\ success[v]
  BY <1>1 DEF TruthInv, TruthAt, BeingCompleted
<1>3. n \in batch[v]
  BY <1>2 DEF TypeInv, CurOK
<1>4. v = w
  BY <1>3 DEF TruthInv, LockInv
<1>5. QED
  BY <1>2, <1>4

LEMMA TruthSend ==
  ASSUME TypeInv, TruthInv, NEW w \in Workers, Send(w)
  PROVE  /\ \A n \in Ids : TruthAt(n)'
         /\ \A v \in Workers : batch'[v] \subseteq inQueue'
         /\ \A v \in Workers : wpc'[v] # "nack"
<1>1. /\ UNCHANGED <<logVars, queueVars, batch, cur>>
      /\ wpc[w] = "send" /\ wpc' = [wpc EXCEPT ![w] = "log"]
      /\ accepted' \in {accepted, accepted \cup {cur[w]}}
      /\ \A v \in Workers \ {w} : success'[v] = success[v]
      /\ \A n \in Ids \ {cur[w]} : sends'[n] = sends[n]
  BY DEF Send, GoTo, TypeInv, TypeOK
<1>2. cur[w] \in batch[w] /\ cur[w] \in Ids /\ cur[w] \in entered
  BY <1>1 DEF TypeInv, TypeOK, CurOK, BatchEntered
<1>3. cur[w] \in accepted' => success'[w]
  <2>1. cur[w] \notin accepted
    BY <1>1, <1>2, HeldNotAccepted
  <2>2. QED
    BY <2>1 DEF Send, TypeInv, TypeOK
<1>4. TruthAt(cur[w])'
  <2>1. BeingLogged(cur[w])'
    BY <1>1 DEF BeingLogged, TypeInv, TypeOK
  <2>2. status[cur[w]] = "sent" /\ cur[w] \notin reported => cur[w] \in accepted
    BY <1>2 DEF TruthInv, TruthAt
  <2>3. cur[w] \in accepted' => BeingCompleted(cur[w])'
    BY <1>1, <1>3 DEF BeingCompleted, TypeInv, TypeOK
  <2>4. QED
    BY <1>1, <1>2, <2>1, <2>2, <2>3 DEF TruthAt, logVars
<1>5. ASSUME NEW n \in Ids, n # cur[w] PROVE TruthAt(n)'
  <2>1. BeingLogged(n)' <=> BeingLogged(n)
    BY <1>1, <1>5 DEF BeingLogged, TypeInv, TypeOK
  <2>2. BeingCompleted(n) => BeingCompleted(n)'
    BY <1>1, <1>5 DEF BeingCompleted, TypeInv, TypeOK
  <2>3. QED
    BY <1>1, <1>5, <2>1, <2>2 DEF TruthInv, TruthAt, logVars, queueVars
<1>6. QED
  BY <1>1, <1>4, <1>5 DEF TruthInv, queueVars, TypeInv, TypeOK

LEMMA TruthLog ==
  ASSUME TypeInv, DeliveryInv, TruthInv, NEW w \in Workers, UpdateLog(w), ~ Fault
  PROVE  /\ \A n \in Ids : TruthAt(n)'
         /\ \A v \in Workers : batch'[v] \subseteq inQueue'
         /\ \A v \in Workers : wpc'[v] # "nack"
<1> DEFINE n == cur[w]
<1>1. /\ wpc[w] = "log" /\ wpc' = [wpc EXCEPT ![w] = "ack"]
      /\ UNCHANGED <<entered, queueVars, batch, cur, success, historyVars>>
      /\ status' = [status EXCEPT ![n] = IF success[w] THEN "sent" ELSE "failed"]
      /\ reported' = reported \ {n}
  BY DEF UpdateLog, update_notification_status, GoTo
<1>2. n \in batch[w] /\ n \in Ids /\ n \in entered
  BY <1>1 DEF TypeInv, TypeOK, CurOK, BatchEntered
<1>3. n \in accepted <=> success[w]
  BY <1>1, <1>2, HeldNotAccepted DEF DeliveryInv, SuccessAccepted
<1>4. \A m \in Ids : BeingCompleted(m) => BeingCompleted(m)'
  BY <1>1 DEF BeingCompleted, TypeInv, TypeOK
<1>5. \A m \in Ids \ {n} : BeingLogged(m)' <=> BeingLogged(m)
  BY <1>1 DEF BeingLogged, TypeInv, TypeOK
<1>6. TruthAt(n)'
  <2>1. status'[n] = IF success[w] THEN "sent" ELSE "failed"
    BY <1>1, <1>2 DEF TypeInv, TypeOK
  <2>2. n' = n
    BY <1>1
  <2> HIDE DEF n
  <2>3. QED
    BY <1>1, <1>2, <1>3, <1>4, <2>1, <2>2 DEF TruthInv, TruthAt, queueVars, historyVars
<1>7. ASSUME NEW m \in Ids, m # n PROVE TruthAt(m)'
  <2>1. status'[m] = status[m]
    BY <1>1, <1>7 DEF TypeInv, TypeOK
  <2>2. QED
    BY <1>1, <1>4, <1>5, <1>7, <2>1 DEF TruthInv, TruthAt, queueVars, historyVars
<1>8. QED
  BY <1>1, <1>6, <1>7 DEF TruthInv, queueVars, TypeInv, TypeOK

LEMMA TruthAck ==
  ASSUME TypeInv, DeliveryInv, TruthInv, NEW w \in Workers, Ack(w), ~ Fault
  PROVE  /\ \A n \in Ids : TruthAt(n)'
         /\ \A v \in Workers : batch'[v] \subseteq inQueue'
         /\ \A v \in Workers : wpc'[v] # "nack"
<1> DEFINE n == cur[w]
<1>1. wpc[w] = "ack" /\ ack_queue_item(n, success[w]) /\ Finish(w)
  BY DEF Ack
<1>2. /\ UNCHANGED <<logVars, historyVars>>
      /\ n \in batch[w] /\ n \in entered /\ n \in Ids
      /\ \A v \in Workers \ {w} : wpc'[v] = wpc[v] /\ cur'[v] = cur[v]
                                  /\ success'[v] = success[v] /\ batch'[v] = batch[v]
      /\ wpc'[w] \in {"idle", "next"}
  BY <1>1, AckWorker, FinishBatch DEF Ack
<1>3. \A m \in Ids \ {n} : m \in inQueue' <=> m \in inQueue
  BY <1>1, <1>2, AckQueueType DEF TypeInv, TypeOK
<1>4. \A v \in Workers : batch'[v] \subseteq batch[v] /\ n \notin batch'[v]
  BY <1>1, <1>2, FinishBatch DEF TruthInv, LockInv, TypeInv, TypeOK
<1>5. \A v \in Workers : batch'[v] \subseteq inQueue'
  BY <1>3, <1>4 DEF TruthInv, TypeInv, TypeOK
<1>6. \A v \in Workers : wpc'[v] # "nack"
  BY <1>2 DEF TruthInv
<1>7. n \in accepted => n \notin inQueue'
  <2>1. n \in accepted => success[w]
    BY <1>2, HeldNotAccepted
  <2>2. QED
    BY <1>1, <2>1 DEF ack_queue_item, queueVars
<1>8. ~ BeingLogged(n)
  BY <1>1, <1>2 DEF BeingLogged, TypeInv, CurOK, TruthInv, LockInv
<1>9. ASSUME NEW m \in Ids PROVE BeingLogged(m)' <=> BeingLogged(m)
  BY <1>1, <1>2 DEF BeingLogged
<1>10. ASSUME NEW m \in Ids, m # n, BeingCompleted(m) PROVE BeingCompleted(m)'
  BY <1>2, <1>10 DEF BeingCompleted
<1>11. ASSUME NEW m \in Ids PROVE TruthAt(m)'
  <2> HIDE DEF n
  <2>1. CASE m = n
    BY <1>2, <1>7, <1>9, <2>1 DEF TruthInv, TruthAt, logVars, historyVars
  <2>2. CASE m # n
    BY <1>2, <1>3, <1>9, <1>10, <2>2 DEF TruthInv, TruthAt, logVars, historyVars
  <2>3. QED
    BY <2>1, <2>2
<1>12. QED
  BY <1>5, <1>6, <1>11

LEMMA TruthExpiry ==
  ASSUME TruthInv, NEW n \in Ids, LockExpires(n)
  PROVE  /\ \A m \in Ids : TruthAt(m)'
         /\ \A v \in Workers : batch'[v] \subseteq inQueue'
         /\ \A v \in Workers : wpc'[v] # "nack"
<1>1. UNCHANGED <<logVars, inQueue, workerVars, historyVars>>
  BY DEF LockExpires
<1>2. \A m \in Ids : UNCHANGED <<BeingLogged(m), BeingCompleted(m)>>
  BY <1>1 DEF BeingLogged, BeingCompleted, workerVars
<1>3. QED
  BY <1>1, <1>2, TruthStutter DEF TruthInv, logVars, workerVars, historyVars

LEMMA TruthEnvironment ==
  ASSUME TypeInv, DeliveryInv, TruthInv, QueueEnvironment
  PROVE  /\ \A m \in Ids : TruthAt(m)'
         /\ \A v \in Workers : batch'[v] \subseteq inQueue'
         /\ \A v \in Workers : wpc'[v] # "nack"
<1>1. UNCHANGED <<workerVars, historyVars>> /\ inQueue \subseteq inQueue'
      /\ entered \subseteq entered'
  BY DEF QueueEnvironment, NewLogRow, NewQueueRow, NotQueued, MarkRead, ProviderReport, ContactChange,
         logVars, queueVars
<1>2. \A m \in Ids : UNCHANGED <<BeingLogged(m), BeingCompleted(m)>>
  BY <1>1 DEF BeingLogged, BeingCompleted, workerVars
<1>3. \A m \in Ids \ entered : m \notin accepted /\ sends[m] = 0
  BY DEF DeliveryInv, AcceptedEntered, TruthInv, TruthAt
<1>4. ASSUME NEW m \in Ids, NEW n \in Ids, NewLogRow(n) PROVE TruthAt(m)'
  <2>1. n \notin entered
    BY <1>4 DEF NewLogRow, TypeInv, TypeOK
  <2>2. QED
    BY <1>2, <1>3, <1>4, <2>1
    DEF NewLogRow, queueVars, historyVars, TruthInv, TruthAt, TypeInv, TypeOK
<1>5. ASSUME NEW m \in Ids, NEW n \in Ids, NewQueueRow(n) PROVE TruthAt(m)'
  BY <1>2, <1>3, <1>5 DEF NewQueueRow, historyVars, TruthInv, TruthAt
<1>6. ASSUME NEW m \in Ids, NEW n \in Ids, NotQueued(n) PROVE TruthAt(m)'
  BY <1>2, <1>3, <1>6
  DEF NotQueued, update_notification_status, queueVars, historyVars, TruthInv, TruthAt, TypeInv,
      TypeOK
<1>7. ASSUME NEW m \in Ids, NEW n \in Ids, MarkRead(n) PROVE TruthAt(m)'
  BY <1>2, <1>3, <1>7
  DEF MarkRead, queueVars, historyVars, TruthInv, TruthAt, TypeInv, TypeOK
<1>8. ASSUME NEW m \in Ids, NEW u \in Users, ContactChange(u) PROVE TruthAt(m)'
  BY <1>2, <1>8 DEF ContactChange, logVars, queueVars, historyVars, TruthInv, TruthAt
<1>9. ASSUME NEW m \in Ids, NEW n \in Ids, ProviderReport(n) PROVE TruthAt(m)'
  <2>1. n \in reported' /\ status'[n] \notin {"none", "queued"}
    BY <1>9, ReceiptsAssumption DEF ProviderReport, update_notification_status, TypeInv, TypeOK
  <2>2. m # n => status'[m] = status[m] /\ (m \in reported' <=> m \in reported)
    BY <1>9 DEF ProviderReport, update_notification_status, TypeInv, TypeOK
  <2>3. UNCHANGED <<entered, queueVars, historyVars>>
    BY <1>9 DEF ProviderReport
  <2>4. QED
    BY <1>2, <2>1, <2>2, <2>3 DEF TruthInv, TruthAt, queueVars, historyVars
<1>10. \A m \in Ids : TruthAt(m)'
  BY <1>4, <1>5, <1>6, <1>7, <1>8, <1>9 DEF QueueEnvironment
<1>11. QED
  BY <1>1, <1>10 DEF TruthInv, workerVars

LEMMA LogInvNext ==
  ASSUME Dialect = "postgresql", TypeInv, DeliveryInv, LogInv, [Next]_vars
  PROVE  LogInv'
<1> SUFFICES ASSUME faults' = 0 PROVE TruthInv'
  BY DEF LogInv
<1>1. TruthInv /\ ~ Fault
  BY NoFault DEF LogInv
<1>2. LockInv'
  BY <1>1, LockInvNext DEF TruthInv
<1> DEFINE Kept == /\ \A n \in Ids : TruthAt(n)'
                   /\ \A v \in Workers : batch'[v] \subseteq inQueue'
                   /\ \A v \in Workers : wpc'[v] # "nack"
<1>3. ASSUME NEW w \in Workers, Poll(w) PROVE Kept
  <2>1. Claim(w)
    BY <1>1, <1>3 DEF Poll, SelectRows, LockRows, TruthInv, LockInv
  <2>2. QED
    BY <1>1, <2>1, TruthClaim
<1>4. ASSUME NEW w \in Workers, Work(w) PROVE Kept
  <2>1. ~ Nack(w)
    BY <1>1 DEF Nack, TruthInv
  <2>2. QED
    BY <1>1, <1>4, <2>1, TruthBegin, TruthSend, TruthLog, TruthAck DEF Work
<1>5. ASSUME NEW w \in Workers, WorkerCrash(w) PROVE Kept
  BY <1>1, <1>5 DEF WorkerCrash
<1>6. ASSUME NEW n \in Ids, LockExpires(n) PROVE Kept
  BY <1>1, <1>6, TruthExpiry
<1>7. ASSUME QueueEnvironment PROVE Kept
  BY <1>1, <1>7, TruthEnvironment
<1>8. ASSUME UNCHANGED vars PROVE Kept
  <2>1. UNCHANGED <<logVars, queueVars, workerVars, historyVars>>
    BY <1>8 DEF vars
  <2>2. \A m \in Ids : UNCHANGED <<BeingLogged(m), BeingCompleted(m)>>
    BY <2>1 DEF BeingLogged, BeingCompleted, workerVars
  <2>3. QED
    BY <1>1, <2>1, <2>2, TruthStutter DEF TruthInv, logVars, queueVars, workerVars, historyVars
<1>9. Kept
  BY <1>3, <1>4, <1>5, <1>6, <1>7, <1>8 DEF Next, WorkerNext
<1>10. QED
  BY <1>2, <1>9 DEF TruthInv

\* On PostgreSQL and without faults, the notification log tells the truth about
\* every row that left the queue and whose status no provider's webhook wrote last,
\* whatever the interleaving of workers, webhooks, readers and contact changes:
\* "sent" was accepted by a sender, "failed" was not, and "queued" was never handed
\* to one.
THEOREM QueueLogAgrees ==
  ASSUME Dialect = "postgresql"
  PROVE  Spec => []LogAgrees
<1>1. Init => DeliveryInv
  BY DEF Init, DeliveryInv, SuccessAccepted, AcceptedEntered
<1>2. TypeInv /\ DeliveryInv /\ [Next]_vars => DeliveryInv'
  BY DeliveryInvNext
<1>3. TypeInv /\ DeliveryInv /\ LogInv /\ [Next]_vars => LogInv'
  BY LogInvNext
<1>4. QED
  BY <1>1, <1>2, <1>3, InitTypeInv, NextTypeInv, LogInvInit, LogInvBounds, PTL DEF Spec

=============================================================================
