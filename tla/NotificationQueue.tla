------------------------- MODULE NotificationQueue --------------------------
(***************************************************************************)
(* notification_queue and its workers: services/notification_retry_worker  *)
(* (run_retry_worker, _dispatch_queue_item) and the queue half of the      *)
(* notification repository (claim, ack, status updates).                   *)
(*                                                                         *)
(* A worker claims a batch of unlocked rows, then handles them one by one: *)
(* read the user, call the provider, write the log's status, acknowledge.  *)
(* Each is a separate transaction or a network call, so workers interleave *)
(* at every one of them.  A lock is a timestamp: nothing but time frees a  *)
(* row whose worker died, and time also frees rows of a worker that lives. *)
(*                                                                         *)
(* scheduled_at is not modelled: it is never in the future (a failed row   *)
(* is rescheduled for now), and it only orders rows, which are claimed in  *)
(* any order here.                                                         *)
(***************************************************************************)
EXTENDS Integers, FiniteSets

CONSTANTS
  Ids,          \* ids of log rows; each names its queue row too
  Users,
  Workers,      \* retry workers, one thread per monitor process
  MaxAttempts,  \* max_attempts of a queue row
  BatchSize,    \* rows one claim takes at most
  Dialect,      \* "postgresql" or "sqlite"
  Configured,   \* channels whose provider has its key in the environment
  Contacts,     \* the sets of contact fields a user row may hold (bound)
  Receipts,     \* the statuses providers' webhooks report (bound)
  MaySlow,      \* TRUE when a batch may take longer than its lock
  None,
  MaxFaults     \* bound on exceptions, crashes and locks outlived

Channels == {"telegram", "email", "whatsapp"}

ContactFields == {"chat", "email", "bounced", "number"}

ASSUME QueueIdsAssumption == IsFiniteSet(Ids) /\ None \notin Ids
ASSUME WorkersAssumption == IsFiniteSet(Workers)
ASSUME AttemptsAssumption == MaxAttempts \in Nat \ {0} /\ BatchSize \in Nat \ {0}
ASSUME DialectAssumption == Dialect \in {"postgresql", "sqlite"}
ASSUME SlowAssumption == MaySlow \in BOOLEAN
ASSUME QueueContactsAssumption ==
  /\ Contacts \subseteq SUBSET ContactFields
  /\ \A f \in Contacts : "email" \in f => f \cup {"bounced"} \in Contacts
ASSUME ReceiptsAssumption == Receipts \subseteq {"sent", "delivered", "read", "failed"}
ASSUME MaxFaultsAssumption == MaxFaults \in Nat

VARIABLES
  status,    \* notification_log.status of each id, "none" = no such row
  info,      \* user and channel of the log row, None = no such row
  inQueue,   \* ids that have a row in notification_queue
  contact,   \* what the user row holds: see ContactFields
  attempts,  \* attempt_count; what it was at deletion once the row is gone
  locked,    \* ids whose locked_until is in the future
  wpc,       \* where each worker is in run_retry_worker
  batch,     \* ids of the claimed rows the worker has still to finish
  cur,       \* the id it is working on
  success,   \* what _dispatch_queue_item returns for it
  faults,    \* faults so far
  entered,   \* history: ids that ever had a queue row
  failed,    \* history: ids whose status was ever "failed"
  answered,  \* ids whose provider_response is set
  reported,  \* history: ids whose status a provider's webhook wrote last
  sends,     \* history: how often each id was given to its channel's sender
  accepted   \* history: ids _dispatch_queue_item ever returned True for

logVars == <<status, info, entered, failed, answered, reported>>
queueVars == <<inQueue, attempts, locked>>
workerVars == <<wpc, batch, cur, success>>
historyVars == <<sends, accepted>>
vars == <<logVars, queueVars, contact, workerVars, faults, historyVars>>

LogStatus == {"none", "queued", "sent", "delivered", "failed", "read"}

WorkerStep == {"idle", "selected", "next", "send", "log", "ack", "nack"}

\* The columns of a log row the worker looks at.
Address == [user : Users, channel : Channels]

TypeOK ==
  /\ status \in [Ids -> LogStatus]
  /\ inQueue \subseteq Ids
  /\ contact \in [Users -> SUBSET ContactFields]
  /\ attempts \in [Ids -> 0 .. MaxAttempts]
  /\ locked \subseteq Ids
  /\ wpc \in [Workers -> WorkerStep]
  /\ batch \in [Workers -> SUBSET Ids]
  /\ cur \in [Workers -> Ids \cup {None}]
  /\ success \in [Workers -> BOOLEAN]
  /\ faults \in Nat
  /\ entered \subseteq Ids
  /\ failed \subseteq Ids
  /\ answered \subseteq entered
  /\ reported \subseteq answered
  /\ sends \in [Ids -> Nat]
  /\ accepted \subseteq Ids
  /\ info = [n \in Ids |-> info[n]]
  /\ \A n \in Ids : status[n] # "none" =>
       info[n].user \in Users /\ info[n].channel \in Channels
  /\ entered \subseteq {n \in Ids : status[n] # "none"}
  /\ inQueue \subseteq entered

Init ==
  /\ status = [n \in Ids |-> "none"]
  /\ info = [n \in Ids |-> None]
  /\ inQueue = {}
  /\ contact \in [Users -> Contacts]
  /\ attempts = [n \in Ids |-> 0]
  /\ locked = {}
  /\ wpc = [w \in Workers |-> "idle"]
  /\ batch = [w \in Workers |-> {}]
  /\ cur = [w \in Workers |-> None]
  /\ success = [w \in Workers |-> FALSE]
  /\ faults = 0
  /\ entered = {}
  /\ failed = {}
  /\ answered = {}
  /\ reported = {}
  /\ sends = [n \in Ids |-> 0]
  /\ accepted = {}

-----------------------------------------------------------------------------
(* Claiming a batch.                                                       *)

\* Mutant: locked_until is not looked at.
ClaimableLockedToo == {n \in inQueue : attempts[n] < MaxAttempts}

\* attempt_count < max_attempts, locked_until NULL or past.
Claimable == {n \in inQueue \ locked : attempts[n] < MaxAttempts}

\* LIMIT batch_size.
Batches ==
  {S \in SUBSET Claimable :
     /\ S # {}
     /\ \/ Cardinality(S) = BatchSize
        \/ Cardinality(S) < BatchSize /\ S = Claimable}

\* A database call raises, a process dies, a lock is outlived.
Fault == faults < MaxFaults /\ faults' = faults + 1

GoTo(w, step) == wpc' = [wpc EXCEPT ![w] = step]

\* SELECT ... FOR UPDATE SKIP LOCKED and the UPDATE are one transaction. The
\* rows are read back after it: one that a slow worker deletes in between is
\* handled here all the same.
Claim(w) ==
  /\ Dialect = "postgresql"
  /\ wpc[w] = "idle"
  /\ \E S \in Batches :
       /\ batch' = [batch EXCEPT ![w] = S]
       /\ locked' = locked \cup S
  /\ GoTo(w, "next")
  /\ UNCHANGED <<logVars, inQueue, attempts, contact, cur, success, faults,
                 historyVars>>

\* SQLite: the SELECT opens no transaction, another process may come between
\* it and the UPDATE ...
SelectRows(w) ==
  /\ Dialect = "sqlite"
  /\ wpc[w] = "idle"
  /\ \E S \in Batches : batch' = [batch EXCEPT ![w] = S]
  /\ GoTo(w, "selected")
  /\ UNCHANGED <<logVars, queueVars, contact, cur, success, faults, historyVars>>

\* ... which locks the ids that still exist, locked by someone else or not.
LockRows(w) ==
  LET found == batch[w] \cap inQueue
  IN
  /\ wpc[w] = "selected"
  /\ locked' = locked \cup found
  /\ batch' = [batch EXCEPT ![w] = found]
  /\ GoTo(w, IF found = {} THEN "idle" ELSE "next")
  /\ UNCHANGED <<logVars, inQueue, attempts, contact, cur, success, faults,
                 historyVars>>

-----------------------------------------------------------------------------
(* Handling one row.                                                       *)

\* The user row has what the channel needs. A bounced address still counts.
Addressable(n) ==
  LET fields == contact[info[n].user]
  IN  CASE info[n].channel = "telegram" -> "chat" \in fields
        [] info[n].channel = "email"    -> "email" \in fields
        [] info[n].channel = "whatsapp" -> "number" \in fields

\* _dispatch_queue_item gives up before it reaches the provider: no address,
\* or Telegram without a token. The log row is not touched.
GivesUp(n) ==
  \/ ~ Addressable(n)
  \/ info[n].channel = "telegram" /\ "telegram" \notin Configured

Begin(w) ==
  /\ wpc[w] = "next"
  /\ \E n \in batch[w] :
       /\ cur' = [cur EXCEPT ![w] = n]
       /\ \/ /\ GivesUp(n)
             /\ success' = [success EXCEPT ![w] = FALSE]
             /\ GoTo(w, "ack")
             /\ UNCHANGED faults
          \/ /\ ~ GivesUp(n)
             /\ GoTo(w, "send")
             /\ UNCHANGED <<success, faults>>
          \/ /\ Fault
             /\ GoTo(w, "nack")
             /\ UNCHANGED success
  /\ UNCHANGED <<logVars, queueVars, contact, batch, historyVars>>

\* What a provider's refusal may do to the user rows: a 4xx answer to an email,
\* whatever its reason, is taken for a hard bounce.
AfterRefusal(u, ch) ==
  {contact} \cup
  IF ch = "email" THEN {[contact EXCEPT ![u] = @ \cup {"bounced"}]} ELSE {}

\* The channel's sender, which may try its providers more than once before it
\* answers and raises nothing. Without a key, WhatsApp claims success and email
\* reports failure, both without a call.
Send(w) ==
  LET n == cur[w]
      ch == info[n].channel
      u == info[n].user
  IN
  /\ wpc[w] = "send"
  /\ \/ /\ ch \in Configured
        /\ sends' = [sends EXCEPT ![n] = @ + 1]
        /\ \/ /\ success' = [success EXCEPT ![w] = TRUE]
              /\ accepted' = accepted \cup {n}
              /\ UNCHANGED contact
           \/ /\ success' = [success EXCEPT ![w] = FALSE]
              /\ contact' \in AfterRefusal(u, ch)
              /\ UNCHANGED accepted
     \/ /\ ch \notin Configured
        /\ success' = [success EXCEPT ![w] = (ch = "whatsapp")]
        /\ accepted' = IF ch = "whatsapp" THEN accepted \cup {n} ELSE accepted
        /\ UNCHANGED <<sends, contact>>
  /\ GoTo(w, "log")
  /\ UNCHANGED <<logVars, queueVars, batch, cur, faults>>

\* The worker keeps what the sender answered, and no id a provider gave: nothing
\* when WhatsApp has no provider.
Answered(n) ==
  IF info[n].channel = "whatsapp" /\ "whatsapp" \notin Configured
    THEN answered ELSE answered \cup {n}

\* Mutant: the statuses are swapped for a row that was retried.
UpdateLogSwapped(w) ==
  LET n == cur[w]
      ok == success[w] /\ attempts[n] = 0
  IN
  /\ wpc[w] = "log"
  /\ status' = [status EXCEPT ![n] = IF ok THEN "sent" ELSE "failed"]
  /\ failed' = IF ok THEN failed ELSE failed \cup {n}
  /\ answered' = Answered(n)
  /\ reported' = reported \ {n}
  /\ GoTo(w, "ack")
  /\ UNCHANGED <<info, entered, queueVars, contact, batch, cur, success,
                 historyVars, faults>>

\* Overwrites whatever the status was.
update_notification_status(n, s) ==
  /\ status' = [status EXCEPT ![n] = s]
  /\ failed' = IF s = "failed" THEN failed \cup {n} ELSE failed

\* Mutant: only a success is written to the log.
UpdateLogOnlySent(w) ==
  LET n == cur[w]
  IN
  /\ wpc[w] = "log"
  /\ status' = [status EXCEPT ![n] = IF success[w] THEN "sent" ELSE @]
  /\ GoTo(w, "ack")
  /\ UNCHANGED <<info, entered, failed, answered, reported, queueVars, contact,
                 batch, cur, success, historyVars, faults>>

\* An exception is swallowed.
UpdateLog(w) ==
  /\ wpc[w] = "log"
  /\ \/ /\ update_notification_status(cur[w],
                                      IF success[w] THEN "sent" ELSE "failed")
        /\ answered' = Answered(cur[w])
        /\ reported' = reported \ {cur[w]}
        /\ UNCHANGED faults
     \/ /\ Fault
        /\ UNCHANGED <<status, failed, answered, reported>>
  /\ GoTo(w, "ack")
  /\ UNCHANGED <<info, entered, queueVars, contact, batch, cur, success,
                 historyVars>>

-----------------------------------------------------------------------------
(* Acknowledging it.                                                       *)

\* Mutant: deleted as soon as the last attempt begins, not when it has failed.
ack_queue_item_early(n, ok) ==
  \/ /\ n \notin inQueue
     /\ UNCHANGED queueVars
  \/ /\ n \in inQueue
     /\ attempts' = [attempts EXCEPT ![n] = IF ok THEN @ ELSE @ + 1]
     /\ locked' = locked \ {n}
     /\ inQueue' = IF ok \/ attempts[n] + 2 >= MaxAttempts
                     THEN inQueue \ {n} ELSE inQueue

\* Mutant: a failure only clears the lock.
ack_queue_item_uncounted(n, ok) ==
  /\ inQueue' = IF ok THEN inQueue \ {n} ELSE inQueue
  /\ locked' = locked \ {n}
  /\ UNCHANGED attempts

\* Mutant: attempt_count may pass max_attempts before the row is deleted.
ack_queue_item_off_by_one(n, ok) ==
  \/ /\ n \notin inQueue
     /\ UNCHANGED queueVars
  \/ /\ n \in inQueue
     /\ attempts' = [attempts EXCEPT ![n] = IF ok THEN @ ELSE @ + 1]
     /\ locked' = locked \ {n}
     /\ inQueue' = IF ok \/ attempts[n] + 1 > MaxAttempts
                     THEN inQueue \ {n} ELSE inQueue

\* One transaction, keyed by the row's id alone: it does not look at who holds
\* the lock, and does nothing when the row is gone.
ack_queue_item(n, ok) ==
  \/ /\ n \notin inQueue
     /\ UNCHANGED queueVars
  \/ /\ n \in inQueue
     /\ ok
     /\ inQueue' = inQueue \ {n}
     /\ locked' = locked \ {n}
     /\ UNCHANGED attempts
  \/ /\ n \in inQueue
     /\ ~ ok
     /\ attempts' = [attempts EXCEPT ![n] = @ + 1]
     /\ locked' = locked \ {n}
     /\ inQueue' = IF attempts[n] + 1 >= MaxAttempts THEN inQueue \ {n} ELSE inQueue

\* On to the next row of the batch, or back to sleep.
Finish(w) ==
  /\ batch' = [batch EXCEPT ![w] = @ \ {cur[w]}]
  /\ cur' = [cur EXCEPT ![w] = None]
  /\ GoTo(w, IF batch[w] = {cur[w]} THEN "idle" ELSE "next")
  /\ success' = [success EXCEPT ![w] = FALSE]

\* An exception here leads to the except branch: the row is acknowledged as
\* failed, also when it was sent.
Ack(w) ==
  /\ wpc[w] = "ack"
  /\ \/ /\ ack_queue_item(cur[w], success[w])
        /\ Finish(w)
        /\ UNCHANGED faults
     \/ /\ Fault
        /\ GoTo(w, "nack")
        /\ UNCHANGED <<queueVars, batch, cur, success>>
  /\ UNCHANGED <<logVars, contact, historyVars>>

\* The except branch; when it raises too the lock stays until it expires.
Nack(w) ==
  /\ wpc[w] = "nack"
  /\ \/ /\ ack_queue_item(cur[w], FALSE)
        /\ UNCHANGED faults
     \/ /\ Fault
        /\ UNCHANGED queueVars
  /\ Finish(w)
  /\ UNCHANGED <<logVars, contact, historyVars>>

-----------------------------------------------------------------------------

WorkerCrash(w) ==
  /\ wpc[w] # "idle"
  /\ Fault
  /\ GoTo(w, "idle")
  /\ batch' = [batch EXCEPT ![w] = {}]
  /\ cur' = [cur EXCEPT ![w] = None]
  /\ success' = [success EXCEPT ![w] = FALSE]
  /\ UNCHANGED <<logVars, queueVars, contact, historyVars>>

\* Rows a worker has claimed and not finished.
Holders(n) == {w \in Workers : wpc[w] # "selected" /\ n \in batch[w]}

\* locked_until passes. With a live holder that is a fault, if it can happen.
LockExpires(n) ==
  /\ n \in locked
  /\ locked' = locked \ {n}
  /\ \/ Holders(n) = {} /\ UNCHANGED faults
     \/ Holders(n) # {} /\ MaySlow /\ Fault
  /\ UNCHANGED <<logVars, inQueue, attempts, contact, workerVars, historyVars>>

Work(w) == Begin(w) \/ Send(w) \/ UpdateLog(w) \/ Ack(w) \/ Nack(w)

Poll(w) == Claim(w) \/ SelectRows(w) \/ LockRows(w)

WorkerNext ==
  \/ \E w \in Workers : Poll(w) \/ Work(w) \/ WorkerCrash(w)
  \/ \E n \in Ids : LockExpires(n)

-----------------------------------------------------------------------------
(* The workers' environment.                                               *)

\* enqueue_notification writes the log row, then the queue row; when it cannot
\* do the second it marks the log row failed, or stops (see NotificationDispatch).
NewLogRow(n) ==
  /\ status[n] = "none"
  /\ status' = [status EXCEPT ![n] = "queued"]
  /\ \E a \in Address : info' = [info EXCEPT ![n] = a]
  /\ UNCHANGED <<entered, failed, answered, reported, queueVars, contact,
                 workerVars, faults, historyVars>>

NewQueueRow(n) ==
  /\ status[n] \in {"queued", "read"}
  /\ n \notin entered
  /\ inQueue' = inQueue \cup {n}
  /\ entered' = entered \cup {n}
  /\ UNCHANGED <<status, info, failed, answered, reported, attempts, locked,
                 contact, workerVars, faults, historyVars>>

NotQueued(n) ==
  /\ status[n] \in {"queued", "read"}
  /\ n \notin entered
  /\ update_notification_status(n, "failed")
  /\ UNCHANGED <<info, entered, answered, reported, queueVars, contact, workerVars,
                 faults, historyVars>>

\* Mutant: the row is created when there is none (an upsert).
MarkReadUpsert(n) ==
  /\ status' = [status EXCEPT ![n] = "read"]
  /\ reported' = reported \ {n}
  /\ UNCHANGED <<info, entered, failed, answered, queueVars, contact, workerVars,
                 faults, historyVars>>

\* mark_notification_read, by the user in the application.
MarkRead(n) ==
  /\ status[n] # "none"
  /\ status' = [status EXCEPT ![n] = "read"]
  /\ reported' = reported \ {n}
  /\ UNCHANGED <<info, entered, failed, answered, queueVars, contact, workerVars,
                 faults, historyVars>>

\* The webhooks of WATI and MSG91: the newest row whose provider_response contains
\* the id they are given, a text match that finds what the worker stored there (for
\* an id of the provider's it finds nothing, as none is stored). The status is
\* overwritten whatever it was, by "failed" too.
ProviderReport(n) ==
  /\ n \in answered
  /\ \E s \in Receipts : update_notification_status(n, s)
  /\ reported' = reported \cup {n}
  /\ UNCHANGED <<info, entered, answered, queueVars, contact, workerVars, faults,
                 historyVars>>

ContactChange(u) ==
  /\ \E fields \in Contacts : contact' = [contact EXCEPT ![u] = fields]
  /\ UNCHANGED <<logVars, queueVars, workerVars, faults, historyVars>>

QueueEnvironment ==
  \/ \E n \in Ids :
       NewLogRow(n) \/ NewQueueRow(n) \/ NotQueued(n) \/ MarkRead(n) \/ ProviderReport(n)
  \/ \E u \in Users : ContactChange(u)

Next == WorkerNext \/ QueueEnvironment

Spec == Init /\ [][Next]_vars

-----------------------------------------------------------------------------
(* Properties.                                                             *)

\* Two workers have the same row in hand only after a fault: each worker too many
\* was let in by a lock that was outlived.
HoldersBounded == \A n \in Ids : Cardinality(Holders(n)) <= 1 + faults

\* However workers interleave and crash, a notification is given to its sender at
\* most max_attempts times, and once more for each exception, crash or lock
\* outlived: retries are bounded, and a duplicate has a cause. On SQLite, where a
\* claim is two steps, each other worker may have selected the row as well.
SendsBounded ==
  LET stale == IF Dialect = "sqlite" THEN Cardinality(Workers) - 1 ELSE 0
  IN  \A n \in Ids : sends[n] <= MaxAttempts + stale + faults

\* Without faults, the log tells the truth about rows that left the queue, unless a
\* provider's webhook wrote the status last, which may say "failed" of a message the
\* sender saw accepted: one shown as failed was never sent, one still shown as
\* queued was never tried.
LogAgrees ==
  faults = 0 =>
    \A n \in entered \ (inQueue \cup reported) :
      /\ status[n] = "failed" => n \notin accepted
      /\ status[n] = "queued" => sends[n] = 0 /\ n \notin accepted
      /\ status[n] = "sent" => n \in accepted

\* The queue, its workers and its locks implement NotificationDelivery: a row in
\* the queue is pending, one that left it after MaxAttempts failures is dropped.
Outcome(n) ==
  CASE n \in inQueue -> "pending"
    [] n \notin entered -> "absent"
    [] n \in entered \ inQueue ->
         IF attempts[n] = MaxAttempts THEN "dropped" ELSE "done"

Delivery == INSTANCE NotificationDelivery
  WITH outcome <- [n \in Ids |-> Outcome(n)],
       failures <- attempts,
       succeeded <- accepted

ImplementsDelivery == Delivery!Spec

-----------------------------------------------------------------------------
(* What documentation and comments say and the code does not do.          *)

\* docs/NOTIFICATION_SYSTEM.md, "Postgres-safe for multiple workers": no two
\* workers have a queue row in hand at the same time, so that no two of them send
\* it.  True only while no batch outlives its lock.
ExclusiveHolder == \A n \in Ids : Cardinality(Holders(n)) <= 1

=============================================================================
