------------------------ MODULE NotificationPipeline ------------------------
(***************************************************************************)
(* Producers and workers together: enqueue_notification on one side,       *)
(* run_retry_worker on the other, meeting in notification_log,             *)
(* notification_queue and the user rows. Each takes the place of the       *)
(* other's environment.                                                    *)
(***************************************************************************)
EXTENDS Integers, Sequences, FiniteSets

CONSTANTS
  Ids, Users, Cases, Triggers, Window, Contacts, Effective, Cap, DayTicks,
  Producers, None, MaxClock, MaxCalls,
  Workers, MaxAttempts, BatchSize, Dialect, Configured, Receipts, MaySlow,
  MaxProducerFaults, MaxWorkerFaults

VARIABLES
  status, info, inQueue, contact, entered, failed,   \* shared by both
  clock, pc, req, left, keyDay, logId, calls, producerFaults,
  attempts, locked, wpc, batch, cur, success, answered, workerFaults, reported,
  sends, accepted

Dispatch == INSTANCE NotificationDispatch
  WITH MaxFaults <- MaxProducerFaults, faults <- producerFaults

Queue == INSTANCE NotificationQueue
  WITH MaxFaults <- MaxWorkerFaults, faults <- workerFaults

\* What producers and workers assume of the constants they share.
ASSUME PipelineIdsAssumption ==
  /\ IsFiniteSet(Ids) /\ None \notin Ids
  /\ IsFiniteSet(Producers) /\ Producers # {}
  /\ IsFiniteSet(Workers)
ASSUME PipelineLimitsAssumption ==
  /\ Cap \in Nat \ {0} /\ DayTicks \in Nat \ {0} /\ Window \in [Triggers -> Nat]
  /\ MaxAttempts \in Nat \ {0} /\ BatchSize \in Nat \ {0}
  /\ Dialect \in {"postgresql", "sqlite"} /\ MaySlow \in BOOLEAN
  /\ Receipts \subseteq {"sent", "delivered", "read", "failed"}
ASSUME PipelineBoundsAssumption ==
  /\ MaxClock \in Nat /\ MaxCalls \in Nat
  /\ MaxProducerFaults \in Nat /\ MaxWorkerFaults \in Nat
ASSUME PipelineRowsAssumption ==
  /\ Effective \in [Users -> Dispatch!Channels \cup {"both"}]
  /\ None \notin Dispatch!LogRow

\* A bounce is recorded by the user's id, whatever the row holds by then.
ASSUME PipelineContactsAssumption ==
  /\ Contacts \subseteq SUBSET Dispatch!ContactFields
  /\ \A f \in Contacts : f \cup {"bounced"} \in Contacts

producerVars == <<clock, pc, req, left, keyDay, logId, calls, producerFaults>>
workerVars == <<attempts, locked, wpc, batch, cur, success, workerFaults, sends,
                accepted, answered, reported>>
vars == <<status, info, inQueue, contact, entered, failed, producerVars,
          workerVars>>

Init == Dispatch!Init /\ Queue!Init

ProducerStep(p) == Dispatch!Produce(p) /\ UNCHANGED workerVars

WorkerStep == Queue!WorkerNext /\ UNCHANGED producerVars

\* The user opens a notification.
Read(n) == Queue!MarkRead(n) /\ UNCHANGED producerVars

\* A provider's webhook.
Receipt(n) == Queue!ProviderReport(n) /\ UNCHANGED producerVars

\* The user links or unlinks a channel.
ChangeContact(u) == Queue!ContactChange(u) /\ UNCHANGED producerVars

Pass == Dispatch!Tick /\ UNCHANGED workerVars

Next ==
  \/ \E p \in Producers : ProducerStep(p)
  \/ WorkerStep
  \/ \E n \in Ids : Read(n) \/ Receipt(n)
  \/ \E u \in Users : ChangeContact(u)
  \/ Pass

Spec == Init /\ [][Next]_vars

\* Threads run on: a call that has begun goes on, and a worker, an endless loop
\* that catches exceptions and is restarted by the watchdog, polls and works on.
\* Calls, users, webhooks, time, crashes and faults are not fair.
Fairness ==
  /\ \A p \in Producers :
       WF_vars(/\ \/ Dispatch!CapCheck(p)
                  \/ Dispatch!DedupCheck(p)
                  \/ Dispatch!WriteLog(p)
                  \/ Dispatch!WriteQueue(p)
               /\ UNCHANGED workerVars)
  /\ \A w \in Workers :
       /\ WF_vars(Queue!Poll(w) /\ UNCHANGED producerVars)
       /\ WF_vars(Queue!Work(w) /\ UNCHANGED producerVars)

FairSpec == Spec /\ Fairness

-----------------------------------------------------------------------------
(* Properties.                                                             *)

\* What producers and workers do to the rows they share is what the other one
\* expects of its environment: the two modules' results hold of the whole.
ImplementsDispatch == Dispatch!Spec

\* The columns of a log row that a worker looks at.
workerInfo ==
  [n \in Ids |-> IF info[n] = None THEN None
                 ELSE [user |-> info[n].user, channel |-> info[n].channel]]

QueueOnly == INSTANCE NotificationQueue
  WITH MaxFaults <- MaxWorkerFaults, faults <- workerFaults, info <- workerInfo

ImplementsQueue == QueueOnly!Spec

\* Without faults, and for users who stay reachable, every log row stops saying
\* "queued": the notification is sent, given up, delivered or read. (A producer that dies
\* before the queue row, or a status update that raises, leaves it so for ever.)
EveryNotificationSettles ==
  \A n \in Ids :
    status[n] = "queued" ~> \/ status[n] \in {"sent", "delivered", "failed", "read"}
                            \/ producerFaults + workerFaults > 0

=============================================================================
