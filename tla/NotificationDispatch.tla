------------------------ MODULE NotificationDispatch ------------------------
(***************************************************************************)
(* services/notification_dispatch.py: enqueue_notification(), called by    *)
(* the poll loop, the causelist scheduler and the case-history refresher,  *)
(* all against one database.                                               *)
(*                                                                         *)
(* Every repository call is a transaction of its own, so the body of the   *)
(* function's loop over channels is four steps here: daily-cap check,      *)
(* dedup check, log row, queue row.  Steps of several producers interleave *)
(* and a producer may die between any two of them.                         *)
(*                                                                         *)
(* A call that returns before the loop (unknown trigger, unknown user,     *)
(* disabled preference, quiet hours, no usable channel) writes nothing: it *)
(* is a stuttering step.  A notification is identified by its row of       *)
(* notification_log; at most one row of notification_queue refers to it.   *)
(***************************************************************************)
EXTENDS Integers, Sequences, FiniteSets

CONSTANTS
  Ids,        \* ids of notification_log rows (bounds how many are written)
  Users,
  Cases,      \* case references
  Triggers,   \* trigger types
  Window,     \* _DEDUP_HOURS in ticks of the clock, 0 = no dedup
  Contacts,   \* the sets of contact fields a user row may hold (bound)
  Effective,  \* effective channel of each user: preference row or profile
  Cap,        \* max_notifications_per_day (0 is replaced by a default, so > 0)
  DayTicks,   \* ticks of the clock in a UTC day
  Producers,  \* threads that call enqueue_notification
  None,
  MaxClock,   \* bound on the clock
  MaxCalls,   \* bound on the number of calls
  MaxFaults   \* bound on database exceptions and crashes

Channels == {"telegram", "email", "whatsapp"}

ContactFields == {"chat", "email", "bounced", "number"}

ASSUME IdsAssumption == IsFiniteSet(Ids) /\ None \notin Ids
ASSUME ProducersAssumption == IsFiniteSet(Producers) /\ Producers # {}
ASSUME CapAssumption == Cap \in Nat \ {0}
ASSUME ClockAssumption == DayTicks \in Nat \ {0} /\ MaxClock \in Nat
ASSUME WindowAssumption == Window \in [Triggers -> Nat]
ASSUME ContactsAssumption == Contacts \subseteq SUBSET ContactFields
ASSUME EffectiveAssumption == Effective \in [Users -> Channels \cup {"both"}]
ASSUME BoundsAssumption == MaxCalls \in Nat /\ MaxFaults \in Nat

VARIABLES
  status,   \* notification_log.status of each id, "none" = no such row
  info,     \* the other columns of the log row, None = no such row
  inQueue,  \* ids that have a row in notification_queue
  contact,  \* what the user row holds: see ContactFields
  clock,    \* current time in ticks
  pc,       \* where each producer is in enqueue_notification
  req,      \* arguments of the producer's call
  left,     \* channels the call has still to serve, the current one first
  keyDay,   \* UTC date in the call's dedup key, NoKey = no key
  logId,    \* id of the log row the call wrote last
  calls,    \* calls made so far
  faults,   \* faults so far
  entered,  \* history: ids that ever had a queue row
  failed    \* history: ids whose status was ever "failed"

dispatchVars == <<pc, req, left, keyDay, logId, calls>>
logVars == <<status, info, inQueue, entered, failed>>
vars == <<logVars, contact, clock, dispatchVars, faults>>

NoKey == -1

LogStatus == {"none", "queued", "sent", "delivered", "failed", "read"}

Request == [user : Users, case : Cases, trigger : Triggers]

LogRow == [user : Users, case : Cases, trigger : Triggers, channel : Channels,
           sentAt : Nat, keyDay : Nat \cup {NoKey}]

ASSUME NoneAssumption == None \notin LogRow

Step == {"idle", "cap", "dedup", "log", "queue"}

TypeOK ==
  /\ status \in [Ids -> LogStatus]
  /\ info \in [Ids -> LogRow \cup {None}]
  /\ inQueue \subseteq Ids
  /\ contact \in [Users -> Contacts]
  /\ clock \in Nat
  /\ pc \in [Producers -> Step]
  /\ req \in [Producers -> Request \cup {None}]
  /\ left \in [Producers -> Seq(Channels)]
  /\ keyDay \in [Producers -> Nat \cup {NoKey}]
  /\ logId \in [Producers -> Ids \cup {None}]
  /\ calls \in Nat
  /\ faults \in Nat
  /\ entered \subseteq Ids
  /\ failed \subseteq Ids

Init ==
  /\ status = [n \in Ids |-> "none"]
  /\ info = [n \in Ids |-> None]
  /\ inQueue = {}
  /\ contact \in [Users -> Contacts]
  /\ clock = 0
  /\ pc = [p \in Producers |-> "idle"]
  /\ req = [p \in Producers |-> None]
  /\ left = [p \in Producers |-> <<>>]
  /\ keyDay = [p \in Producers |-> NoKey]
  /\ logId = [p \in Producers |-> None]
  /\ calls = 0
  /\ faults = 0
  /\ entered = {}
  /\ failed = {}

-----------------------------------------------------------------------------
(* Pure parts of the handler.                                              *)

Day(t) == t \div DayTicks

Expand(eff) == IF eff = "both" THEN {"telegram", "email"} ELSE {eff}

\* A channel is kept when the user row has what it needs.
Usable(u, ch) ==
  CASE ch = "telegram" -> "chat" \in contact[u]
    [] ch = "email"    -> "email" \in contact[u] /\ "bounced" \notin contact[u]
    [] ch = "whatsapp" -> "number" \in contact[u]

\* Telegram is served first.
ChannelsToSend(u) ==
  LET Keep(ch) == IF ch \in Expand(Effective[u]) /\ Usable(u, ch) THEN <<ch>> ELSE <<>>
  IN  Keep("telegram") \o Keep("email") \o Keep("whatsapp")

\* Rows check_daily_cap counts: today's, whatever their status but failed.
Counted(u, ch) ==
  {n \in Ids : /\ info[n] # None
               /\ info[n].user = u
               /\ info[n].channel = ch
               /\ Day(info[n].sentAt) >= Day(clock)
               /\ status[n] # "failed"}

\* Mutant: the comparison lets the cap itself through.
check_daily_cap_off_by_one(u, ch) == Cardinality(Counted(u, ch)) <= Cap

check_daily_cap(u, ch) == Cardinality(Counted(u, ch)) < Cap

SameKey(n, r, d) ==
  /\ info[n] # None
  /\ info[n].user = r.user
  /\ info[n].case = r.case
  /\ info[n].trigger = r.trigger
  /\ info[n].keyDay = d

\* Mutant: only rows already sent block a repetition.
check_dedup_sent_only(r, d, window) ==
  ~ \E n \in Ids : /\ SameKey(n, r, d)
                    /\ info[n].sentAt >= clock - window
                    /\ status[n] = "sent"

\* Any row with the key counts, whatever its channel and its status.
check_dedup(r, d, window) ==
  ~ \E n \in Ids : SameKey(n, r, d) /\ info[n].sentAt >= clock - window

-----------------------------------------------------------------------------
(* The producer.                                                           *)

\* Mutant: the key is cleared to a null the comparison does not expect.
NextChannelNullKey(p) ==
  /\ left' = [left EXCEPT ![p] = Tail(@)]
  /\ pc' = [pc EXCEPT ![p] = IF Tail(left[p]) = <<>> THEN "idle" ELSE "cap"]
  /\ keyDay' = [keyDay EXCEPT ![p] = None]
  /\ logId' = [logId EXCEPT ![p] = None]
  /\ req' = [req EXCEPT ![p] = IF Tail(left[p]) = <<>> THEN None ELSE @]

\* Control returns to the head of the loop, or leaves the function.
NextChannel(p) ==
  /\ left' = [left EXCEPT ![p] = Tail(@)]
  /\ pc' = [pc EXCEPT ![p] = IF Tail(left[p]) = <<>> THEN "idle" ELSE "cap"]
  /\ keyDay' = [keyDay EXCEPT ![p] = NoKey]
  /\ logId' = [logId EXCEPT ![p] = None]
  /\ req' = [req EXCEPT ![p] = IF Tail(left[p]) = <<>> THEN None ELSE @]

GoTo(p, step) == pc' = [pc EXCEPT ![p] = step]

\* A repository call raises.
Fault == faults < MaxFaults /\ faults' = faults + 1

Call(p) ==
  /\ pc[p] = "idle"
  /\ calls < MaxCalls
  /\ \E r \in Request :
       /\ ChannelsToSend(r.user) # <<>>
       /\ req' = [req EXCEPT ![p] = r]
       /\ left' = [left EXCEPT ![p] = ChannelsToSend(r.user)]
  /\ GoTo(p, "cap")
  /\ calls' = calls + 1
  /\ UNCHANGED <<logVars, contact, clock, keyDay, logId, faults>>

\* An exception in check_daily_cap is ignored: the channel is served.
CapCheck(p) ==
  /\ pc[p] = "cap"
  /\ \/ /\ check_daily_cap(req[p].user, Head(left[p]))
        /\ GoTo(p, "dedup")
        /\ UNCHANGED <<req, left, keyDay, logId, faults>>
     \/ /\ ~ check_daily_cap(req[p].user, Head(left[p]))
        /\ NextChannel(p)
        /\ UNCHANGED faults
     \/ /\ Fault
        /\ GoTo(p, "dedup")
        /\ UNCHANGED <<req, left, keyDay, logId>>
  /\ UNCHANGED <<logVars, contact, clock, calls>>

\* A trigger without a window, and an exception, leave the row without a key.
DedupCheck(p) ==
  LET window == Window[req[p].trigger]
  IN
  /\ pc[p] = "dedup"
  /\ \/ /\ window = 0
        /\ GoTo(p, "log")
        /\ UNCHANGED <<req, left, keyDay, logId, faults>>
     \/ /\ window > 0
        /\ check_dedup(req[p], Day(clock), window)
        /\ GoTo(p, "log")
        /\ keyDay' = [keyDay EXCEPT ![p] = Day(clock)]
        /\ UNCHANGED <<req, left, logId, faults>>
     \/ /\ window > 0
        /\ ~ check_dedup(req[p], Day(clock), window)
        /\ NextChannel(p)
        /\ UNCHANGED faults
     \/ /\ window > 0
        /\ Fault
        /\ GoTo(p, "log")
        /\ UNCHANGED <<req, left, keyDay, logId>>
  /\ UNCHANGED <<logVars, contact, clock, calls>>

\* Mutant: the status is left to the column's default.
create_notification_log_default(n, r, ch, key) ==
  /\ status[n] = "none"
  /\ status' = [status EXCEPT ![n] = "sent"]
  /\ info' = [info EXCEPT ![n] =
                [user |-> r.user, case |-> r.case, trigger |-> r.trigger,
                 channel |-> ch, sentAt |-> clock, keyDay |-> key]]

\* Inserts the row n; the id is the next one of the sequence.
create_notification_log(n, r, ch, key) ==
  /\ status[n] = "none"
  /\ status' = [status EXCEPT ![n] = "queued"]
  /\ info' = [info EXCEPT ![n] =
                [user |-> r.user, case |-> r.case, trigger |-> r.trigger,
                 channel |-> ch, sentAt |-> clock, keyDay |-> key]]

\* When the insert raises the channel is given up.
WriteLog(p) ==
  /\ pc[p] = "log"
  /\ \/ /\ \E n \in Ids :
             /\ create_notification_log(n, req[p], Head(left[p]), keyDay[p])
             /\ logId' = [logId EXCEPT ![p] = n]
        /\ GoTo(p, "queue")
        /\ UNCHANGED <<req, left, keyDay, faults>>
     \/ /\ Fault
        /\ NextChannel(p)
        /\ UNCHANGED <<status, info>>
  /\ UNCHANGED <<inQueue, entered, failed, contact, clock, calls>>

\* The repository's enqueue_notification.
insert_queue_row(n) ==
  /\ inQueue' = inQueue \cup {n}
  /\ entered' = entered \cup {n}

\* Mutant: the log row is read again, and one the user opened is not queued.
WriteQueueIfUnread(p) ==
  LET n == logId[p]
  IN
  /\ pc[p] = "queue"
  /\ inQueue' = IF status[n] = "queued" THEN inQueue \cup {n} ELSE inQueue
  /\ entered' = IF status[n] = "queued" THEN entered \cup {n} ELSE entered
  /\ NextChannel(p)
  /\ UNCHANGED <<status, failed, info, contact, clock, calls, faults>>

\* When db.enqueue_notification raises the log row is marked failed, and
\* when that raises too the row stays "queued" with nothing in the queue.
WriteQueue(p) ==
  LET n == logId[p]
  IN
  /\ pc[p] = "queue"
  /\ \/ /\ insert_queue_row(n)
        /\ UNCHANGED <<status, failed, faults>>
     \/ /\ Fault
        /\ status' = [status EXCEPT ![n] = "failed"]
        /\ failed' = failed \cup {n}
        /\ UNCHANGED <<inQueue, entered>>
     \/ /\ Fault
        /\ UNCHANGED <<inQueue, entered, status, failed>>
  /\ NextChannel(p)
  /\ UNCHANGED <<info, contact, clock, calls>>

\* The process that hosts the producer stops; the rows it wrote stay.
ProducerCrash(p) ==
  /\ pc[p] # "idle"
  /\ Fault
  /\ GoTo(p, "idle")
  /\ left' = [left EXCEPT ![p] = <<>>]
  /\ keyDay' = [keyDay EXCEPT ![p] = NoKey]
  /\ logId' = [logId EXCEPT ![p] = None]
  /\ req' = [req EXCEPT ![p] = None]
  /\ UNCHANGED <<logVars, contact, clock, calls>>

Produce(p) ==
  \/ Call(p)
  \/ CapCheck(p)
  \/ DedupCheck(p)
  \/ WriteLog(p)
  \/ WriteQueue(p)
  \/ ProducerCrash(p)

-----------------------------------------------------------------------------
(* What the producer's environment does to the state they share.          *)

Tick ==
  /\ clock < MaxClock
  /\ clock' = clock + 1
  /\ UNCHANGED <<logVars, contact, dispatchVars, faults>>

\* The retry worker, the providers' webhooks, and the user who opens the
\* notification set the status.
Report(n) ==
  /\ \E s \in {"sent", "delivered", "failed", "read"} :
       /\ s = "read" => status[n] # "none"
       /\ s # "read" => n \in entered
       /\ status' = [status EXCEPT ![n] = s]
       /\ failed' = IF s = "failed" THEN failed \cup {n} ELSE failed
  /\ UNCHANGED <<info, inQueue, entered, contact, clock, dispatchVars, faults>>

\* ack_queue_item deletes the queue row.
Leave(n) ==
  /\ n \in inQueue
  /\ inQueue' = inQueue \ {n}
  /\ UNCHANGED <<status, info, entered, failed, contact, clock, dispatchVars,
                 faults>>

\* Linking, verification, bounces and unsubscription change the user row.
ContactChange(u) ==
  /\ \E fields \in Contacts :
       contact' = [contact EXCEPT ![u] = fields]
  /\ UNCHANGED <<logVars, clock, dispatchVars, faults>>

Environment ==
  \/ Tick
  \/ \E n \in Ids : Report(n) \/ Leave(n)
  \/ \E u \in Users : ContactChange(u)

Next ==
  \/ \E p \in Producers : Produce(p)
  \/ Environment

Spec == Init /\ [][Next]_vars

-----------------------------------------------------------------------------
(* Properties.                                                             *)

\* Today's rows of a user on a channel that no one ever marked failed.
NeverFailedToday(u, ch) == Counted(u, ch) \ failed

\* check_daily_cap and the insert it guards are two transactions, so the cap
\* can be overshot: by one row for each other producer that was between them,
\* and by one for each time the check raised and was ignored, never by more.
CapOvershootBounded ==
  \A u \in Users, ch \in Channels :
    Cardinality(NeverFailedToday(u, ch)) <= Cap + Cardinality(Producers) - 1 + faults

\* The check for a duplicate and the insert are two transactions: within the
\* window before any row, be it a whole day or less, there are no more rows with its
\* key than producers, one for each that checked before the others had inserted.
DedupOvershootBounded ==
  \A n \in Ids :
    info[n] # None /\ info[n].keyDay # NoKey =>
      LET since == info[n].sentAt - Window[info[n].trigger]
      IN  Cardinality({m \in Ids : /\ SameKey(m, info[n], info[n].keyDay)
                                   /\ info[m].sentAt \in since .. info[n].sentAt})
            <= Cardinality(Producers)

\* Log rows that were never queued, are held by no producer, and are not failed.
Orphans ==
  {n \in Ids : /\ status[n] # "none"
               /\ n \notin entered \cup failed
               /\ \A p \in Producers : logId[p] # n}

\* The log row is written before the queue row. A log row that never reaches
\* the queue, and will never be sent, is marked failed, but for one row per crash
\* and one per pair of exceptions in a row (queue insert, then status update).
OrphansAccounted == Cardinality(Orphans) <= faults

-----------------------------------------------------------------------------
(* What a comment says and the code does not do.                            *)

\* "Resolve effective channel(s) to send on": for a user on "both" who can be
\* reached on both and is below the cap, a finished call leaves a row on each.
BothMeansBoth ==
  faults = 0 /\ (\A p \in Producers : pc[p] = "idle") =>
    \A n \in Ids :
      info[n] # None /\ Effective[info[n].user] = "both" =>
        \E m \in Ids : /\ info[m] # None
                       /\ info[m].user = info[n].user
                       /\ info[m].case = info[n].case
                       /\ info[m].trigger = info[n].trigger
                       /\ info[m].channel # info[n].channel

=============================================================================
