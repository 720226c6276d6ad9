--------------------------- MODULE Subscriptions ----------------------------
(***************************************************************************)
(* Serial alerts by subscription: the poll loop of monitor/run_monitor.py  *)
(* (_dispatch_notifications, _notify_adjournments, _send_reminders), the   *)
(* bots' watch and unwatch commands, POST /alert and the subscriptions     *)
(* repository.                                                             *)
(*                                                                         *)
(* After a scrape the loop lists the active subscriptions, once per phase  *)
(* and per court that left, and then sends and updates row by row; every   *)
(* update commits by itself and an exception of one row does not stop the  *)
(* others.  Meanwhile users watch and unwatch: of a listed row only the    *)
(* column "active" can be stale, the bots write no other one.              *)
(*                                                                         *)
(* A room has one court here.  Left out: log_notification, which follows   *)
(* an alert (no one reads these rows of the log), the notice of an outage, *)
(* and the alert the WhatsApp bot answers a late WATCH with.               *)
(***************************************************************************)
EXTENDS Integers, FiniteSets

CONSTANTS
  Subs,        \* ids of subscription rows (bounds how many are written)
  Users,
  Reachable,   \* users whose contact and provider are configured
  Rooms,
  Serials,     \* serial numbers: targets, and what the board shows
  LookAheads,
  Bots,        \* bot requests served at the same time
  DayTicks,    \* ticks of the clock in a day
  Delay,       \* _REMINDER_DELAY_SECONDS in ticks
  None, Absent, Blank,
  MaxClock,    \* bound on the clock
  MaxFaults    \* bound on database exceptions and crashes

ASSUME SubsAssumption == IsFiniteSet(Subs) /\ None \notin Subs
ASSUME SerialsAssumption ==
  Serials \subseteq Nat /\ LookAheads \subseteq Nat /\ {None, Absent, Blank} \cap Serials = {}
ASSUME ReachableAssumption == Reachable \subseteq Users
ASSUME TicksAssumption ==
  /\ DayTicks \in Nat \ {0} /\ Delay \in Nat
  /\ MaxClock \in Nat /\ MaxFaults \in Nat

Row == [user : Users, room : Rooms, target : Serials, ahead : LookAheads,
        date : Nat, active : BOOLEAN, alerted : Nat \cup {None},
        serial : Serials \cup {None}, reminded : BOOLEAN]

ASSUME NoneAssumption == None \notin Row /\ None \notin Nat

\* A court that is not on the board, one without a serial, one with a serial.
Shown == {Absent, Blank} \cup Serials

VARIABLES
  sub,       \* the subscriptions table
  clock,
  board,     \* what the last scrape shows of each room
  left,      \* rooms of courts that left with the last scrape, still to handle
  phase,     \* where the poll loop is
  open,      \* TRUE when the phase's list has been read
  listed,    \* rows of that list still to handle
  hand,      \* the row in hand
  step,      \* what is still to be done with it
  bot,       \* the watch request each bot is serving
  faults,    \* faults so far
  alerts,    \* history: alerts sent for each row
  told,      \* history: adjournment notices sent for each row
  reminders, \* history: reminders sent for each row
  closed,    \* history: rows the monitor deactivated
  reached,   \* history: rows whose target a poll has shown while they waited
  past       \* history: rows not to be listed, removed or for another day, when
             \* the last list was read

rowVars == <<listed, hand, step>>
sentVars == <<alerts, told, reminders>>
vars == <<sub, clock, board, left, phase, open, rowVars, bot, faults, sentVars,
          closed, reached, past>>

Request == [user : Users, room : Rooms, target : Serials, ahead : LookAheads,
            date : Nat]

TypeOK ==
  /\ sub \in [Subs -> Row \cup {None}]
  /\ clock \in Nat
  /\ board \in [Rooms -> Shown]
  /\ left \subseteq Rooms
  /\ phase \in {"idle", "alerts", "adjourn", "reminders"}
  /\ open \in BOOLEAN
  /\ listed \subseteq {s \in Subs : sub[s] # None}
  /\ hand \in Subs \cup {None}
  /\ step \in {"none", "serial", "alerted", "close", "reminded"}
  /\ hand # None <=> step # "none"
  /\ hand # None => hand \in listed
  /\ bot \in [Bots -> Request \cup {None}]
  /\ faults \in Nat
  /\ {alerts, told, reminders} \subseteq [Subs -> Nat]
  /\ {closed, reached, past} \subseteq SUBSET Subs

Init ==
  /\ sub = [s \in Subs |-> None]
  /\ clock = 0
  /\ board = [r \in Rooms |-> Absent]
  /\ left = {}
  /\ phase = "idle"
  /\ open = FALSE
  /\ listed = {}
  /\ hand = None
  /\ step = "none"
  /\ bot = [b \in Bots |-> None]
  /\ faults = 0
  /\ alerts = [s \in Subs |-> 0]
  /\ told = [s \in Subs |-> 0]
  /\ reminders = [s \in Subs |-> 0]
  /\ closed = {}
  /\ reached = {}
  /\ past = {}

-----------------------------------------------------------------------------
(* Pure parts.                                                             *)

Today == clock \div DayTicks

Active == {s \in Subs : sub[s] # None /\ sub[s].active}

\* Mutant: the date is not looked at.
ListAnyDay == Active

\* list_active_subscriptions: rows for today (a row without a date, which no
\* command writes, would count for every day).
list_active_subscriptions == {s \in Active : sub[s].date = Today}

list_active_subscriptions_for_room(r) ==
  {s \in list_active_subscriptions : sub[s].room = r}

\* The room has a serial and it is not below n.
Reached(r, n) == board[r] \in Serials /\ board[r] >= n

\* Mutant: rows that have been alerted are not skipped.
AlertDueAgain(s) == Reached(sub[s].room, sub[s].target - sub[s].ahead)

\* Mutant: a board that has jumped past the threshold is not noticed.
AlertDueAtThreshold(s) ==
  /\ sub[s].alerted = None
  /\ board[sub[s].room] = sub[s].target - sub[s].ahead

AlertDue(s) ==
  /\ sub[s].alerted = None
  /\ Reached(sub[s].room, sub[s].target - sub[s].ahead)

\* Mutant: due as soon as the case is reached, whether the user was alerted.
ReminderDueAnyway(s) ==
  /\ ~ sub[s].reminded
  /\ Reached(sub[s].room, sub[s].target)

\* Alerted long enough ago, below the target, and the target is reached now.
ReminderDue(s) ==
  /\ sub[s].alerted # None
  /\ ~ sub[s].reminded
  /\ clock - sub[s].alerted >= Delay
  /\ Reached(sub[s].room, sub[s].target)
  /\ sub[s].serial # None => sub[s].serial < sub[s].target

\* _deliver, and the alert, do nothing for a user who cannot be reached.
CanReach(s) == sub[s].user \in Reachable

Sent(count, s) == IF CanReach(s) THEN [count EXCEPT ![s] = @ + 1] ELSE count

Fault == faults < MaxFaults /\ faults' = faults + 1

-----------------------------------------------------------------------------
(* Scraping.                                                               *)

\* The rooms of courts that were on the board and are not any more.
Leaving(shown) == {r \in Rooms : board[r] # Absent /\ shown[r] = Absent}

\* Scrape and apply_snapshot succeed.
PollSucceeds ==
  /\ phase = "idle"
  /\ board' \in [Rooms -> Shown]
  /\ left' = Leaving(board')
  /\ phase' = "alerts"
  /\ reached' = reached \cup {s \in list_active_subscriptions :
                             board'[sub[s].room] \in Serials /\
                             board'[sub[s].room] >= sub[s].target}
  /\ UNCHANGED <<sub, clock, open, rowVars, bot, faults, sentVars, closed, past>>

\* apply_snapshot raises after it has recorded some courts: their changes are lost.
SnapshotRaises ==
  /\ phase = "idle"
  /\ Fault
  /\ board' \in [Rooms -> Shown]
  /\ UNCHANGED <<sub, clock, left, phase, open, rowVars, bot, sentVars, closed,
                 reached, past>>

\* A list cannot be read: the poll is over, the courts that left are forgotten.
Abandon ==
  /\ phase # "idle"
  /\ ~ open
  /\ Fault
  /\ phase' = "idle"
  /\ left' = {}
  /\ UNCHANGED <<sub, clock, board, open, rowVars, bot, sentVars, closed, reached,
                 past>>

\* The process dies and is started again.
MonitorCrash ==
  /\ Fault
  /\ phase' = "idle"
  /\ open' = FALSE
  /\ left' = {}
  /\ listed' = {}
  /\ hand' = None
  /\ step' = "none"
  /\ UNCHANGED <<sub, clock, board, bot, sentVars, closed, reached, past>>

-----------------------------------------------------------------------------
(* The phases of a poll.                                                   *)

Open(rows) ==
  /\ ~ open
  /\ open' = TRUE
  /\ listed' = rows
  /\ past' = {s \in Subs : sub[s] # None /\ ~ (sub[s].active /\ sub[s].date = Today)}
  /\ UNCHANGED <<sub, clock, board, phase, hand, step, bot, faults, sentVars,
                 closed, reached>>

ListForAlerts ==
  phase = "alerts" /\ Open(list_active_subscriptions) /\ UNCHANGED left

ListForRoom(r) ==
  /\ phase = "adjourn"
  /\ r \in left
  /\ left' = left \ {r}
  /\ Open(list_active_subscriptions_for_room(r))

ListForReminders ==
  phase = "reminders" /\ Open(list_active_subscriptions) /\ UNCHANGED left

\* The list is through: to the next court that left, or the next phase.
Close ==
  /\ open /\ listed = {}
  /\ open' = FALSE
  /\ phase' = CASE phase = "alerts" -> IF left = {} THEN "reminders" ELSE "adjourn"
                [] phase = "adjourn" -> IF left = {} THEN "reminders" ELSE "adjourn"
                [] phase = "reminders" -> "idle"
  /\ UNCHANGED <<sub, clock, board, left, rowVars, bot, faults, sentVars, closed,
                 reached, past>>

InHand(s, st) == hand = s /\ step = st

\* The row is done with.
Done(s) ==
  /\ listed' = listed \ {s}
  /\ hand' = None
  /\ step' = "none"

GoOn(s, st) ==
  /\ hand' = s
  /\ step' = st
  /\ UNCHANGED listed

loopVars == <<clock, board, left, phase, open, bot, reached, past>>

Skip(s) ==
  /\ hand = None
  /\ s \in listed
  /\ CASE phase = "alerts" -> ~ AlertDue(s) \/ ~ CanReach(s)
       [] phase = "adjourn" -> sub[s].alerted # None
       [] phase = "reminders" -> ~ ReminderDue(s)
  /\ Done(s)
  /\ UNCHANGED <<sub, loopVars, faults, sentVars, closed>>

\* The send raises: the row is left as it is. It may have been delivered, or what
\* follows it for a WhatsApp alert (the email) has raised.
SendRaises(s) ==
  /\ hand = None
  /\ s \in listed
  /\ CanReach(s)
  /\ \/ /\ phase = "alerts" /\ AlertDue(s)
        /\ \/ UNCHANGED <<alerts, faults>>
           \/ Fault /\ alerts' = Sent(alerts, s)
        /\ UNCHANGED <<told, reminders>>
     \/ /\ phase = "adjourn" /\ sub[s].alerted = None
        /\ \/ UNCHANGED <<told, faults>>
           \/ Fault /\ told' = Sent(told, s)
        /\ UNCHANGED <<alerts, reminders>>
     \/ /\ phase = "reminders" /\ ReminderDue(s)
        /\ \/ UNCHANGED <<reminders, faults>>
           \/ Fault /\ reminders' = Sent(reminders, s)
        /\ UNCHANGED <<alerts, told>>
  /\ Done(s)
  /\ UNCHANGED <<sub, loopVars, closed>>

SendAlert(s) ==
  /\ hand = None
  /\ s \in listed
  /\ phase = "alerts"
  /\ AlertDue(s)
  /\ CanReach(s)
  /\ alerts' = Sent(alerts, s)
  /\ GoOn(s, "serial")
  /\ UNCHANGED <<sub, loopVars, faults, told, reminders, closed>>

\* update_last_notified_serial
MarkSerial(s) ==
  /\ InHand(s, "serial")
  /\ sub' = [sub EXCEPT ![s].serial = board[sub[s].room]]
  /\ GoOn(s, "alerted")
  /\ UNCHANGED <<loopVars, faults, sentVars, closed>>

mark_alerted(s) ==
  /\ InHand(s, "alerted")
  /\ sub' = [sub EXCEPT ![s].alerted = clock]
  /\ Done(s)
  /\ UNCHANGED <<loopVars, faults, sentVars, closed>>

\* Mutant: deactivated also when the notice could not be sent.
AdjournUntold(s) ==
  /\ hand = None
  /\ s \in listed
  /\ phase = "adjourn"
  /\ sub[s].alerted = None
  /\ told' \in {told, Sent(told, s)}
  /\ GoOn(s, "close")
  /\ UNCHANGED <<sub, loopVars, faults, alerts, reminders, closed>>

\* A user who cannot be reached is not told, and goes on to be deactivated.
SendAdjourned(s) ==
  /\ hand = None
  /\ s \in listed
  /\ phase = "adjourn"
  /\ sub[s].alerted = None
  /\ told' = Sent(told, s)
  /\ GoOn(s, "close")
  /\ UNCHANGED <<sub, loopVars, faults, alerts, reminders, closed>>

deactivate_subscription(s) ==
  /\ InHand(s, "close")
  /\ sub' = [sub EXCEPT ![s].active = FALSE]
  /\ closed' = closed \cup {s}
  /\ Done(s)
  /\ UNCHANGED <<loopVars, faults, sentVars>>

SendReminder(s) ==
  /\ hand = None
  /\ s \in listed
  /\ phase = "reminders"
  /\ ReminderDue(s)
  /\ reminders' = Sent(reminders, s)
  /\ GoOn(s, "reminded")
  /\ UNCHANGED <<sub, loopVars, faults, alerts, told, closed>>

mark_reminder_sent(s) ==
  /\ InHand(s, "reminded")
  /\ sub' = [sub EXCEPT ![s].reminded = TRUE]
  /\ Done(s)
  /\ UNCHANGED <<loopVars, faults, sentVars, closed>>

\* Mutant: the row leaves the list but its next update is tried all the same.
UpdateRaisesOn(s) ==
  /\ hand = s
  /\ Fault
  /\ listed' = listed \ {s}
  /\ UNCHANGED <<sub, hand, step, loopVars, sentVars, closed>>

\* One of these updates raises: what follows it for the row is not done.
UpdateRaises(s) ==
  /\ hand = s
  /\ Fault
  /\ Done(s)
  /\ UNCHANGED <<sub, loopVars, sentVars, closed>>

Handle(s) ==
  \/ Skip(s) \/ SendRaises(s) \/ UpdateRaises(s)
  \/ SendAlert(s) \/ MarkSerial(s) \/ mark_alerted(s)
  \/ SendAdjourned(s) \/ deactivate_subscription(s)
  \/ SendReminder(s) \/ mark_reminder_sent(s)

-----------------------------------------------------------------------------
(* Users, through the bots, and time.                                      *)

monitorVars == <<board, left, phase, open, rowVars, sentVars, closed, reached,
                 past>>

remove_subscription(u, r) ==
  sub' = [s \in Subs |->
            IF sub[s] # None /\ sub[s].user = u /\ sub[s].room = r
              THEN [sub[s] EXCEPT !.active = FALSE] ELSE sub[s]]

\* What can be asked for: today or a later day.
Requests ==
  [user : Users, room : Rooms, target : Serials, ahead : LookAheads,
   date : Today .. MaxClock \div DayTicks]

\* The watch command: what the user had for the room is removed ...
Watch(b) ==
  /\ bot[b] = None
  /\ \E q \in Requests :
       /\ bot' = [bot EXCEPT ![b] = q]
       /\ remove_subscription(q.user, q.room)
  /\ UNCHANGED <<clock, faults, monitorVars>>

AddRow(q) ==
  \E s \in Subs :
    /\ sub[s] = None
    /\ sub' = [sub EXCEPT ![s] =
                 [user |-> q.user, room |-> q.room, target |-> q.target,
                  ahead |-> q.ahead, date |-> q.date, active |-> TRUE,
                  alerted |-> None, serial |-> None, reminded |-> FALSE]]

\* ... then the new row is added; or that raises.
add_subscription(b) ==
  /\ bot[b] # None
  /\ \/ AddRow(bot[b]) /\ UNCHANGED faults
     \/ Fault /\ UNCHANGED sub
  /\ bot' = [bot EXCEPT ![b] = None]
  /\ UNCHANGED <<clock, monitorVars>>

\* POST /alert: a row is added, what the user had stays.
create_alert ==
  /\ \E q \in Requests : AddRow(q)
  /\ UNCHANGED <<clock, bot, faults, monitorVars>>

Unwatch(u, r) ==
  /\ remove_subscription(u, r)
  /\ UNCHANGED <<clock, bot, faults, monitorVars>>

Tick ==
  /\ clock < MaxClock
  /\ clock' = clock + 1
  /\ UNCHANGED <<sub, bot, faults, monitorVars>>

Poll ==
  \/ PollSucceeds
  \/ ListForAlerts \/ ListForReminders \/ (\E r \in Rooms : ListForRoom(r))
  \/ Close
  \/ \E s \in Subs : Handle(s)

Next ==
  \/ Poll
  \/ SnapshotRaises \/ Abandon
  \/ MonitorCrash
  \/ \E b \in Bots : Watch(b) \/ add_subscription(b)
  \/ create_alert
  \/ \E u \in Users, r \in Rooms : Unwatch(u, r)
  \/ Tick

Spec == Init /\ [][Next]_vars

\* The loop goes on, a scrape succeeds again and again, and so does a send that is
\* tried again and again.  (Nothing makes the updates or the users' commands happen.)
FairSpec ==
  /\ Spec
  /\ WF_vars(Poll)
  /\ \A s \in Subs : SF_vars(SendAlert(s))

-----------------------------------------------------------------------------
(* Properties.                                                             *)

\* Each row is alerted once, reminded once and told once, but for what a fault (a
\* crash, a failing update after the send) makes the loop send again.
EachSentOnce ==
  \A s \in Subs : /\ alerts[s] <= 1 + faults
                  /\ reminders[s] <= 1 + faults
                  /\ told[s] <= 1 + faults

\* Who was alerted is not told that the case was not reached, except when a fault
\* kept the alert from being recorded: three passes over separately read lists.
NeverBoth == \A s \in Subs : alerts[s] > 0 /\ told[s] > 0 => faults > 0

\* The reminder goes to those whose alert came before the target was called, and is
\* recorded as such: update_last_notified_serial precedes mark_alerted.
ReminderFollowsAlert ==
  \A s \in Subs :
    reminders[s] > 0 => /\ alerts[s] > 0
                        /\ sub[s].serial # None
                        /\ sub[s].serial < sub[s].target

\* What run_monitor's three passes tell a user of a row agrees.
MessagesAgree == NeverBoth /\ ReminderFollowsAlert

\* The monitor gives a row up only after its user, who can be reached, was told.
ClosedWereTold == \A s \in closed : CanReach(s) => told[s] > 0

\* A row removed or for another day when a list was read hears nothing from that
\* list on, although the bots and the clock change rows while the loop works on it.
PastRowsHearNothing ==
  [][\A s \in past : /\ alerts'[s] = alerts[s]
                     /\ told'[s] = told[s]
                     /\ reminders'[s] = reminders[s]]_vars

\* No row stays due forever: with sends that succeed again and again it is alerted
\* and marked, or removed, or the board or the day moves on.
DueIsHandled ==
  \A s \in Subs :
    LET Waits == /\ s \in list_active_subscriptions
                 /\ sub[s].alerted = None
                 /\ Reached(sub[s].room, sub[s].target - sub[s].ahead)
    IN  Waits /\ CanReach(s) ~> ~ Waits

(* What the docstring of _notify_adjournments says, "Detect courts that    *)
(* just left the board; notify subscribers whose serial wasn't reached",   *)
(* run_monitor.py:257.                                                     *)

\* Whoever is told that the serial was not reached did not have it reached.
AdjournedMeansNotReached ==
  \A s \in Subs : told[s] > 0 /\ faults = 0 => s \notin reached

=============================================================================
