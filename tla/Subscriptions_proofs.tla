------------------------ MODULE Subscriptions_proofs ------------------------
(***************************************************************************)
(* Proofs about Subscriptions, for any rows, users, rooms, bots and        *)
(* faults: the messages of a row agree with each other and with what the   *)
(* row records, whatever the users do between two steps of the poll.       *)
(***************************************************************************)
EXTENDS Subscriptions, TLAPS

-----------------------------------------------------------------------------
(* The inductive invariant.                                                *)

\* Only an open list has rows, and only a poll under way has one open.
LoopInv ==
  /\ ~ open => listed = {}
  /\ open => phase # "idle"
  /\ past \cap listed = {}

\* What the row in hand still needs says in which pass it is.
PassAt(s) ==
  hand = s =>
    /\ step \in {"serial", "alerted"} => phase = "alerts"
    /\ step = "serial" => Reached(sub[s].room, sub[s].target - sub[s].ahead)
    /\ step = "close" => phase = "adjourn"
    /\ step = "reminded" => phase = "reminders"

Recorded(s) == sub[s] # None /\ sub[s].alerted # None

Pending(s, steps) == hand = s /\ step \in steps

\* An alert that was sent is recorded or about to be, but for the faults.
AlertAt(s) ==
  /\ alerts[s] <= 1 + faults
  /\ alerts[s] > faults => Recorded(s) \/ Pending(s, {"serial", "alerted"})
  /\ Recorded(s) \/ Pending(s, {"serial", "alerted"}) => alerts[s] > 0
  /\ Pending(s, {"serial", "alerted"}) => ~ Recorded(s)
  /\ Recorded(s) \/ Pending(s, {"alerted"}) => sub[s].serial # None

\* A row that is closed is inactive and in no list, so that it is told no more.
ToldAt(s) ==
  /\ told[s] <= 1 + faults
  /\ told[s] > faults => s \in closed \/ Pending(s, {"close"})
  /\ s \in closed \/ Pending(s, {"close"}) => (CanReach(s) => told[s] > 0)
  /\ s \in closed => sub[s] # None /\ ~ sub[s].active /\ s \notin listed
  /\ told[s] > 0 => sub[s] # None

ReminderAt(s) ==
  /\ reminders[s] <= 1 + faults
  /\ reminders[s] > faults => sub[s].reminded \/ Pending(s, {"reminded"})
  /\ reminders[s] > 0 \/ Pending(s, {"reminded"}) =>
       /\ sub[s] # None /\ Recorded(s)
       /\ sub[s].serial < sub[s].target

BothAt(s) == alerts[s] > 0 /\ told[s] > 0 => faults > 0

RowAt(s) == PassAt(s) /\ AlertAt(s) /\ ToldAt(s) /\ ReminderAt(s) /\ BothAt(s)

SubsInv == TypeOK /\ LoopInv /\ \A s \in Subs : RowAt(s)

-----------------------------------------------------------------------------
(* Lemmas about types.                                                     *)

LEMMA DayIsNat ==
  ASSUME clock \in Nat
  PROVE  /\ Today \in Nat
         /\ \A q \in Requests : q.date \in Nat /\ q \in Request
<1>1. Today \in Nat
  BY TicksAssumption DEF Today
<1>2. ASSUME NEW q \in Requests PROVE q.date \in Nat /\ q \in Request
  <2>1. q.date \in Nat
    BY <1>1, TicksAssumption DEF Requests
  <2>2. QED
    BY <2>1 DEF Requests, Request
<1>3. QED
  BY <1>1, <1>2

\* What the requests of users may do to a row: write it, or deactivate it.
UserStep(s) ==
  \/ sub[s] = None /\ sub'[s] = None
  \/ /\ sub[s] = None /\ sub'[s] \in Row
     /\ sub'[s].alerted = None /\ sub'[s].serial = None /\ sub'[s].reminded = FALSE
  \/ /\ sub[s] \in Row /\ sub'[s] \in Row
     /\ sub'[s] \in {sub[s], [sub[s] EXCEPT !.active = FALSE]}

LEMMA RemoveIsUserStep ==
  ASSUME TypeOK, NEW u, NEW r, remove_subscription(u, r)
  PROVE  sub' \in [Subs -> Row \cup {None}] /\ \A s \in Subs : UserStep(s)
<1>1. ASSUME NEW s \in Subs PROVE UserStep(s) /\ sub'[s] \in Row \cup {None}
  <2>1. sub[s] \in Row \cup {None}
    BY DEF TypeOK
  <2>2. CASE sub[s] # None /\ sub[s].user = u /\ sub[s].room = r
    <3>1. sub'[s] = [sub[s] EXCEPT !.active = FALSE]
      BY <2>2 DEF remove_subscription
    <3>2. [sub[s] EXCEPT !.active = FALSE] \in Row
      BY <2>1, <2>2 DEF Row
    <3>3. QED
      BY <2>1, <2>2, <3>1, <3>2 DEF UserStep
  <2>3. CASE ~ (sub[s] # None /\ sub[s].user = u /\ sub[s].room = r)
    <3>1. sub'[s] = sub[s]
      BY <2>3 DEF remove_subscription
    <3>2. QED
      BY <2>1, <3>1 DEF UserStep
  <2>4. QED
    BY <2>2, <2>3
<1>2. sub' = [s \in Subs |-> sub'[s]]
  BY DEF remove_subscription
<1>3. QED
  BY <1>1, <1>2

LEMMA AddIsUserStep ==
  ASSUME TypeOK, NEW q \in Request, AddRow(q)
  PROVE  sub' \in [Subs -> Row \cup {None}] /\ \A s \in Subs : UserStep(s)
<1>. PICK x \in Subs :
       /\ sub[x] = None
       /\ sub' = [sub EXCEPT ![x] =
                    [user |-> q.user, room |-> q.room, target |-> q.target,
                     ahead |-> q.ahead, date |-> q.date, active |-> TRUE,
                     alerted |-> None, serial |-> None, reminded |-> FALSE]]
  BY DEF AddRow
<1>1. [user |-> q.user, room |-> q.room, target |-> q.target,
       ahead |-> q.ahead, date |-> q.date, active |-> TRUE,
       alerted |-> None, serial |-> None, reminded |-> FALSE] \in Row
  BY DEF Row, Request
<1>2. ASSUME NEW s \in Subs PROVE UserStep(s) /\ sub'[s] \in Row \cup {None}
  <2>1. CASE s = x
    BY <1>1, <2>1 DEF UserStep, TypeOK
  <2>2. CASE s # x
    BY <2>2 DEF UserStep, TypeOK
  <2>3. QED
    BY <2>1, <2>2
<1>3. QED
  BY <1>1, <1>2 DEF TypeOK

\* The three kinds of requests.
UsersDo ==
  \/ \E b \in Bots : Watch(b) \/ add_subscription(b)
  \/ create_alert
  \/ \E u \in Users, r \in Rooms : Unwatch(u, r)

LEMMA UsersChange ==
  ASSUME TypeOK, UsersDo
  PROVE  /\ sub' \in [Subs -> Row \cup {None}]
         /\ \A s \in Subs : UserStep(s)
         /\ bot' \in [Bots -> Request \cup {None}]
         /\ faults' \in Nat /\ faults' >= faults
         /\ UNCHANGED <<clock, monitorVars>>
<1>0. faults \in Nat /\ clock \in Nat /\ bot \in [Bots -> Request \cup {None}]
  BY DEF TypeOK
<1>1. ASSUME NEW b \in Bots, Watch(b)
      PROVE  /\ \E u, r : remove_subscription(u, r)
             /\ bot' \in [Bots -> Request \cup {None}]
             /\ UNCHANGED <<faults, clock, monitorVars>>
  <2>. PICK q \in Requests : /\ bot' = [bot EXCEPT ![b] = q]
                             /\ remove_subscription(q.user, q.room)
    BY <1>1 DEF Watch
  <2>1. q \in Request
    BY <1>0, DayIsNat
  <2>2. bot' \in [Bots -> Request \cup {None}]
    BY <1>0, <2>1
  <2>3. QED
    BY <1>1, <2>2 DEF Watch
<1>2. ASSUME NEW b \in Bots, add_subscription(b)
      PROVE  /\ UNCHANGED sub \/ (AddRow(bot[b]) /\ bot[b] \in Request)
             /\ bot' \in [Bots -> Request \cup {None}]
             /\ faults' \in Nat /\ faults' >= faults
             /\ UNCHANGED <<clock, monitorVars>>
  <2>1. bot[b] \in Request
    BY <1>0, <1>2 DEF add_subscription
  <2>2. bot' \in [Bots -> Request \cup {None}]
    BY <1>0, <1>2 DEF add_subscription
  <2>3. faults' \in Nat /\ faults' >= faults
    BY <1>0, <1>2 DEF add_subscription, Fault
  <2>4. QED
    BY <1>2, <2>1, <2>2, <2>3 DEF add_subscription
<1>3. ASSUME create_alert
      PROVE  /\ \E q \in Request : AddRow(q)
             /\ UNCHANGED <<bot, faults, clock, monitorVars>>
  BY <1>0, <1>3, DayIsNat DEF create_alert
<1>4. ASSUME UNCHANGED sub
      PROVE  sub' \in [Subs -> Row \cup {None}] /\ \A s \in Subs : UserStep(s)
  BY <1>4 DEF TypeOK, UserStep
<1>5. CASE \E b \in Bots : Watch(b)
  <2>. PICK b \in Bots : Watch(b)
    BY <1>5
  <2>. PICK u, r : remove_subscription(u, r)
    BY <1>1
  <2>1. QED
    BY <1>0, <1>1, RemoveIsUserStep
<1>6. CASE \E b \in Bots : add_subscription(b)
  <2>. PICK b \in Bots : add_subscription(b)
    BY <1>6
  <2>1. sub' \in [Subs -> Row \cup {None}] /\ \A s \in Subs : UserStep(s)
    BY <1>2, <1>4, AddIsUserStep
  <2>2. QED
    BY <1>2, <2>1
<1>7. CASE create_alert
  <2>. PICK q \in Request : AddRow(q)
    BY <1>3, <1>7
  <2>1. sub' \in [Subs -> Row \cup {None}] /\ \A s \in Subs : UserStep(s)
    BY AddIsUserStep
  <2>2. QED
    BY <1>0, <1>3, <1>7, <2>1
<1>8. CASE \E u \in Users, r \in Rooms : Unwatch(u, r)
  <2>. PICK u \in Users, r \in Rooms : Unwatch(u, r)
    BY <1>8
  <2>1. remove_subscription(u, r) /\ UNCHANGED <<clock, bot, faults, monitorVars>>
    BY DEF Unwatch
  <2>2. QED
    BY <1>0, <2>1, RemoveIsUserStep
<1>9. QED
  BY <1>5, <1>6, <1>7, <1>8 DEF UsersDo

-----------------------------------------------------------------------------
(* Type correctness and the loop.                                          *)


\* What the type of a state depends on, apart from the row in hand.
RestTyped ==
  /\ clock \in Nat /\ board \in [Rooms -> Shown] /\ left \subseteq Rooms
  /\ phase \in {"idle", "alerts", "adjourn", "reminders"} /\ open \in BOOLEAN
  /\ bot \in [Bots -> Request \cup {None}]
  /\ {reached, past} \subseteq SUBSET Subs

HandTyped ==
  /\ listed \subseteq {s \in Subs : sub[s] # None}
  /\ hand \in Subs \cup {None}
  /\ step \in {"none", "serial", "alerted", "close", "reminded"}
  /\ hand # None <=> step # "none"
  /\ hand # None => hand \in listed

SentTyped ==
  /\ sub \in [Subs -> Row \cup {None}]
  /\ faults \in Nat
  /\ alerts \in [Subs -> Nat] /\ told \in [Subs -> Nat] /\ reminders \in [Subs -> Nat]
  /\ closed \subseteq Subs

LEMMA TypeParts == TypeOK <=> RestTyped /\ HandTyped /\ SentTyped
BY DEF TypeOK, RestTyped, HandTyped, SentTyped

LEMMA TypePartsNext ==
  ASSUME RestTyped', HandTyped', SentTyped'
  PROVE  TypeOK'
BY DEF TypeOK, RestTyped, HandTyped, SentTyped

\* A step of the loop that handles a row: its frame.
Handles(s) ==
  /\ UNCHANGED loopVars
  /\ s \in listed
  /\ hand \in {s, None}
  /\ \/ Done(s)
     \/ hand' = s /\ step' \in {"serial", "alerted", "close", "reminded"} /\ listed' = listed
  /\ \A x \in Subs : x # s => /\ sub'[x] = sub[x] /\ alerts'[x] = alerts[x]
                              /\ told'[x] = told[x] /\ reminders'[x] = reminders[x]
  /\ closed \subseteq closed' /\ closed' \subseteq closed \cup {s}
  /\ faults' >= faults
  /\ SentTyped'
  /\ sub[s] # None => sub'[s] # None

LEMMA RowChanges ==
  ASSUME TypeOK, NEW s \in Subs, sub[s] # None
  PROVE  /\ Reached(sub[s].room, sub[s].target - sub[s].ahead) =>
              [sub[s] EXCEPT !.serial = board[sub[s].room]] \in Row
         /\ [sub[s] EXCEPT !.alerted = clock] \in Row
         /\ [sub[s] EXCEPT !.active = FALSE] \in Row
         /\ [sub[s] EXCEPT !.reminded = TRUE] \in Row
<1>1. sub[s] \in Row /\ clock \in Nat
  BY DEF TypeOK
<1>2. ASSUME Reached(sub[s].room, sub[s].target - sub[s].ahead)
      PROVE  [sub[s] EXCEPT !.serial = board[sub[s].room]] \in Row
  <2>1. board[sub[s].room] \in Serials
    BY <1>2 DEF Reached
  <2>2. QED
    BY <1>1, <2>1 DEF Row
<1>3. [sub[s] EXCEPT !.alerted = clock] \in Row
  BY <1>1 DEF Row
<1>4. [sub[s] EXCEPT !.active = FALSE] \in Row /\ [sub[s] EXCEPT !.reminded = TRUE] \in Row
  BY <1>1 DEF Row
<1>5. QED
  BY <1>2, <1>3, <1>4

LEMMA SentChanges ==
  ASSUME NEW c \in [Subs -> Nat], NEW s \in Subs
  PROVE  /\ Sent(c, s) \in [Subs -> Nat]
         /\ \A x \in Subs : x # s => Sent(c, s)[x] = c[x]
         /\ CanReach(s) => Sent(c, s)[s] = c[s] + 1
         /\ ~ CanReach(s) => Sent(c, s)[s] = c[s]
BY DEF Sent

LEMMA HandleFrame ==
  ASSUME SubsInv, NEW s \in Subs, Handle(s)
  PROVE  Handles(s)
<1>0. /\ TypeOK /\ RestTyped /\ HandTyped /\ SentTyped /\ LoopInv /\ PassAt(s)
      /\ None \notin Row
  BY TypeParts, NoneAssumption DEF SubsInv, RowAt
<1>1. /\ s # None /\ (hand = s => s \in listed) /\ faults \in Nat
      /\ (s \in listed => sub[s] # None)
  BY <1>0, SubsAssumption DEF HandTyped, SentTyped
<1>2. /\ alerts \in [Subs -> Nat] /\ told \in [Subs -> Nat] /\ reminders \in [Subs -> Nat]
      /\ sub \in [Subs -> Row \cup {None}] /\ closed \subseteq Subs
  BY <1>0 DEF SentTyped
<1>3. CASE Skip(s)
  BY <1>0, <1>1, <1>3 DEF Skip, Handles, SentTyped, sentVars
<1>4. CASE SendRaises(s)
  <2>1. /\ s \in listed /\ hand = None /\ Done(s) /\ UNCHANGED <<sub, loopVars, closed>>
    BY <1>4 DEF SendRaises
  <2>2. faults' \in Nat /\ faults' >= faults
    BY <1>1, <1>4 DEF SendRaises, Fault
  <2>3. /\ alerts' \in {alerts, Sent(alerts, s)}
        /\ told' \in {told, Sent(told, s)}
        /\ reminders' \in {reminders, Sent(reminders, s)}
    BY <1>4 DEF SendRaises
  <2>4. /\ alerts' \in [Subs -> Nat] /\ told' \in [Subs -> Nat] /\ reminders' \in [Subs -> Nat]
        /\ \A x \in Subs : x # s => /\ alerts'[x] = alerts[x] /\ told'[x] = told[x]
                                    /\ reminders'[x] = reminders[x]
    BY <1>2, <2>3, SentChanges
  <2>5. QED
    BY <1>0, <2>1, <2>2, <2>4 DEF Handles, SentTyped
<1>5. CASE UpdateRaises(s)
  BY <1>0, <1>1, <1>5 DEF UpdateRaises, Fault, Handles, SentTyped, sentVars
<1>6. CASE SendAlert(s)
  <2>1. alerts' \in [Subs -> Nat] /\ \A x \in Subs : x # s => alerts'[x] = alerts[x]
    BY <1>2, <1>6, SentChanges DEF SendAlert
  <2>2. QED
    BY <1>0, <1>1, <1>2, <1>6, <2>1 DEF SendAlert, GoOn, Handles, SentTyped
<1>7. CASE MarkSerial(s)
  <2>1. Reached(sub[s].room, sub[s].target - sub[s].ahead)
    BY <1>0, <1>7 DEF MarkSerial, InHand, PassAt
  <2>2. sub' = [sub EXCEPT ![s] = [sub[s] EXCEPT !.serial = board[sub[s].room]]]
    BY <1>2, <1>7 DEF MarkSerial
  <2>3. [sub[s] EXCEPT !.serial = board[sub[s].room]] \in Row
    BY <1>0, <1>1, <1>7, <2>1, RowChanges DEF MarkSerial, InHand
  <2>4. /\ sub' \in [Subs -> Row \cup {None}] /\ sub'[s] # None
        /\ \A x \in Subs : x # s => sub'[x] = sub[x]
    BY <1>0, <1>2, <2>2, <2>3
  <2>5. QED
    BY <1>0, <1>1, <1>2, <1>7, <2>4 DEF MarkSerial, InHand, GoOn, Handles, SentTyped, sentVars
<1>8. CASE mark_alerted(s)
  <2>2. sub' = [sub EXCEPT ![s] = [sub[s] EXCEPT !.alerted = clock]]
    BY <1>2, <1>8 DEF mark_alerted
  <2>3. [sub[s] EXCEPT !.alerted = clock] \in Row
    BY <1>0, <1>1, <1>8, RowChanges DEF mark_alerted, InHand
  <2>4. /\ sub' \in [Subs -> Row \cup {None}] /\ sub'[s] # None
        /\ \A x \in Subs : x # s => sub'[x] = sub[x]
    BY <1>0, <1>2, <2>2, <2>3
  <2>5. QED
    BY <1>0, <1>1, <1>2, <1>8, <2>4 DEF mark_alerted, InHand, Handles, SentTyped, sentVars
<1>9. CASE SendAdjourned(s)
  <2>1. told' \in [Subs -> Nat] /\ \A x \in Subs : x # s => told'[x] = told[x]
    BY <1>2, <1>9, SentChanges DEF SendAdjourned
  <2>2. QED
    BY <1>0, <1>1, <1>2, <1>9, <2>1 DEF SendAdjourned, GoOn, Handles, SentTyped
<1>10. CASE deactivate_subscription(s)
  <2>2. sub' = [sub EXCEPT ![s] = [sub[s] EXCEPT !.active = FALSE]]
    BY <1>2, <1>10 DEF deactivate_subscription
  <2>3. [sub[s] EXCEPT !.active = FALSE] \in Row
    BY <1>0, <1>1, <1>10, RowChanges DEF deactivate_subscription, InHand
  <2>4. /\ sub' \in [Subs -> Row \cup {None}] /\ sub'[s] # None
        /\ \A x \in Subs : x # s => sub'[x] = sub[x]
    BY <1>0, <1>2, <2>2, <2>3
  <2>5. QED
    BY <1>0, <1>1, <1>2, <1>10, <2>4
    DEF deactivate_subscription, InHand, Handles, SentTyped, sentVars
<1>11. CASE SendReminder(s)
  <2>1. reminders' \in [Subs -> Nat] /\ \A x \in Subs : x # s => reminders'[x] = reminders[x]
    BY <1>2, <1>11, SentChanges DEF SendReminder
  <2>2. QED
    BY <1>0, <1>1, <1>2, <1>11, <2>1 DEF SendReminder, GoOn, Handles, SentTyped
<1>12. CASE mark_reminder_sent(s)
  <2>2. sub' = [sub EXCEPT ![s] = [sub[s] EXCEPT !.reminded = TRUE]]
    BY <1>2, <1>12 DEF mark_reminder_sent
  <2>3. [sub[s] EXCEPT !.reminded = TRUE] \in Row
    BY <1>0, <1>1, <1>12, RowChanges DEF mark_reminder_sent, InHand
  <2>4. /\ sub' \in [Subs -> Row \cup {None}] /\ sub'[s] # None
        /\ \A x \in Subs : x # s => sub'[x] = sub[x]
    BY <1>0, <1>2, <2>2, <2>3
  <2>5. QED
    BY <1>0, <1>1, <1>2, <1>12, <2>4 DEF mark_reminder_sent, InHand, Handles, SentTyped, sentVars
<1>13. QED
  BY <1>3, <1>4, <1>5, <1>6, <1>7, <1>8, <1>9, <1>10, <1>11, <1>12 DEF Handle

\* The row in hand may change, the rows that are listed only shrink.
LEMMA HandleTypes ==
  ASSUME TypeOK, LoopInv, NEW s \in Subs, Handles(s)
  PROVE  TypeOK' /\ LoopInv'
<1>0. RestTyped /\ HandTyped /\ SentTyped
  BY TypeParts
<1>1. RestTyped'
  BY <1>0 DEF Handles, loopVars, RestTyped
<1>2. \A x \in Subs : sub[x] # None => sub'[x] # None
  BY DEF Handles
<1>3. HandTyped'
  <2>1. CASE Done(s)
    BY <1>0, <1>2, <2>1 DEF Done, HandTyped
  <2>2. CASE ~ Done(s)
    <3>1. /\ hand' = s /\ s \in listed /\ listed' = listed
          /\ step' \in {"serial", "alerted", "close", "reminded"}
      BY <2>2 DEF Handles
    <3>2. s # None
      BY SubsAssumption
    <3>3. QED
      BY <1>0, <1>2, <3>1, <3>2 DEF HandTyped
  <2>3. QED
    BY <2>1, <2>2
<1>4. SentTyped'
  BY DEF Handles
<1>5. TypeOK'
  BY <1>1, <1>3, <1>4, TypePartsNext
<1>6. LoopInv'
  BY DEF Handles, Done, loopVars, LoopInv
<1>7. QED
  BY <1>5, <1>6

\* A list that is read anew, or gone, with nothing in hand.
LEMMA ListTypes ==
  ASSUME TypeOK, hand' = None, step' = "none", RestTyped',
         UNCHANGED <<sub, sentVars, closed>>, faults' \in Nat,
         listed' \subseteq {s \in Subs : sub[s] # None}
  PROVE  TypeOK'
<1>1. HandTyped'
  BY SubsAssumption DEF HandTyped
<1>2. SentTyped'
  BY DEF TypeOK, SentTyped, sentVars
<1>3. QED
  BY <1>1, <1>2, TypePartsNext

LEMMA NothingInHand ==
  ASSUME TypeOK, LoopInv, ~ open \/ listed = {}
  PROVE  hand = None /\ step = "none" /\ listed = {}
<1>1. HandTyped
  BY TypeParts
<1>2. QED
  BY <1>1 DEF HandTyped, LoopInv

\* Reading a list: only rows that are active today are in it.
Opens ==
  \/ ListForAlerts \/ ListForReminders
  \/ \E r \in Rooms : ListForRoom(r)

LEMMA OpenTypes ==
  ASSUME TypeOK, LoopInv, Opens
  PROVE  /\ TypeOK' /\ LoopInv'
         /\ hand = None /\ hand' = None /\ listed' \subseteq list_active_subscriptions
         /\ UNCHANGED <<sub, board, phase, step, faults, sentVars, closed>>
<1>1. PICK rows \in SUBSET list_active_subscriptions : Open(rows)
  BY DEF Opens, ListForAlerts, ListForReminders, ListForRoom, list_active_subscriptions_for_room
<1>2. hand = None /\ step = "none" /\ phase # "idle"
  BY NothingInHand, <1>1 DEF Open, Opens, ListForAlerts, ListForReminders, ListForRoom
<1>3. listed' \subseteq list_active_subscriptions
  BY <1>1 DEF Open
<1>4. list_active_subscriptions \subseteq {s \in Subs : sub[s] # None}
  BY DEF list_active_subscriptions, Active
<1>5. RestTyped /\ SentTyped
  BY TypeParts
<1>6. left' \subseteq Rooms /\ past' \subseteq Subs
  BY <1>1, <1>5 DEF Open, Opens, ListForAlerts, ListForReminders, ListForRoom, RestTyped
<1>7. RestTyped'
  BY <1>1, <1>5, <1>6 DEF Open, RestTyped
<1>8. TypeOK'
  BY <1>1, <1>2, <1>3, <1>4, <1>5, <1>7, ListTypes DEF Open, SentTyped
<1>9. past' \cap listed' = {}
  BY <1>1 DEF Open, list_active_subscriptions, Active
<1>10. LoopInv'
  BY <1>1, <1>2, <1>9 DEF Open, LoopInv
<1>11. QED
  BY <1>1, <1>2, <1>3, <1>8, <1>10 DEF Open

\* A poll begins, goes on to its next list, or ends.
Turns == PollSucceeds \/ SnapshotRaises \/ Abandon \/ Close \/ MonitorCrash

LEMMA TurnTypes ==
  ASSUME TypeOK, LoopInv, Turns
  PROVE  /\ TypeOK' /\ LoopInv'
         /\ hand' = None /\ step' = "none" /\ listed' = {}
         /\ faults' >= faults
         /\ hand # None => faults' = faults + 1
         /\ UNCHANGED <<sub, sentVars, closed>>
<1>1. RestTyped /\ SentTyped /\ faults \in Nat
  BY TypeParts DEF SentTyped
<1>2. faults' \in Nat /\ faults' >= faults
  BY <1>1 DEF Turns, PollSucceeds, SnapshotRaises, Abandon, Close, MonitorCrash, Fault
<1>3. UNCHANGED <<sub, sentVars, closed, past>>
  BY DEF Turns, PollSucceeds, SnapshotRaises, Abandon, Close, MonitorCrash
<1>4. hand' = None /\ step' = "none" /\ listed' = {} /\ (hand # None => faults' = faults + 1)
  <2>1. CASE PollSucceeds \/ SnapshotRaises \/ Abandon \/ Close
    <3>1. ~ open \/ listed = {}
      BY <2>1 DEF PollSucceeds, SnapshotRaises, Abandon, Close, LoopInv
    <3>2. hand = None /\ step = "none" /\ listed = {}
      BY <3>1, NothingInHand
    <3>3. QED
      BY <2>1, <3>2 DEF PollSucceeds, SnapshotRaises, Abandon, Close, rowVars
  <2>2. CASE MonitorCrash
    BY <2>2 DEF MonitorCrash, Fault
  <2>3. QED
    BY <2>1, <2>2 DEF Turns
<1>5. RestTyped'
  <2>1. CASE PollSucceeds
    <3>1. board' \in [Rooms -> Shown] /\ left' \subseteq Rooms
      BY <2>1 DEF PollSucceeds, Leaving
    <3>2. reached' \subseteq Subs
      BY <1>1, <2>1 DEF PollSucceeds, RestTyped, list_active_subscriptions, Active
    <3>3. QED
      BY <1>1, <2>1, <3>1, <3>2 DEF PollSucceeds, RestTyped
  <2>2. CASE SnapshotRaises
    BY <1>1, <2>2 DEF SnapshotRaises, RestTyped
  <2>3. CASE Abandon
    BY <1>1, <2>3 DEF Abandon, RestTyped
  <2>4. CASE Close
    <3>1. phase \in {"alerts", "adjourn", "reminders"}
      BY <1>1, <2>4 DEF Close, LoopInv, RestTyped
    <3>2. phase' \in {"alerts", "adjourn", "reminders", "idle"}
      BY <2>4, <3>1 DEF Close
    <3>3. QED
      BY <1>1, <2>4, <3>2 DEF Close, RestTyped
  <2>5. CASE MonitorCrash
    BY <1>1, <2>5 DEF MonitorCrash, RestTyped
  <2>6. QED
    BY <2>1, <2>2, <2>3, <2>4, <2>5 DEF Turns
<1>6. TypeOK'
  BY <1>2, <1>3, <1>4, <1>5, ListTypes
<1>7. ~ open'
  BY <1>1 DEF Turns, PollSucceeds, SnapshotRaises, Abandon, Close, MonitorCrash, LoopInv
<1>8. LoopInv'
  BY <1>3, <1>4, <1>7 DEF LoopInv
<1>9. QED
  BY <1>2, <1>3, <1>4, <1>6, <1>8

LEMMA UsersTypes ==
  ASSUME TypeOK, LoopInv, UsersDo
  PROVE  TypeOK' /\ LoopInv'
<1>0. RestTyped /\ HandTyped /\ SentTyped
  BY TypeParts
<1>1. /\ sub' \in [Subs -> Row \cup {None}] /\ bot' \in [Bots -> Request \cup {None}]
      /\ faults' \in Nat /\ UNCHANGED <<clock, monitorVars>>
  BY UsersChange
<1>2. \A s \in Subs : sub[s] # None => sub'[s] # None
  BY NoneAssumption, UsersChange DEF UserStep
<1>3. RestTyped' /\ SentTyped'
  BY <1>0, <1>1 DEF RestTyped, SentTyped, monitorVars, sentVars
<1>4. HandTyped'
  BY <1>0, <1>1, <1>2 DEF HandTyped, monitorVars, rowVars
<1>5. LoopInv'
  BY <1>1 DEF LoopInv, monitorVars, rowVars
<1>6. QED
  BY <1>3, <1>4, <1>5, TypePartsNext

LEMMA TickTypes ==
  ASSUME TypeOK, LoopInv, Tick
  PROVE  TypeOK' /\ LoopInv'
<1>0. RestTyped /\ HandTyped /\ SentTyped
  BY TypeParts
<1>1. RestTyped' /\ SentTyped' /\ HandTyped'
  BY <1>0 DEF Tick, RestTyped, SentTyped, HandTyped, monitorVars, sentVars, rowVars
<1>2. LoopInv'
  BY DEF Tick, LoopInv, monitorVars, rowVars
<1>3. QED
  BY <1>1, <1>2, TypePartsNext

-----------------------------------------------------------------------------
(* Each row.                                                               *)

LEMMA RowTyped ==
  ASSUME TypeOK, NEW s \in Subs
  PROVE  /\ alerts[s] \in Nat /\ told[s] \in Nat /\ reminders[s] \in Nat /\ faults \in Nat
         /\ sub[s] \in Row \cup {None}
         /\ s # None
BY SubsAssumption DEF TypeOK

LEMMA RowTypedNext ==
  ASSUME TypeOK', NEW s \in Subs
  PROVE  /\ alerts'[s] \in Nat /\ told'[s] \in Nat /\ reminders'[s] \in Nat /\ faults' \in Nat
         /\ sub'[s] \in Row \cup {None}
BY DEF TypeOK

\* What is the same for a row that nobody touches, when nothing of it is pending.
LEMMA UntouchedRow ==
  ASSUME TypeOK, TypeOK', NEW s \in Subs, RowAt(s),
         sub'[s] = sub[s], alerts'[s] = alerts[s], told'[s] = told[s],
         reminders'[s] = reminders[s], s \in closed' <=> s \in closed,
         hand' # s, faults' >= faults,
         hand = s => faults' = faults + 1,
         s \in listed' => s \in listed \/ sub[s].active
  PROVE  RowAt(s)'
<1>0. /\ alerts[s] \in Nat /\ told[s] \in Nat /\ reminders[s] \in Nat
      /\ faults \in Nat /\ faults' \in Nat
  BY RowTyped, RowTypedNext
<1>1. PassAt(s)'
  BY DEF PassAt
<1>2. AlertAt(s)'
  BY <1>0 DEF RowAt, AlertAt, Recorded, Pending
<1>3. ToldAt(s)'
  BY <1>0 DEF RowAt, ToldAt, Pending, CanReach
<1>4. ReminderAt(s)'
  BY <1>0 DEF RowAt, ReminderAt, Recorded, Pending
<1>5. BothAt(s)'
  BY <1>0 DEF RowAt, BothAt
<1>6. QED
  BY <1>1, <1>2, <1>3, <1>4, <1>5 DEF RowAt

LEMMA OtherRow ==
  ASSUME TypeOK, TypeOK', NEW s \in Subs, Handles(s), NEW x \in Subs, x # s, RowAt(x)
  PROVE  RowAt(x)'
<1>1. hand # x /\ hand' # x
  BY RowTyped DEF Handles, Done
<1>2. listed' \subseteq listed
  BY DEF Handles, Done
<1>3. QED
  BY <1>1, <1>2, UntouchedRow DEF Handles

\* The row of a step of the loop.
LEMMA OwnRow ==
  ASSUME TypeOK, TypeOK', LoopInv, NEW s \in Subs, RowAt(s), Handle(s), Handles(s)
  PROVE  RowAt(s)'
<1>0. /\ alerts[s] \in Nat /\ told[s] \in Nat /\ reminders[s] \in Nat
      /\ faults \in Nat /\ faults' \in Nat /\ s # None
      /\ alerts \in [Subs -> Nat] /\ told \in [Subs -> Nat] /\ reminders \in [Subs -> Nat]
      /\ sub \in [Subs -> Row \cup {None}] /\ clock \in Nat
  BY RowTyped, RowTypedNext DEF TypeOK
<1>1. /\ sub[s] \in Row /\ sub[s] # None /\ sub'[s] # None
      /\ s \in listed /\ UNCHANGED <<board, phase>>
  BY <1>0 DEF Handles, TypeOK, loopVars
<1>3. s \notin closed
  BY <1>1 DEF RowAt, ToldAt
<1>4. CASE Skip(s)
  <2>1. /\ hand' = None /\ hand = None /\ UNCHANGED <<sub, faults, alerts, told, reminders, closed>>
        /\ listed' \subseteq listed
    BY <1>4 DEF Skip, Done, sentVars
  <2>2. QED
    BY <1>0, <2>1, UntouchedRow
<1>5. CASE UpdateRaises(s)
  <2>1. /\ hand' = None /\ UNCHANGED <<sub, alerts, told, reminders, closed>>
        /\ faults' = faults + 1 /\ listed' \subseteq listed
    BY <1>5 DEF UpdateRaises, Done, Fault, sentVars
  <2>2. QED
    BY <1>0, <2>1, UntouchedRow
<1>6. CASE SendRaises(s)
  <2>1. /\ hand = None /\ hand' = None /\ listed' = listed \ {s} /\ UNCHANGED <<sub, closed>>
        /\ CanReach(s)
    BY <1>6 DEF SendRaises, Done
  <2>2. /\ alerts'[s] <= alerts[s] + (faults' - faults)
        /\ told'[s] <= told[s] + (faults' - faults)
        /\ reminders'[s] <= reminders[s] + (faults' - faults)
        /\ alerts'[s] >= alerts[s] /\ told'[s] >= told[s] /\ reminders'[s] >= reminders[s]
        /\ faults' \in {faults, faults + 1}
        /\ reminders'[s] > reminders[s] => ReminderDue(s)
    <3>1. SendRaises(s) /\ CanReach(s)
      BY <1>6, <2>1
    <3>2. Sent(alerts, s)[s] = alerts[s] + 1 /\ Sent(told, s)[s] = told[s] + 1
          /\ Sent(reminders, s)[s] = reminders[s] + 1
      BY <1>0, <2>1, SentChanges
    <3>3. QED
      BY <1>0, <3>1, <3>2 DEF SendRaises, Fault
  <2>3. alerts'[s] \in Nat /\ told'[s] \in Nat /\ reminders'[s] \in Nat
    BY RowTypedNext
  <2>4. PassAt(s)'
    BY <1>0, <2>1 DEF PassAt
  <2>5. AlertAt(s)'
    BY <1>0, <2>1, <2>2, <2>3 DEF RowAt, AlertAt, Recorded, Pending
  <2>6. ToldAt(s)'
    BY <1>0, <1>1, <1>3, <2>1, <2>2, <2>3 DEF RowAt, ToldAt, Pending, CanReach
  <2>7. ReminderAt(s)'
    <3>1. ReminderDue(s) => Recorded(s) /\ sub[s].serial # None /\ sub[s].serial < sub[s].target
      BY <1>0, <1>1 DEF ReminderDue, RowAt, AlertAt, Recorded
    <3>2. QED
      BY <1>0, <1>1, <2>1, <2>2, <2>3, <3>1 DEF RowAt, ReminderAt, Recorded, Pending
  <2>8. BothAt(s)'
    BY <1>0, <2>2, <2>3 DEF RowAt, BothAt
  <2>9. QED
    BY <2>4, <2>5, <2>6, <2>7, <2>8 DEF RowAt
<1>7. CASE SendAlert(s)
  <2>1. /\ hand = None /\ hand' = s /\ step' = "serial" /\ UNCHANGED <<sub, closed, faults>>
        /\ listed' = listed /\ CanReach(s) /\ AlertDue(s) /\ phase' = "alerts"
        /\ told' = told /\ reminders' = reminders /\ alerts'[s] = alerts[s] + 1
    BY <1>0, <1>7, SentChanges DEF SendAlert, GoOn, loopVars
  <2>2. sub[s].alerted = None
    BY <2>1 DEF AlertDue
  <2>3. PassAt(s)'
    BY <1>1, <2>1 DEF PassAt, AlertDue, Reached
  <2>4. AlertAt(s)'
    BY <1>0, <2>1, <2>2 DEF RowAt, AlertAt, Recorded, Pending
  <2>5. ToldAt(s)'
    BY <1>0, <1>3, <2>1 DEF RowAt, ToldAt, Pending, CanReach
  <2>6. ReminderAt(s)'
    BY <1>0, <2>1 DEF RowAt, ReminderAt, Recorded, Pending
  <2>7. BothAt(s)'
    BY <1>0, <1>3, <2>1 DEF RowAt, BothAt, ToldAt, Pending
  <2>8. QED
    BY <2>3, <2>4, <2>5, <2>6, <2>7 DEF RowAt
<1>8. CASE MarkSerial(s)
  <2>1. /\ hand = s /\ step = "serial" /\ hand' = s /\ step' = "alerted" /\ listed' = listed
        /\ UNCHANGED <<alerts, told, reminders, closed, faults>>
        /\ sub'[s] = [sub[s] EXCEPT !.serial = board[sub[s].room]]
    BY <1>0, <1>8 DEF MarkSerial, InHand, GoOn, sentVars
  <2>2. board[sub[s].room] \in Serials /\ board[sub[s].room] # None /\ phase = "alerts"
    BY <2>1, SerialsAssumption DEF RowAt, PassAt, Reached
  <2>3. /\ sub'[s].alerted = sub[s].alerted /\ sub'[s].user = sub[s].user
        /\ sub'[s].active = sub[s].active /\ sub'[s].reminded = sub[s].reminded
        /\ sub'[s].serial = board[sub[s].room]
    BY <1>1, <2>1 DEF Row
  <2>4. reminders[s] = 0 /\ sub[s].alerted = None
    BY <1>0, <1>1, <2>1 DEF RowAt, ReminderAt, AlertAt, Pending, Recorded
  <2>5. PassAt(s)'
    BY <1>1, <2>1, <2>2 DEF PassAt
  <2>6. AlertAt(s)'
    BY <1>0, <1>1, <2>1, <2>2, <2>3 DEF RowAt, AlertAt, Recorded, Pending
  <2>7. ToldAt(s)'
    BY <1>0, <1>1, <1>3, <2>1, <2>3 DEF RowAt, ToldAt, Pending, CanReach
  <2>8. ReminderAt(s)'
    BY <1>0, <1>1, <2>1, <2>3, <2>4 DEF RowAt, ReminderAt, Recorded, Pending
  <2>9. BothAt(s)'
    BY <2>1 DEF RowAt, BothAt
  <2>10. QED
    BY <2>5, <2>6, <2>7, <2>8, <2>9 DEF RowAt
<1>9. CASE mark_alerted(s)
  <2>1. /\ hand = s /\ step = "alerted" /\ hand' = None /\ step' = "none"
        /\ listed' = listed \ {s}
        /\ UNCHANGED <<alerts, told, reminders, closed, faults>>
        /\ sub'[s] = [sub[s] EXCEPT !.alerted = clock]
    BY <1>0, <1>9 DEF mark_alerted, InHand, Done, sentVars
  <2>2. clock # None
    BY <1>0, NoneAssumption
  <2>3. /\ sub'[s].alerted = clock /\ sub'[s].user = sub[s].user
        /\ sub'[s].active = sub[s].active /\ sub'[s].reminded = sub[s].reminded
        /\ sub'[s].serial = sub[s].serial /\ sub'[s].target = sub[s].target
    BY <1>1, <2>1 DEF Row
  <2>5. PassAt(s)'
    BY <1>0, <2>1 DEF PassAt
  <2>6. AlertAt(s)'
    BY <1>0, <1>1, <2>1, <2>2, <2>3 DEF RowAt, AlertAt, Recorded, Pending
  <2>7. ToldAt(s)'
    BY <1>0, <1>1, <1>3, <2>1, <2>3 DEF RowAt, ToldAt, Pending, CanReach
  <2>8. ReminderAt(s)'
    BY <1>0, <1>1, <2>1, <2>2, <2>3 DEF RowAt, ReminderAt, Recorded, Pending
  <2>9. BothAt(s)'
    BY <2>1 DEF RowAt, BothAt
  <2>10. QED
    BY <2>5, <2>6, <2>7, <2>8, <2>9 DEF RowAt
<1>10. CASE SendAdjourned(s)
  <2>1. /\ hand = None /\ hand' = s /\ step' = "close" /\ UNCHANGED <<sub, closed, faults>>
        /\ listed' = listed /\ sub[s].alerted = None /\ phase' = "adjourn"
        /\ alerts' = alerts /\ reminders' = reminders
        /\ CanReach(s) => told'[s] = told[s] + 1
        /\ ~ CanReach(s) => told'[s] = told[s]
    BY <1>0, <1>10, SentChanges DEF SendAdjourned, GoOn, loopVars
  <2>3. PassAt(s)'
    BY <2>1 DEF PassAt
  <2>4. AlertAt(s)'
    BY <1>0, <2>1 DEF RowAt, AlertAt, Recorded, Pending
  <2>5. ToldAt(s)'
    <3>1. told[s] <= faults
      BY <1>0, <1>3, <2>1 DEF RowAt, ToldAt, Pending
    <3>2. CanReach(s)' = CanReach(s)
      BY <2>1 DEF CanReach
    <3>3. QED
      BY <1>0, <1>1, <1>3, <2>1, <3>1, <3>2 DEF ToldAt, Pending
  <2>6. ReminderAt(s)'
    BY <1>0, <2>1 DEF RowAt, ReminderAt, Recorded, Pending
  <2>7. BothAt(s)'
    BY <1>0, <2>1 DEF RowAt, BothAt, AlertAt, Recorded, Pending
  <2>8. QED
    BY <2>3, <2>4, <2>5, <2>6, <2>7 DEF RowAt
<1>11. CASE deactivate_subscription(s)
  <2>1. /\ hand = s /\ step = "close" /\ hand' = None /\ step' = "none"
        /\ listed' = listed \ {s} /\ closed' = closed \cup {s}
        /\ UNCHANGED <<alerts, told, reminders, faults>>
        /\ sub'[s] = [sub[s] EXCEPT !.active = FALSE]
    BY <1>0, <1>11 DEF deactivate_subscription, InHand, Done, sentVars
  <2>3. /\ sub'[s].alerted = sub[s].alerted /\ sub'[s].user = sub[s].user
        /\ sub'[s].active = FALSE /\ sub'[s].reminded = sub[s].reminded
        /\ sub'[s].serial = sub[s].serial /\ sub'[s].target = sub[s].target
    BY <1>1, <2>1 DEF Row
  <2>5. PassAt(s)'
    BY <1>0, <2>1 DEF PassAt
  <2>6. AlertAt(s)'
    BY <1>0, <1>1, <2>1, <2>3 DEF RowAt, AlertAt, Recorded, Pending
  <2>7. ToldAt(s)'
    <3>1. CanReach(s)' = CanReach(s)
      BY <2>3 DEF CanReach
    <3>2. QED
      BY <1>0, <1>1, <2>1, <2>3, <3>1 DEF RowAt, ToldAt, Pending
  <2>8. ReminderAt(s)'
    BY <1>0, <1>1, <2>1, <2>3 DEF RowAt, ReminderAt, Recorded, Pending
  <2>9. BothAt(s)'
    BY <2>1 DEF RowAt, BothAt
  <2>10. QED
    BY <2>5, <2>6, <2>7, <2>8, <2>9 DEF RowAt
<1>12. CASE SendReminder(s)
  <2>1. /\ hand = None /\ hand' = s /\ step' = "reminded" /\ UNCHANGED <<sub, closed, faults>>
        /\ listed' = listed /\ ReminderDue(s) /\ phase' = "reminders"
        /\ alerts' = alerts /\ told' = told
        /\ reminders'[s] <= reminders[s] + 1 /\ reminders'[s] >= reminders[s]
        /\ reminders'[s] \in Nat
    BY <1>0, <1>12, SentChanges DEF SendReminder, GoOn, loopVars
  <2>2. Recorded(s) /\ sub[s].serial # None /\ sub[s].serial < sub[s].target
        /\ ~ sub[s].reminded
    BY <1>0, <1>1, <2>1 DEF ReminderDue, RowAt, AlertAt, Recorded
  <2>3. PassAt(s)'
    BY <2>1 DEF PassAt
  <2>4. AlertAt(s)'
    BY <1>0, <2>1, <2>2 DEF RowAt, AlertAt, Recorded, Pending
  <2>5. ToldAt(s)'
    BY <1>0, <1>1, <1>3, <2>1 DEF RowAt, ToldAt, Pending, CanReach
  <2>6. ReminderAt(s)'
    BY <1>0, <1>1, <2>1, <2>2 DEF RowAt, ReminderAt, Recorded, Pending
  <2>7. BothAt(s)'
    BY <2>1 DEF RowAt, BothAt
  <2>8. QED
    BY <2>3, <2>4, <2>5, <2>6, <2>7 DEF RowAt
<1>13. CASE mark_reminder_sent(s)
  <2>1. /\ hand = s /\ step = "reminded" /\ hand' = None /\ step' = "none"
        /\ listed' = listed \ {s}
        /\ UNCHANGED <<alerts, told, reminders, closed, faults>>
        /\ sub'[s] = [sub[s] EXCEPT !.reminded = TRUE]
    BY <1>0, <1>13 DEF mark_reminder_sent, InHand, Done, sentVars
  <2>3. /\ sub'[s].alerted = sub[s].alerted /\ sub'[s].user = sub[s].user
        /\ sub'[s].active = sub[s].active /\ sub'[s].reminded = TRUE
        /\ sub'[s].serial = sub[s].serial /\ sub'[s].target = sub[s].target
    BY <1>1, <2>1 DEF Row
  <2>5. PassAt(s)'
    BY <1>0, <2>1 DEF PassAt
  <2>6. AlertAt(s)'
    BY <1>0, <1>1, <2>1, <2>3 DEF RowAt, AlertAt, Recorded, Pending
  <2>7. ToldAt(s)'
    BY <1>0, <1>1, <1>3, <2>1, <2>3 DEF RowAt, ToldAt, Pending, CanReach
  <2>8. ReminderAt(s)'
    BY <1>0, <1>1, <2>1, <2>3 DEF RowAt, ReminderAt, Recorded, Pending
  <2>9. BothAt(s)'
    BY <2>1 DEF RowAt, BothAt
  <2>10. QED
    BY <2>5, <2>6, <2>7, <2>8, <2>9 DEF RowAt
<1>14. QED
  BY <1>4, <1>5, <1>6, <1>7, <1>8, <1>9, <1>10, <1>11, <1>12, <1>13 DEF Handle

\* What users do to a row leaves what the monitor has recorded of it.
LEMMA UserRow ==
  ASSUME TypeOK, TypeOK', NEW s \in Subs, RowAt(s), UserStep(s),
         faults' >= faults, UNCHANGED monitorVars
  PROVE  RowAt(s)'
<1>0. /\ alerts[s] \in Nat /\ told[s] \in Nat /\ reminders[s] \in Nat
      /\ faults \in Nat /\ faults' \in Nat
      /\ UNCHANGED <<board, phase, listed, hand, step, alerts, told, reminders, closed>>
  BY RowTyped, RowTypedNext DEF monitorVars, rowVars, sentVars
<1>1. hand = s => sub[s] # None
  BY RowTyped DEF TypeOK
<1>2. CASE sub[s] = None /\ sub'[s] = None
  BY <1>0, <1>1, <1>2, UntouchedRow
<1>3. CASE /\ sub[s] = None /\ sub'[s] \in Row
           /\ sub'[s].alerted = None /\ sub'[s].serial = None /\ sub'[s].reminded = FALSE
  <2>1. hand' # s /\ s \notin closed' /\ told'[s] = 0 /\ reminders'[s] = 0 /\ alerts'[s] <= faults'
    BY <1>0, <1>1, <1>3 DEF RowAt, ToldAt, ReminderAt, AlertAt, Recorded, Pending
  <2>2. /\ told'[s] <= 1 + faults' /\ ~ told'[s] > faults' /\ ~ told'[s] > 0
        /\ reminders'[s] <= 1 + faults' /\ ~ reminders'[s] > faults' /\ ~ reminders'[s] > 0
    BY <1>0, <2>1
  <2>3. PassAt(s)'
    BY <2>1 DEF PassAt
  <2>4. AlertAt(s)'
    BY <1>0, <1>3, <2>1 DEF AlertAt, Recorded, Pending
  <2>5. ToldAt(s)'
    BY <2>1, <2>2 DEF ToldAt, Pending
  <2>6. ReminderAt(s)'
    BY <2>1, <2>2 DEF ReminderAt, Pending
  <2>7. BothAt(s)'
    BY <2>1 DEF BothAt
  <2>8. QED
    BY <2>3, <2>4, <2>5, <2>6, <2>7 DEF RowAt
<1>4. CASE /\ sub[s] \in Row /\ sub'[s] \in Row
           /\ sub'[s] \in {sub[s], [sub[s] EXCEPT !.active = FALSE]}
  <2>1. /\ sub'[s].alerted = sub[s].alerted /\ sub'[s].user = sub[s].user
        /\ sub'[s].room = sub[s].room /\ sub'[s].ahead = sub[s].ahead
        /\ sub'[s].reminded = sub[s].reminded
        /\ sub'[s].serial = sub[s].serial /\ sub'[s].target = sub[s].target
    BY <1>4 DEF Row
  <2>2. ~ sub[s].active => ~ sub'[s].active
    BY <1>4 DEF Row
  <2>3. sub[s] # None /\ sub'[s] # None
    BY <1>4, NoneAssumption
  <2>4. PassAt(s)'
    BY <1>0, <2>1 DEF RowAt, PassAt, Reached
  <2>5. AlertAt(s)'
    BY <1>0, <2>1, <2>3 DEF RowAt, AlertAt, Recorded, Pending
  <2>6. ToldAt(s)'
    <3>1. CanReach(s)' = CanReach(s)
      BY <2>1 DEF CanReach
    <3>2. QED
      BY <1>0, <2>2, <2>3, <3>1 DEF RowAt, ToldAt, Pending
  <2>7. ReminderAt(s)'
    BY <1>0, <2>1, <2>3 DEF RowAt, ReminderAt, Recorded, Pending
  <2>8. BothAt(s)'
    BY <1>0 DEF RowAt, BothAt
  <2>9. QED
    BY <2>4, <2>5, <2>6, <2>7, <2>8 DEF RowAt
<1>5. QED
  BY <1>2, <1>3, <1>4 DEF UserStep

\* Nothing of a row is pending while the clock or the passes go on.
LEMMA PassesRow ==
  ASSUME TypeOK, TypeOK', LoopInv, NEW s \in Subs, RowAt(s), Opens \/ Turns
  PROVE  RowAt(s)'
<1>1. CASE Opens
  <2>1. /\ hand = None /\ hand' = None /\ listed' \subseteq list_active_subscriptions
        /\ UNCHANGED <<sub, faults, sentVars, closed>>
    BY <1>1, OpenTypes
  <2>2. s \in listed' => sub[s].active
    BY <2>1 DEF list_active_subscriptions, Active
  <2>3. faults' >= faults /\ hand # s /\ hand' # s
    BY <2>1, RowTyped
  <2>4. QED
    BY <2>1, <2>2, <2>3, UntouchedRow DEF sentVars
<1>2. CASE Turns
  <2>1. /\ hand' = None /\ listed' = {} /\ faults' >= faults
        /\ hand # None => faults' = faults + 1
        /\ UNCHANGED <<sub, sentVars, closed>>
    BY <1>2, TurnTypes
  <2>2. s # None
    BY RowTyped
  <2>3. QED
    BY <2>1, <2>2, UntouchedRow DEF sentVars
<1>3. QED
  BY <1>1, <1>2

LEMMA TickRow ==
  ASSUME TypeOK, TypeOK', NEW s \in Subs, RowAt(s), Tick \/ UNCHANGED vars
  PROVE  RowAt(s)'
<1>1. UNCHANGED <<sub, board, phase, listed, hand, step, alerts, told, reminders, closed, faults>>
  BY DEF Tick, monitorVars, vars, rowVars, sentVars
<1>2. PassAt(s)'
  BY <1>1 DEF RowAt, PassAt, Reached
<1>3. AlertAt(s)'
  BY <1>1 DEF RowAt, AlertAt, Recorded, Pending
<1>4. ToldAt(s)'
  BY <1>1 DEF RowAt, ToldAt, Pending, CanReach
<1>5. ReminderAt(s)' /\ BothAt(s)'
  BY <1>1 DEF RowAt, ReminderAt, BothAt, Recorded, Pending
<1>6. QED
  BY <1>2, <1>3, <1>4, <1>5 DEF RowAt

-----------------------------------------------------------------------------
(* The invariant holds.                                                    *)

LEMMA SubsInvInit == Init => SubsInv
<1>. SUFFICES ASSUME Init PROVE SubsInv
  OBVIOUS
<1>1. TypeOK
  <2>1. RestTyped
    BY DEF Init, RestTyped, Shown
  <2>2. HandTyped /\ SentTyped
    BY DEF Init, HandTyped, SentTyped
  <2>3. QED
    BY <2>1, <2>2, TypeParts
<1>2. LoopInv
  BY DEF Init, LoopInv
<1>3. ASSUME NEW s \in Subs PROVE RowAt(s)
  <2>1. /\ sub[s] = None /\ hand # s /\ faults = 0 /\ s \notin closed
        /\ alerts[s] = 0 /\ told[s] = 0 /\ reminders[s] = 0
    BY SubsAssumption DEF Init
  <2>2. QED
    BY <2>1 DEF RowAt, PassAt, AlertAt, ToldAt, ReminderAt, BothAt, Recorded, Pending
<1>4. QED
  BY <1>1, <1>2, <1>3 DEF SubsInv

LEMMA NextKinds ==
  ASSUME Next
  PROVE  Opens \/ Turns \/ UsersDo \/ Tick \/ \E s \in Subs : Handle(s)
BY DEF Next, Poll, Opens, Turns, UsersDo

LEMMA SubsInvNext == SubsInv /\ [Next]_vars => SubsInv'
<1>. SUFFICES ASSUME SubsInv, [Next]_vars PROVE SubsInv'
  OBVIOUS
<1>0. TypeOK /\ LoopInv /\ \A s \in Subs : RowAt(s)
  BY DEF SubsInv
<1>1. CASE \E s \in Subs : Handle(s)
  <2>. PICK s \in Subs : Handle(s)
    BY <1>1
  <2>1. Handles(s)
    BY HandleFrame
  <2>2. TypeOK' /\ LoopInv'
    BY <1>0, <2>1, HandleTypes
  <2>3. RowAt(s)'
    BY <1>0, <2>1, <2>2, OwnRow
  <2>4. ASSUME NEW x \in Subs, x # s PROVE RowAt(x)'
    BY <1>0, <2>1, <2>2, <2>4, OtherRow
  <2>5. QED
    BY <2>2, <2>3, <2>4 DEF SubsInv
<1>2. CASE Opens \/ Turns
  <2>1. TypeOK' /\ LoopInv'
    BY <1>0, <1>2, OpenTypes, TurnTypes
  <2>2. QED
    BY <1>0, <1>2, <2>1, PassesRow DEF SubsInv
<1>3. CASE UsersDo
  <2>1. TypeOK' /\ LoopInv'
    BY <1>0, <1>3, UsersTypes
  <2>2. /\ \A s \in Subs : UserStep(s)
        /\ faults' >= faults /\ UNCHANGED monitorVars
    BY <1>0, <1>3, UsersChange
  <2>3. ASSUME NEW s \in Subs PROVE RowAt(s)'
    BY <1>0, <2>1, <2>2, UserRow
  <2>4. QED
    BY <2>1, <2>3 DEF SubsInv
<1>4. CASE Tick
  <2>1. TypeOK' /\ LoopInv'
    BY <1>0, <1>4, TickTypes
  <2>2. QED
    BY <1>0, <1>4, <2>1, TickRow DEF SubsInv
<1>5. CASE UNCHANGED vars
  <2>1. TypeOK' /\ LoopInv'
    BY <1>0, <1>5 DEF vars, rowVars, sentVars, TypeOK, LoopInv
  <2>2. QED
    BY <1>0, <1>5, <2>1, TickRow DEF SubsInv
<1>6. QED
  BY <1>1, <1>2, <1>3, <1>4, <1>5, NextKinds

LEMMA SubsInvHolds == Spec => []SubsInv
BY SubsInvInit, SubsInvNext, PTL DEF Spec

-----------------------------------------------------------------------------
(* The theorems.                                                           *)

\* The table, the lists and the row in hand keep their types, although bots write rows
\* while the poll works on a list: a listed row exists, and what is in hand is listed.
THEOREM SubscriptionsTypeCorrect == Spec => []TypeOK
<1>1. SubsInv => TypeOK
  BY DEF SubsInv
<1>2. QED
  BY <1>1, SubsInvHolds, PTL

\* For any rows, users, bots and faults: of alert, notice and reminder each row hears each
\* once, and once more for each fault, because what was sent is recorded before the row is
\* listed again (run_monitor.py:180-340).
THEOREM SubscriptionsSendOnce == Spec => []EachSentOnce
<1>1. SubsInv => EachSentOnce
  BY DEF SubsInv, RowAt, AlertAt, ToldAt, ReminderAt, EachSentOnce
<1>2. QED
  BY <1>1, SubsInvHolds, PTL

\* The three passes read their lists at three moments, and yet nobody hears from one what
\* another contradicts: not reached after an alert, or a reminder without or too late for one.
THEOREM SubscriptionsMessagesAgree == Spec => []MessagesAgree
<1>1. ASSUME SubsInv, NEW s \in Subs
      PROVE  /\ alerts[s] > 0 /\ told[s] > 0 => faults > 0
             /\ reminders[s] > 0 => /\ alerts[s] > 0
                                    /\ sub[s].serial # None
                                    /\ sub[s].serial < sub[s].target
  BY <1>1 DEF SubsInv, RowAt, BothAt, ReminderAt, AlertAt, Recorded
<1>2. SubsInv => MessagesAgree
  BY <1>1 DEF MessagesAgree, NeverBoth, ReminderFollowsAlert
<1>3. QED
  BY <1>2, SubsInvHolds, PTL

\* A row is given up only after its user was told, if he can be reached.
THEOREM SubscriptionsClosedWereTold == Spec => []ClosedWereTold
<1>1. SubsInv => ClosedWereTold
  BY DEF SubsInv, TypeOK, RowAt, ToldAt, ClosedWereTold
<1>2. QED
  BY <1>1, SubsInvHolds, PTL

\* What a list was read without hears nothing from it: the three messages go to listed rows
\* only, and a list shrinks until the next is read.
THEOREM SubscriptionsPastRowsHearNothing == Spec => PastRowsHearNothing
<1> DEFINE Quiet == \A s \in past : /\ alerts'[s] = alerts[s]
                                    /\ told'[s] = told[s]
                                    /\ reminders'[s] = reminders[s]
<1>1. ASSUME SubsInv, Next PROVE Quiet
  <2>0. TypeOK /\ LoopInv
    BY <1>1 DEF SubsInv
  <2>1. CASE \E s \in Subs : Handle(s)
    <3>. PICK s \in Subs : Handle(s)
      BY <2>1
    <3>1. Handles(s)
      BY <1>1, HandleFrame
    <3>2. s \notin past
      BY <2>0, <3>1 DEF LoopInv, Handles
    <3>3. QED
      BY <2>0, <3>1, <3>2 DEF Handles, TypeOK
  <2>2. CASE Opens \/ Turns \/ UsersDo \/ Tick
    <3>1. UNCHANGED sentVars
      BY <2>0, <2>2, OpenTypes, TurnTypes, UsersChange DEF Tick, monitorVars
    <3>2. QED
      BY <3>1 DEF sentVars
  <2>3. QED
    BY <1>1, <2>1, <2>2, NextKinds
<1>2. ASSUME SubsInv, [Next]_vars PROVE [Quiet]_vars
  BY <1>1, <1>2
<1>3. QED
  BY <1>2, SubsInvHolds, PTL DEF Spec, PastRowsHearNothing

=============================================================================
