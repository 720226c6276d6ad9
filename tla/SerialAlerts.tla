---------------------------- MODULE SerialAlerts ----------------------------
(***************************************************************************)
(* Serial alerts of tracked cases: routes/my_cases sets them,              *)
(* services/alert_checker looks for them after every poll of the display   *)
(* board, first check_serial_alerts and then check_display_board_triggers, *)
(* while users change their rows.                                          *)
(*                                                                         *)
(* One case and one court of the board.  A notification is queued, refused *)
(* without an exception (preferences, quiet hours, no channel, the daily   *)
(* cap; display_board_active also within four hours of the last one), or   *)
(* raises.  There is no deduplication of serial_reached                    *)
(* (_DEDUP_HOURS is 0): once a day is up to alerted_at alone.              *)
(***************************************************************************)
EXTENDS Integers, FiniteSets

CONSTANTS
  Clients,         \* users
  Serials,         \* alert_serial
  LookAheads,      \* look_ahead of a request
  BoardSerials,    \* what the board may show
  DefaultLookAhead,
  NotTracked,
  MaxDays, MaxRequests, MaxBoardFaults   \* bounds

ASSUME SerialAlertsAssumption ==
  /\ Serials \subseteq Nat \ {0} /\ LookAheads \subseteq Nat
  /\ BoardSerials \subseteq Nat /\ DefaultLookAhead \in Nat \ {0}
  /\ MaxDays \in Nat \ {0} /\ MaxRequests \in Nat /\ MaxBoardFaults \in Nat

VARIABLES
  today,
  tracked,     \* rows of tracked_cases
  board,       \* cause_list_sr_no of the court
  stage,       \* where the poll is
  reached,     \* users whose rows are to be dealt with
  marking,     \* the user told of the serial number, before alerted_at is written
  requests, boardFaults,
  \* history of the day
  sent,        \* number of serial_reached queued
  again,       \* reasons for another one
  refused,     \* users with a serial_reached that was refused
  onBoard,     \* users who were told, or refused, display_board_active
  \* history of the poll
  steady,      \* users whose row has not been touched
  missed       \* users the poll has failed for

alertVars == <<today, tracked, board, stage, reached, marking, requests, boardFaults,
               sent, again, refused, onBoard, steady, missed>>

pollVars == <<board, stage, reached, marking>>
dayVars == <<sent, again, refused, onBoard>>

TrackedRow ==
  [court : BOOLEAN, active : BOOLEAN, serial : Serials \cup {0},
   look_ahead : LookAheads \cup {DefaultLookAhead}, alerted_at : 0 .. MaxDays]

ASSUME NotTrackedAssumption == NotTracked \notin TrackedRow

AlertsTypeOK ==
  /\ today \in 1 .. MaxDays
  /\ tracked \in [Clients -> TrackedRow \cup {NotTracked}]
  /\ board \in BoardSerials
  /\ stage \in {"idle", "list", "fire", "mark", "board", "show"}
  /\ reached \subseteq Clients /\ marking \subseteq Clients
  /\ stage = "mark" <=> marking # {}
  /\ requests \in 0 .. MaxRequests /\ boardFaults \in 0 .. MaxBoardFaults
  /\ sent \in [Clients -> Nat] /\ again \in [Clients -> Nat]
  /\ refused \subseteq Clients /\ onBoard \subseteq Clients
  /\ steady \subseteq Clients /\ missed \subseteq Clients

AlertsInit ==
  /\ today = 1
  /\ tracked = [u \in Clients |-> NotTracked]
  /\ board \in BoardSerials
  /\ stage = "idle" /\ reached = {} /\ marking = {}
  /\ requests = 0 /\ boardFaults = 0
  /\ sent = [u \in Clients |-> 0] /\ again = [u \in Clients |-> 0]
  /\ refused = {} /\ onBoard = {}
  /\ steady = {} /\ missed = {}

-----------------------------------------------------------------------------
(* Requests.                                                               *)

Request(u) ==
  /\ requests < MaxRequests /\ requests' = requests + 1
  /\ steady' = steady \ {u}
  /\ UNCHANGED <<today, pollVars, boardFaults, sent, refused, onBoard, missed>>

\* add_tracked_case: a row that is there gets the court of the request, and keeps its alert.
\* Subscribing to lists adds a row without a court.
TrackCase(u, court) ==
  /\ Request(u)
  /\ tracked' =
       [tracked EXCEPT ![u] =
         IF @ = NotTracked
         THEN [court |-> court, active |-> FALSE, serial |-> 0,
               look_ahead |-> DefaultLookAhead, alerted_at |-> 0]
         ELSE [@ EXCEPT !.court = court]]
  /\ UNCHANGED again

\* A row that is added again has not been alerted.
UntrackCase(u) ==
  /\ Request(u)
  /\ tracked[u] # NotTracked
  /\ tracked' = [tracked EXCEPT ![u] = NotTracked]
  /\ again' = [again EXCEPT ![u] = @ + 1]

\* alerted_at stays.
SetAlert(u, serial, look_ahead) ==
  /\ Request(u)
  /\ tracked[u] # NotTracked
  /\ tracked' = [tracked EXCEPT ![u].active = TRUE, ![u].serial = serial,
                                ![u].look_ahead = look_ahead]
  /\ UNCHANGED again

ClearAlert(u) ==
  /\ Request(u)
  /\ tracked[u] # NotTracked /\ tracked[u].active
  /\ tracked' = [tracked EXCEPT ![u].active = FALSE]
  /\ UNCHANGED again

-----------------------------------------------------------------------------
(* A poll.                                                                 *)

\* Mutant: alerted today is not alerted enough.
ActiveToday(u) ==
  /\ tracked[u] # NotTracked
  /\ tracked[u].court /\ tracked[u].active
  /\ tracked[u].serial # 0
  /\ tracked[u].alerted_at <= today

\* get_courts_with_active_case_alerts, list_active_case_alerts
Active(u) ==
  /\ tracked[u] # NotTracked
  /\ tracked[u].court /\ tracked[u].active
  /\ tracked[u].serial # 0
  /\ tracked[u].alerted_at < today

\* A look-ahead of 0 counts as none given.
Threshold(u) ==
  tracked[u].serial -
    (IF tracked[u].look_ahead = 0 THEN DefaultLookAhead ELSE tracked[u].look_ahead)

\* Mutant: the user just dealt with is not forgotten.
FiringKeeps(set) ==
  /\ reached' = set
  /\ UNCHANGED marking
  /\ stage' = IF set = {} THEN "board" ELSE "fire"

\* What follows when the users left to deal with are those of set.
Firing(set) ==
  /\ reached' = set
  /\ marking' = {}
  /\ stage' = IF set = {} THEN "board" ELSE "fire"

Showing(set) ==
  /\ reached' = set
  /\ stage' = IF set = {} THEN "idle" ELSE "show"
  /\ UNCHANGED marking

\* A poll begins with the courts that have alerts.
Poll(serial) ==
  /\ stage = "idle"
  /\ board' = serial
  /\ stage' = IF \E u \in Clients : Active(u) THEN "list" ELSE "board"
  /\ steady' = Clients /\ missed' = {}
  /\ UNCHANGED <<today, tracked, reached, marking, requests, boardFaults, dayVars>>

ListAlerts ==
  /\ stage = "list"
  /\ Firing({u \in Clients : Active(u) /\ board >= Threshold(u)})
  /\ UNCHANGED <<today, tracked, board, requests, boardFaults, dayVars, steady, missed>>

\* enqueue_notification returns.
SerialReached(u) ==
  /\ stage = "fire" /\ u \in reached
  /\ \/ sent' = [sent EXCEPT ![u] = @ + 1] /\ UNCHANGED refused
     \/ refused' = refused \cup {u} /\ UNCHANGED sent
  /\ stage' = "mark" /\ marking' = {u}
  /\ UNCHANGED <<today, tracked, board, reached, requests, boardFaults, again, onBoard, steady, missed>>

\* The row that is there now, however it has changed.
update_case_alerted_at(u) ==
  /\ stage = "mark" /\ u \in marking
  /\ tracked' = IF tracked[u] = NotTracked THEN tracked
                ELSE [tracked EXCEPT ![u].alerted_at = today]
  /\ Firing(reached \ {u})
  /\ UNCHANGED <<today, board, requests, boardFaults, dayVars, steady, missed>>

\* The serial number of the alert itself; the rows are read again.
ListBoard ==
  /\ stage = "board"
  /\ Showing({u \in Clients : Active(u) /\ board >= tracked[u].serial})
  /\ UNCHANGED <<today, tracked, board, requests, boardFaults, dayVars, steady, missed>>

DisplayBoardActive(u) ==
  /\ stage = "show" /\ u \in reached
  /\ onBoard' = onBoard \cup {u}
  /\ Showing(reached \ {u})
  /\ UNCHANGED <<today, tracked, board, requests, boardFaults, sent, again, refused, steady, missed>>

-----------------------------------------------------------------------------
(* What goes wrong: an exception is logged, and the next row is dealt with.*)

BoardFault(users) ==
  /\ boardFaults < MaxBoardFaults /\ boardFaults' = boardFaults + 1
  /\ missed' = missed \cup users
  /\ UNCHANGED <<today, tracked, board, requests, sent, refused, onBoard, steady>>

\* One of the reads.
ReadFails ==
  /\ stage \in {"list", "board"}
  /\ BoardFault(Clients)
  /\ stage' = IF stage = "list" THEN "board" ELSE "idle"
  /\ UNCHANGED <<reached, marking, again>>

\* enqueue_notification, or the update after it: then the user will be told again.
FireFails(u) ==
  /\ stage \in {"fire", "mark"} /\ u \in reached
  /\ stage = "mark" => u \in marking
  /\ BoardFault({u})
  /\ again' = IF stage = "mark" THEN [again EXCEPT ![u] = @ + 1] ELSE again
  /\ Firing(reached \ {u})

ShowFails(u) ==
  /\ stage = "show" /\ u \in reached
  /\ BoardFault({u})
  /\ Showing(reached \ {u})
  /\ UNCHANGED again

MonitorStops ==
  /\ stage # "idle"
  /\ BoardFault(Clients)
  /\ stage' = "idle" /\ reached' = {} /\ marking' = {}
  /\ again' = [u \in Clients |-> again[u] + IF u \in marking THEN 1 ELSE 0]

\* The court's hours end long before midnight.
NextDay ==
  /\ stage = "idle" /\ today < MaxDays
  /\ today' = today + 1
  /\ sent' = [u \in Clients |-> 0] /\ again' = [u \in Clients |-> 0]
  /\ refused' = {} /\ onBoard' = {}
  /\ steady' = {} /\ missed' = {}
  /\ UNCHANGED <<tracked, pollVars, requests, boardFaults>>

AlertsNext ==
  \/ \E u \in Clients :
       \/ \E court \in BOOLEAN : TrackCase(u, court)
       \/ UntrackCase(u) \/ ClearAlert(u)
       \/ \E serial \in Serials, look_ahead \in LookAheads : SetAlert(u, serial, look_ahead)
       \/ SerialReached(u) \/ update_case_alerted_at(u) \/ DisplayBoardActive(u)
       \/ FireFails(u) \/ ShowFails(u)
  \/ \E serial \in BoardSerials : Poll(serial)
  \/ ListAlerts \/ ListBoard \/ ReadFails \/ MonitorStops \/ NextDay

AlertsSpec == AlertsInit /\ [][AlertsNext]_alertVars

-----------------------------------------------------------------------------
(* Properties.                                                             *)

\* A user is told of the serial number once a day, and once more for every time that
\* alerted_at could not be written or the case was untracked.
OncePerDay == \A u \in Clients : sent[u] <= 1 + again[u]

\* After a poll, everybody whose row was as it is from the beginning of the poll, has an
\* alert and whose threshold is reached, was told that day, though perhaps for an alert
\* that has been changed since, or was refused, or the poll failed for him.
ReachedIsTold ==
  stage = "idle" =>
    \A u \in steady :
      (/\ tracked[u] # NotTracked /\ tracked[u].court /\ tracked[u].active
       /\ tracked[u].serial # 0 /\ board >= Threshold(u))
        => sent[u] > 0 \/ u \in refused \/ u \in missed

\* alerted_at, written by the poll and kept by every request but the removal of the row
\* (postgres.set_case_alert, add_tracked_case), makes an alert go out once a day and not less.
SerialAlertsKept == OncePerDay /\ ReachedIsTold

\* NOTIFICATION_SYSTEM.md:61: if current_serial >= alert_serial, display_board_active.
BoardIsTold ==
  stage = "idle" =>
    \A u \in steady :
      (/\ tracked[u] # NotTracked /\ tracked[u].court /\ tracked[u].active
       /\ tracked[u].serial # 0 /\ board >= tracked[u].serial)
        => u \in onBoard \/ u \in missed

=============================================================================
