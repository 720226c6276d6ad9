------------------------------ MODULE PollLoop ------------------------------
(***************************************************************************)
(* The poll loop of the monitor (monitor/run_monitor.run_monitor): the     *)
(* court's hours, and the notice of an outage.  What a poll does besides   *)
(* is in ChangeDetector, Subscriptions and SerialAlerts; here it succeeds, *)
(* fails to scrape, or fails to send alerts after it.                      *)
(*                                                                         *)
(* Time is a row of instants, in minutes since the midnight before a       *)
(* Monday.  The loop catches exceptions, but for set_monitor_state at the  *)
(* beginning of a poll: the process ends there, and a new one has the      *)
(* database but none of the variables.                                     *)
(***************************************************************************)
EXTENDS Integers, Sequences

CONSTANTS
  Instants,        \* the row of instants
  Subscribers,     \* active subscriptions
  FailureThreshold,   \* _FAILURE_NOTIFY_THRESHOLD
  Nap,             \* longest sleep out of hours, in minutes
  MaxFailedPolls, MaxPollFaults   \* bounds

ASSUME PollLoopAssumption ==
  /\ Instants \in Seq(Nat) /\ Len(Instants) > 0
  /\ \A i \in 1 .. Len(Instants) - 1 : Instants[i] < Instants[i + 1]
  /\ FailureThreshold \in Nat \ {0} /\ Nap \in Nat \ {0}
  /\ MaxFailedPolls \in Nat /\ MaxPollFaults \in Nat

VARIABLES
  instant,     \* which of them it is
  loop,        \* where the loop is
  wakes,       \* minute at which it wakes up, out of hours
  court_session,
  consecutive_failures, outage_notified,
  telling,     \* subscribers still to be told of the outage
  failedPolls, pollFaults,
  \* history since the last good poll
  lives,       \* processes, but for the first
  failedInRow, \* polls that failed
  told_down,   \* notices by subscriber
  missedNotice \* whether the last attempt to list the subscribers failed

pollLoopVars == <<instant, loop, wakes, court_session, consecutive_failures, outage_notified,
                  telling, failedPolls, pollFaults, lives, failedInRow, told_down, missedNotice>>

outageVars == <<consecutive_failures, outage_notified, telling>>
sinceVars == <<lives, failedInRow, told_down, missedNotice>>
boundVars == <<failedPolls, pollFaults>>

MinutesPerDay == 24 * 60
Now == Instants[instant]
Day == Now \div MinutesPerDay
MinuteOfDay == Now % MinutesPerDay
Hour == MinuteOfDay \div 60
Weekday(day) == day % 7

CourtStart == 9 * 60 + 45
CourtEnd == 18 * 60

PollLoopTypeOK ==
  /\ instant \in DOMAIN Instants
  /\ loop \in {"check", "scrape", "dispatch", "outage", "tell", "pause", "night", "ended"}
  /\ wakes \in Nat
  /\ court_session \in {"unknown", "open", "closed"}
  /\ consecutive_failures \in 0 .. MaxFailedPolls /\ failedPolls \in 0 .. MaxFailedPolls
  /\ outage_notified \in BOOLEAN /\ missedNotice \in BOOLEAN
  /\ telling \subseteq Subscribers
  /\ loop # "tell" => telling = {}
  /\ pollFaults \in 0 .. MaxPollFaults
  /\ told_down \in [Subscribers -> Nat]

PollLoopInit ==
  /\ instant = 1
  /\ loop = "check" /\ wakes = 0 /\ court_session = "unknown"
  /\ consecutive_failures = 0 /\ outage_notified = FALSE /\ telling = {}
  /\ failedPolls = 0 /\ pollFaults = 0
  /\ lives = 0 /\ failedInRow = 0
  /\ told_down = [u \in Subscribers |-> 0] /\ missedNotice = FALSE

\* Scrapes take time, and nights, which end when they are over; the rest is short.
Later ==
  /\ instant < Len(Instants)
  /\ loop \in {"scrape", "ended", "night"}
  /\ loop = "night" => Now < wakes
  /\ instant' = instant + 1
  /\ UNCHANGED <<loop, wakes, court_session, outageVars, boundVars, sinceVars>>

-----------------------------------------------------------------------------

IsCourtHours ==
  /\ Weekday(Day) < 5
  /\ MinuteOfDay \in CourtStart .. CourtEnd

NextWorkday(day) == CHOOSE d \in day + 1 .. day + 3 :
  Weekday(d) < 5 /\ \A e \in day + 1 .. d - 1 : Weekday(e) >= 5

\* 18:00 itself is in court hours, and after the close.
MinutesUntilCourtOpen ==
  LET opens == IF Weekday(Day) < 5 /\ MinuteOfDay < CourtEnd THEN Day ELSE NextWorkday(Day)
      minutes == opens * MinutesPerDay + CourtStart - Now
  IN IF minutes < 0 THEN 0 ELSE minutes

Least(a, b) == IF a < b THEN a ELSE b

Night ==
  /\ loop = "check"
  /\ ~ IsCourtHours
  /\ court_session' = "closed"
  /\ wakes' = Now + Least(MinutesUntilCourtOpen, Nap)
  /\ loop' = "night"
  /\ UNCHANGED <<instant, outageVars, boundVars, sinceVars>>

PollBegins ==
  /\ loop = "check"
  /\ IsCourtHours
  /\ court_session' = "open"
  /\ loop' = "scrape"
  /\ UNCHANGED <<instant, wakes, outageVars, boundVars, sinceVars>>

Wake ==
  /\ \/ loop = "pause"
     \/ loop = "night" /\ Now >= wakes
  /\ loop' = "check"
  /\ UNCHANGED <<instant, wakes, court_session, outageVars, boundVars, sinceVars>>

\* The counter is reset before the alerts go out.
PollSucceeds ==
  /\ loop = "scrape"
  /\ consecutive_failures' = 0 /\ outage_notified' = FALSE
  /\ loop' = "dispatch"
  /\ lives' = 0 /\ failedInRow' = 0
  /\ told_down' = [u \in Subscribers |-> 0] /\ missedNotice' = FALSE
  /\ UNCHANGED <<instant, wakes, court_session, telling, boundVars>>

AlertsSent ==
  /\ loop = "dispatch"
  /\ loop' = "pause"
  /\ UNCHANGED <<instant, wakes, court_session, outageVars, boundVars, sinceVars>>

\* The hours of a notice are not those of the court.
NoticeHours == Hour \in 8 .. 17

\* The scrape or the snapshot fails, or one of the passes after it.
PollFails ==
  /\ loop \in {"scrape", "dispatch"}
  /\ failedPolls < MaxFailedPolls /\ failedPolls' = failedPolls + 1
  /\ consecutive_failures' = consecutive_failures + 1
  /\ failedInRow' = failedInRow + 1
  /\ loop' = IF consecutive_failures + 1 >= FailureThreshold /\ NoticeHours /\ ~ outage_notified
             THEN "outage" ELSE "pause"
  /\ missedNotice' = FALSE
  /\ UNCHANGED <<instant, wakes, court_session, outage_notified, telling, pollFaults, lives, told_down>>

\* list_active_subscriptions
ListSubscribers ==
  /\ loop = "outage"
  /\ telling' = Subscribers
  /\ loop' = "tell"
  /\ UNCHANGED <<instant, wakes, court_session, consecutive_failures, outage_notified, boundVars, sinceVars>>

\* What does not reach a subscriber is not repeated.
TellDown(u) ==
  /\ loop = "tell" /\ u \in telling
  /\ telling' = telling \ {u}
  /\ told_down' = [told_down EXCEPT ![u] = @ + 1]
  /\ UNCHANGED <<instant, loop, wakes, court_session, consecutive_failures, outage_notified, boundVars,
                 lives, failedInRow, missedNotice>>

\* Mutant: the notice is not noted.
OutageForgotten ==
  /\ loop = "tell" /\ telling = {}
  /\ loop' = "pause"
  /\ UNCHANGED <<instant, wakes, court_session, outageVars, boundVars, sinceVars>>

OutageNoted ==
  /\ loop = "tell" /\ telling = {}
  /\ outage_notified' = TRUE
  /\ loop' = "pause"
  /\ UNCHANGED <<instant, wakes, court_session, consecutive_failures, telling, boundVars, sinceVars>>

PollFault == pollFaults < MaxPollFaults /\ pollFaults' = pollFaults + 1

\* Then it is tried again in the next poll that fails.
ListFails ==
  /\ loop = "outage"
  /\ PollFault
  /\ missedNotice' = TRUE
  /\ loop' = "pause"
  /\ UNCHANGED <<instant, wakes, court_session, outageVars, failedPolls, lives, failedInRow, told_down>>

\* The process ends, at set_monitor_state or anywhere.
MonitorEnds ==
  /\ loop # "ended"
  /\ PollFault
  /\ loop' = "ended"
  /\ wakes' = 0 /\ telling' = {}
  /\ UNCHANGED <<instant, court_session, consecutive_failures, outage_notified, failedPolls, sinceVars>>

MonitorStarts ==
  /\ loop = "ended"
  /\ loop' = "check"
  /\ consecutive_failures' = 0 /\ outage_notified' = FALSE
  /\ lives' = lives + 1 /\ missedNotice' = FALSE
  /\ UNCHANGED <<instant, wakes, court_session, telling, boundVars, failedInRow, told_down>>

PollLoopNext ==
  \/ Later
  \/ Night \/ PollBegins \/ Wake \/ PollSucceeds \/ AlertsSent \/ PollFails
  \/ ListSubscribers \/ OutageNoted \/ ListFails
  \/ \E u \in Subscribers : TellDown(u)
  \/ MonitorEnds \/ MonitorStarts

PollLoopSpec == PollLoopInit /\ [][PollLoopNext]_pollLoopVars

-----------------------------------------------------------------------------
(* Properties.                                                             *)

\* The loop is awake when the court opens, after evenings, week-ends and restarts.
OpeningIsSeen == loop = "night" /\ Now < wakes => ~ IsCourtHours

\* Nobody hears twice of an outage from one process, nor before FailureThreshold polls have
\* failed in a row; once they have, in the hours of a notice, everybody has heard of it
\* before the next poll, unless the subscriptions could not be listed.
OutageIsTold ==
  /\ \A u \in Subscribers : told_down[u] <= 1 + lives
  /\ (\E u \in Subscribers : told_down[u] > 0) => failedInRow >= FailureThreshold
  /\ loop = "pause" /\ consecutive_failures >= FailureThreshold /\ NoticeHours /\ ~ missedNotice =>
       outage_notified /\ \A u \in Subscribers : told_down[u] > 0

\* run_monitor's loop misses no opening of the court, and an outage is told once.
PollsKept == OpeningIsSeen /\ OutageIsTold

=============================================================================
