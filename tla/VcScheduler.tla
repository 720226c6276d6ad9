----------------------------- MODULE VcScheduler -----------------------------
(***************************************************************************)
(* The monitor's thread that scrapes the links of video conferences at the *)
(* windows of a day (monitor/run_monitor._vc_scheduler_thread), for today  *)
(* and, from 14:00 on, for tomorrow.  What was scraped is known in memory  *)
(* (_vc_scraped) and in the database (monitor_state); the process may end  *)
(* between any two steps, and a new one has the database only.             *)
(***************************************************************************)
EXTENDS Integers, Sequences

CONSTANTS
  VcInstants,      \* row of [day, hour]
  CourtRooms,      \* rooms that may have a link
  MaxVcFaults      \* bound

ASSUME VcAssumption ==
  /\ VcInstants \in Seq([day : Nat, hour : 0 .. 23]) /\ Len(VcInstants) > 0
  /\ MaxVcFaults \in Nat

VARIABLES
  vcInstant,   \* which of them it is
  vc,          \* where the thread is
  vc_run,      \* what it is about: [date, hour, window, list, links still to store]
  vc_scraped,  \* dates it has looked up, with their windows
  vc_recorded, \* the same in the database, of all dates
  vc_links,    \* rooms with a link, by date
  vcFaults,
  \* history by date and window
  scrapes,     \* scrapes that gave a list
  wasted,      \* those that were not recorded
  found        \* links of the last one that was marked

vcVars == <<vcInstant, vc, vc_run, vc_scraped, vc_recorded, vc_links, vcFaults, scrapes, wasted, found>>

vcTableVars == <<vc_scraped, vc_recorded, vc_links>>
vcHistoryVars == <<scrapes, wasted, found>>

VcNowDay == VcInstants[vcInstant].day
VcNowHour == VcInstants[vcInstant].hour

VcWindows == {0, 6, 8, 20}
TodayWindows == {0, 6, 8}
TomorrowWindow == 14

VcDates == UNION {{VcInstants[i].day, VcInstants[i].day + 1} : i \in DOMAIN VcInstants}
VcKeys == VcDates \X (TodayWindows \cup {TomorrowWindow})

NoDay == -1
NoRun == [date |-> NoDay, hour |-> 0, window |-> 0, list |-> {}, links |-> {}]

VcTypeOK ==
  /\ vcInstant \in DOMAIN VcInstants
  /\ vc \in {"asleep", "today", "tomorrow", "scrape", "store", "record", "ended"}
  /\ vc_run.date \in VcDates \cup {NoDay} /\ vc_run.links \subseteq vc_run.list
  /\ DOMAIN vc_scraped \subseteq VcDates
  /\ vc_recorded \in [VcDates -> SUBSET (TodayWindows \cup {TomorrowWindow})]
  /\ vc_links \in [VcDates -> SUBSET CourtRooms]
  /\ vcFaults \in 0 .. MaxVcFaults
  /\ scrapes \in [VcDates \X TodayWindows -> Nat] /\ wasted \in [VcDates \X TodayWindows -> Nat]
  /\ found \in [VcKeys -> SUBSET CourtRooms]

VcInit ==
  /\ vcInstant = 1
  /\ vc = "asleep" /\ vc_run = NoRun
  /\ vc_scraped = << >>
  /\ vc_recorded = [d \in VcDates |-> {}]
  /\ vc_links = [d \in VcDates |-> {}]
  /\ vcFaults = 0
  /\ scrapes = [x \in VcDates \X TodayWindows |-> 0]
  /\ wasted = [x \in VcDates \X TodayWindows |-> 0]
  /\ found = [x \in VcKeys |-> {}]

\* At any time: a scrape may take long.
VcLater ==
  /\ vcInstant < Len(VcInstants)
  /\ vcInstant' = vcInstant + 1
  /\ UNCHANGED <<vc, vc_run, vcTableVars, vcFaults, vcHistoryVars>>

VcFault == vcFaults < MaxVcFaults /\ vcFaults' = vcFaults + 1

-----------------------------------------------------------------------------

\* Every half an hour, which is not counted.
VcWake ==
  /\ vc = "asleep"
  /\ vc' = "today"
  /\ vc_run' = [NoRun EXCEPT !.date = VcNowDay, !.hour = VcNowHour]
  /\ UNCHANGED <<vcInstant, vcTableVars, vcFaults, vcHistoryVars>>

Past(hour) == {w \in VcWindows : w <= hour}

\* _vc_load_from_db: the windows of a date, the first time.
LookedUp(d) ==
  IF d \in DOMAIN vc_scraped THEN vc_scraped
  ELSE [e \in DOMAIN vc_scraped \cup {d} |-> IF e = d THEN vc_recorded[d] ELSE vc_scraped[e]]

_should_scrape_vc(d, hour) == ~ Past(hour) \subseteq LookedUp(d)[d]

\* The first window of today that has not been scraped; only one for each time it wakes.
VcToday ==
  LET d == vc_run.date
      due == {w \in TodayWindows : w <= vc_run.hour /\ _should_scrape_vc(d, w)}
  IN
  /\ vc = "today"
  /\ vc_scraped' = LookedUp(d)
  /\ IF due = {}
     THEN vc' = "tomorrow" /\ UNCHANGED vc_run
     ELSE /\ vc' = "scrape"
          /\ vc_run' = [vc_run EXCEPT !.window = CHOOSE w \in due : \A v \in due : w <= v]
  /\ UNCHANGED <<vcInstant, vc_recorded, vc_links, vcFaults, vcHistoryVars>>

\* What is recorded then is none of the windows that are compared: tomorrow is scraped
\* every time, until it is today.
VcTomorrow ==
  LET d == vc_run.date + 1
  IN
  /\ vc = "tomorrow"
  /\ IF vc_run.hour < TomorrowWindow
     THEN vc' = "asleep" /\ vc_run' = NoRun /\ UNCHANGED vc_scraped
     ELSE /\ vc_scraped' = LookedUp(d)
          /\ IF _should_scrape_vc(d, TomorrowWindow)
             THEN vc' = "scrape" /\ vc_run' = [vc_run EXCEPT !.date = d, !.window = TomorrowWindow]
             ELSE vc' = "asleep" /\ vc_run' = NoRun
  /\ UNCHANGED <<vcInstant, vc_recorded, vc_links, vcFaults, vcHistoryVars>>

Count(history, d, w) ==
  IF w \in TodayWindows THEN [history EXCEPT ![<<d, w>>] = @ + 1] ELSE history

\* A list that cannot be had has no links, and counts as scraped.
scrape_vc_links ==
  LET d == vc_run.date
      w == vc_run.window
  IN
  /\ vc = "scrape"
  /\ \E list \in SUBSET CourtRooms :
       vc_run' = [vc_run EXCEPT !.list = list, !.links = list]
  /\ vc' = "store"
  /\ scrapes' = Count(scrapes, d, w)
  /\ UNCHANGED <<vcInstant, vcTableVars, vcFaults, wasted, found>>

upsert_vc_zoom_link(room) ==
  /\ vc = "store" /\ room \in vc_run.links
  /\ vc_links' = [vc_links EXCEPT ![vc_run.date] = @ \cup {room}]
  /\ vc_run' = [vc_run EXCEPT !.links = @ \ {room}]
  /\ UNCHANGED <<vcInstant, vc, vc_scraped, vc_recorded, vcFaults, vcHistoryVars>>

\* Mutant: the window is marked before the links are stored.
mark_first ==
  /\ vc = "store"
  /\ vc_scraped' = [vc_scraped EXCEPT ![vc_run.date] = @ \cup {vc_run.window}]
  /\ found' = [found EXCEPT ![<<vc_run.date, vc_run.window>>] = vc_run.list]
  /\ vc' = "record"
  /\ UNCHANGED <<vcInstant, vc_run, vc_recorded, vc_links, vcFaults, scrapes, wasted>>

\* In memory, and then in the database.
_mark_vc_scraped ==
  /\ vc = "store" /\ vc_run.links = {}
  /\ vc_scraped' = [vc_scraped EXCEPT ![vc_run.date] = @ \cup {vc_run.window}]
  /\ found' = [found EXCEPT ![<<vc_run.date, vc_run.window>>] = vc_run.list]
  /\ vc' = "record"
  /\ UNCHANGED <<vcInstant, vc_run, vc_recorded, vc_links, vcFaults, scrapes, wasted>>

\* After a scrape of today, tomorrow is looked at.
ScrapeOver ==
  IF vc_run.window = TomorrowWindow
  THEN vc' = "asleep" /\ vc_run' = NoRun
  ELSE vc' = "tomorrow" /\ vc_run' = [vc_run EXCEPT !.window = 0, !.list = {}, !.links = {}]

VcRecord ==
  /\ vc = "record"
  /\ vc_recorded' = [vc_recorded EXCEPT ![vc_run.date] = vc_scraped[vc_run.date]]
  /\ ScrapeOver
  /\ UNCHANGED <<vcInstant, vc_scraped, vc_links, vcFaults, vcHistoryVars>>

\* An exception of the scrape, of a link or of the record; one of the look-up ends the round.
ScrapeFails ==
  /\ vc \in {"scrape", "store", "record"}
  /\ VcFault
  /\ ScrapeOver
  /\ wasted' = IF vc = "store" THEN Count(wasted, vc_run.date, vc_run.window) ELSE wasted
  /\ UNCHANGED <<vcInstant, vcTableVars, scrapes, found>>

LookUpFails ==
  /\ vc \in {"today", "tomorrow"}
  /\ VcFault
  /\ vc' = "asleep" /\ vc_run' = NoRun
  /\ UNCHANGED <<vcInstant, vcTableVars, vcHistoryVars>>

\* A scrape is wasted when it is lost before its record.
VcEnds ==
  /\ vc # "ended"
  /\ VcFault
  /\ vc' = "ended" /\ vc_run' = NoRun
  /\ wasted' = [x \in VcDates \X TodayWindows |->
       wasted[x] + IF \/ vc = "store" /\ x = <<vc_run.date, vc_run.window>>
                      \/ x[1] \in DOMAIN vc_scraped /\ x[2] \in vc_scraped[x[1]] \ vc_recorded[x[1]]
                   THEN 1 ELSE 0]
  /\ vc_scraped' = << >>
  /\ UNCHANGED <<vcInstant, vc_recorded, vc_links, scrapes, found>>

VcStarts ==
  /\ vc = "ended"
  /\ vc' = "asleep"
  /\ UNCHANGED <<vcInstant, vc_run, vcTableVars, vcFaults, vcHistoryVars>>

VcNext ==
  \/ VcLater
  \/ VcWake \/ VcToday \/ VcTomorrow \/ scrape_vc_links \/ _mark_vc_scraped \/ VcRecord
  \/ \E room \in CourtRooms : upsert_vc_zoom_link(room)
  \/ ScrapeFails \/ LookUpFails \/ VcEnds \/ VcStarts

VcSpec == VcInit /\ [][VcNext]_vcVars

-----------------------------------------------------------------------------
(* Properties.                                                             *)

\* A window of today is scraped once, however often the process is started, and once more
\* for every scrape that failed or was lost before its record; and a window on record, or
\* in memory, was scraped for that date and its links are stored (_run_vc_scrape stores,
\* then marks, then records).
WindowsKept ==
  \A d \in VcDates :
    /\ \A w \in TodayWindows : scrapes[<<d, w>>] <= 1 + wasted[<<d, w>>]
    /\ \A w \in vc_recorded[d] \cup (IF d \in DOMAIN vc_scraped THEN vc_scraped[d] ELSE {}) :
         /\ w \in TodayWindows => scrapes[<<d, w>>] > wasted[<<d, w>>]
         /\ found[<<d, w>>] \subseteq vc_links[d]

=============================================================================
