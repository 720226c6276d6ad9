------------------------------ MODULE Causelist ------------------------------
(***************************************************************************)
(* Cause lists: causelist_scheduler.run_scheduler fetches the lists of a   *)
(* day from every source, store_causelist writes them, and after each one  *)
(* case_diff compares the rows of a tracked case with its last snapshot    *)
(* and tells those who track it.  backfill_causelist stores lists from     *)
(* another thread.                                                         *)
(*                                                                         *)
(* Time is a number of slots; a day has a night, the morning window        *)
(* (08:30-09:30), the day, the evening windows and the late evening.       *)
(* Dates are days.  One case is tracked.  A list is what parse_causelist   *)
(* returns: blocks, one after the other, each of a court and with the rows *)
(* printed in it; two blocks may be of one court, and two rows may have    *)
(* one section and serial number, as headings are merged into sections and *)
(* numbers start again under a heading.  A source's lists have benches of  *)
(* their own: side and list_type are the source's.  Dispatch is its table  *)
(* of keys: one notification per user, trigger and day                     *)
(* (notification_dispatch._make_dedup_key; the UTC day begins in the       *)
(* night).                                                                 *)
(***************************************************************************)
EXTENDS Integers, Sequences, FiniteSets

CONSTANTS
  SourceOrder,     \* build_sources: the sources, one after the other
  DailySources,
  StoredUnder,     \* date under which a source stores the list it finds for a date
  ShouldRun,       \* the sources and dates that are tried (should_run_for)
  Lists,           \* what can be published: sequences of blocks [court, rows]
  Trackers,        \* users who may track the case
  EveningWindows,  \* number of evening windows
  WorkingDays,
  NoRow, Missed, NoDate, NoJob,
  StartTimes,      \* when the scheduler may be started
  LastDay, MaxPublications, MaxFaults   \* bounds

VARIABLES
  now,
  published,   \* by source and date: [version, list] on the court's site, version 0 = none
  rows,        \* causelist_case, by source and date
  benches,     \* causelist_bench, by source and date: the courts
  stored,      \* history: the list stored last, its version, the newest version stored before or
               \* then, and whether the other one of scheduler and backfill had a list in hand
  spc,         \* where the scheduler is
  run,         \* its pass, target_date, sources to do, sources that failed, source at hand
  fetched,     \* what the scheduler has fetched
  alarm,       \* when it wakes up
  morning_rescraped_date,
  seen,        \* what case_diff has read: row, users
  snapshots,   \* case_snapshots: date -> row
  tracking,    \* users who track the case
  logged,      \* dedup keys: [user, trigger, day]
  told,        \* history: the row a user knows of; NoRow: none, Missed: an alert did not go out
  listed,        \* history: users to be told of the list just stored
  due,         \* history: [user, day] that were to be told on a day
  work,        \* the sources and dates the backfill has found missing
  job,         \* what it has fetched
  publications, faults

causelistVars ==
  <<now, published, rows, benches, stored, spc, run, fetched, alarm, morning_rescraped_date, seen,
    snapshots, tracking, logged, told, listed, due, work, job, publications, faults>>

scheduleVars == <<spc, run, fetched, alarm, morning_rescraped_date>>
listVars == <<rows, benches, stored>>
diffVars == <<seen, snapshots, logged, told, listed, due>>
backfillVars == <<work, job>>

Sources == {SourceOrder[i] : i \in DOMAIN SourceOrder}

Morning == 1
FirstWindow == 3
LastWindow == 2 + EveningWindows
SlotsPerDay == 4 + EveningWindows

Today == now \div SlotsPerDay
Slot == now % SlotsPerDay
LastTime == LastDay * SlotsPerDay + LastWindow + 1

_next_working_day(d) == CHOOSE n \in WorkingDays : n > d /\ \A m \in WorkingDays : m > d => n <= m

Dates == {_next_working_day(d) : d \in 0 .. LastDay} \cup (0 .. LastDay)

ASSUME CauselistAssumption ==
  /\ SourceOrder \in Seq(Sources) /\ Len(SourceOrder) = Cardinality(Sources)
  /\ DailySources \subseteq Sources
  /\ StoredUnder \in [Sources \X Dates -> Dates]
  /\ \A s \in DailySources, d \in Dates : StoredUnder[s, d] = d
  /\ DailySources \X Dates \subseteq ShouldRun /\ ShouldRun \subseteq Sources \X Dates
  /\ \A l \in Lists :
       /\ DOMAIN l \subseteq Nat
       /\ \A i \in DOMAIN l : DOMAIN l[i].rows \subseteq Nat /\ \A j \in DOMAIN l[i].rows : l[i].rows[j].court = l[i].court
  /\ IsFiniteSet(Trackers)
  /\ WorkingDays \subseteq Nat /\ \A d \in 0 .. LastDay : \E n \in WorkingDays : n > d
  /\ EveningWindows \in Nat \ {0} /\ LastDay \in Nat
  /\ StartTimes \subseteq 0 .. LastTime
  /\ MaxPublications \in Nat /\ MaxFaults \in Nat

-----------------------------------------------------------------------------
(* Lists.  A position is a block and a row in it.                          *)

Positions(l) == UNION {{<<i, j>> : j \in DOMAIN l[i].rows} : i \in DOMAIN l}

RowAt(l, p) == l[p[1]].rows[p[2]]

Before(p, q) == p[1] < q[1] \/ (p[1] = q[1] /\ p[2] < q[2])

Printed(l) == {RowAt(l, p) : p \in Positions(l)}

AllRows == UNION {Printed(l) : l \in Lists}

CourtsOf(l) == {l[i].court : i \in DOMAIN l}
Courts == UNION {CourtsOf(l) : l \in Lists}

ASSUME NothingAssumption ==
  /\ NoRow \notin AllRows /\ Missed \notin AllRows /\ NoRow # Missed
  /\ NoJob \notin [source : Sources, date : Dates, version : Nat, list : Lists]

SameSection(r, q) == r.court = q.court /\ r.section = q.section

\* ON CONFLICT (bench_id, section, serial_no)
SameKey(r, q) == SameSection(r, q) /\ r.serial = q.serial

\* Before its rows are written, a block deletes those with numbers beyond its own last one
\* in their section.
Cuts(block, r) ==
  LET numbered == {j \in DOMAIN block.rows : SameSection(block.rows[j], r) /\ block.rows[j].serial > 0}
  IN numbered # {} /\ \A j \in numbered : block.rows[j].serial < r.serial

\* A printed row is overwritten by a later one with its key and deleted by a later block.
Survives(l, p) ==
  /\ \A q \in Positions(l) : Before(p, q) => ~ SameKey(RowAt(l, q), RowAt(l, p))
  /\ \A i \in DOMAIN l : p[1] < i => ~ Cuts(l[i], RowAt(l, p))

Surviving(l) == {RowAt(l, p) : p \in {q \in Positions(l) : Survives(l, q)}}

NoList == [version |-> 0, newest |-> 0, list |-> << >>, overlapped |-> FALSE]

NothingSeen == [row |-> NoRow, users |-> {}]

IdleRun == [pass |-> "none", target |-> NoDate, todo |-> {}, failed |-> {}, source |-> NoDate]

CauselistTypeOK ==
  /\ now \in 0 .. LastTime
  /\ \A x \in Sources \X Dates :
       /\ published[x].version \in 0 .. MaxPublications
       /\ rows[x] \subseteq AllRows
       /\ benches[x] \subseteq Courts
       /\ stored[x].version \in 0 .. MaxPublications
  /\ spc \in {"wake", "asleep", "fetch", "store", "read", "compare", "alert", "scan", "done", "dead"}
  /\ run.todo \subseteq Sources /\ run.failed \subseteq Sources
  /\ run.pass \in {"none", "morning", "evening"}
  /\ spc \in {"fetch", "store", "read", "compare", "alert", "scan"} => run.target \in Dates
  /\ alarm \in Nat
  /\ morning_rescraped_date \in Dates \cup {NoDate}
  /\ DOMAIN snapshots \subseteq Dates
  /\ \A d \in DOMAIN snapshots : snapshots[d] \in AllRows
  /\ tracking \subseteq Trackers /\ seen.users \subseteq Trackers /\ listed \subseteq Trackers
  /\ told \in [Trackers -> AllRows \cup {NoRow, Missed}]
  /\ work \subseteq ShouldRun
  /\ publications \in 0 .. MaxPublications /\ faults \in 0 .. MaxFaults

CauselistInit ==
  /\ now \in StartTimes
  /\ published = [x \in Sources \X Dates |-> [version |-> 0, list |-> NoJob]]
  /\ rows = [x \in Sources \X Dates |-> {}]
  /\ benches = [x \in Sources \X Dates |-> {}]
  /\ stored = [x \in Sources \X Dates |-> NoList]
  /\ spc = "wake" /\ run = IdleRun /\ fetched = NoJob
  /\ alarm = 0
  /\ morning_rescraped_date = NoDate
  /\ seen = NothingSeen
  /\ snapshots = << >>
  /\ tracking \in SUBSET Trackers
  /\ logged = {} /\ listed = {} /\ due = {}
  /\ told = [u \in Trackers |-> NoRow]
  /\ work = {} /\ job = NoJob
  /\ publications = 0 /\ faults = 0

-----------------------------------------------------------------------------
(* The court publishes and revises lists, users begin to track the case.   *)

\* Only a fetch reads what is published: what is published while a list is compared might as
\* well be published before the next fetch.
Publish(s, d, l) ==
  /\ spc \in {"asleep", "fetch", "store", "dead"}
  /\ publications < MaxPublications
  /\ publications' = publications + 1
  /\ d \in WorkingDays /\ StoredUnder[s, d] = d
  /\ published[s, d].version = 0 \/ published[s, d].list # l
  /\ published' = [published EXCEPT ![<<s, d>>] = [version |-> publications + 1, list |-> l]]
  /\ UNCHANGED <<now, listVars, scheduleVars, diffVars, tracking, backfillVars, faults>>

Track(u) ==
  /\ u \notin tracking
  /\ tracking' = tracking \cup {u}
  /\ UNCHANGED <<now, published, listVars, scheduleVars, diffVars, backfillVars, publications, faults>>

\* Time passes while the scheduler sleeps, is busy or is dead: a fetch that blocks may let
\* windows go by, or days.  It wakes up in the slot it is to wake up in, and looks at the
\* clock once.
Tick ==
  /\ now < LastTime
  /\ spc # "wake" /\ (spc = "asleep" => now < alarm)
  /\ now' = now + 1
  /\ UNCHANGED <<published, listVars, scheduleVars, diffVars, tracking, backfillVars, publications, faults>>

-----------------------------------------------------------------------------
(* The scheduler.                                                          *)

\* The beginning of the next evening window, today or tomorrow.
_next_window_after_now ==
  IF Slot < LastWindow
  THEN Today * SlotsPerDay + (IF Slot < FirstWindow THEN FirstWindow ELSE Slot + 1)
  ELSE (Today + 1) * SlotsPerDay + FirstWindow

_source_already_scraped(s, d) == benches[s, StoredUnder[s, d]] # {}

Pending(d) == {s \in Sources : <<s, d>> \in ShouldRun /\ ~ _source_already_scraped(s, d)}

\* A lookup that fails counts as: not yet scraped.
PendingAfterFaults(d, todo) ==
  \E failing \in SUBSET {s \in Sources : <<s, d>> \in ShouldRun /\ _source_already_scraped(s, d)} :
    /\ faults + Cardinality(failing) <= MaxFaults
    /\ faults' = faults + Cardinality(failing)
    /\ todo = Pending(d) \cup failing

Sleep ==
  /\ spc' = "asleep"
  /\ alarm' = _next_window_after_now
  /\ run' = IdleRun
  /\ UNCHANGED <<fetched, morning_rescraped_date>>

StartPass(pass, d, todo) ==
  /\ spc' = IF todo = {} THEN "done" ELSE "fetch"
  /\ run' = [IdleRun EXCEPT !.pass = pass, !.target = d, !.todo = todo]
  /\ UNCHANGED <<fetched, alarm, morning_rescraped_date>>

MorningDue == Today \in WorkingDays /\ Slot = Morning /\ morning_rescraped_date # Today

InWindow == Slot \in FirstWindow .. LastWindow

MorningPass ==
  /\ spc = "wake"
  /\ MorningDue
  /\ StartPass("morning", Today, DailySources)
  /\ UNCHANGED <<now, published, listVars, diffVars, tracking, backfillVars, publications, faults>>

EveningPass ==
  LET d == _next_working_day(Today)
  IN
  /\ spc = "wake"
  /\ ~ MorningDue
  /\ InWindow
  /\ \E todo \in SUBSET Sources :
       PendingAfterFaults(d, todo) /\ todo # {} /\ StartPass("evening", d, todo)
  /\ UNCHANGED <<now, published, listVars, diffVars, tracking, backfillVars, publications>>

\* Everything is done, or it is before the first window or after the last one.
SleepTillWindow ==
  /\ spc = "wake"
  /\ ~ MorningDue
  /\ Pending(_next_working_day(Today)) = {} \/ ~ InWindow
  /\ Sleep
  /\ UNCHANGED <<now, published, listVars, diffVars, tracking, backfillVars, publications, faults>>

WakeUp ==
  /\ spc = "asleep" /\ now >= alarm
  /\ spc' = "wake" /\ alarm' = 0
  /\ UNCHANGED <<run, fetched, morning_rescraped_date>>
  /\ UNCHANGED <<now, published, listVars, diffVars, tracking, backfillVars, publications, faults>>

\* After a pass: the morning is done however it went; in the evening a source that
\* failed is tried again in the next window.
PassDone ==
  /\ spc = "done"
  /\ IF run.pass = "morning"
     THEN /\ morning_rescraped_date' = run.target
          /\ spc' = "wake" /\ run' = IdleRun
          /\ UNCHANGED <<fetched, alarm>>
     ELSE IF run.failed # {} THEN Sleep
     ELSE /\ spc' = "wake" /\ run' = IdleRun
          /\ UNCHANGED <<fetched, alarm, morning_rescraped_date>>
  /\ UNCHANGED <<now, published, listVars, diffVars, tracking, backfillVars, publications, faults>>

\* The source that is next.
Fetching(s) ==
  LET At(q) == CHOOSE i \in DOMAIN SourceOrder : SourceOrder[i] = q
  IN /\ spc = "fetch" /\ s \in run.todo
     /\ \A q \in run.todo : At(s) <= At(q)

\* What follows once a source is dealt with.
NextSource ==
  /\ run' = [run EXCEPT !.source = NoDate]
  /\ spc' = IF run.todo = {} THEN "done" ELSE "fetch"

\* What a site has for a date, fetched for the scheduler or for the backfill.
Fetched(s, at) ==
  [source |-> s, date |-> at, version |-> published[s, at].version, list |-> published[s, at].list]

FetchList(s) ==
  LET at == StoredUnder[s, run.target]
  IN
  /\ Fetching(s)
  /\ published[s, at].version # 0
  /\ fetched' = Fetched(s, at)
  /\ run' = [run EXCEPT !.todo = @ \ {s}, !.source = s]
  /\ spc' = "store"
  /\ UNCHANGED <<alarm, morning_rescraped_date>>
  /\ UNCHANGED <<now, published, listVars, diffVars, tracking, backfillVars, publications, faults>>

\* A fetch never raises: a site that does not answer, or a list without courts, is no list.
FetchFails(s) ==
  /\ Fetching(s)
  /\ run' = [run EXCEPT !.todo = @ \ {s}, !.failed = @ \cup {s}]
  /\ spc' = IF run.todo = {s} THEN "done" ELSE "fetch"
  /\ UNCHANGED <<fetched, alarm, morning_rescraped_date>>
  /\ UNCHANGED <<now, published, listVars, diffVars, tracking, backfillVars, publications, faults>>

-----------------------------------------------------------------------------
(* store_causelist, one transaction.                                       *)

\* Mutant: rows beyond the end of a section are not deleted.
RowsAfterAll(old, l) ==
  {r \in old : \A n \in Printed(l) : ~ SameKey(n, r)} \cup Surviving(l)

\* Block by block, rows beyond the end of a section are deleted and rows with the key of
\* a printed one overwritten.
RowsAfter(old, l) ==
  {r \in old : /\ \A n \in Printed(l) : ~ SameKey(n, r)
               /\ \A i \in DOMAIN l : ~ Cuts(l[i], r)} \cup Surviving(l)

\* Of the two that store lists, the other has fetched this one as well and not yet stored it.
Overlapping(mine, other) ==
  other # NoJob /\ other.source = mine.source /\ other.date = mine.date

StoredAfter(old, mine, other) ==
  LET newest == IF old.newest <= mine.version THEN mine.version ELSE old.newest
  IN [version |-> mine.version, newest |-> newest, list |-> mine.list,
      overlapped |-> Overlapping(mine, other) \/ (old.overlapped /\ mine.version # newest)]

store_causelist(mine, other) ==
  LET x == <<mine.source, mine.date>>
  IN
  /\ rows' = [rows EXCEPT ![x] = RowsAfter(@, mine.list)]
  /\ benches' = [benches EXCEPT ![x] = @ \cup CourtsOf(mine.list)]
  /\ stored' = [stored EXCEPT ![x] = StoredAfter(@, mine, other)]

OfCase(set) == {r \in set : r.tracked}

\* Then the diff jobs run for the target date; who tracks the case is to be told if the
\* list has it, and has it for that date.
Store ==
  /\ spc = "store"
  /\ store_causelist(fetched, job)
  /\ fetched' = NoJob
  /\ spc' = "read"
  /\ listed' = IF fetched.date = run.target /\ OfCase(Surviving(fetched.list)) # {} THEN tracking ELSE {}
  /\ UNCHANGED <<run, alarm, morning_rescraped_date, seen, snapshots, logged, told, due>>
  /\ UNCHANGED <<now, published, tracking, backfillVars, publications, faults>>

-----------------------------------------------------------------------------
(* run_daily_case_diff and run_causelist_alert_scan.                       *)

RowsOfDate(d) == UNION {OfCase(rows[s, d]) : s \in Sources}

\* search_causelist_cases(limit=1): by court, then by serial number.
FirstRows(d) ==
  {r \in RowsOfDate(d) : \A q \in RowsOfDate(d) :
     r.court < q.court \/ (r.court = q.court /\ r.serial <= q.serial)}

\* Those who track the case, and its row; a case that is not listed is noted, no more.
ReadRow ==
  /\ spc = "read"
  /\ IF tracking = {} \/ RowsOfDate(run.target) = {}
     THEN spc' = "scan" /\ UNCHANGED seen
     ELSE /\ spc' = "compare"
          /\ \E r \in FirstRows(run.target) : seen' = [row |-> r, users |-> tracking]
  /\ UNCHANGED <<run, fetched, alarm, morning_rescraped_date>>
  /\ UNCHANGED <<snapshots, logged, told, listed, due>>
  /\ UNCHANGED <<now, published, listVars, tracking, backfillVars, publications, faults>>

Fault == faults < MaxFaults /\ faults' = faults + 1

\* _get_case_for_date: a search that fails has not found the case.
ReadFails ==
  /\ spc = "read" /\ tracking # {}
  /\ Fault
  /\ spc' = "scan"
  /\ UNCHANGED <<run, fetched, alarm, morning_rescraped_date, diffVars>>
  /\ UNCHANGED <<now, published, listVars, tracking, backfillVars, publications>>

\* _run_case_diff_jobs: where the cases or the users that track them cannot be read the jobs
\* end, the diff together with the scan, and the next source is fetched.  A search that
\* fails in the scan passes over the case.
JobsRaise ==
  /\ spc \in {"read", "scan"}
  /\ Fault
  /\ NextSource
  /\ listed' = {}
  /\ UNCHANGED <<fetched, alarm, morning_rescraped_date, seen, snapshots, logged, told, due>>
  /\ UNCHANGED <<now, published, listVars, tracking, backfillVars, publications>>

\* get_last_snapshot: by date, not by the time it was written.
LastDate == CHOOSE d \in DOMAIN snapshots : \A e \in DOMAIN snapshots : e <= d
LastRow == IF DOMAIN snapshots = {} THEN NoRow ELSE snapshots[LastDate]

upsert_snapshot ==
  LET d == run.target
  IN IF d \in DOMAIN snapshots /\ snapshots[d] = seen.row
     THEN UNCHANGED snapshots
     ELSE snapshots' = [e \in DOMAIN snapshots \cup {d} |-> IF e = d THEN seen.row ELSE snapshots[e]]

Unchanged == run.target \in DOMAIN snapshots /\ snapshots[run.target] = seen.row

\* Mutant: the last snapshot is read after the new one is written.
CompareAfterUpsert ==
  /\ spc = "compare"
  /\ upsert_snapshot
  /\ spc' = "scan"
  /\ told' = [u \in Trackers |-> IF u \in seen.users /\ LastRow = NoRow THEN seen.row ELSE told[u]]
  /\ seen' = NothingSeen
  /\ UNCHANGED <<run, fetched, alarm, morning_rescraped_date, logged, listed, due>>
  /\ UNCHANGED <<now, published, listVars, tracking, backfillVars, publications, faults>>

\* The last snapshot is read and the new one written.  The first one, an unchanged one and
\* one of another date with the same row are noted, and nobody is told.
Compare ==
  LET quiet == LastRow = NoRow \/ Unchanged \/ LastRow = seen.row
  IN
  /\ spc = "compare"
  /\ upsert_snapshot
  /\ spc' = IF quiet THEN "scan" ELSE "alert"
  /\ told' = [u \in Trackers |-> IF u \in seen.users /\ LastRow = NoRow THEN seen.row ELSE told[u]]
  /\ seen' = IF quiet THEN NothingSeen ELSE seen
  /\ UNCHANGED <<run, fetched, alarm, morning_rescraped_date, logged, listed, due>>
  /\ UNCHANGED <<now, published, listVars, tracking, backfillVars, publications, faults>>

\* A last snapshot that cannot be read counts as none: the new one is written as if it were
\* the first.  A new one that cannot be written counts as unchanged.  Nobody is told.
CompareFails ==
  /\ spc = "compare"
  /\ Fault
  /\ upsert_snapshot \/ UNCHANGED snapshots
  /\ spc' = "scan"
  /\ told' = [u \in Trackers |-> IF told[u] \in {NoRow, LastRow'} THEN told[u] ELSE Missed]
  /\ seen' = NothingSeen
  /\ UNCHANGED <<run, fetched, alarm, morning_rescraped_date, logged, listed, due>>
  /\ UNCHANGED <<now, published, listVars, tracking, backfillVars, publications>>

Key(u, trigger) == [user |-> u, trigger |-> trigger, day |-> Today]

\* _send_change_alerts: every field of a snapshot is a status_changed.  The second of a
\* day is not sent.
ChangeAlert(u) ==
  /\ spc = "alert" /\ u \in seen.users
  /\ \/ /\ logged' = logged \cup {Key(u, "status_changed")}
        /\ told' = [told EXCEPT ![u] = IF Key(u, "status_changed") \in logged THEN Missed ELSE seen.row]
        /\ UNCHANGED faults
     \/ /\ Fault
        /\ told' = [told EXCEPT ![u] = Missed]
        /\ UNCHANGED logged
  /\ seen' = IF seen.users = {u} THEN NothingSeen ELSE [seen EXCEPT !.users = @ \ {u}]
  /\ spc' = IF seen.users = {u} THEN "scan" ELSE "alert"
  /\ UNCHANGED <<run, fetched, alarm, morning_rescraped_date, snapshots, listed, due>>
  /\ UNCHANGED <<now, published, listVars, tracking, backfillVars, publications>>

\* run_causelist_alert_scan; users u \in failing raise.
Scan ==
  LET them == IF RowsOfDate(run.target) = {} THEN {} ELSE tracking
  IN
  /\ spc = "scan"
  /\ \E failing \in SUBSET them :
       /\ faults + Cardinality(failing) <= MaxFaults
       /\ faults' = faults + Cardinality(failing)
       /\ logged' = logged \cup {Key(u, "case_in_causelist") : u \in them \ failing}
       /\ due' = due \cup {[user |-> u, day |-> Today] : u \in listed \ failing}
  /\ listed' = {}
  /\ NextSource
  /\ UNCHANGED <<fetched, alarm, morning_rescraped_date, seen, snapshots, told>>
  /\ UNCHANGED <<now, published, listVars, tracking, backfillVars, publications>>

-----------------------------------------------------------------------------
(* Crashes, and the backfill.                                              *)

\* The process dies, or store_causelist raises and the thread dies with it.  Who was to
\* be told now never is.
SchedulerDies ==
  /\ spc \notin {"wake", "dead"}
  /\ Fault
  /\ spc' = "dead"
  /\ run' = IdleRun /\ fetched' = NoJob
  /\ morning_rescraped_date' = NoDate
  /\ told' = [u \in Trackers |-> IF spc = "alert" /\ u \in seen.users THEN Missed ELSE told[u]]
  /\ listed' = {}
  /\ seen' = NothingSeen
  /\ (work' = {} /\ job' = NoJob) \/ UNCHANGED backfillVars
  /\ alarm' = 0
  /\ UNCHANGED <<snapshots, logged, due>>
  /\ UNCHANGED <<now, published, listVars, tracking, publications>>

\* The watchdog, or a new process.
Restart ==
  /\ spc = "dead"
  /\ spc' = "wake"
  /\ UNCHANGED <<run, fetched, alarm, morning_rescraped_date>>
  /\ UNCHANGED <<now, published, listVars, diffVars, tracking, backfillVars, publications, faults>>

\* What is not there yet of the working days up to today; looked up once, for all of them.
BackfillStarts ==
  /\ work = {} /\ job = NoJob
  /\ work' = {x \in ShouldRun : x[2] <= Today /\ x[2] \in WorkingDays /\ x[1] \in Pending(x[2])}
  /\ work' # {}
  /\ UNCHANGED <<now, published, listVars, scheduleVars, diffVars, tracking, job, publications, faults>>

\* Day by day; the source may have no list.
BackfillFetch(s, d) ==
  LET at == StoredUnder[s, d]
  IN
  /\ <<s, d>> \in work /\ job = NoJob
  /\ \A x \in work : d <= x[2]
  /\ work' = work \ {<<s, d>>}
  /\ \/ published[s, at].version # 0 /\ job' = Fetched(s, at)
     \/ UNCHANGED job
  /\ UNCHANGED <<now, published, listVars, scheduleVars, diffVars, tracking, publications, faults>>

\* The list may have been revised, and stored by the scheduler, since it was fetched: then
\* the old list is written over the new one, perhaps before the scan has read it.
BackfillStore ==
  LET x == <<job.source, job.date>>
  IN
  /\ job # NoJob
  /\ store_causelist(job, fetched)
  /\ listed' = IF x = <<run.source, run.target>> /\ stored[x].list # job.list THEN {} ELSE listed
  /\ job' = NoJob
  /\ UNCHANGED <<seen, snapshots, logged, told, due>>
  /\ UNCHANGED <<now, published, scheduleVars, tracking, work, publications, faults>>

\* store_causelist raises: nothing is stored, and the backfill ends.
BackfillDies ==
  /\ job # NoJob
  /\ Fault
  /\ work' = {} /\ job' = NoJob
  /\ UNCHANGED <<now, published, listVars, scheduleVars, diffVars, tracking, publications>>

CauselistNext ==
  \/ \E s \in Sources, d \in Dates, l \in Lists : Publish(s, d, l)
  \/ \E u \in Trackers : Track(u) \/ ChangeAlert(u)
  \/ Tick
  \/ MorningPass \/ EveningPass \/ SleepTillWindow \/ WakeUp \/ PassDone
  \/ \E s \in Sources : FetchList(s) \/ FetchFails(s)
  \/ Store
  \/ ReadRow \/ ReadFails \/ JobsRaise
  \/ Compare \/ CompareFails
  \/ Scan
  \/ SchedulerDies \/ Restart
  \/ BackfillStarts \/ BackfillStore \/ BackfillDies
  \/ \E s \in Sources, d \in Dates : BackfillFetch(s, d)

CauselistSpec == CauselistInit /\ [][CauselistNext]_causelistVars

-----------------------------------------------------------------------------
(* Properties.                                                             *)

\* What is there of a source and date follows from the list stored last, whatever was there
\* before (store_causelist): of its printed rows those that no later row overwrites and no
\* later block deletes, and else only what earlier lists left, with numbers that no block of
\* the list has in that section or beyond it.  A row is there once.  And the list stored last
\* is the newest that was stored, unless one of scheduler and backfill stored a list while the
\* other had fetched it.
RowsFollowList ==
  \A x \in Sources \X Dates :
    LET l == stored[x].list
    IN /\ Surviving(l) \subseteq rows[x]
       /\ \A r \in rows[x] \ Surviving(l) :
            /\ \A n \in Printed(l) : ~ SameKey(n, r)
            /\ \A i \in DOMAIN l : ~ Cuts(l[i], r)
       /\ \A r, q \in rows[x] : SameKey(r, q) => r = q
       /\ ~ stored[x].overlapped => stored[x].version = stored[x].newest

\* A user who knew of the case's last snapshot is told when the snapshot changes, whatever
\* the order of lists, passes and dates (run_daily_case_diff never compares with what was
\* told).  Who was not told is one whose alert was the second of a day, or something failed.
ChangesTold ==
  spc # "alert" =>
    \A u \in Trackers :
      /\ told[u] \in {NoRow, Missed, LastRow}
      /\ told[u] = Missed => faults > 0 \/ \E k \in logged : k.user = u /\ k.trigger = "status_changed"

\* Everybody who tracked the case when a list that has it was stored gets a notification on the
\* day the list is scanned, of this list or of another one that day (one notification a
\* day), unless something failed or the backfill wrote another list over it.  The scheduler
\* leaves a list with nobody still to be told.
ListedIsTold ==
  /\ \A x \in due : [user |-> x.user, trigger |-> "case_in_causelist", day |-> x.day] \in logged
  /\ spc \notin {"read", "compare", "alert", "scan"} => listed = {}

=============================================================================
