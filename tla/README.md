# EventTrace: TLA+ models, checks and proofs

EventTrace watches the display board of a court, records every change of it,
scrapes cause lists and sends alerts to people who wait for a case. This
directory holds models of its protocols, the TLC instances that check them and
the proofs that tlapm checks. Paths below are relative to `src/eventtrace/`.

## The system

Processes: the *monitor* (`monitor/run_monitor.py`: the poll loop in the main
thread, daemon threads for the notification retry worker, the VC and cause-list
schedulers, the case-history refresh, a one-off backfill and a watchdog that
restarts dead threads every 30 s), the *API* (FastAPI, many requests at a time)
and the *bots*. They share one SQL database (SQLite or PostgreSQL) and, when
configured, Redis. A repository method is one transaction; **nothing spans two
of them**, so two methods in a row can be interleaved with anything and a crash
can fall between them. That is where most of the difficulty of this code lies.

| component | state | operations | hard behaviour | what makes it correct |
|---|---|---|---|---|
| dispatch (`services/notification_dispatch.py`) | `notification_log`, `notification_queue` | `enqueue_notification`: cap, dedup, log row, queue row per channel | check-then-act by many producers, a failure between the rows, UTC days | caps and dedup exceeded by no more than the race allows; no notification silently lost |
| queue and retry worker (`services/notification_retry_worker.py`) | queue rows with lock, attempts | claim, send, update log, ack | several workers, lock expiry, crash after send, exceptions in ack | one holder per row, bounded sends, every row leaves, the log tells the truth |
| Telegram sender, dead letters (`services/telegram_sender.py`, `dlq_worker.py`) | Redis counters and list | send with rate limit and retries; drain | counters renewed by rejected calls, jobs popped before the send | rate kept, every job accounted for |
| contacts, webhooks (`routes/auth.py`, `alerts.py`, `webhooks.py`) | addresses, bounce mark, chat, settings, `alert_preferences` | change, verify, link, stop, bounce | read, decide, write by concurrent threads; rows queued before the stop | a stop holds, a setting is what was last said, mail is off for a reason |
| poll loop (`monitor/run_monitor.py`) | session, failure counter, outage flag, in memory | court hours, naps, polls, outage notice | opening after nights and week-ends; restarts forget the counters | awake at the opening; an outage told once, in time, to all |
| change detector (`monitor/change_detector.py`) | `current_state`, `field_state`, `event_traces` | `apply_snapshot` | one commit per statement | traces are the history of each value, the returned list is complete |
| subscriptions (`monitor/run_monitor.py`, bots, `routes/alerts.py`) | `subscriptions` | alert, adjourn, remind; watch, unwatch | lists gone stale, send-then-record, crash in between | each told once, messages do not contradict each other, a due alert goes out |
| tracked-case alerts (`services/alert_checker.py`) | `tracked_cases.alerted_at` | two checks per poll; set, change, clear | marks although nothing was queued; rows changed in mid-poll | alerted once a day, and not less |
| VC scheduler (`monitor/run_monitor.py`) | scrape marks in memory and in `monitor_state`, links | scrape in windows, for today and tomorrow | restarts between store, mark and record | one scrape per window, and a marked window has its links |
| cause-list scheduler, backfill (`causelist/causelist_scheduler.py`, `backfill.py`), storage (`causelist_alchemy.py`), case diff (`services/case_diff.py`) | lists, snapshots, a pass | windows, fetch, store, compare, alert | two writers of one list, partial replacement, notify after the snapshot | rows are the last list's, a change reaches those who track the case |
| cause-list parser (`causelist/causelist_parser.py`) | the case and headings being read | one step per line | state that leaks from a case to the next, headings inside a case | each case whole and under its heading |
| case history refresh (`case_history_refresh.py`, `routes/my_cases.py`) | `case_history_cache` | nightly refresh, fetch on request | the cache is what "new" is measured by, and requests write it | nobody misses news |
| eCourts client (`services/resolve_ecourts_type.py`, `routes/ecourts_test.py`, `case_search`) | type maps, cache, tracked rows | resolve, search, cache, store | several threads fill maps and rows from what they read earlier | one prefix one type, a history is of its case, what a user gave stays |
| accounts (`routes/auth.py`) | users, codes, refresh tokens | log-in, verification, rotation, log-out | concurrent use of a one-time value, split increments | a code compared and accepted as often as allowed, one live token per session |
| scraper guard, admin alerts (`services/scraper_guard.py`, `admin_alerts.py`) | two Redis keys | acquire, record a 429, reset | scrapers share keys; INCR and EXPIRE are two calls | a ban is merited, told and ends |
| reconciliation, links of hearings (`services/reconciliation.py`, `vc_mapper.py`) | result rows, link rows, delivery log | batch with confidences; request of a link | rows that fail, batches run twice, a link edited while requested | the best match is given, a link given is verified and fresh |
| board scraper, query routes, UI, storage plumbing | – | I/O and formatting | – | no state of their own |

Interactions: the poll loop calls the change detector and hands its list of
changes to the adjournment pass, then runs the tracked-case checks on the same
board; the poll loop, the case diff and the history refresh call dispatch;
dispatch and the worker meet in `notification_log` and `notification_queue`, and
read the contacts at two different moments; the cause-list scheduler and the
backfill write the same lists, the refresh and the requests the same cache; users
change contact fields and tracked cases through the API and the bots at any moment.

`PROJECT.json` lists all components with what is and is not modelled, and every
hazard with its line.

## Modules

Actions carry the names of the functions they model, or of the step of a
function between two commits. Mutants (definitions that start with a comment
`Mutant:`) are never used by a specification; they state the bugs against which
the properties are tested.

- **NotificationDispatch**: producers `p` run `enqueue_notification`: `Call`
  (user, preference, channels), then per channel `CapCheck`, `DedupCheck`,
  `WriteLog`, `WriteQueue`, each a transaction that may raise; `ProducerCrash`.
  The worker and the user appear as `Report`, `Leave`, `ContactChange`.
- **NotificationQueue**: workers `w`: `Claim` (PostgreSQL) or
  `SelectRows`/`LockRows` (SQLite), `Begin`, `Send`, `UpdateLog`, `Ack`, `Nack`,
  `WorkerCrash`, `LockExpires`. Dispatch appears as `NewLogRow`, `NewQueueRow`,
  `NotQueued`, the webhooks of the providers (`routes/webhooks.py`) as `ProviderReport`,
  which writes any of their statuses to a row that a sender has answered, at any time and
  in any order. `locked` is the set of rows whose `locked_until` is in the future.
- **NotificationDelivery**: what the queue promises: a submitted notification is
  pending until it succeeds or has failed `MaxAttempts` times.
  `NotificationQueue` implements it (`ImplementsDelivery`).
- **NotificationPipeline**: dispatch and queue over the same tables; each
  component's actions replace the other's environment, and both component
  specifications are implemented by the composition, which shows that the two
  environments were wide enough. The provider's webhook is `Receipt`, the status report
  of the queue's module; dispatch's `Report` stands for it too.
- **ChangeDetector** / **FieldHistory**: `apply_snapshot`, one action per
  statement that commits; the abstract history of a key's values.
- **Subscriptions**: the three passes of a poll over separately read lists,
  with the users' commands between any two steps.
- **TelegramSender**: threads `s` run `send`: `CheckRateLimit` (one MULTI/EXEC on
  the two Redis counters) or `FailOpen`, `DoSend`, `Wake` from a pause,
  `EnqueueDlq`; workers `d` run the body of `process_dlq_batch`: `Pop`,
  `RetrySend`, `ReEnqueue`. `Tick` is time, in fractions of a second, and deletes
  counters. Whether there is a Redis is chosen at the start. Nothing in the
  repository starts `run_dlq_worker` today, although its docstring
  (`services/dlq_worker.py:3`) says that the monitor does; the module shows that
  it can be started, and holds without it.
- **Accounts**: requests `r` of log-in, verification, rotation and log-out, each
  call of the repository a step; the increment of a code's attempts is two. The
  three tables of codes are one, by place.
- **Contacts**: threads that change the address, verify it, link and unlink the
  chat, change settings and the preference of an alert, report a bounce, and the
  producer and worker that read all of these one after the other.
- **PollLoop**: the main loop over a row of instants: out of hours it naps, in
  hours it polls; failures, the notice to each subscriber, restarts.
- **SerialAlerts**: `check_serial_alerts` and `check_display_board_triggers` row
  by row, with requests between any two steps.
- **VcScheduler**: look up marks, scrape, store each link, mark, record, with a
  restart between any two.
- **Causelist**: publications, the scheduler's passes with their windows and
  sources, `store_causelist`, the jobs of the case diff, the backfill. A list is a
  sequence of blocks (`parse_causelist` returns one for each court it reads, and may
  return two of one court), each a sequence of rows, and rows may share court, section
  and serial number: serials begin again under a heading, and `_classify_section`
  (`causelist_parser.py:614-624`) merges headings into sections. `Survives` says which
  printed rows the deletes and upserts of `causelist_alchemy.py:655-720` leave. Time goes
  on while a pass is busy and while the process is dead, so that windows are missed. Of
  the diff's error paths, `ReadFails` is a search that fails and counts as not found
  (`case_diff.py:59-66`), `CompareFails` a last snapshot that cannot be read or a new one
  that cannot be written (`:97-106`), `JobsRaise` an exception that ends diff and scan
  (`causelist_scheduler.py:135-142`). `ShouldRun` is `should_run_for` of the sources.
- **CauselistParser**: `parse_cases_from_block`, one action per kind of line.
- **CaseHistory**: `refresh_cases` and `fetch_ecourts` over one cache.
- **Ecourts**: types of a bench, the prefix map, the search of a case with what
  it caches, and the row of a tracked case that is resolved, found, edited and switched
  to notifications (`NotifyTracks`, which adds it if it is not there). `FirstType` is the
  first type of a bench as its query orders them, by text and not by number.
- **ScraperGuard**: `acquire`, `record_429` (INCR and EXPIRE as two calls),
  `reset_429_count` and `create_admin_alert` under scrapers that share the keys.
- **Matching**: `reconcile_entry` and `run_reconciliation_batch`; `resolve_vc_link`
  against edits of the link.
- **EventTrace** and **Monitor**: the parts above side by side, those that serve
  users and those of the monitor process. They are sums: the parts share no
  variables, no property relates two of them, and so a step of one cannot change
  whether a property of another holds; the variable `part` chooses which one runs,
  and a run of the sum visits every behaviour that each part has. (The product
  would multiply the states and show the same.) Where parts do share state they
  are composed in earnest, as in NotificationPipeline.
- **..._proofs**: the theorems about NotificationQueue, NotificationDispatch,
  NotificationPipeline, ChangeDetector, Subscriptions and TelegramSender, about
  Monitor with its parts, and about EventTrace with its parts; see "Proofs".

The sums name their properties after the part: `AccountsKept` is `CodesLimited`
and `SessionsBounded`; `ContactsKept` is `SettingsKept`, `BouncesHaveCause` and
`StopsHold`; `EcourtsKept` is `ResolvedAlike`, `CachedIsTheCase` and `GivenIsKept`;
`CasesRead` is `CasesWhole` and `UnderItsHeading`; `CasesAreTold` is `ChangesTold`
and `ListedIsTold`; `PollsKept` is `OpeningIsSeen` and `OutageIsTold`; `TracesKept`
is `TraceChain` and `FalseTracesBounded`; `BoardRecorded` is `StateFollowsBoard` and
`ChangesComplete`; `SerialAlertsKept` is `OncePerDay` and `ReachedIsTold`; `GuardKept`
is `BanEnds`, `BanMerited` and `BanTold`; `MatchingKept` is `BestIsGiven`,
`RowsAccounted` and `LinksMerited`; in Subscriptions, `MessagesAgree` is `NeverBoth`
and `ReminderFollowsAlert`.

## Runs

All bounds are constants. A *fault* is an exception of the database, a crash, or
a lock that is outlived; `MaxFaults` bounds them and the properties are stated
relative to their number, so that one or two are as good as many.

| run | instance | shows |
|---|---|---|
| MCDispatch | 2 producers, 3 calls, 1 user, cap 1, 2 triggers, 2 days of 2 ticks, 1 fault | cap and dedup are overshot by at most the number of racing producers; rows that never reach the queue are failed or paid for by a fault |
| MCQueue | PostgreSQL, 2 workers, 2 rows, batches of 2, locks that may be outlived, provider reports of failure (`Receipts` = failed), 2 faults | sends bounded, holders bounded, log agrees with the outcome, refinement of NotificationDelivery |
| MCQueueSqlite | the same on SQLite, 1 fault | sends bounded, one more for each other worker |
| MCPipeline | dispatch and queue together on SQLite (claim in two steps), 1 producer, 1 worker, 2 days, provider reports of delivery (`Receipts` = delivered), fair, no fault | each component does to the other only what that component's own specification expects; every notification settles |
| MCSubscriptions | 1 row of a user who can or cannot be reached, 1 bot, 2 days, 1 fault, fair | what is sent agrees with what is recorded; a due row does not stay due |
| MCTelegramSender | 2 senders, 1 dead-letter worker, 2 chats, 3 messages, 1 retry each, 2 tries of the worker, limits 2 a second and 1 per chat, 2 ticks a second, 1 fault, with and without Redis | the rate limits hold, every message is in one place, attempts are bounded |
| MCMonitor | see below; each part with its own faults | outage told once and in time, and the opening of the court not slept through; trace chain, board and changes recorded, refinement of FieldHistory; alerts of tracked cases once a day; windows of video links; news of histories told; bans merited, told and finite; best matches |
| MCEventTrace | see below; each part with its own faults | codes and sessions under concurrent requests; settings, bounces and stops; types, cache and rows of eCourts; cases whole and under their heading; stored rows follow the list; changes and listings told |

Parts of MCMonitor: *polls*: nine instants from a Friday's opening over the
week-end to Monday, 2 subscribers, threshold 2, 4 failed polls, 2 faults; *detector*:
2 courts, 1 cell each, missing and empty columns, 3 polls, 1 stop; *alerts*: 2
users, look-ahead 0 and 1, 2 days, 3 requests, 1 fault; *vc*: a morning, an afternoon,
midnight and a morning, 1 room, 1 fault; *history*: 2 users, 2 nights, 2 histories, 1
request, 1 stop; *guard*: 2 scrapers, a clock of 4, ban after 3 answers as in the
code, 1 fault; *reconciliation*, *links*: 2 entries, up to 2 snapshots, 2 batches, a
request against 2 edits, 1 fault.

Parts of MCEventTrace: *accounts*: 2 users, 2 threads, 3 places, 1 attempt per code,
4 requests; *contacts*: 2 users, 2 threads, 3 changes, 1 fault; *ecourts*: 2
references with prefixes that match two types and none, 2 histories, 3 fetches, 1 fault;
*parser*: every block of up to 6 lines; *causelist*: a daily and a monthly source, two
lists (the tracked case behind another one of the same section; two rows with one serial
number, the case under the first, and the case in two blocks of another court, of which the second
deletes what is behind it), 2 days, 2 publications, 1 fault.

Why small is enough: rows, users and courts do not interact except through the
counts and keys that the instances share on purpose (one user, one case, so that
caps and keys collide); two producers or workers give every race of
check-then-act, a third shows that nothing special happens beyond two; two days
put a midnight between any two steps.

The rows of `subscriptions` do not interact: no statement reads one row to write
another, and each pass goes through its list row by row. The listed run has one
row for that reason; an instance with two rows of one user, in which a row is
removed while a pass is on its way to it, passes as well but takes longer than
is useful in a regular run.

Larger instances were checked once, pass as well and take longer than is useful
in a regular run. Each is the module's own specification with its own properties:

| module | changed | distinct states |
|---|---|---|
| CauselistParser | blocks of up to 7 lines | 193 thousand |
| CaseHistory | 2 requests | 292 thousand |
| VcScheduler | 2 faults | 531 thousand |
| PollLoop and VcScheduler | the product instead of the sum | 6.1 million |
| Contacts | every newcomer, every change of settings | 611 thousand |
| Accounts | nobody registered | 673 thousand |
| ScraperGuard | clock 6, counter of 4 ticks, back-off of 2, 2 faults | 3.2 million |

Four more runs end in a violation, each of a sentence of the documentation, a
docstring or a comment (see "findings" in `PROJECT.json`): the holder of a queue
row is not exclusive when a batch outlives its 90 s lock; "both" sends on one
channel only; after a failed alert the user is told that a serial was not reached
that was; the serial alert silences `display_board_active` for the rest of the day.

Other places where code and text differ, which the models follow in the code and
no run repeats:

- a failed row is due again at once (`services/notification_retry_worker.py:154`
  passes no delay); `docs/NOTIFICATION_SYSTEM.md:222` promises 10 s, 20 s, 40 s;
- a notification the user has read becomes `sent` or `failed` again when the
  worker reports (`notification_alchemy.py:93` after `:160`);
- the delivery receipts of `docs/NOTIFICATION_SYSTEM.md:142-147` look a row up by the
  provider's id within the text of `provider_response`
  (`notification_alchemy.py:597-606`), where no sender stores that id: receipts seldom
  find a row, or may find another one. One that does overwrites the status, so that an
  accepted message may end as `failed`; `LogAgrees` leaves such rows out;
- the dedup key contains the UTC date (`notification_dispatch.py:124-127`), so the
  window of 24 h of `docs/NOTIFICATION_SYSTEM.md:224` ends at midnight;
- the cap of a day counts no failed rows (`notification_alchemy.py:187`), which
  may be sent later;
- a rate-limited check uses up one of the attempts of `send`
  (`services/telegram_sender.py:62-65`), so a message may reach the dead letters
  without having been tried, where the docstring (`:57`) says "retries 3x"; a
  message refused for good is put there too, and tried again; a time-out after Telegram
  has accepted counts as a refusal (`telegram_sender.py:151-153`) and the message is sent
  again, which the models cannot tell from a refusal;
- adjournment deactivates a subscription whose user cannot be reached without a
  word (`run_monitor.py:291-292`); `POST /alert` stores Telegram rows without a
  chat id.
- the channel is taken from the preference of the case first (`notification_dispatch.py:184`),
  although the comment two lines above says that `preferred_channel` has
  precedence; a preference that cannot be read counts as none, so that an alert
  that was switched off is sent;
- `subscribe` answers that Telegram and e-mail are on while the row it wrote says
  WhatsApp; `notification-settings` are read by `send_alert` only, which nobody
  calls; a change of `telegram_username` keeps the old chat;
- `email_valid` is not set again when a new address is verified; addresses that
  bounced still get what was queued before, and what `_deliver` of the monitor
  sends; `update_me` changes the address and leaves `email_verified`;
- "auto-verify on first login" (`routes/auth.py:131`) does nothing for new users,
  whose number `upsert_user` has just set; after the newest code is used an older
  unused one is the latest again; a code stays used when the step after it raises;
- `scrape at most once per window` (`run_monitor.py:77`) is not so for tomorrow: 14
  is recorded, the windows 0, 6, 8 and 20 are what is compared; an unavailable list
  counts as scraped;
- `consecutive_failures` is reset before the alerts are dispatched
  (`run_monitor.py:656`): a dispatch that keeps failing never becomes a notice, and
  one failure of it makes the next notice a poll early; the notice is not reset
  overnight, and a restart gives it again; a notice whose `_deliver` failed counts as told; `set_monitor_state`
  (`run_monitor.py:633`) is outside the `try` and ends the process;
- the serial of a range like "15-16,29" is none (`run_monitor.py:222`);
- `serial_reached` has no deduplication, so `alerted_at` alone makes it once a day;
  an alert that is changed is silent until the next day (`postgres.py:702`), and a
  case tracked again without its court is silent for good;
- the morning pass of `causelist_scheduler.py:3-5` happens only when the loop is
  awake for another reason: `_next_window_after_now` (`:38-47`) knows the evening
  windows;
- the backfill may store an older list over a newer one (`backfill.py:103`) and runs
  no diff; a monthly list is stored under another date than the one the diff reads;
  rows of benches and sections that a new list does not have stay
  (`causelist_alchemy.py:655-670`); rows of one list that share section and serial number
  after their headings were merged are written over one another (`:695`), a second block
  of a court deletes what the first had beyond its numbers, and `limit=1` (`case_diff.py:59-66`) may find
  one of them; judges and notes stay when the new list has none;
- a second change of a day, and a second list of a day that has the case, are suppressed
  by the dedup key; a crash after `upsert_snapshot` (`case_diff.py:104`) loses the change,
  and so does a `get_last_snapshot` that fails, which is taken for a first snapshot
  (`:97-100`), and an exception in the diff skips the scan of the list as well
  (`causelist_scheduler.py:135-142`); two new orders in one
  refresh share one key (`case_history_refresh.py:144-145`); `fetch_ecourts` writes
  the cache and tells nobody (`my_cases.py:230`);
- a heading within a case that has no advocate yet becomes its text
  (`causelist_parser.py:769`);
- a bench whose types were fetched in part counts as complete for ever
  (`resolve_ecourts_type.py:127`); `startswith` lets "CR" match "CRA"; an empty list
  of types is not helped by the map in the code; when the search does not list the
  wanted case, the first one it lists is cached under its CNR
  (`ecourts_test.py:279-287`, where the comment allows that only for a CNR that is not known); a case tracked by a search overwrites the row that was
  added since it looked;
- the window of the guard's counter begins with the first 429 and is not renewed;
  each 429 after the third tells the administrator again; `acquire` limits
  admissions, not requests;
- a MEDIUM link is "flagged for admin review" (`vc_mapper.py:6`) nowhere;
  `reconcile_entry` returns results whose row was not written, and a batch that is
  run again writes all its rows again.

## Fairness

Only two specifications state fairness. `NotificationPipeline!FairSpec`: weak
fairness of a worker's and a producer's steps, because both are endless loops or
run to their end, catch exceptions, and the watchdog (`run_monitor.py:569-591`)
restarts the worker thread. `Subscriptions!FairSpec`: weak fairness of the poll's steps,
and strong fairness of the send of a due alert, which is tried in every poll: a
provider that fails for ever makes no promise possible. Nothing is assumed of
users, faults, or the number of scrapes that fail in between.

## Proofs

Eight modules hold the theorems. Each proves, for all constants that the named
assumptions of its component allow, that an inductive invariant holds, and takes
the properties from it: `Init => IInv`, `IInv /\ [Next]_vars => IInv'`, `IInv => P`,
one lemma for each action or group of actions, one step for each conjunct that
the action can disturb. Every safety invariant, action property and refinement of
the runs is proved. "theorems" in `PROJECT.json` lists the results; this is the
argument of each.

**NotificationQueue_proofs.**
- `QueueTypeCorrect`: the attempts of a row stay in range only because a row in the
  queue has attempts left, a worker's step says what it has in hand, and a batch
  holds rows that were queued once (`TypeInv`).
- `QueueExclusiveHolder`: under `LocksHold` (PostgreSQL, no lock outlived) every row
  held is locked and batches are disjoint (`LockInv`); a claim takes unlocked rows
  only. Without `LocksHold` it is false, which is what the run MCQueueFindingHolder shows.
- `QueueHoldersBounded` (PostgreSQL): `HoldInv` gives the lock of a row one holder
  and charges every other to a fault: only a claim adds a holder, and it sets a lock
  bit that was clear; what clears the bit is an acknowledgement, which takes a holder
  away with it, or an expiry, which is a fault when the row has one.
- `QueueSendsBounded`, either dialect. On PostgreSQL, `SendInv`: sends so far, holders
  that have still to send, and one if the row is free to be claimed, never exceed
  `MaxAttempts + faults`. On SQLite a claim is two steps and that sum is not kept;
  `AccountInv` says instead that of a row in the queue every send is counted in
  `attempts`, or not acknowledged yet, or paid for by a fault, and that of a row that
  has gone every worker who has it in hand may send it once more, but for the one who
  removed it.
- `QueueLogAgrees` (PostgreSQL): `TruthInv` says for every row, as long as there is no
  fault, which status its log can have while it is logged and completed. Rows whose
  status a webhook wrote last (`reported`) are exempt, in the property and in the
  invariant: what a provider reports is its own.
- `QueueImplementsDelivery`: each step is one of NotificationDelivery or a stutter,
  under `DeliveryInv` (only a send that was accepted succeeds, only rows that were
  entered are accepted).

**NotificationDispatch_proofs.**
- `DispatchTypeCorrect`: with `TypeInv`, what a call has in hand at each step and
  that the ids it holds are of rows it wrote.
- `CapIsOvershotByProducers`: `CapInv` counts the rows of the day together with the
  calls past the check; a row takes the place of the call that writes it, and
  only a check that found less than the cap, or failed, adds a call.
- `DuplicatesAreByProducers`: `DedupInv` does the same with the rows of a key that a
  check would find now and the calls about to write one; the property, which is
  about the time of each row, follows from `NearInv` and from no row being of the
  future (`SentInTime`).
- `OrphansArePaidFor`: a row that does not reach the queue is in a producer's hand,
  failed, or charged to a fault.

**NotificationPipeline_proofs.** What is proved of the two modules is used for the
composition: the proof modules are themselves instances, and their theorems are cited.
- `PipelineImplementsDispatch`, `PipelineImplementsQueue`: each step of one component
  is an environment step of the other or a stutter. This needs `PipeInv`: the types of
  both and `Handover`, that a log row between its insert and its queue row is its
  producer's alone, so that no worker can know of it and the user can at most have
  read it. The proof showed that `Contacts` must be closed under a bounce: a bounce is
  recorded by user, whatever his row holds by then (`PipelineContactsAssumption`).
- `PipelineCorrect`, `PipelineLogAgrees`, `PipelineDelivers`: cap, dedup, orphans,
  sends, holders, log and delivery hold of the whole system, for any number of
  producers and workers. TLC could check this of one of each only.

**ChangeDetector_proofs.** `DetectorCorrect` and `DetectorImplementsHistory`, from
`DetInv`: what is still to be compared is as it was before the poll (`Fresh`), the
traces of a key chain up to its state, which may lie one trace behind (`Chain`), the
trace at hand is of the change at hand (`HandInv`), false traces are those that
stopped polls left (`FalseInv`), and what was compared follows the board (`Compared`,
`Stored`, `Orphans`, `Listed`). The refinement maps a key to its past changes, a
function on their number; facts about them are proved from least numbers and not by
an induction theorem.

**Monitor_proofs**, by part:
- `GuardCorrect`: `MeritInv`: what is counted and what scrapers are about to count are
  429s in a row but for one of each other scraper; a ban in Redis has its end.
- `AlertsCorrect`: `OnceAt` pays each message with `alerted_at` or with a reason to
  be told again; `ToldAt` says who of the due is still to be dealt with.
- `PollsCorrect`: sleep is out of hours (`AsleepOutOfHours`); a process that has noted
  the outage has told everybody, one that has not has told nobody but those of the
  loop that it is in (`NotedAt`).
- `WindowsCorrect`: a scrape is kept, being stored or wasted (`ScrapesAt`); what is
  marked has its links (`LinksAt`); the file is not ahead of memory (`RecordAt`).
- `NewsCorrect`: a user knows what the cache says but for what the refresh at work is
  about to tell (`HearingAt`, `OrdersAt`), and strangers know nothing.
- `MatchesCorrect`: what was given so far is best, and links read are those merited.
- `MonitorTypeCorrect`, `MonitorCorrect`, `MonitorImplementsHistory`: the conjunction
  `MonitorInv`, as each step of the sum is a step of one part.

**Subscriptions_proofs.** `SubsInv` says for each row what each of its three messages
has been recorded by, or by which step in hand it is about to be (`AlertAt`, `ToldAt`,
`ReminderAt`), in which pass that step is (`PassAt`), and that of alert and refusal
there is one (`BothAt`). `SubscriptionsTypeCorrect`, `SubscriptionsSendOnce`,
`SubscriptionsMessagesAgree`, `SubscriptionsClosedWereTold` and
`SubscriptionsPastRowsHearNothing`, an action property, follow.

**TelegramSender_proofs.** `SenderRateKept`: checks that passed within a second bear
different numbers (`NumbersDiffer`), which are at most the counter's, and the counter
outlives them (`PermitInv`), because each check renews its life. `SenderJobsAccounted`:
no two threads, entries or workers have one message, nor two of different kinds
(`PlaceInv`), and what was lost was paid for (`LostInv`). `SenderTriesBounded`: `TriesInv`
bounds the tries of a message by where it is.

**EventTrace_proofs**, by part:
- `CasesCorrect`: the case that is read belongs to the last serial number, its lines
  come after it, and its section is of the last heading (`LastKept`, `HeadingsKept`).
- `AccountsCorrect`: a code's comparisons and acceptances, and the requests that may
  still accept it, are bounded by its attempts and by who overtook whom (`CodesInv`);
  a log-in has one live token, or a rotation that will give it one, but for overlaps
  (`SessionsInv`).
- `ContactsCorrect`: what a thread will write back is what was wanted, but where
  another got in the way (`MergeInv`); what a user still hears after a stop is no more
  than the messages and rows that were under way then (`MailStops`, `ChatStops`,
  `AlertStops`).
- `EcourtsCorrect`: a type that is stored, answered or in hand fits its prefix
  (`FetchersInv`, `TablesInv`), and a thread writes only what was not given. A second
  layer (`FromInv`) says where everything comes from: a type that a user gave is answered
  only after eCourts listed a case under it (`Accepted`, `AnswersFrom`), a row has what
  was given or found (`RowsFrom`), and the history cached under another CNR is of a case
  that was listed where that CNR was not (`CacheFrom`).
- `CauselistCorrect`: passes are for later and later dates, so that no snapshot is of a
  date after the one of the present pass (`SnapshotsInv`) and the diff compares with
  the last; a listing that is not told is of the list just stored, which has
  the case whatever the backfill does (`DueInv`). No list is assumed to have different
  keys: `Surviving` is what its own upserts and deletes leave. What scheduler and backfill have in
  hand is not older than what is stored unless one overtook the other (`Held`), a pass that
  outlasts its day is for a date behind the last (`ScheduleInv`), and an alert that was
  missed has its cause (`Excused`).
- `EventTraceTypeCorrect`, `EventTraceCorrect`: their conjunction `EventTraceInv`.

Assumptions on constants are in the modules that declare them and are what the
code gives: finite sets of rows and of threads, positive limits, a value for
"none" that is no row, working days without end, blocks whose rows are of their court
(a bench's rows are stored with its court). None says that rows of a list differ. TLC evaluates them in the runs.
Attempts to prove also corrected statements: what a lost reset and a lost ban may
cost in ScraperGuard, and what a log-out at the same time may in Accounts, are now
counted exactly.

Only model-checked, as fairness and ENABLED are out of the prover's reach:
`EveryNotificationSettles` of NotificationPipeline and `DueIsHandled` of
Subscriptions. The four runs that end in a violation are counterexamples and need
none. In NotificationQueue, `HoldersBounded` and `LogAgrees` are claimed of PostgreSQL
only, by the runs and the theorems alike. No module declares a RECURSIVE operator.

## Abstractions

- Message texts, wording, HTTP and providers: a send has an outcome. Contact
  fields of a user are a set; "bounced" stands for `email_valid = 0`.
- Timestamps are ticks; a day has `DayTicks`. `scheduled_at` is never in the
  future in this code and is left out. In Causelist and VcScheduler time is a row of
  slots or instants, and Causelist's clock may go on at any step but between waking up
  and looking at the clock; the site's lists change whenever the next step could read them.
- Quiet hours, preferences, missing channels and the daily cap are one choice of
  dispatch ("refused") in SerialAlerts and CaseHistory; Causelist and CaseHistory
  keep dispatch's keys, as it is they that suppress the second alert of a day.
- The six hours for which a cached history is fresh are not counted: a request may
  find it old at any time, which is more than the code allows.
- The attempts to pass a captcha are one choice of the search.
- One of what does not interact: one bench and one user in Ecourts, one domain in
  ScraperGuard, one tracked case in Causelist, SerialAlerts and CaseHistory, one court
  per room in Subscriptions.
- A line of a cause list is what the regular expressions make of it, and a block is
  any sequence of such lines.
- The guard, reconciliation, the links' mapper and the dead-letter worker are
  called by nothing but tests; their modules use them as their docstrings say
  (`scraper_guard.py:5-14`).
- `part` in the sums, and the history variables, are no state of the program.

What the hazards leave standing. A property says exactly how far the code goes, and
several therefore permit a loss that a reader should know of: they are in the notes of
"hazards". A refused serial alert counts as given; a changed alert is silent for the day; a
row whose user cannot be reached is closed in silence; a bounce marks an account by its id,
whatever address it has by then; tomorrow's video links are scraped at every wake-up; a
message may reach the dead letters without one attempt; a dispatch that keeps failing hides
an outage; a notification that fails after the cache is written is not repeated; a type
matched among a part of a bench's types stays; a row that was given while a search was at its
case is overwritten; a ban without expiry needs a hand. `EveryNotificationSettles` is
checked with one worker and without faults.

## Not modelled

- Download of lists, PDF and HTML, regular expressions, the split of a document into
  blocks: text processing, whose outcome is a choice of the models.
- The board scraper (HTTP), display, query and export routes, UI, the texts of the
  bots: they keep no state. Access tokens: they are not stored. Matters: rows of
  their user that nothing else reads. The unsubscribe token: nothing writes it.
- Storage plumbing, migrations, configuration, metrics: the transactions of the
  repositories are modelled where they are used.
- The watchdog that restarts threads: crashes and restarts are in the threads' own
  modules, and fairness rests on it.
- Of subscriptions: the row of `log_notification`, the immediate alert of the WhatsApp
  command WATCH, several courts in one room.
- Hazards that no property is about, and that "hazards" in `PROJECT.json` therefore
  leaves out: the day in the dedup key and the failed rows of the cap
  (`notification_dispatch.py:126`, `notification_alchemy.py:187`), the attempts that are
  over within seconds (`notification_retry_worker.py:154`), the two transactions of a
  repeated `watch` (`bots/telegram_bot.py:242`), the range of serials
  (`run_monitor.py:222`), the retry of a dead letter, which asks no rate limit
  (`services/dlq_worker.py:81`). All but the range are in the models as the code has them.

## Plan

To be modelled: several courts in one room with the readers of a range of serials
(`_compress_ranges` and `run_monitor.py:222`), as a pure module against a reference
definition; ChangeDetector composed with Subscriptions, whose adjournment pass
reads the list of changes.
