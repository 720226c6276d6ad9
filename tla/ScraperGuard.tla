---------------------------- MODULE ScraperGuard ----------------------------
(***************************************************************************)
(* Request discipline towards a scraped domain: services/scraper_guard,    *)
(* which keeps two keys of the domain in Redis, and services/admin_alerts, *)
(* which tells the administrator of a ban.                                 *)
(*                                                                         *)
(* Only tests call the guard.  A scraper here is the one of its usage      *)
(* (scraper_guard.py:5-14): it acquires, gets the page, records a 429 and  *)
(* backs off, and resets the counter after any other answer.  Every call   *)
(* of Redis is a step of its own and may fail; scrapers share the keys.    *)
(* There is one domain: another one has keys of its own.                   *)
(***************************************************************************)
EXTENDS Integers, FiniteSets

CONSTANTS
  Scrapers,
  DomainTtl,          \* _DOMAIN_TTL_SECONDS, in ticks
  Backoff,            \* _BACKOFF_SECONDS
  CountTtl,           \* _429_COUNT_TTL
  MaxConsecutive429s, \* _MAX_CONSECUTIVE_429S
  Never,
  MaxGuardClock,      \* bound on the clock
  MaxGuardFaults      \* bound on failed calls and on scrapers that are stopped

ASSUME GuardAssumption ==
  /\ IsFiniteSet(Scrapers) /\ Scrapers # {}
  /\ {DomainTtl, Backoff, CountTtl, MaxConsecutive429s} \subseteq Nat \ {0}
  /\ {MaxGuardClock, MaxGuardFaults} \subseteq Nat
  /\ Never \notin Nat

VARIABLES
  slotUntil,   \* when the key ratelimit:scraper expires, 0 when it does not exist
  count,       \* the key scraper:429_count, 0 when it does not exist
  countUntil,  \* when that key expires, Never when it does not
  scraper,     \* what each scraper does next
  recorded,    \* the count it was given by INCR
  resumes,       \* when it goes on
  guardClock, guardFaults,
  bannedTold,  \* history: the administrator knows of the ban that stands
  streak,      \* history: answers 429 since the last other answer
  lost         \* history: what failed since there is such a counter

guardVars == <<slotUntil, count, countUntil, scraper, recorded, resumes, guardClock,
               guardFaults, bannedTold, streak, lost>>
keyVars == <<count, countUntil>>

GuardTypeOK ==
  /\ slotUntil \in Nat /\ count \in Nat /\ guardClock \in Nat /\ guardFaults \in Nat
  /\ streak \in Nat
  /\ countUntil \in Nat \cup {Never}
  /\ scraper \in [Scrapers -> {"idle", "request", "record", "expire", "alert", "sleep", "reset"}]
  /\ recorded \in [Scrapers -> Nat] /\ resumes \in [Scrapers -> Nat]
  /\ bannedTold \in BOOLEAN
  /\ lost \subseteq {"ttl", "reset", "alert"}
  /\ count = 0 => countUntil = Never /\ lost = {} /\ ~ bannedTold

GuardInit ==
  /\ slotUntil = 0
  /\ count = 0 /\ countUntil = Never
  /\ scraper = [s \in Scrapers |-> "idle"]
  /\ recorded = [s \in Scrapers |-> 0]
  /\ resumes = [s \in Scrapers |-> 0]
  /\ guardClock = 0 /\ guardFaults = 0
  /\ bannedTold = FALSE
  /\ streak = 0
  /\ lost = {}

is_banned == count >= MaxConsecutive429s

GuardFault == guardFaults < MaxGuardFaults /\ guardFaults' = guardFaults + 1

\* Something has failed that is of no account when the counter does not exist.
LoseAll(what) == lost' = IF count > 0 THEN lost \cup what ELSE lost

Lose(what) == LoseAll({what})

\* The counter is gone, deleted or expired.
CounterGone ==
  /\ count' = 0 /\ countUntil' = Never
  /\ bannedTold' = FALSE
  /\ lost' = {}

GoTo(s, at) == scraper' = [scraper EXCEPT ![s] = at]

\* A scraper begins anew.
Forget(s) ==
  /\ GoTo(s, "idle")
  /\ recorded' = [recorded EXCEPT ![s] = 0]
  /\ resumes' = [resumes EXCEPT ![s] = 0]

\* A scraper that has counted n goes on: it tells the administrator, or it backs off.
AfterCount(s, n) == GoTo(s, IF n >= MaxConsecutive429s THEN "alert" ELSE "sleep")

-----------------------------------------------------------------------------

\* acquire: SET NX EX.  wait_for_slot calls it until it is TRUE.
acquire(s) ==
  /\ scraper[s] = "idle"
  /\ slotUntil = 0
  /\ slotUntil' = guardClock + DomainTtl
  /\ GoTo(s, "request")
  /\ UNCHANGED <<keyVars, recorded, resumes, guardClock, guardFaults, bannedTold, streak, lost>>

\* acquire: Redis fails, and the request is allowed.
AcquireFailsOpen(s) ==
  /\ scraper[s] = "idle"
  /\ GuardFault
  /\ GoTo(s, "request")
  /\ UNCHANGED <<slotUntil, keyVars, recorded, resumes, guardClock, bannedTold, streak, lost>>

\* The domain answers.
Answered(s) ==
  /\ scraper[s] = "request"
  /\ \/ GoTo(s, "record") /\ streak' = streak + 1
     \/ GoTo(s, "reset") /\ streak' = 0
  /\ UNCHANGED <<slotUntil, keyVars, recorded, resumes, guardClock, guardFaults, bannedTold, lost>>

\* record_429: INCR; the first to count gives the key its expiry, in another call.
Incr(s) ==
  /\ scraper[s] = "record"
  /\ count' = count + 1
  /\ recorded' = [recorded EXCEPT ![s] = count']
  /\ resumes' = [resumes EXCEPT ![s] = guardClock + Backoff]
  /\ IF count' = 1 THEN GoTo(s, "expire") ELSE AfterCount(s, count')
  /\ UNCHANGED <<slotUntil, countUntil, guardClock, guardFaults, bannedTold, streak, lost>>

\* record_429: INCR fails, which may or may not have counted; the count is taken for 1.
IncrRaises(s) ==
  /\ scraper[s] = "record"
  /\ GuardFault
  /\ \/ UNCHANGED <<count, lost>>
     \/ /\ count' = count + 1
        /\ lost' = lost \cup (IF count = 0 THEN {"ttl"} ELSE {})
                        \cup (IF count' >= MaxConsecutive429s THEN {"alert"} ELSE {})
  /\ recorded' = [recorded EXCEPT ![s] = 1]
  /\ resumes' = [resumes EXCEPT ![s] = guardClock + Backoff]
  /\ AfterCount(s, 1)
  /\ UNCHANGED <<slotUntil, countUntil, guardClock, bannedTold, streak>>

\* Mutant: the expiry is left out when another 429 has been counted meanwhile.
ExpireOnlyOwn(s) ==
  /\ scraper[s] = "expire"
  /\ countUntil' = IF count = 1 THEN guardClock + CountTtl ELSE countUntil
  /\ AfterCount(s, recorded[s])
  /\ UNCHANGED <<slotUntil, count, recorded, resumes, guardClock, guardFaults, bannedTold,
                 streak, lost>>

\* record_429: EXPIRE, which does nothing when the key is gone by now.
Expire(s) ==
  /\ scraper[s] = "expire"
  /\ countUntil' = IF count > 0 THEN guardClock + CountTtl ELSE countUntil
  /\ AfterCount(s, recorded[s])
  /\ UNCHANGED <<slotUntil, count, recorded, resumes, guardClock, guardFaults, bannedTold,
                 streak, lost>>

\* record_429: EXPIRE fails, and the counter has no expiry.
ExpireRaises(s) ==
  /\ scraper[s] = "expire"
  /\ GuardFault
  /\ Lose("ttl")
  /\ AfterCount(s, recorded[s])
  /\ UNCHANGED <<slotUntil, keyVars, recorded, resumes, guardClock, bannedTold, streak>>

\* create_admin_alert: a row and a message, either of which may fail without the other.
create_admin_alert(s) ==
  /\ scraper[s] = "alert"
  /\ \E row, message \in BOOLEAN :
       /\ guardFaults' = guardFaults + (IF row THEN 0 ELSE 1) + (IF message THEN 0 ELSE 1)
       /\ guardFaults' <= MaxGuardFaults
       /\ bannedTold' = (bannedTold \/ (is_banned /\ (row \/ message)))
       /\ IF row \/ message THEN UNCHANGED lost ELSE Lose("alert")
  /\ GoTo(s, "sleep")
  /\ UNCHANGED <<slotUntil, keyVars, recorded, resumes, guardClock, streak>>

\* backoff_429: the scraper has slept.
BackoffEnds(s) ==
  /\ scraper[s] = "sleep"
  /\ resumes[s] <= guardClock
  /\ Forget(s)
  /\ UNCHANGED <<slotUntil, keyVars, guardClock, guardFaults, bannedTold, streak, lost>>

\* reset_429_count.
reset_429_count(s) ==
  /\ scraper[s] = "reset"
  /\ CounterGone
  /\ GoTo(s, "idle")
  /\ UNCHANGED <<slotUntil, recorded, resumes, guardClock, guardFaults, streak>>

\* reset_429_count: the failure is swallowed.
ResetRaises(s) ==
  /\ scraper[s] = "reset"
  /\ GuardFault
  /\ Lose("reset")
  /\ GoTo(s, "idle")
  /\ UNCHANGED <<slotUntil, keyVars, recorded, resumes, guardClock, bannedTold, streak>>

\* What will not be done by a scraper that is stopped where it is: the one that has set
\* the counter's first 429 may have counted enough already.
Blame(s) ==
  (IF scraper[s] = "expire" THEN {"ttl"} ELSE {})
    \cup (IF scraper[s] = "expire" /\ recorded[s] >= MaxConsecutive429s THEN {"alert"} ELSE {})
    \cup (IF scraper[s] \in {"reset", "alert"} THEN {scraper[s]} ELSE {})

\* A scraper is stopped, and begins anew.
ScraperStops(s) ==
  /\ scraper[s] # "idle"
  /\ GuardFault
  /\ LoseAll(Blame(s))
  /\ Forget(s)
  /\ UNCHANGED <<slotUntil, keyVars, guardClock, bannedTold, streak>>

\* Time passes, and the keys may expire.
GuardTick ==
  /\ guardClock < MaxGuardClock
  /\ guardClock' = guardClock + 1
  /\ slotUntil' = IF slotUntil = guardClock' THEN 0 ELSE slotUntil
  /\ IF countUntil = guardClock' THEN CounterGone
     ELSE UNCHANGED <<keyVars, bannedTold, lost>>
  /\ UNCHANGED <<scraper, recorded, resumes, guardFaults, streak>>

GuardNext ==
  \/ \E s \in Scrapers :
       \/ acquire(s) \/ AcquireFailsOpen(s)
       \/ Answered(s)
       \/ Incr(s) \/ IncrRaises(s)
       \/ Expire(s) \/ ExpireRaises(s)
       \/ create_admin_alert(s)
       \/ BackoffEnds(s)
       \/ reset_429_count(s) \/ ResetRaises(s)
       \/ ScraperStops(s)
  \/ GuardTick

GuardSpec == GuardInit /\ [][GuardNext]_guardVars

-----------------------------------------------------------------------------

\* A ban ends by itself: a counter without an expiry is about to get one, unless the call
\* that gives it has failed or its scraper was stopped between INCR and EXPIRE
\* (scraper_guard.py:75-77), in which case the domain stays banned until it is reset.
BanEnds ==
  count > 0 /\ countUntil = Never =>
    (\E s \in Scrapers : scraper[s] = "expire") \/ "ttl" \in lost

\* A ban is merited: what is counted are 429s in a row, but for one that each other scraper
\* had been answered before the last success and has counted after it.
BanMerited ==
  \/ count <= streak + Cardinality(Scrapers) - 1
  \/ \E s \in Scrapers : scraper[s] = "reset"
  \/ "reset" \in lost

\* A ban is told: the administrator has a row or a message of it, or is about to, unless
\* both have failed or the scraper that found it has (create_admin_alert, record_429).
BanTold ==
  is_banned =>
    \/ bannedTold
    \/ \E s \in Scrapers : scraper[s] \in {"alert", "expire"} /\ recorded[s] >= MaxConsecutive429s
    \/ "alert" \in lost

GuardKept == BanEnds /\ BanMerited /\ BanTold

=============================================================================
