--------------------------- MODULE Monitor_proofs ---------------------------
(***************************************************************************)
(* Proofs about the parts of Monitor, each by itself, and about Monitor,   *)
(* in which they run side by side.                                         *)
(***************************************************************************)
EXTENDS Monitor, ChangeDetector_proofs, TLAPS, FiniteSetTheorems

-----------------------------------------------------------------------------
(* ScraperGuard: bans end, are merited, and are told.                      *)

\* GuardTypeOK in two halves: provers that know of numbers are lost with Booleans.
GuardNumbers ==
  /\ slotUntil \in Nat /\ count \in Nat /\ guardClock \in Nat /\ guardFaults \in Nat
  /\ streak \in Nat
  /\ countUntil \in Nat \cup {Never}
  /\ scraper \in [Scrapers -> {"idle", "request", "record", "expire", "alert", "sleep", "reset"}]
  /\ recorded \in [Scrapers -> Nat] /\ resumes \in [Scrapers -> Nat]

GuardHistory ==
  /\ lost \subseteq {"ttl", "reset", "alert"}
  /\ count = 0 => countUntil = Never /\ lost = {}

GuardTold == bannedTold \in BOOLEAN /\ (count = 0 => ~ bannedTold)

LEMMA GuardTypeParts == GuardTypeOK <=> GuardNumbers /\ GuardHistory /\ GuardTold
BY Zenon DEF GuardTypeOK, GuardNumbers, GuardHistory, GuardTold

LEMMA GuardTypeInit == GuardInit => GuardTypeOK
<1>1. GuardInit => GuardNumbers /\ GuardHistory
  BY DEF GuardInit, GuardNumbers, GuardHistory
<1>2. GuardInit => GuardTold
  BY DEF GuardInit, GuardTold
<1>3. QED
  BY <1>1, <1>2, GuardTypeParts

LEMMA GuardNumbersNext ==
  ASSUME GuardNumbers, [GuardNext]_guardVars
  PROVE  GuardNumbers'
<1> USE DEF GuardNumbers, GoTo, Forget, CounterGone, GuardFault, keyVars
<1>1. ASSUME NEW s \in Scrapers, acquire(s) \/ AcquireFailsOpen(s) PROVE GuardNumbers'
  BY <1>1, GuardAssumption DEF acquire, AcquireFailsOpen
<1>2. ASSUME NEW s \in Scrapers, Answered(s) PROVE GuardNumbers'
  BY <1>2 DEF Answered
<1>3. ASSUME NEW s \in Scrapers, Incr(s) PROVE GuardNumbers'
  BY <1>3, GuardAssumption DEF Incr, AfterCount
<1>4. ASSUME NEW s \in Scrapers, IncrRaises(s) PROVE GuardNumbers'
  <2>1. count' \in Nat /\ guardFaults' \in Nat
    BY <1>4 DEF IncrRaises
  <2>2. QED
    BY <1>4, <2>1, GuardAssumption DEF IncrRaises, AfterCount
<1>5. ASSUME NEW s \in Scrapers, Expire(s) \/ ExpireRaises(s) PROVE GuardNumbers'
  BY <1>5, GuardAssumption DEF Expire, ExpireRaises, AfterCount
<1>6. ASSUME NEW s \in Scrapers, create_admin_alert(s) PROVE GuardNumbers'
  <2>1. guardFaults' \in Nat
    BY <1>6 DEF create_admin_alert
  <2>2. scraper' = [scraper EXCEPT ![s] = "sleep"]
        /\ UNCHANGED <<slotUntil, keyVars, recorded, resumes, guardClock, streak>>
    BY <1>6 DEF create_admin_alert
  <2>3. QED
    BY <2>1, <2>2
<1>7. ASSUME NEW s \in Scrapers, BackoffEnds(s) PROVE GuardNumbers'
  BY <1>7 DEF BackoffEnds
<1>8. ASSUME NEW s \in Scrapers, reset_429_count(s) \/ ResetRaises(s) PROVE GuardNumbers'
  BY <1>8 DEF reset_429_count, ResetRaises
<1>9. ASSUME NEW s \in Scrapers, ScraperStops(s) PROVE GuardNumbers'
  BY <1>9 DEF ScraperStops
<1>10. CASE GuardTick
  BY <1>10, GuardAssumption DEF GuardTick
<1>11. CASE UNCHANGED guardVars
  BY <1>11 DEF guardVars
<1>12. QED
  BY <1>1, <1>2, <1>3, <1>4, <1>5, <1>6, <1>7, <1>8, <1>9, <1>10, <1>11 DEF GuardNext

\* What failed is known as long as there is a counter.
LEMMA GuardHistoryNext ==
  ASSUME GuardNumbers, GuardHistory, [GuardNext]_guardVars
  PROVE  GuardHistory'
<1> USE DEF GuardHistory, Lose, LoseAll, CounterGone, keyVars
<1>0. count \in Nat
  BY DEF GuardNumbers
<1>1. ASSUME NEW s \in Scrapers,
             acquire(s) \/ AcquireFailsOpen(s) \/ Answered(s) \/ BackoffEnds(s) \/ Expire(s)
      PROVE  GuardHistory'
  <2>1. UNCHANGED <<count, lost>> /\ (count = 0 => UNCHANGED countUntil)
    BY <1>0, <1>1 DEF acquire, AcquireFailsOpen, Answered, BackoffEnds, Expire
  <2>2. QED
    BY <2>1
<1>2. ASSUME NEW s \in Scrapers, Incr(s) PROVE GuardHistory'
  BY <1>2 DEF Incr, GuardNumbers
<1>3. ASSUME NEW s \in Scrapers, IncrRaises(s) PROVE GuardHistory'
  <2>1. CASE UNCHANGED <<count, lost>>
    BY <1>3, <2>1 DEF IncrRaises
  <2>2. CASE count' = count + 1 /\ lost' \subseteq lost \cup {"ttl", "alert"}
    BY <2>2 DEF GuardNumbers
  <2>3. QED
    BY <1>3, <2>1, <2>2 DEF IncrRaises
<1>4. ASSUME NEW s \in Scrapers, ExpireRaises(s) \/ ResetRaises(s) PROVE GuardHistory'
  <2>1. lost' \subseteq lost \cup {"ttl", "reset"} /\ (count = 0 => lost' = lost)
    BY <1>0, <1>4 DEF ExpireRaises, ResetRaises
  <2>2. QED
    BY <1>4, <2>1 DEF ExpireRaises, ResetRaises
<1>5. ASSUME NEW s \in Scrapers, create_admin_alert(s) PROVE GuardHistory'
  <2>1. lost' \in {lost, lost \cup {"alert"}} /\ (count = 0 => lost' = lost)
    BY <1>5 DEF create_admin_alert, GuardNumbers
  <2>2. QED
    BY <1>5, <2>1 DEF create_admin_alert
<1>6. ASSUME NEW s \in Scrapers, reset_429_count(s) PROVE GuardHistory'
  BY <1>6 DEF reset_429_count
<1>7. ASSUME NEW s \in Scrapers, ScraperStops(s) PROVE GuardHistory'
  <2>1. Blame(s) \subseteq {"ttl", "reset", "alert"}
    BY DEF Blame
  <2>2. lost' \subseteq lost \cup Blame(s) /\ (count = 0 => lost' = lost)
    BY <1>0, <1>7 DEF ScraperStops
  <2>3. QED
    BY <1>7, <2>1, <2>2 DEF ScraperStops
<1>8. CASE GuardTick
  BY <1>8 DEF GuardTick
<1>9. CASE UNCHANGED guardVars
  BY <1>9 DEF guardVars
<1>10. QED
  BY <1>1, <1>2, <1>3, <1>4, <1>5, <1>6, <1>7, <1>8, <1>9 DEF GuardNext

\* The administrator knows of a ban only while there is a counter.
LEMMA GuardToldNext ==
  ASSUME GuardNumbers, GuardTold, [GuardNext]_guardVars
  PROVE  GuardTold'
<1>1. CASE UNCHANGED bannedTold /\ (count' = 0 => count = 0)
  BY <1>1 DEF GuardTold
<1>2. CASE bannedTold' = FALSE
  BY <1>2 DEF GuardTold
<1>3. ASSUME NEW s \in Scrapers, create_admin_alert(s) PROVE GuardTold'
  <2>1. PICK b \in BOOLEAN : bannedTold' = (bannedTold \/ (is_banned /\ b))
    BY <1>3, Zenon DEF create_admin_alert
  <2>2. count = 0 => ~ is_banned
    BY GuardAssumption DEF is_banned
  <2>3. UNCHANGED count
    BY <1>3 DEF create_admin_alert, keyVars
  <2>4. QED
    BY <2>1, <2>2, <2>3, Zenon DEF GuardTold
<1>4. ASSUME NEW s \in Scrapers, Incr(s) \/ IncrRaises(s)
      PROVE  UNCHANGED bannedTold /\ (count' = 0 => count = 0)
  BY <1>4 DEF Incr, IncrRaises, GuardNumbers
<1>5. QED
  BY <1>1, <1>2, <1>3, <1>4
  DEF GuardNext, guardVars, keyVars, acquire, AcquireFailsOpen, Answered, Expire, ExpireRaises,
      BackoffEnds, reset_429_count, ResetRaises, ScraperStops, GuardTick, CounterGone

LEMMA GuardTypeNext ==
  ASSUME GuardTypeOK, [GuardNext]_guardVars
  PROVE  GuardTypeOK'
<1>1. GuardNumbers' /\ GuardHistory' /\ GuardTold'
  BY GuardNumbersNext, GuardHistoryNext, GuardToldNext, GuardTypeParts
<1>2. QED
  BY <1>1, Zenon DEF GuardTypeOK, GuardNumbers, GuardHistory, GuardTold

\* What a step does to the counter when it is neither an INCR, nor an EXPIRE, nor the end
\* of the counter: nothing, and a scraper that leaves its place takes the blame along.
LEMMA GuardBansNext ==
  ASSUME GuardNumbers, GuardHistory, BanEnds, BanTold, [GuardNext]_guardVars
  PROVE  BanEnds' /\ BanTold'
<1> USE DEF GuardNumbers, GuardHistory, BanEnds, BanTold, GoTo, Forget, Lose, LoseAll, CounterGone, GuardFault,
            keyVars, is_banned
<1>1. ASSUME NEW s \in Scrapers, acquire(s) \/ AcquireFailsOpen(s) \/ Answered(s) \/ BackoffEnds(s)
      PROVE  BanEnds' /\ BanTold'
  BY <1>1 DEF acquire, AcquireFailsOpen, Answered, BackoffEnds
<1>2. ASSUME NEW s \in Scrapers, Incr(s) PROVE BanEnds' /\ BanTold'
  BY <1>2, GuardAssumption DEF Incr, AfterCount
<1>3. ASSUME NEW s \in Scrapers, IncrRaises(s) PROVE BanEnds' /\ BanTold'
  BY <1>3, GuardAssumption DEF IncrRaises, AfterCount
<1>4. ASSUME NEW s \in Scrapers, Expire(s) PROVE BanEnds' /\ BanTold'
  BY <1>4, GuardAssumption DEF Expire, AfterCount
<1>5. ASSUME NEW s \in Scrapers, ExpireRaises(s) PROVE BanEnds' /\ BanTold'
  BY <1>5, GuardAssumption DEF ExpireRaises, AfterCount
<1>6. ASSUME NEW s \in Scrapers, create_admin_alert(s) PROVE BanEnds' /\ BanTold'
  BY <1>6, GuardAssumption DEF create_admin_alert
<1>7. ASSUME NEW s \in Scrapers, reset_429_count(s) \/ ResetRaises(s) PROVE BanEnds' /\ BanTold'
  BY <1>7, GuardAssumption DEF reset_429_count, ResetRaises
<1>8. ASSUME NEW s \in Scrapers, ScraperStops(s) PROVE BanEnds' /\ BanTold'
  BY <1>8, GuardAssumption DEF ScraperStops, Blame
<1>9. CASE GuardTick
  BY <1>9, GuardAssumption DEF GuardTick
<1>10. CASE UNCHANGED guardVars
  BY <1>10 DEF guardVars
<1>11. QED
  BY <1>1, <1>2, <1>3, <1>4, <1>5, <1>6, <1>7, <1>8, <1>9, <1>10 DEF GuardNext

\* Scrapers whose answer 429 is still to be counted.
Uncounted == {s \in Scrapers : scraper[s] = "record"}

\* What is counted, and what is still to be, are 429s in a row but for one of each other
\* scraper; and after a success one scraper at least has none to count.
MeritInv ==
  /\ \/ count + Cardinality(Uncounted) <= streak + Cardinality(Scrapers) - 1
     \/ \E s \in Scrapers : scraper[s] = "reset"
     \/ "reset" \in lost
  /\ streak = 0 => \E s \in Scrapers : scraper[s] # "record"

LEMMA UncountedFinite ==
  /\ IsFiniteSet(Uncounted)
  /\ Cardinality(Uncounted) \in Nat /\ Cardinality(Scrapers) \in Nat
  /\ Cardinality(Uncounted) <= Cardinality(Scrapers)
  /\ \A s \in Scrapers : scraper[s] # "record" =>
       Cardinality(Uncounted) <= Cardinality(Scrapers) - 1
<1>1. Uncounted \subseteq Scrapers /\ IsFiniteSet(Scrapers)
  BY GuardAssumption DEF Uncounted
<1>2. ASSUME NEW s \in Scrapers, scraper[s] # "record"
      PROVE  Cardinality(Uncounted) <= Cardinality(Scrapers) - 1
  <2>1. Uncounted \subseteq Scrapers \ {s}
    BY <1>2 DEF Uncounted
  <2>2. QED
    BY <1>1, <2>1, ShrinksByOne
<1>3. QED
  BY <1>1, <1>2, NoLarger, FS_Subset

LEMMA MeritInit == GuardInit => MeritInv
<1> SUFFICES ASSUME GuardInit PROVE MeritInv
  OBVIOUS
<1>1. PICK s \in Scrapers : TRUE
  BY GuardAssumption
<1>2. scraper[s] = "idle"
  BY DEF GuardInit
<1>3. QED
  BY <1>2, UncountedFinite DEF GuardInit, MeritInv

\* The counter is gone, or there was none: what is still to be counted is few enough.
LEMMA MeritAnew ==
  ASSUME MeritInv, count = 0, streak \in Nat
  PROVE  count + Cardinality(Uncounted) <= streak + Cardinality(Scrapers) - 1
BY UncountedFinite DEF MeritInv

LEMMA MeritNext ==
  ASSUME GuardNumbers, GuardHistory, MeritInv, [GuardNext]_guardVars
  PROVE  MeritInv'
<1> USE DEF GuardNumbers, GuardHistory, GoTo, Forget, Lose, LoseAll, GuardFault, keyVars
<1>0. /\ Cardinality(Uncounted) \in Nat /\ Cardinality(Scrapers) \in Nat
      /\ Cardinality(Uncounted') \in Nat /\ IsFiniteSet(Uncounted)
  <2>1. Uncounted' \subseteq Scrapers
    BY DEF Uncounted
  <2>2. QED
    BY <2>1, UncountedFinite, NoLarger, GuardAssumption
\* Nobody is answered, and nothing is counted.
<1>1. ASSUME Uncounted' \subseteq Uncounted, UNCHANGED <<count, streak>>, lost \subseteq lost',
             \A s \in Scrapers : scraper[s] = "reset" =>
               scraper'[s] = "reset" \/ "reset" \in lost' \/ count = 0
      PROVE  MeritInv'
  <2>1. Cardinality(Uncounted') <= Cardinality(Uncounted)
    BY <1>0, <1>1, NoLarger
  <2>2. \A s \in Scrapers : scraper'[s] = "record" => scraper[s] = "record"
    BY <1>1 DEF Uncounted
  <2>3. CASE count + Cardinality(Uncounted) <= streak + Cardinality(Scrapers) - 1
    BY <1>0, <1>1, <2>1, <2>2, <2>3 DEF MeritInv
  <2>4. CASE "reset" \in lost
    BY <1>1, <2>2, <2>4 DEF MeritInv
  <2>5. CASE \E s \in Scrapers : scraper[s] = "reset"
    <3>1. CASE count = 0
      BY <3>1, <2>3, MeritAnew
    <3>2. CASE count # 0
      BY <1>1, <2>2, <2>5, <3>2 DEF MeritInv
    <3>3. QED
      BY <3>1, <3>2
  <2>6. QED
    BY <2>3, <2>4, <2>5 DEF MeritInv
\* One that has been answered 429 is counted, or not.
<1>2. ASSUME NEW s \in Scrapers, Uncounted' \subseteq Uncounted \ {s}, s \in Uncounted,
             count' \in {count, count + 1}, UNCHANGED streak, lost \subseteq lost',
             \A t \in Scrapers : scraper[t] = "reset" => scraper'[t] = "reset"
      PROVE  MeritInv'
  <2>1. Cardinality(Uncounted') <= Cardinality(Uncounted) - 1
    BY <1>0, <1>2, ShrinksByOne
  <2>2. \A t \in Scrapers : scraper'[t] = "record" => scraper[t] = "record"
    BY <1>2 DEF Uncounted
  <2>3. QED
    BY <1>0, <1>2, <2>1, <2>2 DEF MeritInv
\* The counter is gone.
<1>3. ASSUME count' = 0, streak' = streak, Uncounted' \subseteq Uncounted
      PROVE  MeritInv'
  <2>1. Cardinality(Uncounted') <= streak + Cardinality(Scrapers) - 1
    BY <1>0, <1>3, NoLarger, UncountedFinite DEF MeritInv
  <2>2. \A t \in Scrapers : scraper'[t] = "record" => scraper[t] = "record"
    BY <1>3 DEF Uncounted
  <2>3. QED
    BY <1>0, <1>3, <2>1, <2>2 DEF MeritInv
<1>4. ASSUME NEW s \in Scrapers, Answered(s) PROVE MeritInv'
  <2>1. CASE GoTo(s, "record") /\ streak' = streak + 1
    <3>1. Uncounted' \subseteq Uncounted \cup {s}
      BY <1>4, <2>1 DEF Answered, Uncounted
    <3>2. Cardinality(Uncounted') <= Cardinality(Uncounted) + 1
      BY <1>0, <3>1, GrowsByOne
    <3>3. \A t \in Scrapers : scraper[t] = "reset" => scraper'[t] = "reset"
      BY <1>4, <2>1 DEF Answered
    <3>4. QED
      BY <1>0, <1>4, <2>1, <3>2, <3>3 DEF Answered, MeritInv
  <2>2. CASE GoTo(s, "reset")
    <3>1. scraper'[s] = "reset"
      BY <2>2
    <3>2. QED
      BY <3>1 DEF MeritInv
  <2>3. QED
    BY <1>4, <2>1, <2>2 DEF Answered
<1>5. ASSUME NEW s \in Scrapers, Incr(s) \/ IncrRaises(s) PROVE MeritInv'
  <2>1. /\ s \in Uncounted /\ count' \in {count, count + 1} /\ UNCHANGED streak
        /\ lost \subseteq lost'
    BY <1>5 DEF Incr, IncrRaises, Uncounted
  <2>2. PICK at \in {"expire", "alert", "sleep"} : scraper' = [scraper EXCEPT ![s] = at]
    BY <1>5, Zenon DEF Incr, IncrRaises, AfterCount
  <2>3. QED
    BY <1>2, <2>1, <2>2 DEF Uncounted
<1>6. ASSUME NEW s \in Scrapers, reset_429_count(s) PROVE MeritInv'
  BY <1>3, <1>6 DEF reset_429_count, CounterGone, Uncounted
<1>7. CASE GuardTick
  <2>1. UNCHANGED <<scraper, streak>>
    BY <1>7 DEF GuardTick
  <2>2. CASE count' = 0
    BY <1>3, <2>1, <2>2 DEF Uncounted
  <2>3. CASE UNCHANGED <<count, lost>>
    BY <1>1, <2>1, <2>3 DEF Uncounted
  <2>4. QED
    BY <1>7, <2>2, <2>3 DEF GuardTick, CounterGone
<1>8. CASE UNCHANGED guardVars
  BY <1>1, <1>8 DEF guardVars, Uncounted
<1>9. ASSUME NEW s \in Scrapers, ResetRaises(s) \/ ScraperStops(s) PROVE MeritInv'
  <2>1. UNCHANGED <<count, streak>> /\ scraper' = [scraper EXCEPT ![s] = "idle"]
    BY <1>9 DEF ResetRaises, ScraperStops
  <2>2. lost \subseteq lost' /\ (scraper[s] = "reset" /\ count # 0 => "reset" \in lost')
    BY <1>9 DEF ResetRaises, ScraperStops, Blame
  <2>3. Uncounted' \subseteq Uncounted
    BY <2>1 DEF Uncounted
  <2>4. QED
    BY <1>1, <2>1, <2>2, <2>3
<1>10. ASSUME NEW s \in Scrapers,
              \/ acquire(s) \/ AcquireFailsOpen(s) \/ Expire(s) \/ ExpireRaises(s)
              \/ create_admin_alert(s) \/ BackoffEnds(s)
       PROVE  MeritInv'
  <2>1. UNCHANGED <<count, streak>> /\ lost \subseteq lost' /\ scraper[s] # "reset"
    BY <1>10 DEF acquire, AcquireFailsOpen, Expire, ExpireRaises, create_admin_alert, BackoffEnds
  <2>2. PICK at \in {"idle", "request", "alert", "sleep"} : scraper' = [scraper EXCEPT ![s] = at]
    BY <1>10, Zenon
    DEF acquire, AcquireFailsOpen, Expire, ExpireRaises, create_admin_alert, BackoffEnds, AfterCount
  <2>3. Uncounted' \subseteq Uncounted
    BY <2>2 DEF Uncounted
  <2>4. QED
    BY <1>1, <2>1, <2>2, <2>3
<1>11. QED
  BY <1>4, <1>5, <1>6, <1>7, <1>8, <1>9, <1>10 DEF GuardNext

GuardInv == GuardTypeOK /\ BanEnds /\ BanTold /\ MeritInv

LEMMA GuardInvInit == GuardInit => GuardInv
BY GuardTypeInit, MeritInit, GuardAssumption DEF GuardInit, GuardInv, BanEnds, BanTold, is_banned

LEMMA GuardInvNext == GuardInv /\ [GuardNext]_guardVars => GuardInv'
BY GuardTypeParts, GuardTypeNext, GuardBansNext, MeritNext DEF GuardInv

LEMMA GuardInvBounds == GuardInv => GuardKept
<1> SUFFICES ASSUME GuardInv PROVE BanMerited
  BY DEF GuardInv, GuardKept
<1>1. count \in Nat /\ streak \in Nat
  BY DEF GuardInv, GuardTypeOK
<1>2. QED
  BY <1>1, UncountedFinite DEF GuardInv, MeritInv, BanMerited

\* For any number of scrapers and whatever the limits are: a ban ends by itself, is for
\* 429s in a row, and is told, but for what has failed on the way.
THEOREM GuardCorrect == GuardSpec => []GuardKept
<1>1. QED
  BY GuardInvInit, GuardInvNext, GuardInvBounds, PTL DEF GuardSpec

-----------------------------------------------------------------------------
(* SerialAlerts: an alert goes out once a day and not less.                *)

LEMMA AlertsTypeInit == AlertsInit => AlertsTypeOK
BY SerialAlertsAssumption DEF AlertsInit, AlertsTypeOK

\* Requests and polls write rows that are rows.
LEMMA TrackedRows ==
  ASSUME AlertsTypeOK, [AlertsNext]_alertVars
  PROVE  tracked' \in [Clients -> TrackedRow \cup {NotTracked}]
<1>1. ASSUME NEW u \in Clients, NEW row \in TrackedRow \cup {NotTracked},
             tracked' = [tracked EXCEPT ![u] = row]
      PROVE  tracked' \in [Clients -> TrackedRow \cup {NotTracked}]
  BY <1>1 DEF AlertsTypeOK
<1>2. CASE UNCHANGED tracked
  BY <1>2 DEF AlertsTypeOK
<1>3. ASSUME NEW u \in Clients, NEW court \in BOOLEAN, TrackCase(u, court)
      PROVE  \E row \in TrackedRow \cup {NotTracked} : tracked' = [tracked EXCEPT ![u] = row]
  <2> DEFINE row == IF tracked[u] = NotTracked
                    THEN [court |-> court, active |-> FALSE, serial |-> 0,
                          look_ahead |-> DefaultLookAhead, alerted_at |-> 0]
                    ELSE [tracked[u] EXCEPT !.court = court]
  <2>1. row \in TrackedRow
    BY SerialAlertsAssumption DEF AlertsTypeOK, TrackedRow
  <2>2. tracked' = [tracked EXCEPT ![u] = row]
    BY <1>3 DEF TrackCase
  <2>3. QED
    BY <2>1, <2>2
<1>4. ASSUME NEW u \in Clients, NEW serial \in Serials, NEW look_ahead \in LookAheads,
             SetAlert(u, serial, look_ahead)
      PROVE  \E row \in TrackedRow \cup {NotTracked} : tracked' = [tracked EXCEPT ![u] = row]
  <2> DEFINE row == [tracked[u] EXCEPT !.active = TRUE, !.serial = serial, !.look_ahead = look_ahead]
  <2>1. row \in TrackedRow
    BY <1>4 DEF SetAlert, AlertsTypeOK, TrackedRow
  <2>2. tracked' = [tracked EXCEPT ![u] = row]
    BY <1>4 DEF SetAlert, AlertsTypeOK
  <2>3. QED
    BY <2>1, <2>2
<1>5. ASSUME NEW u \in Clients, ClearAlert(u)
      PROVE  \E row \in TrackedRow \cup {NotTracked} : tracked' = [tracked EXCEPT ![u] = row]
  <2>1. [tracked[u] EXCEPT !.active = FALSE] \in TrackedRow
    BY <1>5 DEF ClearAlert, AlertsTypeOK, TrackedRow
  <2>2. tracked' = [tracked EXCEPT ![u] = [tracked[u] EXCEPT !.active = FALSE]]
    BY <1>5 DEF ClearAlert
  <2>3. QED
    BY <2>1, <2>2
<1>6. ASSUME NEW u \in Clients, update_case_alerted_at(u)
      PROVE  \/ UNCHANGED tracked
             \/ \E row \in TrackedRow \cup {NotTracked} : tracked' = [tracked EXCEPT ![u] = row]
  <2>1. CASE tracked[u] = NotTracked
    BY <1>6, <2>1 DEF update_case_alerted_at
  <2>2. CASE tracked[u] # NotTracked
    <3>1. [tracked[u] EXCEPT !.alerted_at = today] \in TrackedRow
      BY <2>2, SerialAlertsAssumption DEF AlertsTypeOK, TrackedRow
    <3>2. tracked' = [tracked EXCEPT ![u] = [tracked[u] EXCEPT !.alerted_at = today]]
      BY <1>6, <2>2 DEF update_case_alerted_at
    <3>3. QED
      BY <3>1, <3>2
  <2>3. QED
    BY <2>1, <2>2
<1>7. ASSUME NEW u \in Clients, UntrackCase(u)
      PROVE  tracked' = [tracked EXCEPT ![u] = NotTracked]
  BY <1>7 DEF UntrackCase
<1>8. CASE \E u \in Clients : SerialReached(u) \/ DisplayBoardActive(u) \/ FireFails(u) \/ ShowFails(u)
  <2>1. UNCHANGED tracked
    BY <1>8 DEF SerialReached, DisplayBoardActive, FireFails, ShowFails, BoardFault
  <2>2. QED
    BY <1>2, <2>1
<1>9. CASE (\E serial \in BoardSerials : Poll(serial))
            \/ ListAlerts \/ ListBoard \/ ReadFails \/ MonitorStops \/ NextDay \/ UNCHANGED alertVars
  <2>1. UNCHANGED tracked
    BY <1>9 DEF Poll, ListAlerts, ListBoard, ReadFails, MonitorStops, NextDay, BoardFault, alertVars
  <2>2. QED
    BY <1>2, <2>1
<1>10. ASSUME NEW u \in Clients,
              \/ \E court \in BOOLEAN : TrackCase(u, court)
              \/ UntrackCase(u) \/ ClearAlert(u) \/ update_case_alerted_at(u)
              \/ \E serial \in Serials, look_ahead \in LookAheads : SetAlert(u, serial, look_ahead)
       PROVE  tracked' \in [Clients -> TrackedRow \cup {NotTracked}]
  BY <1>1, <1>2, <1>3, <1>4, <1>5, <1>6, <1>7, <1>10
<1>11. QED
  BY <1>8, <1>9, <1>10 DEF AlertsNext

\* What requests leave alone.
LEMMA AlertRequest ==
  ASSUME NEW u \in Clients,
         \/ \E court \in BOOLEAN : TrackCase(u, court)
         \/ UntrackCase(u) \/ ClearAlert(u)
         \/ \E serial \in Serials, look_ahead \in LookAheads : SetAlert(u, serial, look_ahead)
  PROVE  /\ UNCHANGED <<today, pollVars, boardFaults, sent, refused, onBoard, missed>>
         /\ requests < MaxRequests /\ requests' = requests + 1 /\ steady' = steady \ {u}
         /\ again' = again \/ (again' = [again EXCEPT ![u] = @ + 1])
BY DEF TrackCase, UntrackCase, ClearAlert, SetAlert, Request

LEMMA AlertsTypeNext ==
  ASSUME AlertsTypeOK, [AlertsNext]_alertVars
  PROVE  AlertsTypeOK'
<1>1. tracked' \in [Clients -> TrackedRow \cup {NotTracked}]
  BY TrackedRows
<1> DEFINE Rest == /\ today' \in 1 .. MaxDays
                   /\ board' \in BoardSerials
                   /\ stage' \in {"idle", "list", "fire", "mark", "board", "show"}
                   /\ reached' \subseteq Clients /\ marking' \subseteq Clients
                   /\ (stage' = "mark" <=> marking' # {})
                   /\ requests' \in 0 .. MaxRequests /\ boardFaults' \in 0 .. MaxBoardFaults
                   /\ sent' \in [Clients -> Nat] /\ again' \in [Clients -> Nat]
                   /\ refused' \subseteq Clients /\ onBoard' \subseteq Clients
                   /\ steady' \subseteq Clients /\ missed' \subseteq Clients
<1> USE SerialAlertsAssumption DEF AlertsTypeOK
<1>2. ASSUME NEW u \in Clients,
             \/ \E court \in BOOLEAN : TrackCase(u, court)
             \/ UntrackCase(u) \/ ClearAlert(u)
             \/ \E serial \in Serials, look_ahead \in LookAheads : SetAlert(u, serial, look_ahead)
      PROVE  Rest
  <2>1. /\ UNCHANGED <<today, pollVars, boardFaults, sent, refused, onBoard, missed>>
        /\ requests < MaxRequests /\ requests' = requests + 1 /\ steady' = steady \ {u}
        /\ again' = again \/ (again' = [again EXCEPT ![u] = @ + 1])
    BY <1>2, AlertRequest
  <2>2. again' \in [Clients -> Nat]
    BY <2>1
  <2>3. QED
    BY <2>1, <2>2 DEF pollVars
<1>3. ASSUME NEW u \in Clients, SerialReached(u) PROVE Rest
  BY <1>3 DEF SerialReached
<1>4. ASSUME NEW u \in Clients, update_case_alerted_at(u) PROVE Rest
  BY <1>4 DEF update_case_alerted_at, Firing, dayVars
<1>5. ASSUME NEW u \in Clients, DisplayBoardActive(u) \/ ShowFails(u) PROVE Rest
  BY <1>5 DEF DisplayBoardActive, ShowFails, BoardFault, Showing
<1>6. ASSUME NEW u \in Clients, FireFails(u) PROVE Rest
  BY <1>6 DEF FireFails, BoardFault, Firing
<1>7. ASSUME NEW serial \in BoardSerials, Poll(serial) PROVE Rest
  BY <1>7 DEF Poll, dayVars
<1>8. CASE ListAlerts \/ ListBoard
  <2>1. Rest
    BY <1>8 DEF ListAlerts, ListBoard, Firing, Showing, dayVars
  <2>2. QED
    BY <1>1, <2>1
<1>9. ASSUME ReadFails \/ MonitorStops PROVE Rest
  <2>1. again' \in [Clients -> Nat]
    BY <1>9 DEF ReadFails, MonitorStops
  <2>2. QED
    BY <1>9, <2>1 DEF ReadFails, MonitorStops, BoardFault
<1>10. ASSUME NextDay PROVE Rest
  BY <1>10 DEF NextDay, pollVars
<1>11. ASSUME UNCHANGED alertVars PROVE Rest
  BY <1>11 DEF alertVars
<1>12. QED
  <2>1. Rest \/ AlertsTypeOK'
    BY <1>2, <1>3, <1>4, <1>5, <1>6, <1>7, <1>8, <1>9, <1>10, <1>11 DEF AlertsNext
  <2>2. QED
    BY <1>1, <2>1

\* A user the poll will still tell of the serial number.
ToBeTold(u) == stage \in {"fire", "mark"} /\ u \in reached \ marking

\* alerted_at pays for what was sent: a user who will be told has had no more than there
\* were reasons, and one being marked one more; and so has everybody else whom alerted_at
\* keeps from being told again.
OnceAt(u) ==
  /\ sent[u] <= 1 + again[u]
  /\ ToBeTold(u) => sent[u] <= again[u] /\ (tracked[u] = NotTracked => sent[u] < again[u])
  /\ u \in marking => (tracked[u] = NotTracked => sent[u] <= again[u])
  /\ u \notin marking /\ (tracked[u] = NotTracked \/ tracked[u].alerted_at < today) =>
       sent[u] <= again[u]

ThresholdReached(u) ==
  /\ tracked[u] # NotTracked /\ tracked[u].court /\ tracked[u].active
  /\ tracked[u].serial # 0 /\ board >= Threshold(u)

Told(u) == sent[u] > 0 \/ u \in refused

\* Who has been alerted today was told, or refused; and who is due is to be dealt with
\* until he was, or the poll has failed for him.
ToldAt(u) ==
  /\ u \in marking => Told(u)
  /\ tracked[u] # NotTracked => tracked[u].alerted_at <= today
  /\ tracked[u] # NotTracked /\ tracked[u].alerted_at = today => Told(u)
  /\ u \in steady /\ ThresholdReached(u) =>
       stage = "list" \/ ToBeTold(u) \/ Told(u) \/ u \in missed

OneMarked == \A u, v \in marking : u = v

AlertsInv == AlertsTypeOK /\ OneMarked /\ \A u \in Clients : OnceAt(u) /\ ToldAt(u)

LEMMA OneMarkedNext ==
  ASSUME OneMarked, [AlertsNext]_alertVars
  PROVE  OneMarked'
<1>1. UNCHANGED marking \/ marking' = {} \/ \E u \in Clients : marking' = {u}
  BY AlertRequest
  DEF AlertsNext, alertVars, SerialReached, update_case_alerted_at, DisplayBoardActive, FireFails,
      ShowFails, BoardFault, Poll, ListAlerts, ListBoard, ReadFails, MonitorStops, NextDay,
      Firing, Showing, pollVars
<1>2. QED
  BY <1>1 DEF OneMarked

LEMMA RowTypes ==
  ASSUME AlertsTypeOK, NEW u \in Clients
  PROVE  /\ sent[u] \in Nat /\ again[u] \in Nat /\ today \in Nat
         /\ tracked[u] # NotTracked => tracked[u] \in TrackedRow /\ tracked[u].alerted_at \in Nat
BY DEF AlertsTypeOK, TrackedRow

LEMMA AlertsInvInit == AlertsInit => AlertsInv
<1> SUFFICES ASSUME AlertsInit, NEW u \in Clients PROVE OnceAt(u) /\ ToldAt(u)
  BY AlertsTypeInit DEF AlertsInv, AlertsInit, OneMarked
<1>1. sent[u] = 0 /\ again[u] = 0 /\ tracked[u] = NotTracked /\ marking = {} /\ steady = {}
      /\ stage = "idle"
  BY DEF AlertsInit
<1>2. QED
  BY <1>1 DEF OnceAt, ToldAt, ToBeTold

\* Requests: alerted_at is not written, but forgotten with the row.
LEMMA AlertsRequest ==
  ASSUME AlertsInv, NEW v \in Clients,
         \/ \E court \in BOOLEAN : TrackCase(v, court)
         \/ UntrackCase(v) \/ ClearAlert(v)
         \/ \E serial \in Serials, look_ahead \in LookAheads : SetAlert(v, serial, look_ahead)
  PROVE  \A u \in Clients : OnceAt(u)' /\ ToldAt(u)'
<1>1. /\ UNCHANGED <<today, board, stage, reached, marking, sent, refused, missed>>
      /\ steady' = steady \ {v}
  BY AlertRequest DEF pollVars
<1>2. \A u \in Clients \ {v} : tracked'[u] = tracked[u] /\ again'[u] = again[u]
  BY DEF TrackCase, UntrackCase, ClearAlert, SetAlert, AlertsInv, AlertsTypeOK
<1>3. ASSUME NEW u \in Clients, u # v PROVE OnceAt(u)' /\ ToldAt(u)'
  <2>1. ToBeTold(u)' <=> ToBeTold(u)
    BY <1>1 DEF ToBeTold
  <2>2. ThresholdReached(u)' => ThresholdReached(u)
    BY <1>1, <1>2, <1>3 DEF ThresholdReached, Threshold
  <2>3. QED
    BY <1>1, <1>2, <1>3, <2>1, <2>2 DEF AlertsInv, OnceAt, ToldAt, Told
<1>4. /\ again'[v] \in {again[v], again[v] + 1}
      /\ tracked'[v] = NotTracked => again'[v] = again[v] + 1
      /\ tracked'[v] # NotTracked =>
           /\ again'[v] = again[v]
           /\ tracked'[v].alerted_at = IF tracked[v] = NotTracked THEN 0 ELSE tracked[v].alerted_at
  <2>1. CASE \E court \in BOOLEAN : TrackCase(v, court)
    <3>1. PICK court \in BOOLEAN : TrackCase(v, court)
      BY <2>1
    <3>2. tracked'[v] = IF tracked[v] = NotTracked
                        THEN [court |-> court, active |-> FALSE, serial |-> 0,
                              look_ahead |-> DefaultLookAhead, alerted_at |-> 0]
                        ELSE [tracked[v] EXCEPT !.court = court]
      BY <3>1 DEF TrackCase, AlertsInv, AlertsTypeOK
    <3>3. tracked'[v] # NotTracked
      <4>1. [court |-> court, active |-> FALSE, serial |-> 0,
             look_ahead |-> DefaultLookAhead, alerted_at |-> 0] \in TrackedRow
        BY SerialAlertsAssumption DEF TrackedRow
      <4>2. tracked[v] # NotTracked => [tracked[v] EXCEPT !.court = court] \in TrackedRow
        BY DEF AlertsInv, AlertsTypeOK, TrackedRow
      <4>3. QED
        BY <3>2, <4>1, <4>2, NotTrackedAssumption
    <3>4. tracked[v] # NotTracked => tracked'[v].alerted_at = tracked[v].alerted_at
      BY <3>2 DEF AlertsInv, AlertsTypeOK, TrackedRow
    <3>5. QED
      BY <3>1, <3>2, <3>3, <3>4 DEF TrackCase
  <2>2. CASE UntrackCase(v)
    BY <2>2 DEF UntrackCase, AlertsInv, AlertsTypeOK
  <2>3. CASE ClearAlert(v)
    <3>1. tracked'[v] = [tracked[v] EXCEPT !.active = FALSE]
      BY <2>3 DEF ClearAlert, AlertsInv, AlertsTypeOK
    <3>2. [tracked[v] EXCEPT !.active = FALSE] \in TrackedRow
      BY <2>3 DEF ClearAlert, AlertsInv, AlertsTypeOK, TrackedRow
    <3>3. tracked'[v].alerted_at = tracked[v].alerted_at
      BY <2>3, <3>1 DEF ClearAlert, AlertsInv, AlertsTypeOK, TrackedRow
    <3>4. QED
      BY <2>3, <3>1, <3>2, <3>3, NotTrackedAssumption DEF ClearAlert
  <2>4. ASSUME NEW serial \in Serials, NEW look_ahead \in LookAheads,
               SetAlert(v, serial, look_ahead)
        PROVE  /\ tracked'[v] # NotTracked /\ tracked[v] # NotTracked /\ again' = again
               /\ tracked'[v].alerted_at = tracked[v].alerted_at
    <3> DEFINE row == [tracked[v] EXCEPT !.active = TRUE, !.serial = serial,
                                         !.look_ahead = look_ahead]
    <3>1. tracked[v] # NotTracked /\ tracked[v] \in TrackedRow /\ again' = again
      BY <2>4 DEF SetAlert, AlertsInv, AlertsTypeOK
    <3>2. row \in TrackedRow /\ row.alerted_at = tracked[v].alerted_at
      BY <3>1 DEF TrackedRow
    <3>3. tracked'[v] = row
      BY <2>4 DEF SetAlert, AlertsInv, AlertsTypeOK
    <3>4. QED
      BY <3>1, <3>2, <3>3, NotTrackedAssumption
  <2>5. QED
    BY <2>1, <2>2, <2>3, <2>4
<1>5. OnceAt(v)' /\ ToldAt(v)'
  <2>1. ToBeTold(v)' <=> ToBeTold(v)
    BY <1>1 DEF ToBeTold
  <2>2. sent[v] \in Nat /\ again[v] \in Nat /\ today \in Nat \ {0}
    BY DEF AlertsInv, AlertsTypeOK
  <2>3. OnceAt(v) /\ ToldAt(v)
    BY DEF AlertsInv
  <2>4. OnceAt(v)'
    BY <1>1, <1>4, <2>1, <2>2, <2>3 DEF OnceAt, ToBeTold
  <2>5. Told(v)' <=> Told(v)
    BY <1>1 DEF Told
  <2>6. ToldAt(v)'
    BY <1>1, <1>4, <2>2, <2>3, <2>5 DEF ToldAt
  <2>7. QED
    BY <2>4, <2>6
<1>6. QED
  BY <1>3, <1>5

\* A step of the poll that leaves the rows alone.
LEMMA AlertsPoll ==
  ASSUME AlertsInv,
         UNCHANGED <<today, tracked, sent, again, refused>>,
         NEW u \in Clients,
         ToBeTold(u)' => ToBeTold(u) \/ (Active(u) /\ u \notin marking),
         u \in marking' => u \in marking,
         u \in marking /\ u \notin marking' => sent[u] <= again[u],
         u \in steady' /\ ThresholdReached(u)' =>
           \/ stage' = "list" \/ ToBeTold(u)' \/ u \in missed' \/ Told(u)
           \/ tracked[u].alerted_at >= today
  PROVE  OnceAt(u)' /\ ToldAt(u)'
<1>1. OnceAt(u) /\ ToldAt(u)
  BY DEF AlertsInv
<1>2. /\ sent[u] \in Nat /\ again[u] \in Nat /\ today \in Nat
      /\ tracked[u] # NotTracked => tracked[u].alerted_at \in Nat
  BY RowTypes DEF AlertsInv
<1>3. Told(u)' <=> Told(u)
  BY DEF Told
<1>4. ToldAt(u)'
  BY <1>1, <1>2, <1>3 DEF ToldAt, ThresholdReached
<1>5. OnceAt(u)'
  BY <1>1, <1>2 DEF OnceAt, Active
<1>6. QED
  BY <1>4, <1>5

\* Steps of the poll that leave rows and counts alone.
LEMMA AlertsPolls ==
  ASSUME AlertsInv,
         \/ \E serial \in BoardSerials : Poll(serial)
         \/ \E v \in Clients : DisplayBoardActive(v) \/ ShowFails(v)
         \/ ListAlerts \/ ListBoard \/ ReadFails
  PROVE  \A u \in Clients : OnceAt(u)' /\ ToldAt(u)'
<1> SUFFICES ASSUME NEW u \in Clients PROVE OnceAt(u)' /\ ToldAt(u)'
  OBVIOUS
<1>1. AlertsTypeOK /\ OnceAt(u) /\ ToldAt(u)
  BY DEF AlertsInv
<1>2. UNCHANGED <<today, tracked, sent, again, refused>>
  BY DEF Poll, DisplayBoardActive, ShowFails, ListAlerts, ListBoard, ReadFails, BoardFault, dayVars
<1> DEFINE Steps == /\ ToBeTold(u)' => ToBeTold(u) \/ (Active(u) /\ u \notin marking)
                    /\ u \in marking' => u \in marking
                    /\ u \in marking /\ u \notin marking' => sent[u] <= again[u]
                    /\ u \in steady' /\ ThresholdReached(u)' =>
                         \/ stage' = "list" \/ ToBeTold(u)' \/ u \in missed' \/ Told(u)
                         \/ tracked[u].alerted_at >= today
<1>3. ASSUME NEW serial \in BoardSerials, Poll(serial) PROVE Steps
  <2>1. /\ stage = "idle" /\ UNCHANGED marking
        /\ stage' = IF \E w \in Clients : Active(w) THEN "list" ELSE "board"
    BY <1>3 DEF Poll
  <2>2. ASSUME ThresholdReached(u)', stage' # "list" PROVE tracked[u].alerted_at >= today
    <3>1. ~ Active(u)
      BY <2>1, <2>2
    <3>2. tracked[u].alerted_at \in Nat /\ today \in Nat
      BY <1>1, <1>2, <2>2, RowTypes DEF ThresholdReached
    <3>3. QED
      BY <1>2, <2>2, <3>1, <3>2 DEF Active, ThresholdReached
  <2>3. QED
    BY <2>1, <2>2 DEF ToBeTold
<1>4. ASSUME ListAlerts PROVE Steps
  <2>1. /\ marking = {} /\ marking' = {} /\ UNCHANGED <<board, steady, missed>>
        /\ reached' = {w \in Clients : Active(w) /\ board >= Threshold(w)}
        /\ stage' = IF reached' = {} THEN "board" ELSE "fire"
    BY <1>1, <1>4 DEF ListAlerts, Firing, AlertsTypeOK
  <2>2. ASSUME ThresholdReached(u)' PROVE ToBeTold(u)' \/ tracked[u].alerted_at >= today
    <3>1. tracked[u].alerted_at \in Nat /\ today \in Nat
      BY <1>1, <1>2, <2>2, RowTypes DEF ThresholdReached
    <3>2. ASSUME tracked[u].alerted_at < today PROVE u \in reached'
      BY <1>2, <2>1, <2>2, <3>2 DEF ThresholdReached, Active, Threshold
    <3>3. QED
      BY <2>1, <3>1, <3>2 DEF ToBeTold
  <2>3. ToBeTold(u)' => Active(u)
    BY <2>1 DEF ToBeTold
  <2>4. QED
    BY <2>1, <2>2, <2>3
<1>5. ASSUME ListBoard \/ \E v \in Clients : DisplayBoardActive(v) \/ ShowFails(v) PROVE Steps
  <2>1. /\ stage \notin {"fire", "mark", "list"} /\ stage' \in {"idle", "show"}
        /\ UNCHANGED <<marking, board, steady>> /\ missed \subseteq missed'
    BY <1>5 DEF ListBoard, DisplayBoardActive, ShowFails, Showing, BoardFault
  <2>2. ThresholdReached(u)' => ThresholdReached(u)
    BY <1>2, <2>1 DEF ThresholdReached, Threshold
  <2>3. QED
    BY <1>1, <2>1, <2>2 DEF ToBeTold, ToldAt
<1>6. ASSUME ReadFails PROVE Steps
  <2>1. UNCHANGED marking /\ missed' = missed \cup Clients /\ stage' \notin {"fire", "mark"}
    BY <1>6 DEF ReadFails, BoardFault
  <2>2. QED
    BY <2>1 DEF ToBeTold
<1>7. Steps
  BY <1>3, <1>4, <1>5, <1>6
<1>8. QED
  BY <1>2, <1>7, AlertsPoll

\* A notification, its mark, and what fails on the way to either.
LEMMA AlertsFiring ==
  ASSUME AlertsInv, NEW v \in Clients,
         SerialReached(v) \/ update_case_alerted_at(v) \/ FireFails(v)
  PROVE  \A u \in Clients : OnceAt(u)' /\ ToldAt(u)'
<1> SUFFICES ASSUME NEW u \in Clients PROVE OnceAt(u)' /\ ToldAt(u)'
  OBVIOUS
<1>1. OnceAt(u) /\ ToldAt(u) /\ (stage = "mark" <=> marking # {})
  BY DEF AlertsInv, AlertsTypeOK
<1>2. /\ sent[u] \in Nat /\ again[u] \in Nat /\ today \in Nat
      /\ tracked[u] # NotTracked => tracked[u] \in TrackedRow /\ tracked[u].alerted_at \in Nat
  BY RowTypes DEF AlertsInv
<1>3. sent \in [Clients -> Nat] /\ again \in [Clients -> Nat]
      /\ tracked \in [Clients -> TrackedRow \cup {NotTracked}]
  BY DEF AlertsInv, AlertsTypeOK
<1>4. CASE SerialReached(v)
  <2>1. /\ stage = "fire" /\ stage' = "mark" /\ v \in reached
        /\ marking = {} /\ marking' = {v}
        /\ UNCHANGED <<today, tracked, board, reached, again, steady, missed>>
    BY <1>1, <1>4 DEF SerialReached
  <2>2. \/ sent' = [sent EXCEPT ![v] = @ + 1] /\ UNCHANGED refused
        \/ refused' = refused \cup {v} /\ UNCHANGED sent
    BY <1>4 DEF SerialReached
  <2>3. ThresholdReached(u)' => ThresholdReached(u)
    BY <2>1 DEF ThresholdReached, Threshold
  <2>4. CASE u = v
    <3>1. /\ sent'[u] \in Nat /\ sent'[u] <= sent[u] + 1 /\ (sent'[u] > 0 \/ u \in refused')
      BY <1>2, <1>3, <2>2, <2>4
    <3>2. sent[u] <= again[u] /\ (tracked[u] = NotTracked => sent[u] < again[u])
      BY <1>1, <2>1, <2>4 DEF OnceAt, ToBeTold
    <3>3. OnceAt(u)'
      BY <1>2, <2>1, <2>4, <3>1, <3>2 DEF OnceAt, ToBeTold
    <3>4. ToldAt(u)'
      BY <1>1, <2>1, <2>4, <3>1 DEF ToldAt, Told
    <3>5. QED
      BY <3>3, <3>4
  <2>5. CASE u # v
    <3>1. sent'[u] = sent[u] /\ (u \in refused' <=> u \in refused)
      BY <1>3, <2>2, <2>5
    <3>2. ToBeTold(u)' <=> ToBeTold(u)
      BY <2>1, <2>5 DEF ToBeTold
    <3>3. OnceAt(u)'
      BY <1>1, <2>1, <2>5, <3>1, <3>2 DEF OnceAt
    <3>4. ToldAt(u)'
      BY <1>1, <2>1, <2>3, <2>5, <3>1, <3>2 DEF ToldAt, Told
    <3>5. QED
      BY <3>3, <3>4
  <2>6. QED
    BY <2>4, <2>5
<1>5. CASE update_case_alerted_at(v)
  <2>1. /\ stage = "mark" /\ v \in marking /\ marking' = {} /\ reached' = reached \ {v}
        /\ stage' = IF reached' = {} THEN "board" ELSE "fire"
        /\ UNCHANGED <<today, board, sent, again, refused, steady, missed>>
    BY <1>5 DEF update_case_alerted_at, Firing, dayVars
  <2>2. tracked' = IF tracked[v] = NotTracked THEN tracked
                   ELSE [tracked EXCEPT ![v].alerted_at = today]
    BY <1>5 DEF update_case_alerted_at
  <2>3. CASE u = v
    <3>1. tracked[u] = NotTracked => tracked'[u] = NotTracked
      BY <2>2, <2>3
    <3>2. tracked[u] # NotTracked => tracked'[u].alerted_at = today /\ tracked'[u] # NotTracked
      <4>1. SUFFICES ASSUME tracked[u] # NotTracked
                     PROVE tracked'[u].alerted_at = today /\ tracked'[u] # NotTracked
        OBVIOUS
      <4>2. tracked'[u] = [tracked[u] EXCEPT !.alerted_at = today]
        BY <1>3, <2>2, <2>3, <4>1
      <4>3. today \in 0 .. MaxDays
        BY SerialAlertsAssumption DEF AlertsInv, AlertsTypeOK
      <4>4. [tracked[u] EXCEPT !.alerted_at = today] \in TrackedRow
        BY <1>2, <4>1, <4>3 DEF TrackedRow
      <4>5. [tracked[u] EXCEPT !.alerted_at = today].alerted_at = today
        BY <1>2, <4>1 DEF TrackedRow
      <4>6. QED
        BY <4>2, <4>4, <4>5, NotTrackedAssumption
    <3>3. OnceAt(u)'
      BY <1>1, <1>2, <2>1, <2>3, <3>1, <3>2 DEF OnceAt, ToBeTold
    <3>4. ToldAt(u)'
      BY <1>1, <1>2, <2>1, <2>3, <3>1, <3>2 DEF ToldAt, Told
    <3>5. QED
      BY <3>3, <3>4
  <2>4. CASE u # v
    <3>1. tracked'[u] = tracked[u]
      BY <1>3, <2>2, <2>4
    <3>2. (ToBeTold(u)' <=> ToBeTold(u)) /\ u \notin marking /\ u \notin marking'
      <4>1. u \notin marking
        BY <2>1, <2>4 DEF AlertsInv, OneMarked
      <4>2. QED
        BY <2>1, <2>4, <4>1 DEF ToBeTold
    <3>3. ThresholdReached(u)' => ThresholdReached(u)
      BY <2>1, <3>1 DEF ThresholdReached, Threshold
    <3>4. OnceAt(u)'
      BY <1>1, <2>1, <3>1, <3>2 DEF OnceAt
    <3>5. ToldAt(u)'
      BY <1>1, <2>1, <3>1, <3>2, <3>3 DEF ToldAt, Told
    <3>6. QED
      BY <3>4, <3>5
  <2>5. QED
    BY <2>3, <2>4
<1>6. CASE FireFails(v)
  <2>1. /\ v \in reached /\ marking' = {} /\ reached' = reached \ {v}
        /\ stage \in {"fire", "mark"} /\ (stage = "mark" => v \in marking)
        /\ stage' = IF reached' = {} THEN "board" ELSE "fire"
        /\ missed' = missed \cup {v}
        /\ again' = IF stage = "mark" THEN [again EXCEPT ![v] = @ + 1] ELSE again
        /\ UNCHANGED <<today, tracked, board, sent, refused, steady>>
    BY <1>6 DEF FireFails, BoardFault, Firing
  <2>2. ThresholdReached(u)' => ThresholdReached(u)
    BY <2>1 DEF ThresholdReached, Threshold
  <2>3. again'[u] \in Nat /\ again'[u] >= again[u]
        /\ (u = v /\ u \in marking => again'[u] = again[u] + 1)
    BY <1>1, <1>2, <1>3, <2>1
  <2>4. u # v => (ToBeTold(u)' <=> ToBeTold(u)) /\ u \notin marking
    BY <1>1, <2>1 DEF ToBeTold, AlertsInv, OneMarked
  <2>5. u = v => ~ ToBeTold(u)'
    BY <2>1 DEF ToBeTold
  <2>6. OnceAt(u)'
    BY <1>1, <1>2, <2>1, <2>3, <2>4, <2>5 DEF OnceAt
  <2>7. ToldAt(u)'
    BY <1>1, <1>2, <2>1, <2>2, <2>4, <2>5 DEF ToldAt, Told
  <2>8. QED
    BY <2>6, <2>7
<1>7. QED
  BY <1>4, <1>5, <1>6

LEMMA AlertsStops ==
  ASSUME AlertsInv, MonitorStops \/ NextDay
  PROVE  \A u \in Clients : OnceAt(u)' /\ ToldAt(u)'
<1> SUFFICES ASSUME NEW u \in Clients PROVE OnceAt(u)' /\ ToldAt(u)'
  OBVIOUS
<1>1. OnceAt(u) /\ ToldAt(u) /\ (stage = "mark" <=> marking # {})
  BY DEF AlertsInv, AlertsTypeOK
<1>2. /\ sent[u] \in Nat /\ again[u] \in Nat /\ today \in Nat
      /\ tracked[u] # NotTracked => tracked[u] \in TrackedRow /\ tracked[u].alerted_at \in Nat
  BY RowTypes DEF AlertsInv
<1>3. CASE MonitorStops
  <2>1. /\ stage' = "idle" /\ reached' = {} /\ marking' = {} /\ u \in missed'
        /\ again'[u] = again[u] + (IF u \in marking THEN 1 ELSE 0)
        /\ UNCHANGED <<today, tracked, board, sent, refused, steady>>
    BY <1>3 DEF MonitorStops, BoardFault
  <2>2. OnceAt(u)'
    BY <1>1, <1>2, <2>1 DEF OnceAt, ToBeTold
  <2>3. ToldAt(u)'
    BY <1>1, <1>2, <2>1 DEF ToldAt, Told
  <2>4. QED
    BY <2>2, <2>3
<1>4. CASE NextDay
  <2>1. /\ stage = "idle" /\ today' = today + 1 /\ sent'[u] = 0 /\ again'[u] = 0
        /\ steady' = {} /\ UNCHANGED <<tracked, stage, marking>>
    BY <1>4 DEF NextDay, pollVars
  <2>2. OnceAt(u)'
    BY <1>1, <1>2, <2>1 DEF OnceAt, ToBeTold
  <2>3. ToldAt(u)'
    BY <1>1, <1>2, <2>1 DEF ToldAt
  <2>4. QED
    BY <2>2, <2>3
<1>5. QED
  BY <1>3, <1>4

LEMMA AlertsInvNext == AlertsInv /\ [AlertsNext]_alertVars => AlertsInv'
<1> SUFFICES ASSUME AlertsInv, [AlertsNext]_alertVars PROVE AlertsInv'
  OBVIOUS
<1>1. AlertsTypeOK' /\ OneMarked'
  BY AlertsTypeNext, OneMarkedNext DEF AlertsInv
<1>2. CASE AlertsNext
  BY <1>1, <1>2, AlertsRequest, AlertsPolls, AlertsFiring, AlertsStops DEF AlertsNext, AlertsInv
<1>3. CASE UNCHANGED alertVars
  BY <1>1, <1>3 DEF alertVars, AlertsInv, OnceAt, ToldAt, ToBeTold, ThresholdReached,
                    Threshold, Told
<1>4. QED
  BY <1>2, <1>3

LEMMA AlertsInvBounds == AlertsInv => SerialAlertsKept
<1> SUFFICES ASSUME AlertsInv PROVE OncePerDay /\ ReachedIsTold
  BY DEF SerialAlertsKept
<1>1. OncePerDay
  BY DEF AlertsInv, OnceAt, OncePerDay
<1>2. ReachedIsTold
  <2> SUFFICES ASSUME stage = "idle", NEW u \in Clients, u \in steady, ThresholdReached(u)
               PROVE sent[u] > 0 \/ u \in refused \/ u \in missed
    BY DEF AlertsInv, AlertsTypeOK, ReachedIsTold, ThresholdReached
  <2>1. QED
    BY DEF AlertsInv, ToldAt, ToBeTold, Told
<1>3. QED
  BY <1>1, <1>2

\* For any users, days, requests and faults: whose threshold is reached by a poll is told of
\* it, once a day, but for what has failed, been refused or been asked for on the way.
THEOREM AlertsCorrect == AlertsSpec => []SerialAlertsKept
<1>1. QED
  BY AlertsInvInit, AlertsInvNext, AlertsInvBounds, PTL DEF AlertsSpec

-----------------------------------------------------------------------------
(* PollLoop: no opening of the court is missed, and an outage is told once.*)

PollNumbers ==
  /\ instant \in DOMAIN Instants
  /\ loop \in {"check", "scrape", "dispatch", "outage", "tell", "pause", "night", "ended"}
  /\ wakes \in Nat
  /\ court_session \in {"unknown", "open", "closed"}
  /\ telling \subseteq Subscribers
  /\ loop # "tell" => telling = {}
  /\ pollFaults \in 0 .. MaxPollFaults
  /\ told_down \in [Subscribers -> Nat]

\* The failures that are counted are among those since the last good poll.
Failures ==
  /\ consecutive_failures \in Nat /\ failedPolls \in 0 .. MaxFailedPolls /\ failedInRow \in Nat
  /\ lives \in Nat
  /\ consecutive_failures <= failedPolls /\ consecutive_failures <= failedInRow
  /\ loop = "dispatch" => consecutive_failures = 0
  /\ loop \in {"outage", "tell"} => consecutive_failures >= FailureThreshold

PollBooleans == outage_notified \in BOOLEAN /\ missedNotice \in BOOLEAN

LEMMA PollTypeParts == PollNumbers /\ Failures /\ PollBooleans => PollLoopTypeOK
<1>1. PollNumbers /\ Failures =>
        consecutive_failures \in 0 .. MaxFailedPolls /\ failedPolls \in 0 .. MaxFailedPolls
  BY PollLoopAssumption DEF PollNumbers, Failures
<1>2. QED
  BY <1>1, Zenon DEF PollNumbers, Failures, PollBooleans, PollLoopTypeOK

LEMMA InstantsGrow ==
  /\ \A i \in DOMAIN Instants : Instants[i] \in Nat
  /\ DOMAIN Instants = 1 .. Len(Instants) /\ Len(Instants) \in Nat
  /\ \A i \in DOMAIN Instants : i < Len(Instants) =>
       i + 1 \in DOMAIN Instants /\ Instants[i] < Instants[i + 1]
<1>1. DOMAIN Instants = 1 .. Len(Instants) /\ Len(Instants) \in Nat
      /\ \A i \in DOMAIN Instants : Instants[i] \in Nat
  BY PollLoopAssumption
<1>2. \A i \in 1 .. Len(Instants) : i < Len(Instants) =>
        i + 1 \in 1 .. Len(Instants) /\ i \in 1 .. Len(Instants) - 1
  BY <1>1
<1>3. QED
  BY <1>1, <1>2, PollLoopAssumption

\* Minutes and days.
LEMMA DivMod ==
  ASSUME NEW t \in Nat
  PROVE  /\ t \div MinutesPerDay \in Nat /\ t % MinutesPerDay \in 0 .. MinutesPerDay - 1
         /\ t = (t \div MinutesPerDay) * MinutesPerDay + (t % MinutesPerDay)
BY DEF MinutesPerDay

CourtHoursAt(t) ==
  Weekday(t \div MinutesPerDay) < 5 /\ t % MinutesPerDay \in CourtStart .. CourtEnd

LEMMA NextWorkdayIs ==
  ASSUME NEW d \in Nat
  PROVE  /\ NextWorkday(d) \in d + 1 .. d + 3
         /\ \A e \in d + 1 .. NextWorkday(d) - 1 : Weekday(e) >= 5
<1> DEFINE Is(w) == Weekday(w) < 5 /\ \A e \in d + 1 .. w - 1 : Weekday(e) >= 5
<1>1. \E w \in d + 1 .. d + 3 : Is(w)
  <2>1. CASE (d + 1) % 7 < 5
    <3>1. Is(d + 1)
      BY <2>1 DEF Weekday
    <3>2. QED
      BY <3>1
  <2>2. CASE (d + 1) % 7 = 5
    <3>1. (d + 2) % 7 = 6 /\ (d + 3) % 7 = 0
      BY <2>2
    <3>2. \A e \in d + 1 .. (d + 3) - 1 : e = d + 1 \/ e = d + 2
      OBVIOUS
    <3>3. Is(d + 3)
      BY <2>2, <3>1, <3>2 DEF Weekday
    <3>4. QED
      BY <3>3
  <2>3. CASE (d + 1) % 7 = 6
    <3>1. (d + 2) % 7 = 0
      BY <2>3
    <3>2. \A e \in d + 1 .. (d + 2) - 1 : e = d + 1
      OBVIOUS
    <3>3. Is(d + 2)
      BY <2>3, <3>1, <3>2 DEF Weekday
    <3>4. QED
      BY <3>3
  <2>4. (d + 1) % 7 \in 0 .. 6
    OBVIOUS
  <2>5. QED
    BY <2>1, <2>2, <2>3, <2>4
<1>2. NextWorkday(d) = CHOOSE w \in d + 1 .. d + 3 : Is(w)
  BY DEF NextWorkday
<1>3. NextWorkday(d) \in d + 1 .. d + 3 /\ Is(NextWorkday(d))
  BY <1>1, <1>2
<1>4. QED
  BY <1>3

\* Until the court opens it is not open.
LEMMA ClosedUntilOpening ==
  ASSUME Now \in Nat, ~ IsCourtHours,
         NEW t \in Nat, Now <= t, t < Now + MinutesUntilCourtOpen
  PROVE  ~ CourtHoursAt(t)
<1> DEFINE d == Now \div MinutesPerDay
           m == Now % MinutesPerDay
           e == t \div MinutesPerDay
           n == t % MinutesPerDay
<1>1. /\ d \in Nat /\ m \in 0 .. 1439 /\ Now = d * 1440 + m
      /\ e \in Nat /\ n \in 0 .. 1439 /\ t = e * 1440 + n
  BY DivMod DEF MinutesPerDay
<1>2. ~ (Weekday(d) < 5 /\ m \in 585 .. 1080)
  BY DEF IsCourtHours, CourtStart, CourtEnd, Day, MinuteOfDay
<1>3. SUFFICES ~ (Weekday(e) < 5 /\ n \in 585 .. 1080)
  BY DEF CourtHoursAt, CourtStart, CourtEnd
<1> DEFINE opens == IF Weekday(d) < 5 /\ m < 1080 THEN d ELSE NextWorkday(d)
           minutes == opens * 1440 + 585 - Now
<1>4. MinutesUntilCourtOpen = IF minutes < 0 THEN 0 ELSE minutes
  BY DEF MinutesUntilCourtOpen, Day, MinuteOfDay, CourtEnd, CourtStart, MinutesPerDay
<1> HIDE DEF d, m, e, n, minutes, opens
<1>5. NextWorkday(d) \in d + 1 .. d + 3 /\ \A w \in d + 1 .. NextWorkday(d) - 1 : Weekday(w) >= 5
  <2>1. d \in Nat
    BY <1>1
  <2>2. QED
    BY <2>1, NextWorkdayIs, Zenon
<1>6. opens \in Nat
  BY <1>1, <1>5 DEF opens
<1>7. t < opens * 1440 + 585
  <2>1. minutes \in Int
    BY <1>1, <1>6 DEF minutes
  <2>2. t < Now + minutes
    BY <1>4, <2>1
  <2>3. QED
    BY <1>6, <2>1, <2>2 DEF minutes
<1>8. d <= e /\ e <= opens /\ (e = opens => n < 585) /\ (d = e => m <= n)
  BY <1>1, <1>6, <1>7
<1>9. Weekday(e) \in Int /\ Weekday(d) \in Int
  BY <1>1 DEF Weekday
<1>10. CASE e = opens
  BY <1>1, <1>8, <1>10
<1>11. CASE e # opens
  <2>1. opens = NextWorkday(d)
    BY <1>1, <1>6, <1>8, <1>11 DEF opens
  <2>2. ~ (Weekday(d) < 5 /\ m < 1080)
    BY <1>1, <1>5, <2>1 DEF opens
  <2>3. CASE e = d
    BY <1>1, <1>2, <1>8, <1>9, <2>2, <2>3
  <2>4. CASE e # d
    <3>1. e \in d + 1 .. NextWorkday(d) - 1
      BY <1>1, <1>6, <1>8, <1>11, <2>1, <2>4
    <3>2. QED
      BY <1>5, <1>9, <3>1
  <2>5. QED
    BY <2>3, <2>4
<1>12. QED
  BY <1>10, <1>11

LEMMA PollNumbersInit == PollLoopInit => PollNumbers /\ Failures /\ PollBooleans
<1>1. PollLoopInit => PollNumbers /\ Failures
  BY PollLoopAssumption DEF PollLoopInit, PollNumbers, Failures
<1>2. PollLoopInit => PollBooleans
  BY DEF PollLoopInit, PollBooleans
<1>3. QED
  BY <1>1, <1>2

LEMMA NowIs == PollNumbers => Now \in Nat
BY InstantsGrow DEF PollNumbers, Now

LEMMA MinutesAreNat == PollNumbers => MinutesUntilCourtOpen \in Nat
<1> SUFFICES ASSUME PollNumbers PROVE MinutesUntilCourtOpen \in Nat
  OBVIOUS
<1>1. Now \in Nat
  BY NowIs
<1>2. Day \in Nat
  BY <1>1, DivMod DEF Day
<1>3. NextWorkday(Day) \in Nat
  BY <1>2, NextWorkdayIs
<1>4. QED
  BY <1>1, <1>2, <1>3 DEF MinutesUntilCourtOpen, MinutesPerDay, CourtStart

LEMMA PollNumbersNext ==
  ASSUME PollNumbers, [PollLoopNext]_pollLoopVars
  PROVE  PollNumbers'
<1> USE DEF PollNumbers, outageVars, boundVars, sinceVars
<1>1. CASE Later
  BY <1>1, InstantsGrow DEF Later
<1>2. CASE Night
  <2>1. wakes' \in Nat
    BY <1>2, NowIs, MinutesAreNat, PollLoopAssumption DEF Night, Least
  <2>2. QED
    BY <1>2, <2>1 DEF Night
<1>3. CASE PollBegins \/ Wake \/ PollSucceeds \/ AlertsSent
  BY <1>3 DEF PollBegins, Wake, PollSucceeds, AlertsSent
<1>4. CASE PollFails
  <2>1. loop = "scrape" \/ loop = "dispatch"
    BY <1>4 DEF PollFails
  <2>2. UNCHANGED <<instant, wakes, court_session, telling, pollFaults, told_down>>
    BY <1>4 DEF PollFails
  <2>3. loop' \in {"outage", "pause"}
    BY <1>4 DEF PollFails
  <2>4. QED
    BY <2>1, <2>2, <2>3
<1>5. CASE ListSubscribers
  BY <1>5 DEF ListSubscribers
<1>6. CASE OutageNoted
  BY <1>6 DEF OutageNoted
<1>7. CASE ListFails \/ MonitorEnds
  BY <1>7, PollLoopAssumption DEF ListFails, MonitorEnds, PollFault
<1>8. CASE \E u \in Subscribers : TellDown(u)
  BY <1>8 DEF TellDown
<1>9. CASE MonitorStarts
  BY <1>9 DEF MonitorStarts
<1>10. CASE UNCHANGED pollLoopVars
  BY <1>10 DEF pollLoopVars
<1>11. QED
  BY <1>1, <1>2, <1>3, <1>4, <1>5, <1>6, <1>7, <1>8, <1>9, <1>10 DEF PollLoopNext

LEMMA FailuresNext ==
  ASSUME PollNumbers, Failures, [PollLoopNext]_pollLoopVars
  PROVE  Failures'
<1> USE PollLoopAssumption DEF Failures, outageVars, boundVars, sinceVars
<1>1. CASE Later \/ Night \/ PollBegins \/ Wake \/ AlertsSent
  BY <1>1 DEF Later, Night, PollBegins, Wake, AlertsSent
<1>2. CASE PollSucceeds
  BY <1>2 DEF PollSucceeds
<1>3. CASE PollFails
  <2>1. /\ failedPolls < MaxFailedPolls /\ failedPolls' = failedPolls + 1
        /\ consecutive_failures' = consecutive_failures + 1 /\ failedInRow' = failedInRow + 1
        /\ lives' = lives
        /\ loop' = "pause" \/ (loop' = "outage" /\ consecutive_failures + 1 >= FailureThreshold)
    BY <1>3 DEF PollFails
  <2>2. QED
    BY <2>1
<1>4. CASE ListSubscribers \/ ListFails \/ \E u \in Subscribers : TellDown(u)
  BY <1>4 DEF ListSubscribers, ListFails, TellDown
<1>5. CASE OutageNoted
  BY <1>5 DEF OutageNoted
<1>6. CASE MonitorEnds \/ MonitorStarts
  BY <1>6 DEF MonitorEnds, MonitorStarts
<1>7. CASE UNCHANGED pollLoopVars
  BY <1>7 DEF pollLoopVars
<1>8. QED
  BY <1>1, <1>2, <1>3, <1>4, <1>5, <1>6, <1>7 DEF PollLoopNext

LEMMA PollBooleansNext ==
  ASSUME PollBooleans, [PollLoopNext]_pollLoopVars
  PROVE  PollBooleans'
<1>1. /\ outage_notified' = outage_notified \/ outage_notified' = TRUE \/ outage_notified' = FALSE
      /\ missedNotice' = missedNotice \/ missedNotice' = TRUE \/ missedNotice' = FALSE
  BY DEF PollLoopNext, Later, Night, PollBegins, Wake, PollSucceeds, AlertsSent, PollFails,
         ListSubscribers, OutageNoted, ListFails, TellDown, MonitorEnds, MonitorStarts,
         pollLoopVars, outageVars, boundVars, sinceVars
<1>2. QED
  BY <1>1 DEF PollBooleans

\* While the loop sleeps there are no court hours before it wakes.
AsleepOutOfHours ==
  loop = "night" => \A t \in Nat : Now <= t /\ t < wakes => ~ CourtHoursAt(t)

LEMMA AsleepNext ==
  ASSUME PollNumbers, AsleepOutOfHours, [PollLoopNext]_pollLoopVars
  PROVE  AsleepOutOfHours'
<1>1. CASE Later
  <2>1. /\ instant < Len(Instants) /\ instant' = instant + 1 /\ UNCHANGED <<loop, wakes>>
    BY <1>1 DEF Later
  <2>2. Now' \in Nat /\ Now \in Nat /\ Now < Now'
    BY <2>1, InstantsGrow DEF Now, PollNumbers
  <2>3. QED
    BY <2>1, <2>2 DEF AsleepOutOfHours
<1>2. CASE Night
  <2>1. /\ UNCHANGED instant /\ ~ IsCourtHours
        /\ wakes' = Now + Least(MinutesUntilCourtOpen, Nap)
    BY <1>2 DEF Night
  <2>2. Now \in Nat /\ MinutesUntilCourtOpen \in Nat /\ Now' = Now
    BY <2>1, NowIs, MinutesAreNat DEF Now
  <2>3. wakes' <= Now + MinutesUntilCourtOpen /\ wakes' \in Nat
    BY <2>1, <2>2, PollLoopAssumption DEF Least
  <2>4. ASSUME NEW t \in Nat, Now <= t, t < wakes' PROVE ~ CourtHoursAt(t)
    <3>1. t < Now + MinutesUntilCourtOpen
      BY <2>2, <2>3, <2>4
    <3>2. QED
      BY <2>1, <2>2, <2>4, <3>1, ClosedUntilOpening
  <2>5. QED
    BY <2>2, <2>4 DEF AsleepOutOfHours
<1>3. CASE UNCHANGED <<instant, loop, wakes>>
  BY <1>3 DEF AsleepOutOfHours, Now
<1>4. CASE loop' # "night"
  BY <1>4 DEF AsleepOutOfHours
<1>5. QED
  <2>1. \/ Later \/ Night \/ UNCHANGED <<instant, loop, wakes>> \/ loop' # "night"
    BY DEF PollLoopNext, PollBegins, Wake, PollSucceeds, AlertsSent, PollFails,
           ListSubscribers, OutageNoted, ListFails, TellDown, MonitorEnds, MonitorStarts, pollLoopVars
  <2>2. QED
    BY <1>1, <1>2, <1>3, <1>4, <2>1

\* A process that has not noted the outage has told nobody of it, but for the one who is
\* being told and those before him; a process that has noted it has told everybody.
NotedAt(u) ==
  /\ told_down[u] <= 1 + lives
  /\ loop # "ended" /\ ~ outage_notified /\ (loop = "tell" => u \in telling) => told_down[u] <= lives
  /\ told_down[u] > 0 => failedInRow >= FailureThreshold
  /\ outage_notified \/ (loop = "tell" /\ u \notin telling) => told_down[u] > 0

Noted ==
  /\ loop \in {"outage", "tell"} => ~ outage_notified
  /\ loop = "pause" /\ consecutive_failures >= FailureThreshold /\ NoticeHours /\ ~ missedNotice =>
       outage_notified

OutageInv == Noted /\ \A u \in Subscribers : NotedAt(u)

LEMMA NotedAtNext ==
  ASSUME PollNumbers, Failures, OutageInv, [PollLoopNext]_pollLoopVars, NEW u \in Subscribers
  PROVE  NotedAt(u)'
<1>1. NotedAt(u) /\ Noted
  BY DEF OutageInv
<1>2. /\ told_down[u] \in Nat /\ lives \in Nat /\ failedInRow \in Nat
      /\ consecutive_failures \in Nat /\ consecutive_failures <= failedInRow
      /\ FailureThreshold \in Nat \ {0}
      /\ loop \in {"outage", "tell"} => consecutive_failures >= FailureThreshold
  BY PollLoopAssumption DEF PollNumbers, Failures
<1> USE DEF NotedAt, Noted, outageVars, boundVars, sinceVars
<1>3. CASE Later \/ Night \/ PollBegins \/ Wake \/ AlertsSent
  BY <1>1, <1>2, <1>3 DEF Later, Night, PollBegins, Wake, AlertsSent
<1>4. CASE PollSucceeds
  BY <1>1, <1>2, <1>4 DEF PollSucceeds
<1>5. CASE PollFails
  <2>1. /\ loop \notin {"tell", "ended"} /\ loop' \in {"outage", "pause"}
        /\ failedInRow' = failedInRow + 1
        /\ UNCHANGED <<outage_notified, told_down, lives, telling>>
    BY <1>5 DEF PollFails
  <2>2. QED
    BY <1>1, <1>2, <2>1
<1>6. CASE ListSubscribers
  BY <1>1, <1>2, <1>6 DEF ListSubscribers
<1>7. ASSUME NEW v \in Subscribers, TellDown(v) PROVE NotedAt(u)'
  <2>1. /\ loop = "tell" /\ v \in telling /\ telling' = telling \ {v}
        /\ told_down' = [told_down EXCEPT ![v] = @ + 1]
        /\ UNCHANGED <<loop, outage_notified, lives, failedInRow, consecutive_failures>>
    BY <1>7 DEF TellDown
  <2>2. told_down'[u] = IF u = v THEN told_down[u] + 1 ELSE told_down[u]
    BY <2>1 DEF PollNumbers
  <2>3. CASE u = v
    BY <1>1, <1>2, <2>1, <2>2, <2>3
  <2>4. CASE u # v
    BY <1>1, <1>2, <2>1, <2>2, <2>4
  <2>5. QED
    BY <2>3, <2>4
<1>8. CASE OutageNoted
  BY <1>1, <1>2, <1>8 DEF OutageNoted
<1>9. CASE ListFails
  BY <1>1, <1>2, <1>9 DEF ListFails
<1>10. CASE MonitorEnds
  BY <1>1, <1>2, <1>10 DEF MonitorEnds
<1>11. CASE MonitorStarts
  BY <1>1, <1>2, <1>11 DEF MonitorStarts
<1>12. CASE UNCHANGED pollLoopVars
  BY <1>1, <1>12 DEF pollLoopVars
<1>13. QED
  BY <1>3, <1>4, <1>5, <1>6, <1>7, <1>8, <1>9, <1>10, <1>11, <1>12 DEF PollLoopNext

LEMMA NotedNext ==
  ASSUME PollNumbers, Failures, OutageInv, [PollLoopNext]_pollLoopVars
  PROVE  Noted'
<1>1. /\ Noted /\ consecutive_failures \in Nat /\ FailureThreshold \in Nat \ {0}
      /\ loop = "dispatch" => consecutive_failures = 0
  BY PollLoopAssumption DEF OutageInv, Failures
<1> USE DEF Noted, outageVars, boundVars, sinceVars
<1>2. CASE Later \/ Night \/ PollBegins \/ Wake
  BY <1>1, <1>2 DEF Later, Night, PollBegins, Wake
<1>3. CASE PollSucceeds
  BY <1>1, <1>3 DEF PollSucceeds
<1>4. CASE AlertsSent
  BY <1>1, <1>4 DEF AlertsSent
<1>5. CASE PollFails
  <2>1. /\ consecutive_failures' = consecutive_failures + 1
        /\ UNCHANGED <<instant, outage_notified>>
        /\ loop' = IF consecutive_failures + 1 >= FailureThreshold /\ NoticeHours /\ ~ outage_notified
                   THEN "outage" ELSE "pause"
    BY <1>5 DEF PollFails
  <2>2. NoticeHours' <=> NoticeHours
    BY <2>1 DEF NoticeHours, Hour, MinuteOfDay, Now
  <2>3. QED
    BY <1>1, <2>1, <2>2
<1>6. CASE ListSubscribers \/ \E u \in Subscribers : TellDown(u)
  BY <1>1, <1>6 DEF ListSubscribers, TellDown
<1>7. CASE OutageNoted
  BY <1>1, <1>7 DEF OutageNoted
<1>8. CASE ListFails
  BY <1>1, <1>8 DEF ListFails
<1>9. CASE MonitorEnds \/ MonitorStarts
  BY <1>1, <1>9 DEF MonitorEnds, MonitorStarts
<1>10. CASE UNCHANGED pollLoopVars
  BY <1>1, <1>10 DEF pollLoopVars, NoticeHours, Hour, MinuteOfDay, Now
<1>11. QED
  BY <1>2, <1>3, <1>4, <1>5, <1>6, <1>7, <1>8, <1>9, <1>10 DEF PollLoopNext

PollInv == PollNumbers /\ Failures /\ PollBooleans /\ AsleepOutOfHours /\ OutageInv

LEMMA PollInvInit == PollLoopInit => PollInv
<1> SUFFICES ASSUME PollLoopInit PROVE AsleepOutOfHours /\ OutageInv
  BY PollNumbersInit DEF PollInv
<1>1. AsleepOutOfHours
  BY DEF PollLoopInit, AsleepOutOfHours
<1>2. OutageInv
  BY PollLoopAssumption DEF PollLoopInit, OutageInv, Noted, NotedAt
<1>3. QED
  BY <1>1, <1>2

LEMMA PollInvNext == PollInv /\ [PollLoopNext]_pollLoopVars => PollInv'
BY PollNumbersNext, FailuresNext, PollBooleansNext, AsleepNext, NotedNext, NotedAtNext
DEF PollInv, OutageInv

LEMMA PollInvBounds == PollInv => PollLoopTypeOK /\ PollsKept
<1> SUFFICES ASSUME PollInv PROVE OpeningIsSeen /\ OutageIsTold
  BY PollTypeParts DEF PollInv, PollsKept
<1>1. OpeningIsSeen
  <2>1. IsCourtHours => CourtHoursAt(Now)
    BY DEF IsCourtHours, CourtHoursAt, Day, MinuteOfDay
  <2>2. Now \in Nat
    BY NowIs DEF PollInv
  <2>3. QED
    BY <2>1, <2>2 DEF PollInv, AsleepOutOfHours, OpeningIsSeen
<1>2. OutageIsTold
  <2>1. \A u \in Subscribers : NotedAt(u)
    BY DEF PollInv, OutageInv
  <2>2. QED
    BY <2>1 DEF PollInv, OutageInv, Noted, NotedAt, OutageIsTold
<1>3. QED
  BY <1>1, <1>2

\* For any row of instants, of any weeks, and any number of failures and restarts: the loop
\* sleeps through no minute of court hours, and an outage is told once by each process,
\* when enough polls have failed.
THEOREM PollsCorrect == PollLoopSpec => [](PollLoopTypeOK /\ PollsKept)
<1>1. QED
  BY PollInvInit, PollInvNext, PollInvBounds, PTL DEF PollLoopSpec

-----------------------------------------------------------------------------
(* VcScheduler: a window is scraped once, and what is marked is stored.    *)

VcAllWindows == TodayWindows \cup {TomorrowWindow}

\* The days on which the thread may wake up.
VcDays == {VcInstants[i].day : i \in DOMAIN VcInstants}

VcRunType ==
  [date : VcDates \cup {NoDay}, hour : 0 .. 23, window : VcAllWindows,
   list : SUBSET CourtRooms, links : SUBSET CourtRooms]

\* VcTypeOK, and what is in vc_run and vc_scraped.
VcTypes ==
  /\ vcInstant \in DOMAIN VcInstants
  /\ vc \in {"asleep", "today", "tomorrow", "scrape", "store", "record", "ended"}
  /\ vc_run \in VcRunType /\ vc_run.links \subseteq vc_run.list
  /\ DOMAIN vc_scraped \subseteq VcDates
  /\ \A e \in DOMAIN vc_scraped : vc_scraped[e] \subseteq VcAllWindows
  /\ vc_recorded \in [VcDates -> SUBSET VcAllWindows]
  /\ vc_links \in [VcDates -> SUBSET CourtRooms]
  /\ vcFaults \in 0 .. MaxVcFaults
  /\ scrapes \in [VcDates \X TodayWindows -> Nat] /\ wasted \in [VcDates \X TodayWindows -> Nat]
  /\ found \in [VcKeys -> SUBSET CourtRooms]

\* What a run is about; a window of today that is being scraped is not in memory, and the
\* links that are not left to store are stored.
VcRuns ==
  /\ vc \in {"today", "tomorrow"} => vc_run.date \in VcDays
  /\ vc \in {"scrape", "store", "record"} =>
       /\ vc_run.date \in DOMAIN vc_scraped
       /\ vc_run.window \in TodayWindows => vc_run.date \in VcDays
  /\ vc \in {"scrape", "store"} /\ vc_run.window \in TodayWindows =>
       vc_run.window \notin vc_scraped[vc_run.date]
  /\ vc = "store" => vc_run.list \ vc_run.links \subseteq vc_links[vc_run.date]

InMemory(d, w) == d \in DOMAIN vc_scraped /\ w \in vc_scraped[d]

Kept(d, w) == InMemory(d, w) \/ w \in vc_recorded[d]

BeingStored(d, w) == vc = "store" /\ vc_run.date = d /\ vc_run.window = w

\* A scrape is kept, about to be, or wasted.
ScrapesAt(d, w) ==
  w \in TodayWindows =>
    scrapes[<<d, w>>] = wasted[<<d, w>>] + IF Kept(d, w) \/ BeingStored(d, w) THEN 1 ELSE 0

LinksAt(d, w) == Kept(d, w) => found[<<d, w>>] \subseteq vc_links[d]

RecordAt(d) == d \in DOMAIN vc_scraped => vc_recorded[d] \subseteq vc_scraped[d]

VcInv ==
  /\ VcTypes /\ VcRuns
  /\ \A d \in VcDates :
       RecordAt(d) /\ \A w \in VcAllWindows : ScrapesAt(d, w) /\ LinksAt(d, w)

LEMMA VcInstantsAre == \A i \in DOMAIN VcInstants : VcInstants[i] \in [day : Nat, hour : 0 .. 23]
<1> DEFINE R == [day : Nat, hour : 0 .. 23]
<1>1. VcInstants \in Seq(R)
  BY VcAssumption
<1> HIDE DEF R
<1>2. \A i \in DOMAIN VcInstants : VcInstants[i] \in R
  BY <1>1
<1>3. QED
  BY <1>2 DEF R

LEMMA VcDatesAre ==
  ASSUME NEW d \in VcDays
  PROVE  d \in VcDates /\ d + 1 \in VcDates /\ d \in Nat
<1>1. PICK i \in DOMAIN VcInstants : d = VcInstants[i].day
  BY DEF VcDays
<1>2. {VcInstants[i].day, VcInstants[i].day + 1} \subseteq VcDates
  BY DEF VcDates
<1>3. VcInstants[i] \in [day : Nat, hour : 0 .. 23]
  BY VcInstantsAre
<1>4. QED
  BY <1>1, <1>2, <1>3

LEMMA VcWindowsAre ==
  /\ TodayWindows = {0, 6, 8} /\ TomorrowWindow = 14 /\ VcAllWindows = {0, 6, 8, 14}
  /\ Past(0) = {0} /\ Past(6) = {0, 6} /\ Past(8) = {0, 6, 8}
BY DEF TodayWindows, TomorrowWindow, VcAllWindows, Past, VcWindows

LEMMA NoRunIs == NoRun \in VcRunType /\ NoRun.links = {} /\ NoRun.list = {}
BY VcWindowsAre DEF NoRun, VcRunType

LEMMA LookedUpIs ==
  ASSUME NEW d
  PROVE  /\ DOMAIN LookedUp(d) = DOMAIN vc_scraped \cup {d}
         /\ \A e \in DOMAIN vc_scraped : LookedUp(d)[e] = vc_scraped[e]
         /\ d \notin DOMAIN vc_scraped => LookedUp(d)[d] = vc_recorded[d]
BY DEF LookedUp

\* The first window of today that is due has not been scraped: those before it have.
LEMMA FirstDueIsNew ==
  ASSUME NEW S, NEW hour \in Int,
         NEW due, due = {w \in TodayWindows : w <= hour /\ ~ Past(w) \subseteq S},
         due # {}, NEW first, first = CHOOSE w \in due : \A v \in due : w <= v
  PROVE  first \in TodayWindows /\ first \notin S
<1>1. \E w \in due : \A v \in due : w <= v
  <2>1. due \subseteq {0, 6, 8}
    BY VcWindowsAre
  <2>2. QED
    BY <2>1
<1>2. first \in due /\ \A v \in due : first <= v
  BY <1>1
<1>3. first \in {0, 6, 8} /\ first <= hour /\ ~ Past(first) \subseteq S
  BY <1>2, VcWindowsAre
<1>4. CASE first = 0
  BY <1>3, <1>4, VcWindowsAre
<1>5. CASE first = 6
  <2>1. 0 \notin due
    BY <1>2, <1>5
  <2>2. 0 \in S
    BY <1>3, <1>5, <2>1, VcWindowsAre
  <2>3. QED
    BY <1>3, <1>5, <2>2, VcWindowsAre
<1>6. CASE first = 8
  <2>1. 6 \notin due
    BY <1>2, <1>6
  <2>2. 0 \in S /\ 6 \in S
    BY <1>3, <1>6, <2>1, VcWindowsAre
  <2>3. QED
    BY <1>3, <1>6, <2>2, VcWindowsAre
<1>7. QED
  BY <1>3, <1>4, <1>5, <1>6

LEMMA CountIs ==
  ASSUME NEW times \in [VcDates \X TodayWindows -> Nat], NEW date \in VcDates, NEW window
  PROVE  Count(times, date, window) \in [VcDates \X TodayWindows -> Nat]
<1>1. \A x \in VcDates \X TodayWindows : times[x] \in Nat
  OBVIOUS
<1>2. QED
  BY <1>1 DEF Count

\* What Count does to a key x, which is a name for the provers' sake.
LEMMA CountAt ==
  ASSUME NEW times \in [VcDates \X TodayWindows -> Nat], NEW date \in VcDates, NEW window,
         NEW d \in VcDates, NEW w \in TodayWindows, NEW x, x = <<d, w>>
  PROVE  Count(times, date, window)[x] =
           IF d = date /\ w = window THEN times[x] + 1 ELSE times[x]
<1> DEFINE key == <<date, window>>
<1>1. x \in VcDates \X TodayWindows /\ (x = key <=> d = date /\ w = window)
  OBVIOUS
<1>2. CASE window \notin TodayWindows
  BY <1>1, <1>2 DEF Count
<1>3. CASE window \in TodayWindows
  <2>1. Count(times, date, window) = [times EXCEPT ![key] = times[key] + 1]
    BY <1>3 DEF Count
  <2> HIDE DEF key
  <2>2. QED
    BY <1>1, <2>1
<1>4. QED
  BY <1>2, <1>3

LEMMA VcInvInit == VcInit => VcInv
<1> SUFFICES ASSUME VcInit PROVE VcInv
  OBVIOUS
<1>1. DOMAIN vc_scraped = {}
  BY DEF VcInit
<1>2. VcTypes
  BY <1>1, VcAssumption, NoRunIs DEF VcInit, VcTypes, VcAllWindows, VcKeys
<1>3. VcRuns
  BY DEF VcInit, VcRuns
<1>4. ASSUME NEW d \in VcDates PROVE RecordAt(d) /\ \A w \in VcAllWindows : ~ Kept(d, w)
  BY <1>1, <1>4 DEF VcInit, RecordAt, Kept, InMemory
<1>5. ASSUME NEW d \in VcDates, NEW w \in TodayWindows PROVE scrapes[<<d, w>>] = 0 /\ wasted[<<d, w>>] = 0
  BY <1>5 DEF VcInit
<1>6. ASSUME NEW d \in VcDates, NEW w \in VcAllWindows PROVE ScrapesAt(d, w) /\ LinksAt(d, w)
  BY <1>4, <1>5 DEF ScrapesAt, LinksAt, BeingStored, VcInit
<1>7. QED
  BY <1>2, <1>3, <1>4, <1>6 DEF VcInv

\* What a step of the thread that writes neither history nor tables keeps.
LEMMA VcNothingWritten ==
  ASSUME VcInv, UNCHANGED <<vcTableVars, vcHistoryVars>>,
         \A d \in VcDates, w \in TodayWindows : BeingStored(d, w)' <=> BeingStored(d, w)
  PROVE  \A d \in VcDates :
           RecordAt(d)' /\ \A w \in VcAllWindows : ScrapesAt(d, w)' /\ LinksAt(d, w)'
<1> SUFFICES ASSUME NEW d \in VcDates, NEW w \in VcAllWindows
             PROVE RecordAt(d)' /\ ScrapesAt(d, w)' /\ LinksAt(d, w)'
  BY VcWindowsAre
<1>1. RecordAt(d) /\ ScrapesAt(d, w) /\ LinksAt(d, w)
  BY DEF VcInv
<1>2. UNCHANGED <<vc_scraped, vc_recorded, vc_links, scrapes, wasted, found>>
  BY DEF vcTableVars, vcHistoryVars
<1>3. Kept(d, w)' <=> Kept(d, w)
  BY <1>2 DEF Kept, InMemory
<1>4. RecordAt(d)' /\ LinksAt(d, w)'
  BY <1>1, <1>2, <1>3 DEF RecordAt, LinksAt
<1>5. ScrapesAt(d, w)'
  BY <1>1, <1>2, <1>3 DEF ScrapesAt
<1>6. QED
  BY <1>4, <1>5

\* What a look-up of the windows of a date keeps.
LEMMA VcLookUp ==
  ASSUME VcInv, NEW date \in VcDates, vc_scraped' = LookedUp(date),
         UNCHANGED <<vc_recorded, vc_links, vcHistoryVars>>,
         vc # "store", vc' # "store"
  PROVE  /\ DOMAIN vc_scraped' \subseteq VcDates /\ date \in DOMAIN vc_scraped'
         /\ \A e \in DOMAIN vc_scraped' : vc_scraped'[e] \subseteq VcAllWindows
         /\ \A d \in VcDates :
              RecordAt(d)' /\ \A w \in VcAllWindows : ScrapesAt(d, w)' /\ LinksAt(d, w)'
<1>1. /\ DOMAIN vc_scraped' = DOMAIN vc_scraped \cup {date}
      /\ \A e \in DOMAIN vc_scraped : vc_scraped'[e] = vc_scraped[e]
      /\ date \notin DOMAIN vc_scraped => vc_scraped'[date] = vc_recorded[date]
  BY LookedUpIs
<1>2. VcTypes
  BY DEF VcInv
<1>3. vc_recorded[date] \subseteq VcAllWindows /\ DOMAIN vc_scraped \subseteq VcDates
      /\ \A e \in DOMAIN vc_scraped : vc_scraped[e] \subseteq VcAllWindows
  BY <1>2 DEF VcTypes
<1>4. ASSUME NEW d \in VcDates, NEW w \in VcAllWindows
      PROVE RecordAt(d)' /\ ScrapesAt(d, w)' /\ LinksAt(d, w)'
  <2>1. RecordAt(d) /\ ScrapesAt(d, w) /\ LinksAt(d, w)
    BY DEF VcInv
  <2>2. Kept(d, w)' <=> Kept(d, w)
    BY <1>1 DEF Kept, InMemory
  <2>3. UNCHANGED <<vc_recorded, vc_links, scrapes, wasted, found>>
    BY DEF vcHistoryVars
  <2>4. RecordAt(d)'
    BY <1>1, <2>1, <2>3 DEF RecordAt
  <2>5. LinksAt(d, w)'
    BY <2>1, <2>2, <2>3 DEF LinksAt
  <2>6. ScrapesAt(d, w)'
    BY <2>1, <2>2, <2>3 DEF ScrapesAt, BeingStored
  <2>7. QED
    BY <2>4, <2>5, <2>6
<1>5. VcAllWindows # {}
  BY VcWindowsAre
<1>6. QED
  BY <1>1, <1>3, <1>4, <1>5

LEMMA VcTodayKept == VcInv /\ VcToday => VcInv'
<1> SUFFICES ASSUME VcInv, VcToday PROVE VcInv'
  OBVIOUS
<1> DEFINE d == vc_run.date
           S == LookedUp(d)[d]
           due == {w \in TodayWindows : w <= vc_run.hour /\ ~ Past(w) \subseteq S}
           first == CHOOSE w \in due : \A v \in due : w <= v
<1>1. /\ vc = "today" /\ vc_scraped' = LookedUp(d)
      /\ UNCHANGED <<vcInstant, vc_recorded, vc_links, vcFaults, vcHistoryVars>>
      /\ IF due = {} THEN vc' = "tomorrow" /\ UNCHANGED vc_run
         ELSE vc' = "scrape" /\ vc_run' = [vc_run EXCEPT !.window = first]
  BY DEF VcToday, _should_scrape_vc
<1>2. VcTypes /\ VcRuns
  BY DEF VcInv
<1>3. d \in VcDays /\ d \in VcDates /\ vc_run \in VcRunType
  BY <1>1, <1>2, VcDatesAre DEF VcRuns, VcTypes
<1>4. vc_run.hour \in Int /\ vc_run.hour \in 0 .. 23
  BY <1>3 DEF VcRunType
<1> HIDE DEF first, due, S
<1>5. due # {} => first \in TodayWindows /\ first \notin S
  BY <1>4, FirstDueIsNew DEF first, due
<1>6. vc' # "store" /\ vc # "store"
  BY <1>1
<1>7. /\ DOMAIN vc_scraped' \subseteq VcDates /\ d \in DOMAIN vc_scraped'
      /\ \A e \in DOMAIN vc_scraped' : vc_scraped'[e] \subseteq VcAllWindows
      /\ \A e \in VcDates :
           RecordAt(e)' /\ \A w \in VcAllWindows : ScrapesAt(e, w)' /\ LinksAt(e, w)'
  BY <1>1, <1>3, <1>6, VcLookUp
<1>8. /\ vc_run' \in VcRunType /\ vc_run'.links \subseteq vc_run'.list
      /\ vc_run'.date = d
      /\ vc' = "scrape" => vc_run'.window = first /\ due # {}
      /\ vc' \in {"tomorrow", "scrape"}
  <2>1. CASE due = {}
    BY <1>1, <1>2, <1>3, <2>1 DEF VcTypes
  <2>2. CASE due # {}
    <3>1. vc_run' = [vc_run EXCEPT !.window = first] /\ vc' = "scrape" /\ first \in VcAllWindows
      BY <1>1, <1>5, <2>2, VcWindowsAre
    <3>2. vc_run.links \subseteq vc_run.list
      BY <1>2 DEF VcTypes
    <3>3. QED
      BY <1>3, <2>2, <3>1, <3>2 DEF VcRunType
  <2>3. QED
    BY <2>1, <2>2
<1>9. VcTypes'
  BY <1>1, <1>2, <1>7, <1>8 DEF VcTypes, vcHistoryVars
<1>10. VcRuns'
  <2>1. vc_scraped'[d] = S
    BY <1>1 DEF S
  <2>2. QED
    BY <1>3, <1>5, <1>7, <1>8, <2>1 DEF VcRuns
<1>11. QED
  BY <1>7, <1>9, <1>10 DEF VcInv

LEMMA VcTomorrowKept == VcInv /\ VcTomorrow => VcInv'
<1> SUFFICES ASSUME VcInv, VcTomorrow PROVE VcInv'
  OBVIOUS
<1> DEFINE d == vc_run.date + 1
<1>1. /\ vc = "tomorrow" /\ UNCHANGED <<vcInstant, vc_recorded, vc_links, vcFaults, vcHistoryVars>>
      /\ vc_scraped' = vc_scraped \/ vc_scraped' = LookedUp(d)
      /\ \/ vc' = "asleep" /\ vc_run' = NoRun
         \/ /\ vc' = "scrape" /\ vc_run' = [vc_run EXCEPT !.date = d, !.window = TomorrowWindow]
            /\ vc_scraped' = LookedUp(d)
  BY DEF VcTomorrow
<1>2. VcTypes /\ VcRuns
  BY DEF VcInv
<1>3. d \in VcDates /\ vc_run \in VcRunType
  BY <1>1, <1>2, VcDatesAre DEF VcRuns, VcTypes
<1> HIDE DEF d
<1>4. /\ DOMAIN vc_scraped' \subseteq VcDates /\ (vc_scraped' = LookedUp(d) => d \in DOMAIN vc_scraped')
      /\ \A e \in DOMAIN vc_scraped' : vc_scraped'[e] \subseteq VcAllWindows
      /\ \A e \in VcDates :
           RecordAt(e)' /\ \A w \in VcAllWindows : ScrapesAt(e, w)' /\ LinksAt(e, w)'
  <2>1. vc' # "store" /\ vc # "store"
    BY <1>1
  <2>2. CASE vc_scraped' = LookedUp(d)
    BY <1>1, <1>3, <2>1, <2>2, VcLookUp
  <2>3. CASE vc_scraped' = vc_scraped /\ vc_scraped' # LookedUp(d)
    <3>1. UNCHANGED <<vcTableVars, vcHistoryVars>>
      BY <1>1, <2>3 DEF vcTableVars
    <3>2. \A e \in VcDates :
            RecordAt(e)' /\ \A w \in VcAllWindows : ScrapesAt(e, w)' /\ LinksAt(e, w)'
      BY <2>1, <3>1, VcNothingWritten DEF BeingStored
    <3>3. QED
      BY <1>2, <2>3, <3>2 DEF VcTypes
  <2>4. QED
    BY <1>1, <2>2, <2>3
<1>5. /\ vc_run' \in VcRunType /\ vc_run'.links \subseteq vc_run'.list
      /\ vc' \in {"asleep", "scrape"}
      /\ vc' = "scrape" => vc_run'.window = TomorrowWindow /\ vc_run'.date = d
                           /\ vc_scraped' = LookedUp(d)
  <2>1. CASE vc' = "asleep" /\ vc_run' = NoRun
    BY <2>1, NoRunIs
  <2>2. CASE vc' = "scrape" /\ vc_run' = [vc_run EXCEPT !.date = d, !.window = TomorrowWindow]
             /\ vc_scraped' = LookedUp(d)
    <3>1. vc_run.links \subseteq vc_run.list /\ TomorrowWindow \in VcAllWindows
      BY <1>2 DEF VcTypes, VcAllWindows
    <3>2. QED
      BY <1>3, <2>2, <3>1 DEF VcRunType
  <2>3. QED
    BY <1>1, <2>1, <2>2
<1>6. VcTypes'
  BY <1>1, <1>2, <1>4, <1>5 DEF VcTypes, vcHistoryVars
<1>7. VcRuns'
  BY <1>3, <1>4, <1>5, VcWindowsAre DEF VcRuns
<1>8. QED
  BY <1>4, <1>6, <1>7 DEF VcInv

\* The clock, waking up, what fails of a look-up, and the start of a process.
LEMMA VcIdleKept ==
  ASSUME VcInv, VcLater \/ VcWake \/ LookUpFails \/ VcStarts \/ UNCHANGED vcVars
  PROVE  VcInv'
<1>1. VcTypes /\ VcRuns
  BY DEF VcInv
<1>2. UNCHANGED <<vcTableVars, vcHistoryVars>>
  BY DEF VcLater, VcWake, LookUpFails, VcStarts, vcVars, vcTableVars, vcHistoryVars
<1>3. /\ vcInstant' \in DOMAIN VcInstants /\ vcFaults' \in 0 .. MaxVcFaults
      /\ vc' \in {"asleep", "today", "tomorrow", "scrape", "store", "record", "ended"}
  BY <1>1, VcAssumption DEF VcLater, VcWake, LookUpFails, VcStarts, VcFault, VcTypes, vcVars
<1>4. /\ vc_run' \in VcRunType /\ vc_run'.links \subseteq vc_run'.list
      /\ UNCHANGED <<vc, vc_run>> \/ vc' \in {"asleep", "ended"}
                                \/ (vc' = "today" /\ vc_run'.date \in VcDays)
      /\ UNCHANGED <<vc, vc_run>> \/ (vc # "store" /\ vc' # "store")
  <2>1. CASE VcWake
    <3>1. vc_run' = [NoRun EXCEPT !.date = VcNowDay, !.hour = VcNowHour]
      BY <2>1 DEF VcWake
    <3>2. VcNowDay \in VcDays /\ VcNowHour \in 0 .. 23
      BY <1>1, VcInstantsAre DEF VcTypes, VcNowDay, VcNowHour, VcDays
    <3>3. VcNowDay \in VcDates
      BY <3>2, VcDatesAre
    <3>4. vc_run' \in VcRunType /\ vc_run'.links \subseteq vc_run'.list /\ vc_run'.date = VcNowDay
      BY <3>1, <3>2, <3>3, NoRunIs DEF VcRunType
    <3>5. QED
      BY <2>1, <3>2, <3>4 DEF VcWake
  <2>2. CASE LookUpFails
    BY <2>2, NoRunIs DEF LookUpFails
  <2>3. CASE VcStarts
    BY <1>1, <2>3 DEF VcStarts, VcTypes
  <2>4. CASE VcLater \/ UNCHANGED vcVars
    BY <1>1, <2>4 DEF VcLater, vcVars, VcTypes
  <2>5. QED
    BY <2>1, <2>2, <2>3, <2>4
<1>5. VcTypes'
  BY <1>1, <1>2, <1>3, <1>4 DEF VcTypes, vcTableVars, vcHistoryVars
<1>6. VcRuns'
  BY <1>1, <1>2, <1>4 DEF VcRuns, vcTableVars
<1>7. \A d \in VcDates, w \in TodayWindows : BeingStored(d, w)' <=> BeingStored(d, w)
  BY <1>4 DEF BeingStored
<1>8. QED
  BY <1>2, <1>5, <1>6, <1>7, VcNothingWritten DEF VcInv

LEMMA VcScrapeKept == VcInv /\ scrape_vc_links => VcInv'
<1> SUFFICES ASSUME VcInv, scrape_vc_links PROVE VcInv'
  OBVIOUS
<1> DEFINE date == vc_run.date
           window == vc_run.window
<1>1. PICK list \in SUBSET CourtRooms : vc_run' = [vc_run EXCEPT !.list = list, !.links = list]
  BY DEF scrape_vc_links
<1>2. /\ vc = "scrape" /\ vc' = "store"
      /\ scrapes' = Count(scrapes, date, window)
      /\ UNCHANGED <<vcInstant, vc_scraped, vc_recorded, vc_links, vcFaults, wasted, found>>
  BY DEF scrape_vc_links, vcTableVars
<1>3. VcTypes /\ VcRuns
  BY DEF VcInv
<1>4. vc_run \in VcRunType
  BY <1>3 DEF VcTypes
<1>5. /\ vc_run' \in VcRunType /\ vc_run'.links = list /\ vc_run'.list = list
      /\ vc_run'.date = date /\ vc_run'.window = window
      /\ window \in VcAllWindows
  BY <1>1, <1>4 DEF VcRunType
<1>6. date \in DOMAIN vc_scraped /\ date \in VcDates
      /\ (window \in TodayWindows => date \in VcDays /\ window \notin vc_scraped[date])
  BY <1>2, <1>3 DEF VcRuns, VcTypes
<1> HIDE DEF date, window
<1>7. scrapes \in [VcDates \X TodayWindows -> Nat]
  BY <1>3 DEF VcTypes
<1>8. /\ scrapes' \in [VcDates \X TodayWindows -> Nat]
      /\ \A d \in VcDates, w \in TodayWindows :
           scrapes'[<<d, w>>] = scrapes[<<d, w>>] + IF d = date /\ w = window THEN 1 ELSE 0
  <2>1. Count(scrapes, date, window) \in [VcDates \X TodayWindows -> Nat]
    BY <1>6, <1>7, CountIs
  <2>2. ASSUME NEW d \in VcDates, NEW w \in TodayWindows
        PROVE scrapes'[<<d, w>>] = scrapes[<<d, w>>] + IF d = date /\ w = window THEN 1 ELSE 0
    <3> DEFINE x == <<d, w>>
    <3>1. x = <<d, w>> /\ scrapes[x] \in Nat
      BY <1>7
    <3> HIDE DEF x
    <3>2. Count(scrapes, date, window)[x] = IF d = date /\ w = window THEN scrapes[x] + 1 ELSE scrapes[x]
      BY <1>6, <1>7, <3>1, CountAt
    <3>3. scrapes'[x] = scrapes[x] + IF d = date /\ w = window THEN 1 ELSE 0
      BY <1>2, <3>1, <3>2
    <3>4. QED
      BY <3>3 DEF x
  <2>3. QED
    BY <1>2, <2>1, <2>2
<1>9. VcTypes'
  BY <1>2, <1>3, <1>5, <1>8 DEF VcTypes
<1>10. VcRuns'
  BY <1>2, <1>5, <1>6 DEF VcRuns
<1>11. ASSUME NEW d \in VcDates, NEW w \in VcAllWindows
       PROVE RecordAt(d)' /\ ScrapesAt(d, w)' /\ LinksAt(d, w)'
  <2>1. RecordAt(d) /\ ScrapesAt(d, w) /\ LinksAt(d, w) /\ RecordAt(date)
    BY <1>6 DEF VcInv
  <2>2. Kept(d, w)' <=> Kept(d, w)
    BY <1>2 DEF Kept, InMemory
  <2>3. RecordAt(d)' /\ LinksAt(d, w)'
    BY <1>2, <2>1, <2>2 DEF RecordAt, LinksAt
  <2>4. ASSUME w \in TodayWindows
        PROVE scrapes'[<<d, w>>] = wasted'[<<d, w>>] + IF Kept(d, w)' \/ BeingStored(d, w)' THEN 1 ELSE 0
    <3>1. scrapes[<<d, w>>] \in Nat /\ wasted[<<d, w>>] \in Nat /\ wasted' = wasted
      BY <1>2, <1>3, <2>4 DEF VcTypes
    <3>2. ~ BeingStored(d, w) /\ (BeingStored(d, w)' <=> d = date /\ w = window)
      BY <1>2, <1>5 DEF BeingStored
    <3>3. d = date /\ w = window => ~ Kept(d, w)
      BY <1>6, <2>1, <2>4 DEF Kept, InMemory, RecordAt
    <3>4. scrapes'[<<d, w>>] = scrapes[<<d, w>>] + IF d = date /\ w = window THEN 1 ELSE 0
      BY <1>8, <2>4
    <3>5. scrapes[<<d, w>>] = wasted[<<d, w>>] + IF Kept(d, w) THEN 1 ELSE 0
      BY <2>1, <2>4, <3>2 DEF ScrapesAt
    <3>6. QED
      BY <2>2, <3>1, <3>2, <3>3, <3>4, <3>5
  <2>5. QED
    BY <2>3, <2>4 DEF ScrapesAt
<1>12. QED
  BY <1>9, <1>10, <1>11, VcWindowsAre DEF VcInv

LEMMA VcUpsertKept == VcInv /\ (\E room \in CourtRooms : upsert_vc_zoom_link(room)) => VcInv'
<1> SUFFICES ASSUME VcInv, NEW room \in CourtRooms, upsert_vc_zoom_link(room) PROVE VcInv'
  OBVIOUS
<1>1. /\ vc = "store" /\ vc' = "store" /\ room \in vc_run.links
      /\ vc_links' = [vc_links EXCEPT ![vc_run.date] = @ \cup {room}]
      /\ vc_run' = [vc_run EXCEPT !.links = @ \ {room}]
      /\ UNCHANGED <<vcInstant, vc_scraped, vc_recorded, vcFaults, scrapes, wasted, found>>
  BY DEF upsert_vc_zoom_link, vcHistoryVars
<1>2. VcTypes /\ VcRuns
  BY DEF VcInv
<1>3. vc_run \in VcRunType /\ vc_run.date \in DOMAIN vc_scraped /\ vc_run.date \in VcDates
      /\ vc_run.list \ vc_run.links \subseteq vc_links[vc_run.date]
      /\ vc_run.links \subseteq vc_run.list
  BY <1>1, <1>2 DEF VcTypes, VcRuns
<1>4. /\ vc_run' \in VcRunType /\ vc_run'.links = vc_run.links \ {room}
      /\ vc_run'.list = vc_run.list /\ vc_run'.date = vc_run.date /\ vc_run'.window = vc_run.window
  BY <1>1, <1>3 DEF VcRunType
<1>5. vc_links' \in [VcDates -> SUBSET CourtRooms]
      /\ vc_links'[vc_run.date] = vc_links[vc_run.date] \cup {room}
      /\ \A d \in VcDates : vc_links[d] \subseteq vc_links'[d]
  BY <1>1, <1>2, <1>3 DEF VcTypes
<1>6. VcTypes'
  BY <1>1, <1>2, <1>3, <1>4, <1>5 DEF VcTypes
<1>7. VcRuns'
  BY <1>1, <1>2, <1>3, <1>4, <1>5 DEF VcRuns
<1>8. ASSUME NEW d \in VcDates, NEW w \in VcAllWindows
      PROVE RecordAt(d)' /\ ScrapesAt(d, w)' /\ LinksAt(d, w)'
  <2>1. RecordAt(d) /\ ScrapesAt(d, w) /\ LinksAt(d, w)
    BY DEF VcInv
  <2>2. (Kept(d, w)' <=> Kept(d, w)) /\ (BeingStored(d, w)' <=> BeingStored(d, w))
    BY <1>1, <1>4 DEF Kept, InMemory, BeingStored
  <2>3. RecordAt(d)' /\ LinksAt(d, w)'
    BY <1>1, <1>5, <2>1, <2>2 DEF RecordAt, LinksAt
  <2>4. ScrapesAt(d, w)'
    BY <1>1, <2>1, <2>2 DEF ScrapesAt
  <2>5. QED
    BY <2>3, <2>4
<1>9. QED
  BY <1>6, <1>7, <1>8, VcWindowsAre DEF VcInv

LEMMA VcMarkKept == VcInv /\ _mark_vc_scraped => VcInv'
<1> SUFFICES ASSUME VcInv, _mark_vc_scraped PROVE VcInv'
  OBVIOUS
<1> DEFINE date == vc_run.date
           window == vc_run.window
<1>1. /\ vc = "store" /\ vc' = "record" /\ vc_run.links = {}
      /\ vc_scraped' = [vc_scraped EXCEPT ![date] = @ \cup {window}]
      /\ found' = [found EXCEPT ![<<date, window>>] = vc_run.list]
      /\ UNCHANGED <<vcInstant, vc_run, vc_recorded, vc_links, vcFaults, scrapes, wasted>>
  BY DEF _mark_vc_scraped
<1>2. VcTypes /\ VcRuns
  BY DEF VcInv
<1>3. /\ date \in DOMAIN vc_scraped /\ date \in VcDates /\ window \in VcAllWindows
      /\ window \in TodayWindows => date \in VcDays
      /\ vc_run.list \subseteq vc_links[date] /\ vc_run.list \subseteq CourtRooms
  <2>1. window \in VcAllWindows /\ vc_run.list \subseteq CourtRooms
    BY <1>2 DEF VcTypes, VcRunType
  <2>2. QED
    BY <1>1, <1>2, <2>1 DEF VcTypes, VcRuns
<1> HIDE DEF date, window
<1>4. /\ DOMAIN vc_scraped' = DOMAIN vc_scraped
      /\ \A e \in DOMAIN vc_scraped : vc_scraped'[e] = IF e = date THEN vc_scraped[e] \cup {window}
                                                     ELSE vc_scraped[e]
  BY <1>1
<1>5. /\ found' \in [VcKeys -> SUBSET CourtRooms]
      /\ \A d \in VcDates, w \in VcAllWindows :
           found'[<<d, w>>] = IF d = date /\ w = window THEN vc_run.list ELSE found[<<d, w>>]
  BY <1>1, <1>2, <1>3 DEF VcTypes, VcKeys, VcAllWindows
<1>6. VcTypes'
  BY <1>1, <1>2, <1>3, <1>4, <1>5 DEF VcTypes
<1>7. VcRuns'
  BY <1>1, <1>3, <1>4 DEF VcRuns, date, window
<1>8. ASSUME NEW d \in VcDates, NEW w \in VcAllWindows
      PROVE RecordAt(d)' /\ ScrapesAt(d, w)' /\ LinksAt(d, w)'
  <2>1. RecordAt(d) /\ ScrapesAt(d, w) /\ LinksAt(d, w)
    BY DEF VcInv
  <2>2. Kept(d, w)' <=> Kept(d, w) \/ (d = date /\ w = window)
    BY <1>1, <1>3, <1>4 DEF Kept, InMemory
  <2>3. ~ BeingStored(d, w)' /\ (BeingStored(d, w) <=> d = date /\ w = window)
    BY <1>1 DEF BeingStored, date, window
  <2>4. RecordAt(d)'
    BY <1>1, <1>4, <2>1 DEF RecordAt
  <2>5. LinksAt(d, w)'
    BY <1>1, <1>3, <1>5, <2>1, <2>2 DEF LinksAt
  <2>6. ScrapesAt(d, w)'
    BY <1>1, <2>1, <2>2, <2>3 DEF ScrapesAt
  <2>7. QED
    BY <2>4, <2>5, <2>6
<1>9. QED
  BY <1>6, <1>7, <1>8, VcWindowsAre DEF VcInv

\* What the run is about when a scrape is over.
LEMMA VcOver ==
  ASSUME VcTypes, VcRuns, vc \in {"scrape", "store", "record"}, ScrapeOver
  PROVE  /\ vc' \in {"asleep", "tomorrow"}
         /\ vc_run' \in VcRunType /\ vc_run'.links \subseteq vc_run'.list
         /\ vc' = "tomorrow" => vc_run'.date \in VcDays
<1>1. CASE vc_run.window = TomorrowWindow
  BY <1>1, NoRunIs DEF ScrapeOver
<1>2. CASE vc_run.window # TomorrowWindow
  <2>1. vc' = "tomorrow" /\ vc_run' = [vc_run EXCEPT !.window = 0, !.list = {}, !.links = {}]
    BY <1>2 DEF ScrapeOver
  <2>2. vc_run \in VcRunType /\ vc_run.window \in VcAllWindows
    BY DEF VcTypes, VcRunType
  <2>3. vc_run.date \in VcDays
    BY <1>2, <2>2 DEF VcRuns, VcAllWindows
  <2>4. vc_run' \in VcRunType /\ vc_run'.links = {} /\ vc_run'.date = vc_run.date
    BY <2>1, <2>2, VcWindowsAre DEF VcRunType
  <2>5. QED
    BY <2>1, <2>3, <2>4
<1>3. QED
  BY <1>1, <1>2

LEMMA VcRecordKept == VcInv /\ VcRecord => VcInv'
<1> SUFFICES ASSUME VcInv, VcRecord PROVE VcInv'
  OBVIOUS
<1> DEFINE date == vc_run.date
<1>1. /\ vc = "record" /\ ScrapeOver
      /\ vc_recorded' = [vc_recorded EXCEPT ![date] = vc_scraped[date]]
      /\ UNCHANGED <<vcInstant, vc_scraped, vc_links, vcFaults, scrapes, wasted, found>>
  BY DEF VcRecord, vcHistoryVars
<1>2. VcTypes /\ VcRuns
  BY DEF VcInv
<1>3. date \in DOMAIN vc_scraped /\ date \in VcDates /\ vc_scraped[date] \subseteq VcAllWindows
  BY <1>1, <1>2 DEF VcTypes, VcRuns
<1>4. /\ vc' \in {"asleep", "tomorrow"}
      /\ vc_run' \in VcRunType /\ vc_run'.links \subseteq vc_run'.list
      /\ vc' = "tomorrow" => vc_run'.date \in VcDays
  BY <1>1, <1>2, VcOver
<1> HIDE DEF date
<1>5. /\ vc_recorded' \in [VcDates -> SUBSET VcAllWindows]
      /\ \A d \in VcDates : vc_recorded'[d] = IF d = date THEN vc_scraped[d] ELSE vc_recorded[d]
  BY <1>1, <1>2, <1>3 DEF VcTypes
<1>6. VcTypes'
  BY <1>1, <1>2, <1>4, <1>5 DEF VcTypes
<1>7. VcRuns'
  BY <1>4 DEF VcRuns
<1>8. ASSUME NEW d \in VcDates, NEW w \in VcAllWindows
      PROVE RecordAt(d)' /\ ScrapesAt(d, w)' /\ LinksAt(d, w)'
  <2>1. RecordAt(d) /\ ScrapesAt(d, w) /\ LinksAt(d, w)
    BY DEF VcInv
  <2>2. Kept(d, w)' <=> Kept(d, w)
    BY <1>1, <1>3, <1>5, <2>1 DEF Kept, InMemory, RecordAt
  <2>3. ~ BeingStored(d, w)' /\ ~ BeingStored(d, w)
    BY <1>1, <1>4 DEF BeingStored
  <2>4. RecordAt(d)' /\ LinksAt(d, w)'
    BY <1>1, <1>5, <2>1, <2>2 DEF RecordAt, LinksAt
  <2>5. ScrapesAt(d, w)'
    BY <1>1, <2>1, <2>2, <2>3 DEF ScrapesAt
  <2>6. QED
    BY <2>4, <2>5
<1>9. QED
  BY <1>6, <1>7, <1>8, VcWindowsAre DEF VcInv

\* What fails, or ends the process, wastes the scrape that is not marked yet; the end of
\* the process also those that are not on record.
LEMMA VcFailsKept == VcInv /\ ScrapeFails => VcInv'
<1> SUFFICES ASSUME VcInv, ScrapeFails PROVE VcInv'
  OBVIOUS
<1> DEFINE date == vc_run.date
           window == vc_run.window
<1>1. /\ vc \in {"scrape", "store", "record"} /\ ScrapeOver
      /\ vcFaults < MaxVcFaults /\ vcFaults' = vcFaults + 1
      /\ wasted' = IF vc = "store" THEN Count(wasted, date, window) ELSE wasted
      /\ UNCHANGED <<vcInstant, vc_scraped, vc_recorded, vc_links, scrapes, found>>
  BY DEF ScrapeFails, VcFault, vcTableVars
<1>2. VcTypes /\ VcRuns
  BY DEF VcInv
<1>3. date \in DOMAIN vc_scraped /\ date \in VcDates
      /\ (vc = "store" /\ window \in TodayWindows => window \notin vc_scraped[date])
  BY <1>1, <1>2 DEF VcTypes, VcRuns
<1>4. /\ vc' \in {"asleep", "tomorrow"}
      /\ vc_run' \in VcRunType /\ vc_run'.links \subseteq vc_run'.list
      /\ vc' = "tomorrow" => vc_run'.date \in VcDays
  BY <1>1, <1>2, VcOver
<1>5. \A d \in VcDates, w \in VcAllWindows :
        BeingStored(d, w) <=> vc = "store" /\ d = date /\ w = window
  BY DEF BeingStored
<1> HIDE DEF date, window
<1>6. /\ wasted' \in [VcDates \X TodayWindows -> Nat]
      /\ \A d \in VcDates, w \in TodayWindows :
           wasted'[<<d, w>>] = wasted[<<d, w>>] + IF vc = "store" /\ d = date /\ w = window THEN 1 ELSE 0
  <2>1. wasted \in [VcDates \X TodayWindows -> Nat]
    BY <1>2 DEF VcTypes
  <2>2. CASE vc = "store"
    <3>1. Count(wasted, date, window) \in [VcDates \X TodayWindows -> Nat]
      BY <1>3, <2>1, CountIs
    <3>2. ASSUME NEW d \in VcDates, NEW w \in TodayWindows
          PROVE wasted'[<<d, w>>] = wasted[<<d, w>>] + IF d = date /\ w = window THEN 1 ELSE 0
      <4> DEFINE x == <<d, w>>
      <4>1. x = <<d, w>> /\ wasted[x] \in Nat /\ date \in VcDates
        BY <1>3, <2>1
      <4> HIDE DEF x
      <4>2. Count(wasted, date, window)[x] = IF d = date /\ w = window THEN wasted[x] + 1 ELSE wasted[x]
        BY <1>3, <1>4, <1>5, <2>1, <4>1, CountAt, SMTT(40)
      <4>3. wasted'[x] = wasted[x] + IF d = date /\ w = window THEN 1 ELSE 0
        BY <1>1, <2>2, <4>1, <4>2
      <4>4. QED
        BY <4>3 DEF x
    <3>3. QED
      BY <1>1, <2>2, <3>1, <3>2
  <2>3. CASE vc # "store"
    <3>1. \A d \in VcDates, w \in TodayWindows : wasted[<<d, w>>] \in Nat
      BY <2>1
    <3>2. QED
      BY <1>1, <2>1, <2>3, <3>1
  <2>4. QED
    BY <2>2, <2>3
<1>7. VcTypes'
  BY <1>1, <1>2, <1>4, <1>6, VcAssumption DEF VcTypes
<1>8. VcRuns'
  BY <1>4 DEF VcRuns
<1>9. ASSUME NEW d \in VcDates, NEW w \in VcAllWindows
      PROVE RecordAt(d)' /\ ScrapesAt(d, w)' /\ LinksAt(d, w)'
  <2>1. RecordAt(d) /\ ScrapesAt(d, w) /\ LinksAt(d, w)
    BY DEF VcInv
  <2>2. Kept(d, w)' <=> Kept(d, w)
    BY <1>1 DEF Kept, InMemory
  <2>3. RecordAt(d)' /\ LinksAt(d, w)'
    BY <1>1, <2>1, <2>2 DEF RecordAt, LinksAt
  <2>4. ASSUME w \in TodayWindows
        PROVE scrapes'[<<d, w>>] = wasted'[<<d, w>>] + IF Kept(d, w)' \/ BeingStored(d, w)' THEN 1 ELSE 0
    <3>1. scrapes[<<d, w>>] \in Nat /\ wasted[<<d, w>>] \in Nat
      BY <1>2, <2>4 DEF VcTypes
    <3>2. ~ BeingStored(d, w)' /\ (BeingStored(d, w) => ~ Kept(d, w))
      BY <1>3, <1>4, <1>5, <2>1, <2>4 DEF BeingStored, Kept, InMemory, RecordAt
    <3>3. wasted'[<<d, w>>] = wasted[<<d, w>>] + IF BeingStored(d, w) THEN 1 ELSE 0
      BY <1>5, <1>6, <2>4
    <3>4. scrapes'[<<d, w>>] = wasted[<<d, w>>] + IF Kept(d, w) \/ BeingStored(d, w) THEN 1 ELSE 0
      BY <1>1, <2>1, <2>4 DEF ScrapesAt
    <3>5. QED
      BY <2>2, <3>1, <3>2, <3>3, <3>4
  <2>5. QED
    BY <2>3, <2>4 DEF ScrapesAt
<1>10. QED
  BY <1>7, <1>8, <1>9, VcWindowsAre DEF VcInv

LEMMA VcEndsKept == VcInv /\ VcEnds => VcInv'
<1> SUFFICES ASSUME VcInv, VcEnds PROVE VcInv'
  OBVIOUS
<1>1. /\ vc' = "ended" /\ vc_run' = NoRun /\ vc_scraped' = << >>
      /\ vcFaults < MaxVcFaults /\ vcFaults' = vcFaults + 1
      /\ UNCHANGED <<vcInstant, vc_recorded, vc_links, scrapes, found>>
  BY DEF VcEnds, VcFault
<1>2. VcTypes /\ VcRuns
  BY DEF VcInv
<1>3. DOMAIN vc_scraped' = {}
  BY <1>1
<1> DEFINE Lost(d, w) == BeingStored(d, w) \/ (InMemory(d, w) /\ w \notin vc_recorded[d])
<1>4. /\ wasted' \in [VcDates \X TodayWindows -> Nat]
      /\ \A d \in VcDates, w \in TodayWindows :
           wasted'[<<d, w>>] = wasted[<<d, w>>] + IF Lost(d, w) THEN 1 ELSE 0
  <2>1. wasted' = [x \in VcDates \X TodayWindows |->
          wasted[x] + IF \/ vc = "store" /\ x = <<vc_run.date, vc_run.window>>
                         \/ x[1] \in DOMAIN vc_scraped /\ x[2] \in vc_scraped[x[1]] \ vc_recorded[x[1]]
                      THEN 1 ELSE 0]
    BY DEF VcEnds
  <2>2. wasted \in [VcDates \X TodayWindows -> Nat]
    BY <1>2 DEF VcTypes
  <2>3. wasted' \in [VcDates \X TodayWindows -> Nat]
    BY <2>1, <2>2
  <2>4. ASSUME NEW d \in VcDates, NEW w \in TodayWindows
        PROVE wasted'[<<d, w>>] = wasted[<<d, w>>] + IF Lost(d, w) THEN 1 ELSE 0
    <3>1. <<d, w>> \in VcDates \X TodayWindows /\ <<d, w>>[1] = d /\ <<d, w>>[2] = w
      OBVIOUS
    <3>2. <<d, w>> = <<vc_run.date, vc_run.window>> <=> vc_run.date = d /\ vc_run.window = w
      OBVIOUS
    <3>3. wasted'[<<d, w>>] =
            wasted[<<d, w>>] + IF \/ vc = "store" /\ <<d, w>> = <<vc_run.date, vc_run.window>>
                                  \/ d \in DOMAIN vc_scraped /\ w \in vc_scraped[d] \ vc_recorded[d]
                               THEN 1 ELSE 0
      BY <2>1, <3>1
    <3>4. QED
      BY <3>2, <3>3 DEF BeingStored, InMemory
  <2>5. QED
    BY <2>3, <2>4
<1> HIDE DEF Lost
<1>5. VcTypes'
  BY <1>1, <1>2, <1>3, <1>4, NoRunIs, VcAssumption DEF VcTypes
<1>6. VcRuns'
  BY <1>1 DEF VcRuns
<1>7. ASSUME NEW d \in VcDates, NEW w \in VcAllWindows
      PROVE RecordAt(d)' /\ ScrapesAt(d, w)' /\ LinksAt(d, w)'
  <2>1. RecordAt(d) /\ ScrapesAt(d, w) /\ LinksAt(d, w)
    BY DEF VcInv
  <2>2. (Kept(d, w)' <=> w \in vc_recorded[d]) /\ (w \in vc_recorded[d] => Kept(d, w))
    BY <1>1, <1>3 DEF Kept, InMemory
  <2>3. RecordAt(d)' /\ LinksAt(d, w)'
    BY <1>1, <1>3, <2>1, <2>2 DEF RecordAt, LinksAt
  <2>4. ASSUME w \in TodayWindows
        PROVE scrapes'[<<d, w>>] = wasted'[<<d, w>>] + IF Kept(d, w)' \/ BeingStored(d, w)' THEN 1 ELSE 0
    <3>1. scrapes[<<d, w>>] \in Nat /\ wasted[<<d, w>>] \in Nat
      BY <1>2, <2>4 DEF VcTypes
    <3>2. ~ BeingStored(d, w)'
      BY <1>1 DEF BeingStored
    <3>3. Lost(d, w) <=> (Kept(d, w) \/ BeingStored(d, w)) /\ w \notin vc_recorded[d]
      BY <1>2, <2>1, <2>4 DEF Lost, Kept, InMemory, BeingStored, VcRuns, RecordAt
    <3>4. wasted'[<<d, w>>] = wasted[<<d, w>>] + IF Lost(d, w) THEN 1 ELSE 0
      BY <1>4, <2>4
    <3>5. scrapes'[<<d, w>>] = wasted[<<d, w>>] + IF Kept(d, w) \/ BeingStored(d, w) THEN 1 ELSE 0
      BY <1>1, <2>1, <2>4 DEF ScrapesAt
    <3>6. QED
      BY <2>2, <3>1, <3>2, <3>3, <3>4, <3>5
  <2>5. QED
    BY <2>3, <2>4 DEF ScrapesAt
<1>8. QED
  BY <1>5, <1>6, <1>7, VcWindowsAre DEF VcInv

LEMMA VcInvNext == VcInv /\ [VcNext]_vcVars => VcInv'
BY VcIdleKept, VcTodayKept, VcTomorrowKept, VcScrapeKept, VcUpsertKept, VcMarkKept, VcRecordKept,
   VcFailsKept, VcEndsKept
DEF VcNext

LEMMA VcInvBounds == VcInv => VcTypeOK /\ WindowsKept
<1> SUFFICES ASSUME VcInv PROVE VcTypeOK /\ WindowsKept
  OBVIOUS
<1>1. VcTypes
  BY DEF VcInv
<1>2. vc_run.date \in VcDates \cup {NoDay}
  BY <1>1 DEF VcTypes, VcRunType
<1>3. VcTypeOK
  BY <1>1, <1>2 DEF VcTypes, VcTypeOK, VcAllWindows
<1>4. WindowsKept
  <2> SUFFICES ASSUME NEW d \in VcDates
               PROVE  /\ \A w \in TodayWindows : scrapes[<<d, w>>] <= 1 + wasted[<<d, w>>]
                      /\ \A w \in vc_recorded[d] \cup (IF d \in DOMAIN vc_scraped THEN vc_scraped[d] ELSE {}) :
                           /\ w \in TodayWindows => scrapes[<<d, w>>] > wasted[<<d, w>>]
                           /\ found[<<d, w>>] \subseteq vc_links[d]
    BY DEF WindowsKept
  <2>1. \A w \in TodayWindows : scrapes[<<d, w>>] \in Nat /\ wasted[<<d, w>>] \in Nat
    BY <1>1 DEF VcTypes
  <2>2. \A w \in VcAllWindows : ScrapesAt(d, w) /\ LinksAt(d, w)
    BY DEF VcInv
  <2>3. \A w \in TodayWindows : scrapes[<<d, w>>] <= 1 + wasted[<<d, w>>]
    BY <2>1, <2>2 DEF ScrapesAt, VcAllWindows
  <2>4. ASSUME NEW w \in vc_recorded[d] \cup (IF d \in DOMAIN vc_scraped THEN vc_scraped[d] ELSE {})
        PROVE Kept(d, w) /\ w \in VcAllWindows
    BY <1>1 DEF VcTypes, Kept, InMemory
  <2>5. QED
    BY <2>1, <2>2, <2>3, <2>4 DEF ScrapesAt, LinksAt
<1>5. QED
  BY <1>3, <1>4

\* For any row of instants, rooms and faults, wherever the process ends: a window of today is
\* scraped once but for what was wasted, and what is marked has its links stored.
THEOREM WindowsCorrect == VcSpec => [](VcTypeOK /\ WindowsKept)
<1>1. QED
  BY VcInvInit, VcInvNext, VcInvBounds, PTL DEF VcSpec

-----------------------------------------------------------------------------
(* CaseHistory: who knew what there was is told what is new.               *)

LEMMA HistoriesAre ==
  /\ \A data \in Histories : data.hearing \in Nat /\ data.orders \in Nat
  /\ Nothing \in Histories /\ Nothing.hearing = 0 /\ Nothing.orders = 0
  /\ Contents \subseteq Histories /\ Histories \subseteq Knowledge
BY CaseHistoryAssumption DEF Histories, Nothing, Knowledge

LEMMA KnowledgeIs ==
  /\ NoIdea \in Knowledge /\ NoIdea.hearing = Unknown /\ NoIdea.orders = Unknown
  /\ Nothing \in Knowledge /\ Unknown \notin Nat
  /\ \A k \in Knowledge : k.hearing \in Nat \cup {Unknown} /\ k.orders \in Nat \cup {Unknown}
BY CaseHistoryAssumption DEF Knowledge, NoIdea, Nothing

FetchType ==
  [step : {"write", "learn"}, user : Followers, with_cino : BOOLEAN, data : Histories]

LEMMA FetchIs ==
  ASSUME NEW f \in FetchType \cup {NoFetch}, f.step \in {"write", "learn"}
  PROVE  f \in FetchType /\ f.data \in Histories /\ f.user \in Followers
BY DEF FetchType, NoFetch

\* The part of HistoryTypeOK that the rest needs.
NewsTypes ==
  /\ history \in Histories
  /\ followed \in [Followers -> {"no", "no_cino", "cino"}]
  /\ fetch \in FetchType \cup {NoFetch}
  /\ refresh_step \in {"idle", "old", "fetch", "set", "hearing", "orders"}
  /\ followers \subseteq Followers /\ untold \subseteq followers
  /\ old_data \in Histories /\ new_data \in Histories /\ order \in Nat
  /\ knows \in [Followers -> Knowledge]
  /\ refresh_step = "orders" => order > old_data.orders /\ order <= new_data.orders
  /\ refresh_step = "idle" => untold = {}

\* How many orders a user knows of who has known of all and is being told.
AtLeast(u) ==
  IF refresh_step = "orders" THEN IF u \in untold THEN order - 1 ELSE order
  ELSE IF refresh_step \in {"fetch", "set", "hearing"} THEN old_data.orders
  ELSE 0

\* The users a refresh does not know of know nothing; the others what was in the cache when
\* it was read, and then what they have been told; and what is in the cache now, but for
\* what they are still to be told.
StrangerAt(u) ==
  followed[u] # "cino" \/ (refresh_step # "idle" /\ u \notin followers) => knows[u] = NoIdea

HearingAt(u) ==
  /\ \/ refresh_step = "hearing" /\ u \in untold
     \/ history.hearing = 0
     \/ knows[u].hearing \in {history.hearing, Unknown}
  /\ refresh_step \in {"fetch", "set"} =>
       old_data.hearing = 0 \/ knows[u].hearing \in {old_data.hearing, Unknown}

OrdersAt(u) ==
  knows[u].orders # Unknown =>
    /\ knows[u].orders >= AtLeast(u)
    /\ \/ knows[u].orders >= history.orders
       \/ refresh_step \in {"hearing", "orders"} /\ history.orders <= new_data.orders

KnowsAt(u) == StrangerAt(u) /\ HearingAt(u) /\ OrdersAt(u)

NewsInv == NewsTypes /\ \A u \in Followers : KnowsAt(u)

LEMMA NewsInvInit == HistoryInit => NewsInv
<1> SUFFICES ASSUME HistoryInit PROVE NewsInv
  OBVIOUS
<1>1. NewsTypes
  BY HistoriesAre, KnowledgeIs DEF HistoryInit, NewsTypes, NoFetch
<1>2. ASSUME NEW u \in Followers PROVE KnowsAt(u)
  <2>1. refresh_step = "idle" /\ history = Nothing
    BY DEF HistoryInit
  <2>2. \/ followed[u] = "cino" /\ knows[u] = Nothing
        \/ knows[u] = NoIdea
    BY DEF HistoryInit
  <2>3. AtLeast(u) = 0
    BY <2>1 DEF AtLeast
  <2>4. QED
    BY <2>1, <2>2, <2>3, HistoriesAre, KnowledgeIs
    DEF KnowsAt, StrangerAt, HearingAt, OrdersAt
<1>3. QED
  BY <1>1, <1>2 DEF NewsInv

\* Steps that change neither what users know nor what there is to be known.
LEMMA NewsSame ==
  ASSUME NewsInv,
         UNCHANGED <<history, refresh_step, followers, old_data, new_data, order, untold>>,
         knows' \in [Followers -> Knowledge],
         followed' \in [Followers -> {"no", "no_cino", "cino"}],
         fetch' \in FetchType \cup {NoFetch},
         \A u \in Followers :
           \/ knows'[u] = knows[u] /\ (followed'[u] = "cino" <=> followed[u] = "cino")
           \/ knows'[u] = NoIdea
           \/ refresh_step = "idle" /\ knows'[u] = history /\ followed'[u] = "cino"
  PROVE  NewsInv'
<1>1. NewsTypes'
  BY DEF NewsInv, NewsTypes
<1>2. ASSUME NEW u \in Followers PROVE KnowsAt(u)'
  <2>1. KnowsAt(u) /\ AtLeast(u)' = AtLeast(u)
    BY DEF NewsInv, AtLeast
  <2>2. CASE knows'[u] = knows[u] /\ (followed'[u] = "cino" <=> followed[u] = "cino")
    BY <2>1, <2>2 DEF KnowsAt, StrangerAt, HearingAt, OrdersAt
  <2>3. CASE knows'[u] = NoIdea
    BY <2>3, KnowledgeIs DEF KnowsAt, StrangerAt, HearingAt, OrdersAt
  <2>4. CASE refresh_step = "idle" /\ knows'[u] = history /\ followed'[u] = "cino"
    <3>1. history'.hearing \in Nat /\ history'.orders \in Nat /\ AtLeast(u)' = 0
      BY <2>1, <2>4, HistoriesAre DEF NewsInv, NewsTypes, AtLeast
    <3>2. QED
      BY <2>4, <3>1 DEF KnowsAt, StrangerAt, HearingAt, OrdersAt
  <2>5. QED
    BY <2>2, <2>3, <2>4
<1>3. QED
  BY <1>1, <1>2 DEF NewsInv

LEMMA KnowsWithOne ==
  ASSUME NewsTypes, NEW u \in Followers, NEW k \in Knowledge, knows' = [knows EXCEPT ![u] = k]
  PROVE  /\ knows' \in [Followers -> Knowledge] /\ knows'[u] = k
         /\ \A w \in Followers \ {u} : knows'[w] = knows[w]
BY DEF NewsTypes

\* Requests, but for the writing of the cache; and the clock.
LEMMA NewsRequests ==
  ASSUME NewsInv,
         \/ \E u \in Followers :
              \/ \E how \in {"no_cino", "cino"} : Follow(u, how)
              \/ \E data \in Contents : fetch_ecourts(u, data)
              \/ Unfollow(u)
         \/ FetchLearns \/ FetchEcourtsFails \/ NextNight \/ UNCHANGED historyVars
  PROVE  NewsInv'
<1>1. NewsTypes /\ \A w \in Followers : StrangerAt(w)
  BY DEF NewsInv, KnowsAt
<1>2. UNCHANGED <<history, refresh_step, followers, old_data, new_data, order, untold>>
  BY DEF Follow, fetch_ecourts, Unfollow, FetchLearns, FetchEcourtsFails, NextNight, historyVars, refreshVars
<1> DEFINE Known == \A w \in Followers :
                      \/ knows'[w] = knows[w] /\ (followed'[w] = "cino" <=> followed[w] = "cino")
                      \/ knows'[w] = NoIdea
                      \/ refresh_step = "idle" /\ knows'[w] = history /\ followed'[w] = "cino"
           Types == /\ knows' \in [Followers -> Knowledge]
                    /\ followed' \in [Followers -> {"no", "no_cino", "cino"}]
                    /\ fetch' \in FetchType \cup {NoFetch}
<1>3. ASSUME NEW u \in Followers, NEW how \in {"no_cino", "cino"}, Follow(u, how)
      PROVE  Known /\ Types
  <2> DEFINE k == IF how = "no_cino" THEN NoIdea ELSE IF followed[u] = "cino" THEN knows[u] ELSE Sees
  <2>1. /\ followed' = [followed EXCEPT ![u] = how] /\ knows' = [knows EXCEPT ![u] = k]
        /\ UNCHANGED fetch
    BY <1>3 DEF Follow
  <2>2. Sees \in Knowledge /\ (Sees = NoIdea \/ (refresh_step = "idle" /\ Sees = history))
    BY <1>1, HistoriesAre, KnowledgeIs DEF Sees, NewsTypes
  <2>3. k \in Knowledge
    BY <1>1, <2>2, KnowledgeIs DEF NewsTypes
  <2>4. k = NoIdea \/ (k = knows[u] /\ followed[u] = "cino" /\ how = "cino")
        \/ (refresh_step = "idle" /\ k = history /\ how = "cino")
    BY <2>2
  <2> HIDE DEF k
  <2>5. /\ knows' \in [Followers -> Knowledge] /\ knows'[u] = k
        /\ \A w \in Followers \ {u} : knows'[w] = knows[w]
    BY <1>1, <2>1, <2>3, KnowsWithOne
  <2>6. /\ followed' \in [Followers -> {"no", "no_cino", "cino"}] /\ followed'[u] = how
        /\ \A w \in Followers \ {u} : followed'[w] = followed[w]
    BY <1>1, <2>1 DEF NewsTypes
  <2>7. QED
    BY <1>1, <2>1, <2>4, <2>5, <2>6 DEF NewsTypes
<1>4. ASSUME NEW u \in Followers, NEW data \in Contents, fetch_ecourts(u, data) PROVE Known /\ Types
  <2>1. /\ fetch' = [step |-> "write", user |-> u, with_cino |-> followed[u] = "cino", data |-> data]
        /\ UNCHANGED <<knows, followed>>
    BY <1>4 DEF fetch_ecourts
  <2>2. (followed[u] = "cino") \in BOOLEAN
    OBVIOUS
  <2>3. fetch' \in FetchType
    BY <2>1, <2>2, HistoriesAre DEF FetchType
  <2>4. QED
    BY <1>1, <2>1, <2>3 DEF NewsTypes
<1>5. ASSUME NEW u \in Followers, Unfollow(u) PROVE Known /\ Types
  <2>1. /\ followed' = [followed EXCEPT ![u] = "no"] /\ knows' = [knows EXCEPT ![u] = NoIdea]
        /\ UNCHANGED fetch
    BY <1>5 DEF Unfollow
  <2>2. /\ knows' \in [Followers -> Knowledge] /\ knows'[u] = NoIdea
        /\ \A w \in Followers \ {u} : knows'[w] = knows[w]
    BY <1>1, <2>1, KnowsWithOne, KnowledgeIs
  <2>3. /\ followed' \in [Followers -> {"no", "no_cino", "cino"}]
        /\ \A w \in Followers \ {u} : followed'[w] = followed[w]
    BY <1>1, <2>1 DEF NewsTypes
  <2>4. QED
    BY <1>1, <2>1, <2>2, <2>3 DEF NewsTypes
<1>6. ASSUME FetchLearns PROVE Known /\ Types
  <2>1. /\ fetch.step = "learn" /\ fetch' = NoFetch /\ UNCHANGED knows
        /\ followed' = IF followed[fetch.user] = "no" THEN followed
                       ELSE [followed EXCEPT ![fetch.user] = "cino"]
    BY <1>6 DEF FetchLearns
  <2>2. fetch.user \in Followers
    BY <1>1, <2>1, FetchIs DEF NewsTypes
  <2>3. Types
    BY <1>1, <2>1, <2>2 DEF NewsTypes
  <2>4. ASSUME NEW w \in Followers
        PROVE  \/ knows'[w] = knows[w] /\ (followed'[w] = "cino" <=> followed[w] = "cino")
               \/ knows'[w] = NoIdea
    <3>1. CASE followed[w] = "cino"
      BY <1>1, <2>1, <2>2, <3>1 DEF NewsTypes
    <3>2. CASE followed[w] # "cino"
      BY <1>1, <2>1, <3>2 DEF StrangerAt
    <3>3. QED
      BY <3>1, <3>2
  <2>5. QED
    BY <2>3, <2>4
<1>7. ASSUME FetchEcourtsFails \/ NextNight \/ UNCHANGED historyVars PROVE Known /\ Types
  BY <1>1, <1>7 DEF FetchEcourtsFails, NextNight, historyVars, NewsTypes
<1>8. Known /\ Types
  BY <1>3, <1>4, <1>5, <1>6, <1>7
<1>9. QED
  BY <1>2, <1>8, NewsSame

LEMMA NewsFetchWrites == NewsInv /\ FetchWrites => NewsInv'
<1> SUFFICES ASSUME NewsInv, FetchWrites PROVE NewsInv'
  OBVIOUS
<1>1. /\ fetch.step = "write" /\ history' = fetch.data
      /\ knows' = [u \in Followers |-> KnowsStill(knows[u], fetch.data)]
      /\ fetch' = IF fetch.with_cino THEN NoFetch ELSE [fetch EXCEPT !.step = "learn"]
      /\ UNCHANGED <<followed, refresh_step, followers, old_data, new_data, order, untold>>
  BY DEF FetchWrites, refreshVars
<1>2. NewsTypes
  BY DEF NewsInv
<1>3. fetch \in FetchType /\ fetch.data \in Histories
  BY <1>1, <1>2, FetchIs DEF NewsTypes
<1>4. fetch' \in FetchType \cup {NoFetch}
  BY <1>1, <1>3 DEF FetchType
<1>5. fetch.data.hearing \in Nat /\ fetch.data.orders \in Nat
  BY <1>3, HistoriesAre
<1>6. ASSUME NEW u \in Followers
      PROVE  /\ knows[u] \in Knowledge /\ knows'[u] \in Knowledge
             /\ knows'[u].hearing = IF knows[u].hearing = fetch.data.hearing THEN knows[u].hearing ELSE Unknown
             /\ knows'[u].orders = IF knows[u].orders = fetch.data.orders THEN knows[u].orders ELSE Unknown
             /\ knows[u] = NoIdea => knows'[u] = NoIdea
  <2>1. knows[u] \in Knowledge /\ knows'[u] = KnowsStill(knows[u], fetch.data)
    BY <1>1, <1>2 DEF NewsTypes
  <2>2. QED
    BY <1>5, <2>1, KnowledgeIs DEF KnowsStill, Knowledge, NoIdea
<1>7. knows' \in [Followers -> Knowledge]
  BY <1>1, <1>6
<1>8. NewsTypes'
  BY <1>1, <1>2, <1>3, <1>4, <1>7 DEF NewsTypes
<1>9. ASSUME NEW u \in Followers PROVE KnowsAt(u)'
  <2>1. KnowsAt(u) /\ AtLeast(u)' = AtLeast(u)
    BY <1>1 DEF NewsInv, AtLeast
  <2>2. StrangerAt(u)'
    BY <1>1, <1>6, <2>1 DEF KnowsAt, StrangerAt
  <2>3. HearingAt(u)'
    BY <1>1, <1>6, <2>1 DEF KnowsAt, HearingAt
  <2>4. OrdersAt(u)'
    BY <1>1, <1>5, <1>6, <2>1, KnowledgeIs DEF KnowsAt, OrdersAt
  <2>5. QED
    BY <2>2, <2>3, <2>4 DEF KnowsAt
<1>10. QED
  BY <1>8, <1>9 DEF NewsInv

\* The refresh until it has the new data, or has given up.
LEMMA NewsReads == NewsInv /\ (ListCases \/ ReadOld \/ FetchHistory \/ HistoryFails) => NewsInv'
<1> SUFFICES ASSUME NewsInv, ListCases \/ ReadOld \/ FetchHistory \/ HistoryFails PROVE NewsInv'
  OBVIOUS
<1>1. NewsTypes /\ UNCHANGED <<history, followed, fetch, knows>>
  BY DEF NewsInv, ListCases, ReadOld, FetchHistory, HistoryFails
<1>2. history.hearing \in Nat /\ history.orders \in Nat /\ Unknown \notin Nat
      /\ old_data.orders \in Nat
  BY <1>1, HistoriesAre, KnowledgeIs DEF NewsTypes
<1>3. CASE refresh_step' = "idle" /\ followers' = {} /\ untold' = {} /\ order' = 0
           /\ old_data' = Nothing /\ new_data' = Nothing /\ refresh_step \notin {"hearing", "orders"}
  <2>1. NewsTypes'
    BY <1>1, <1>3, HistoriesAre DEF NewsTypes
  <2>2. ASSUME NEW u \in Followers PROVE KnowsAt(u)'
    <3>1. KnowsAt(u) /\ AtLeast(u)' = 0 /\ knows[u].orders \in Nat \cup {Unknown}
      BY <1>1, <1>3, KnowledgeIs DEF NewsInv, AtLeast, NewsTypes
    <3>2. StrangerAt(u)' /\ HearingAt(u)'
      BY <1>1, <1>3, <3>1 DEF KnowsAt, StrangerAt, HearingAt
    <3>3. OrdersAt(u)'
      BY <1>1, <1>2, <1>3, <3>1 DEF KnowsAt, OrdersAt
    <3>4. QED
      BY <3>2, <3>3 DEF KnowsAt
  <2>3. QED
    BY <2>1, <2>2 DEF NewsInv
<1>4. CASE /\ refresh_step = "idle" /\ refresh_step' = "old"
           /\ followers' = {u \in Followers : followed[u] = "cino"}
           /\ UNCHANGED <<old_data, new_data, order, untold>>
  <2>1. untold' = {}
    BY <1>1, <1>4 DEF NewsTypes
  <2>2. NewsTypes'
    BY <1>1, <1>4, <2>1 DEF NewsTypes
  <2>3. ASSUME NEW u \in Followers PROVE KnowsAt(u)'
    <3>1. KnowsAt(u) /\ AtLeast(u)' = AtLeast(u)
      BY <1>4 DEF NewsInv, AtLeast
    <3>2. QED
      BY <1>1, <1>4, <3>1 DEF KnowsAt, StrangerAt, HearingAt, OrdersAt
  <2>4. QED
    BY <2>2, <2>3 DEF NewsInv
<1>5. CASE /\ refresh_step = "old" /\ refresh_step' = "fetch" /\ old_data' = history
           /\ UNCHANGED <<followers, new_data, order, untold>>
  <2>1. NewsTypes'
    BY <1>1, <1>5 DEF NewsTypes
  <2>2. ASSUME NEW u \in Followers PROVE KnowsAt(u)'
    <3>1. KnowsAt(u) /\ AtLeast(u)' = history.orders /\ AtLeast(u) = 0
      BY <1>1, <1>5 DEF NewsInv, AtLeast
    <3>2. QED
      BY <1>1, <1>2, <1>5, <3>1 DEF KnowsAt, StrangerAt, HearingAt, OrdersAt
  <2>3. QED
    BY <2>1, <2>2 DEF NewsInv
<1>6. CASE /\ refresh_step = "fetch" /\ refresh_step' = "set" /\ new_data' \in Contents
           /\ UNCHANGED <<followers, old_data, order, untold>>
  <2>1. NewsTypes'
    BY <1>1, <1>6, HistoriesAre DEF NewsTypes
  <2>2. ASSUME NEW u \in Followers PROVE KnowsAt(u)'
    <3>1. KnowsAt(u) /\ AtLeast(u)' = AtLeast(u)
      BY <1>1, <1>6 DEF NewsInv, AtLeast
    <3>2. QED
      BY <1>1, <1>2, <1>6, <3>1 DEF KnowsAt, StrangerAt, HearingAt, OrdersAt
  <2>3. QED
    BY <2>1, <2>2 DEF NewsInv
<1>7. QED
  BY <1>3, <1>4, <1>5, <1>6 DEF ListCases, ReadOld, FetchHistory, HistoryFails, RefreshOver

\* The orders from n on are told, to users who know of those before, or not at all.
LEMMA OrdersFrom ==
  ASSUME NewsTypes, NEW n \in Nat, n > old_data.orders, TellOrdersFrom(n),
         UNCHANGED <<followed, fetch>>,
         history' \in Histories, knows' \in [Followers -> Knowledge],
         \A u \in Followers :
           /\ followed[u] # "cino" \/ u \notin followers => knows'[u] = NoIdea
           /\ history'.hearing = 0 \/ knows'[u].hearing \in {history'.hearing, Unknown}
           /\ knows'[u].orders # Unknown =>
                /\ knows'[u].orders >= n - 1
                /\ knows'[u].orders >= history'.orders \/ history'.orders <= new_data.orders
  PROVE  NewsInv'
<1>1. /\ old_data.orders \in Nat /\ new_data.orders \in Nat /\ history'.orders \in Nat
      /\ \A u \in Followers : knows'[u].orders \in Nat \cup {Unknown}
  BY HistoriesAre, KnowledgeIs DEF NewsTypes
<1>2. CASE n > new_data.orders
  <2>1. /\ refresh_step' = "idle" /\ followers' = {} /\ untold' = {} /\ order' = 0
        /\ old_data' = Nothing /\ new_data' = Nothing
    BY <1>1, <1>2 DEF TellOrdersFrom, RefreshOver
  <2>2. NewsTypes'
    BY <2>1, HistoriesAre DEF NewsTypes
  <2>3. ASSUME NEW u \in Followers PROVE KnowsAt(u)'
    <3>1. AtLeast(u)' = 0
      BY <2>1 DEF AtLeast
    <3>2. StrangerAt(u)' /\ HearingAt(u)'
      BY <2>1 DEF StrangerAt, HearingAt
    <3>3. knows'[u].orders # Unknown => knows'[u].orders >= history'.orders /\ knows'[u].orders >= 0
      BY <1>1, <1>2
    <3>4. OrdersAt(u)'
      BY <3>1, <3>3 DEF OrdersAt
    <3>5. QED
      BY <3>2, <3>4 DEF KnowsAt
  <2>4. QED
    BY <2>2, <2>3 DEF NewsInv
<1>3. CASE n <= new_data.orders
  <2>1. /\ refresh_step' = "orders" /\ order' = n /\ untold' = followers
        /\ UNCHANGED <<followers, old_data, new_data>>
    BY <1>1, <1>3 DEF TellOrdersFrom
  <2>2. NewsTypes'
    BY <1>3, <2>1 DEF NewsTypes
  <2>3. ASSUME NEW u \in Followers PROVE KnowsAt(u)'
    <3>1. StrangerAt(u)' /\ HearingAt(u)'
      BY <2>1 DEF StrangerAt, HearingAt
    <3>2. CASE u \in followers
      <4>1. AtLeast(u)' = n - 1
        BY <2>1, <3>2 DEF AtLeast
      <4>2. QED
        BY <2>1, <3>1, <4>1 DEF OrdersAt, KnowsAt
    <3>3. CASE u \notin followers
      BY <3>1, <3>3, KnowledgeIs DEF OrdersAt, KnowsAt
    <3>4. QED
      BY <3>2, <3>3
  <2>4. QED
    BY <2>2, <2>3 DEF NewsInv
<1>4. QED
  BY <1>1, <1>2, <1>3

LEMMA NewsSet == NewsInv /\ set_case_history_cache => NewsInv'
<1> SUFFICES ASSUME NewsInv, set_case_history_cache PROVE NewsInv'
  OBVIOUS
<1>1. /\ refresh_step = "set" /\ history' = new_data /\ UNCHANGED <<followed, fetch, knows>>
  BY DEF set_case_history_cache
<1>2. NewsTypes /\ new_data \in Histories /\ old_data \in Histories
      /\ knows \in [Followers -> Knowledge]
  BY DEF NewsInv, NewsTypes
<1>3. /\ old_data.orders \in Nat /\ new_data.orders \in Nat
      /\ old_data.hearing \in Nat /\ new_data.hearing \in Nat
      /\ \A u \in Followers : knows[u].orders \in Nat \cup {Unknown}
  BY <1>2, HistoriesAre, KnowledgeIs
<1>4. ASSUME NEW u \in Followers
      PROVE  /\ KnowsAt(u)
             /\ followed[u] # "cino" \/ u \notin followers => knows[u] = NoIdea
             /\ old_data.hearing = 0 \/ knows[u].hearing \in {old_data.hearing, Unknown}
             /\ knows[u].orders # Unknown => knows[u].orders >= old_data.orders
  BY <1>1 DEF NewsInv, KnowsAt, StrangerAt, HearingAt, OrdersAt, AtLeast
<1>5. CASE new_data.hearing \notin {0, old_data.hearing}
  <2>1. /\ refresh_step' = "hearing" /\ untold' = followers
        /\ UNCHANGED <<followers, old_data, new_data, order>>
    BY <1>5 DEF set_case_history_cache
  <2>2. NewsTypes'
    BY <1>1, <1>2, <2>1 DEF NewsTypes
  <2>3. ASSUME NEW u \in Followers PROVE KnowsAt(u)'
    <3>1. AtLeast(u)' = old_data.orders /\ new_data.orders <= new_data.orders
      BY <1>3, <2>1 DEF AtLeast
    <3>2. StrangerAt(u)'
      BY <1>1, <1>4, <2>1 DEF StrangerAt
    <3>3. HearingAt(u)'
      BY <1>1, <1>4, <2>1, <3>2, KnowledgeIs DEF HearingAt, StrangerAt
    <3>4. OrdersAt(u)'
      BY <1>1, <1>4, <2>1, <3>1 DEF OrdersAt
    <3>5. QED
      BY <3>2, <3>3, <3>4 DEF KnowsAt
  <2>4. QED
    BY <2>2, <2>3 DEF NewsInv
<1>6. CASE new_data.hearing \in {0, old_data.hearing}
  <2>1. TellOrdersFrom(old_data.orders + 1)
    BY <1>6 DEF set_case_history_cache
  <2>2. old_data.orders + 1 \in Nat /\ old_data.orders + 1 > old_data.orders
        /\ (old_data.orders + 1) - 1 = old_data.orders
    BY <1>3
  <2>3. \A u \in Followers :
          /\ followed[u] # "cino" \/ u \notin followers => knows'[u] = NoIdea
          /\ history'.hearing = 0 \/ knows'[u].hearing \in {history'.hearing, Unknown}
          /\ knows'[u].orders # Unknown =>
               /\ knows'[u].orders >= (old_data.orders + 1) - 1
               /\ knows'[u].orders >= history'.orders \/ history'.orders <= new_data.orders
    BY <1>1, <1>3, <1>4, <1>6, <2>2
  <2>4. history' \in Histories /\ knows' \in [Followers -> Knowledge]
    BY <1>1, <1>2
  <2> HIDE DEF NewsInv
  <2>5. QED
    BY <1>1, <1>2, <2>1, <2>2, <2>3, <2>4, OrdersFrom
<1>7. QED
  BY <1>5, <1>6

\* What a notification does to what the user knows.
LEMMA TellIs ==
  ASSUME NewsTypes, NEW u \in Followers, NEW trigger,
         NEW yes \in Knowledge, NEW no \in Knowledge, Tell(u, trigger, yes, no)
  PROVE  /\ knows' \in [Followers -> Knowledge] /\ knows'[u] \in {yes, no}
         /\ \A w \in Followers \ {u} : knows'[w] = knows[w]
<1>1. PICK k \in {yes, no} : knows' = [knows EXCEPT ![u] = k]
  BY DEF Tell
<1>2. k \in Knowledge
  OBVIOUS
<1>3. QED
  BY <1>1, <1>2, KnowsWithOne

LEMMA NewsHearing == NewsInv /\ (\E u \in Followers : TellHearing(u)) => NewsInv'
<1> SUFFICES ASSUME NewsInv, NEW u \in Followers, TellHearing(u) PROVE NewsInv'
  OBVIOUS
<1> DEFINE upToDate == followed[u] = "cino" /\ history.hearing = new_data.hearing
           yes == [knows[u] EXCEPT !.hearing = IF upToDate THEN new_data.hearing ELSE Unknown]
           no == [knows[u] EXCEPT !.hearing = Unknown]
<1>1. /\ refresh_step = "hearing" /\ u \in untold /\ UNCHANGED <<history, followed, fetch>>
      /\ Tell(u, "hearing_date_changed", yes, no)
      /\ IF untold = {u} THEN TellOrdersFrom(old_data.orders + 1)
         ELSE /\ untold' = untold \ {u}
              /\ UNCHANGED <<refresh_step, followers, old_data, new_data, order>>
  BY DEF TellHearing
<1>2. NewsTypes /\ knows[u] \in Knowledge
  BY DEF NewsInv, NewsTypes
<1>3. /\ old_data.orders \in Nat /\ new_data.orders \in Nat /\ history.orders \in Nat
      /\ history.hearing \in Nat /\ new_data.hearing \in Nat
  BY <1>2, HistoriesAre DEF NewsTypes
<1>4. /\ yes \in Knowledge /\ yes.orders = knows[u].orders
      /\ yes.hearing = IF upToDate THEN new_data.hearing ELSE Unknown
      /\ no \in Knowledge /\ no.orders = knows[u].orders /\ no.hearing = Unknown
  BY <1>2, <1>3 DEF Knowledge
<1>5. /\ yes.hearing \in {history.hearing, Unknown}
      /\ followed[u] # "cino" /\ knows[u] = NoIdea => yes = NoIdea
      /\ knows[u] = NoIdea => no = NoIdea
  BY <1>4 DEF NoIdea
<1> HIDE DEF yes, no, upToDate
<1>6. /\ knows' \in [Followers -> Knowledge] /\ knows'[u] \in {yes, no}
      /\ \A w \in Followers \ {u} : knows'[w] = knows[w]
  BY <1>1, <1>2, <1>4, TellIs
<1>7. ASSUME NEW w \in Followers
      PROVE  /\ followed[w] # "cino" \/ w \notin followers => knows'[w] = NoIdea
             /\ (w \in untold /\ w # u) \/ history.hearing = 0
                \/ knows'[w].hearing \in {history.hearing, Unknown}
             /\ knows'[w].orders = knows[w].orders
             /\ knows'[w].orders # Unknown =>
                  /\ knows'[w].orders >= old_data.orders
                  /\ knows'[w].orders >= history.orders \/ history.orders <= new_data.orders
  <2>1. KnowsAt(w) /\ AtLeast(w) = old_data.orders
    BY <1>1 DEF NewsInv, AtLeast
  <2>2. u \in followers
    BY <1>1, <1>2 DEF NewsTypes
  <2>3. knows'[w].orders = knows[w].orders
    BY <1>4, <1>6
  <2>4. followed[w] # "cino" \/ w \notin followers => knows'[w] = NoIdea
    BY <1>1, <1>5, <1>6, <2>1, <2>2 DEF KnowsAt, StrangerAt
  <2>5. (w \in untold /\ w # u) \/ history.hearing = 0
        \/ knows'[w].hearing \in {history.hearing, Unknown}
    BY <1>1, <1>4, <1>5, <1>6, <2>1 DEF KnowsAt, HearingAt
  <2>6. QED
    BY <1>1, <2>1, <2>3, <2>4, <2>5 DEF KnowsAt, OrdersAt
<1>8. CASE untold = {u}
  <2>1. TellOrdersFrom(old_data.orders + 1) /\ history' \in Histories
    BY <1>1, <1>2, <1>8 DEF NewsTypes
  <2>2. old_data.orders + 1 \in Nat /\ old_data.orders + 1 > old_data.orders
        /\ (old_data.orders + 1) - 1 = old_data.orders
    BY <1>3
  <2>3. \A w \in Followers :
          /\ followed[w] # "cino" \/ w \notin followers => knows'[w] = NoIdea
          /\ history'.hearing = 0 \/ knows'[w].hearing \in {history'.hearing, Unknown}
          /\ knows'[w].orders # Unknown =>
               /\ knows'[w].orders >= (old_data.orders + 1) - 1
               /\ knows'[w].orders >= history'.orders \/ history'.orders <= new_data.orders
    BY <1>1, <1>7, <1>8, <2>2
  <2>4. QED
    BY <1>1, <1>2, <1>6, <2>1, <2>2, <2>3, OrdersFrom
<1>9. CASE untold # {u}
  <2>1. /\ untold' = untold \ {u}
        /\ UNCHANGED <<refresh_step, followers, old_data, new_data, order>>
    BY <1>1, <1>9
  <2>2. NewsTypes'
    BY <1>1, <1>2, <1>6, <2>1 DEF NewsTypes
  <2>3. ASSUME NEW w \in Followers PROVE KnowsAt(w)'
    <3>1. AtLeast(w)' = old_data.orders
      BY <1>1, <2>1 DEF AtLeast
    <3>2. QED
      BY <1>1, <1>7, <2>1, <3>1 DEF KnowsAt, StrangerAt, HearingAt, OrdersAt
  <2>4. QED
    BY <2>2, <2>3 DEF NewsInv
<1>10. QED
  BY <1>8, <1>9

LEMMA NewsOrder == NewsInv /\ (\E u \in Followers : TellOrder(u)) => NewsInv'
<1> SUFFICES ASSUME NewsInv, NEW u \in Followers, TellOrder(u) PROVE NewsInv'
  OBVIOUS
<1> DEFINE knew == knows[u].orders
           yes == [knows[u] EXCEPT !.orders = IF knew = order - 1 THEN order ELSE knew]
           no == [knows[u] EXCEPT !.orders = Unknown]
<1>1. /\ refresh_step = "orders" /\ u \in untold /\ UNCHANGED <<history, followed, fetch>>
      /\ Tell(u, "order_uploaded", yes, no)
      /\ IF untold = {u} THEN TellOrdersFrom(order + 1)
         ELSE /\ untold' = untold \ {u}
              /\ UNCHANGED <<refresh_step, followers, old_data, new_data, order>>
  BY DEF TellOrder
<1>2. NewsTypes /\ knows[u] \in Knowledge /\ order \in Nat
      /\ order > old_data.orders /\ order <= new_data.orders
  BY <1>1 DEF NewsInv, NewsTypes
<1>3. /\ old_data.orders \in Nat /\ new_data.orders \in Nat /\ history.orders \in Nat
      /\ \A w \in Followers : knows[w].orders \in Nat \cup {Unknown}
      /\ Unknown \notin Nat
  BY <1>2, HistoriesAre, KnowledgeIs DEF NewsTypes
<1>4. /\ yes \in Knowledge /\ yes.hearing = knows[u].hearing
      /\ yes.orders = IF knew = order - 1 THEN order ELSE knew
      /\ no \in Knowledge /\ no.hearing = knows[u].hearing /\ no.orders = Unknown
  BY <1>2, <1>3 DEF Knowledge
<1>5. knows[u] = NoIdea => yes = NoIdea /\ no = NoIdea
  <2>1. order - 1 \in Nat
    BY <1>2, <1>3
  <2>2. knows[u] = NoIdea => knew = Unknown /\ knew # order - 1
    BY <1>3, <2>1, KnowledgeIs
  <2>3. QED
    BY <1>4, <2>2 DEF NoIdea
<1> HIDE DEF yes, no
<1>6. /\ knows' \in [Followers -> Knowledge] /\ knows'[u] \in {yes, no}
      /\ \A w \in Followers \ {u} : knows'[w] = knows[w]
  BY <1>1, <1>2, <1>4, TellIs
<1>7. ASSUME NEW w \in Followers
      PROVE  /\ followed[w] # "cino" \/ w \notin followers => knows'[w] = NoIdea
             /\ history.hearing = 0 \/ knows'[w].hearing \in {history.hearing, Unknown}
             /\ knows'[w].orders # Unknown =>
                  /\ knows'[w].orders >= IF w \in untold /\ w # u THEN order - 1 ELSE order
                  /\ knows'[w].orders >= history.orders \/ history.orders <= new_data.orders
  <2>1. KnowsAt(w) /\ AtLeast(w) = IF w \in untold THEN order - 1 ELSE order
    BY <1>1 DEF NewsInv, AtLeast
  <2>2. followed[w] # "cino" \/ w \notin followers => knows'[w] = NoIdea
    BY <1>1, <1>5, <1>6, <2>1 DEF KnowsAt, StrangerAt
  <2>3. history.hearing = 0 \/ knows'[w].hearing \in {history.hearing, Unknown}
    BY <1>1, <1>4, <1>6, <2>1 DEF KnowsAt, HearingAt
  <2>4. CASE w = u
    <3>1. knows[u].orders # Unknown => knows[u].orders \in Nat /\ knows[u].orders >= order - 1
          /\ (knows[u].orders >= history.orders \/ history.orders <= new_data.orders)
      BY <1>1, <1>3, <2>1, <2>4 DEF KnowsAt, OrdersAt
    <3>2. CASE knows'[u] = yes /\ knows[u].orders # Unknown
      BY <1>2, <1>3, <1>4, <2>2, <2>3, <2>4, <3>1, <3>2
    <3>3. CASE knows'[u] = yes /\ knows[u].orders = Unknown
      <4>1. order - 1 \in Nat
        BY <1>2, <1>3
      <4>2. yes.orders = Unknown
        BY <1>3, <1>4, <3>3, <4>1
      <4>3. QED
        BY <2>2, <2>3, <2>4, <3>3, <4>2
    <3>4. CASE knows'[u] = no
      BY <1>4, <2>2, <2>3, <2>4, <3>4
    <3>5. QED
      BY <1>6, <3>2, <3>3, <3>4
  <2>5. CASE w # u
    <3>1. knows'[w] = knows[w]
      BY <1>6, <2>5
    <3>2. QED
      BY <1>1, <2>1, <2>2, <2>3, <2>5, <3>1 DEF KnowsAt, OrdersAt
  <2>6. QED
    BY <2>4, <2>5
<1>8. CASE untold = {u}
  <2>1. TellOrdersFrom(order + 1) /\ history' \in Histories
    BY <1>1, <1>2, <1>8 DEF NewsTypes
  <2>2. order + 1 \in Nat /\ order + 1 > old_data.orders /\ (order + 1) - 1 = order
    BY <1>2, <1>3
  <2>3. \A w \in Followers :
          /\ followed[w] # "cino" \/ w \notin followers => knows'[w] = NoIdea
          /\ history'.hearing = 0 \/ knows'[w].hearing \in {history'.hearing, Unknown}
          /\ knows'[w].orders # Unknown =>
               /\ knows'[w].orders >= (order + 1) - 1
               /\ knows'[w].orders >= history'.orders \/ history'.orders <= new_data.orders
    BY <1>1, <1>7, <1>8, <2>2
  <2>4. QED
    BY <1>1, <1>2, <1>6, <2>1, <2>2, <2>3, OrdersFrom
<1>9. CASE untold # {u}
  <2>1. /\ untold' = untold \ {u}
        /\ UNCHANGED <<refresh_step, followers, old_data, new_data, order>>
    BY <1>1, <1>9
  <2>2. NewsTypes'
    BY <1>1, <1>2, <1>6, <2>1 DEF NewsTypes
  <2>3. ASSUME NEW w \in Followers PROVE KnowsAt(w)'
    <3>1. AtLeast(w)' = IF w \in untold /\ w # u THEN order - 1 ELSE order
      BY <1>1, <2>1 DEF AtLeast
    <3>2. QED
      BY <1>1, <1>7, <2>1, <3>1 DEF KnowsAt, StrangerAt, HearingAt, OrdersAt
  <2>4. QED
    BY <2>2, <2>3 DEF NewsInv
<1>10. QED
  BY <1>8, <1>9

\* A refresh that ends early forgets what its users were to be told.
LEMMA NewsStops == NewsInv /\ (TellFails \/ ProcessStops) => NewsInv'
<1> SUFFICES ASSUME NewsInv, TellFails \/ ProcessStops PROVE NewsInv'
  OBVIOUS
<1>1. /\ refresh_step' = "idle" /\ followers' = {} /\ untold' = {} /\ order' = 0
      /\ old_data' = Nothing /\ new_data' = Nothing
      /\ knows' = LeftUntold /\ UNCHANGED <<history, followed, fetch>>
  BY DEF TellFails, ProcessStops, RefreshOver
<1>2. NewsTypes
  BY DEF NewsInv
<1>3. ASSUME NEW u \in Followers
      PROVE  /\ knows[u] \in Knowledge /\ knows'[u] \in Knowledge
             /\ knows'[u].hearing = IF refresh_step = "hearing" /\ u \in untold THEN Unknown
                                    ELSE knows[u].hearing
             /\ knows'[u].orders = IF /\ refresh_step \in {"hearing", "orders"}
                                      /\ knows[u].orders \in 0 .. new_data.orders - 1
                                   THEN Unknown ELSE knows[u].orders
             /\ knows[u] = NoIdea => knows'[u] = NoIdea
  <2>1. knows[u] \in Knowledge
    BY <1>2 DEF NewsTypes
  <2> DEFINE h == IF refresh_step = "hearing" /\ u \in untold THEN Unknown ELSE knows[u].hearing
             o == IF /\ refresh_step \in {"hearing", "orders"}
                     /\ knows[u].orders \in 0 .. new_data.orders - 1
                  THEN Unknown ELSE knows[u].orders
  <2>2. knows'[u] = [hearing |-> h, orders |-> o]
    BY <1>1 DEF LeftUntold
  <2>3. h \in Nat \cup {Unknown} /\ o \in Nat \cup {Unknown}
    BY <2>1, KnowledgeIs
  <2>4. knows[u] = NoIdea => h = Unknown /\ o = Unknown
    BY KnowledgeIs
  <2> HIDE DEF h, o
  <2>5. knows'[u] \in Knowledge /\ knows'[u].hearing = h /\ knows'[u].orders = o
    BY <2>2, <2>3 DEF Knowledge
  <2>6. knows[u] = NoIdea => knows'[u] = NoIdea
    BY <2>2, <2>4 DEF NoIdea
  <2>7. QED
    BY <2>1, <2>5, <2>6 DEF h, o
<1>4. knows' \in [Followers -> Knowledge]
  BY <1>1, <1>3 DEF LeftUntold
<1>5. NewsTypes'
  BY <1>1, <1>2, <1>4, HistoriesAre DEF NewsTypes
<1>6. history.orders \in Nat /\ new_data.orders \in Nat /\ Unknown \notin Nat
  BY <1>2, HistoriesAre, KnowledgeIs DEF NewsTypes
<1>7. ASSUME NEW u \in Followers PROVE KnowsAt(u)'
  <2>1. KnowsAt(u) /\ AtLeast(u)' = 0 /\ knows[u].orders \in Nat \cup {Unknown}
    BY <1>1, <1>3, KnowledgeIs DEF NewsInv, AtLeast
  <2>2. StrangerAt(u)'
    BY <1>1, <1>3, <2>1 DEF KnowsAt, StrangerAt
  <2>3. HearingAt(u)'
    BY <1>1, <1>3, <2>1 DEF KnowsAt, HearingAt
  <2>4. OrdersAt(u)'
    BY <1>1, <1>3, <1>6, <2>1 DEF KnowsAt, OrdersAt
  <2>5. QED
    BY <2>2, <2>3, <2>4 DEF KnowsAt
<1>8. QED
  BY <1>5, <1>7 DEF NewsInv

LEMMA NewsInvNext == NewsInv /\ [HistoryNext]_historyVars => NewsInv'
BY NewsRequests, NewsFetchWrites, NewsReads, NewsSet, NewsHearing, NewsOrder, NewsStops
DEF HistoryNext

LEMMA NewsInvBounds == NewsInv => NewsIsTold
<1> SUFFICES ASSUME NewsInv, refresh_step = "idle", NEW u \in Followers, followed[u] = "cino"
             PROVE  /\ history.hearing # 0 => knows[u].hearing \in {history.hearing, Unknown}
                    /\ knows[u].orders = Unknown \/ knows[u].orders >= history.orders
  BY DEF NewsIsTold
<1>1. KnowsAt(u)
  BY DEF NewsInv
<1>2. QED
  BY <1>1 DEF KnowsAt, HearingAt, OrdersAt

\* For any followers, histories, nights and requests in between: who knew of the hearing and
\* the orders of his case knows of them after every refresh, but for what failed on the way.
THEOREM NewsCorrect == HistorySpec => []NewsIsTold
<1>1. QED
  BY NewsInvInit, NewsInvNext, NewsInvBounds, PTL DEF HistorySpec

-----------------------------------------------------------------------------
(* Matching: the best snapshot is given, rows are accounted for, and links *)
(* are merited.                                                            *)

LEMMA Grades == \A n : Graded(n) \in {"HIGH", "MEDIUM", "LOW"}
BY DEF Graded

\* The snapshot that the loop over all of them ends with.
GivenIs(entry, m) ==
  /\ m \in 0 .. Len(boards)
  /\ m = 0 => \A n \in 1 .. Len(boards) : score(entry, boards[n]) = "LOW"
  /\ m # 0 => score(entry, boards[m]) \in {"HIGH", "MEDIUM"}
  /\ (\E n \in 1 .. Len(boards) : score(entry, boards[n]) = "HIGH") =>
        m # 0 /\ score(entry, boards[m]) = "HIGH"

LEMMA BestIs ==
  ASSUME NEW entry, Len(boards) \in Nat
  PROVE  GivenIs(entry, best(entry))
<1> DEFINE L == Len(boards)
           SC(n) == score(entry, boards[n])
           Step(g, n) == IF n = 0 THEN 0
                         ELSE IF g[n - 1] # 0 /\ SC(g[n - 1]) = "HIGH" THEN g[n - 1]
                         ELSE IF SC(n) \in {"HIGH", "MEDIUM"} THEN n
                         ELSE g[n - 1]
           after == CHOOSE g : g = [n \in 0 .. L |-> Step(g, n)]
<1>1. best(entry) = after[L]
  BY DEF best
<1>2. \A n : SC(n) \in {"HIGH", "MEDIUM", "LOW"}
  BY Grades DEF score
<1>3. L \in Nat
  OBVIOUS
<1> HIDE DEF L, SC
<1>4. after = [n \in 0 .. L |-> Step(after, n)]
  <2> DEFINE S == {m \in Nat : \E g : g = [n \in 0 .. m |-> Step(g, n)]}
  <2>1. 0 \in S
    <3> DEFINE g == [n \in 0 .. 0 |-> 0]
    <3>1. g = [n \in 0 .. 0 |-> Step(g, n)]
      OBVIOUS
    <3>2. QED
      BY <3>1
  <2>2. ASSUME NEW m \in S PROVE m + 1 \in S
    <3>1. m \in Nat /\ m + 1 \in Nat
      OBVIOUS
    <3>2. PICK g : g = [n \in 0 .. m |-> Step(g, n)]
      OBVIOUS
    <3> DEFINE h == [n \in 0 .. m + 1 |-> IF n \in 0 .. m THEN g[n] ELSE Step(g, n)]
    <3>3. \A n \in 0 .. m : g[n] = Step(g, n) /\ h[n] = g[n]
      BY <3>1, <3>2
    <3>4. ASSUME NEW n \in 0 .. m + 1 PROVE h[n] = Step(h, n)
      <4>1. n # 0 => h[n - 1] = g[n - 1]
        BY <3>1, <3>3
      <4>2. Step(h, n) = Step(g, n)
        BY <4>1
      <4>3. h[n] = Step(g, n)
        BY <3>1, <3>3
      <4>4. QED
        BY <4>2, <4>3
    <3>5. h = [n \in 0 .. m + 1 |-> h[n]]
      OBVIOUS
    <3> HIDE DEF h
    <3>6. h = [n \in 0 .. m + 1 |-> Step(h, n)]
      BY <3>4, <3>5
    <3>7. QED
      BY <3>1, <3>6
  <2>3. S = Nat
    <3> HIDE DEF S
    <3>1. S \in SUBSET Nat
      BY DEF S
    <3>2. QED
      BY <2>1, <2>2, <3>1, Induction
  <2>4. \E g : g = [n \in 0 .. L |-> Step(g, n)]
    BY <1>3, <2>3
  <2>5. QED
    BY <2>4
<1> HIDE DEF after
<1>5. \A n \in 0 .. L : after[n] = Step(after, n)
  BY <1>4
\* What the loop has after n of the snapshots.
<1> DEFINE Good(n) ==
      /\ after[n] \in 0 .. n
      /\ after[n] = 0 => \A k \in 1 .. n : SC(k) = "LOW"
      /\ after[n] # 0 => SC(after[n]) \in {"HIGH", "MEDIUM"}
      /\ (\E k \in 1 .. n : SC(k) = "HIGH") => after[n] # 0 /\ SC(after[n]) = "HIGH"
           G == {n \in Nat : n <= L => Good(n)}
<1>6. 0 \in G
  BY <1>3, <1>5
<1>7. ASSUME NEW n \in G PROVE n + 1 \in G
  <2>1. n \in Nat /\ n + 1 \in Nat
    OBVIOUS
  <2>2. SUFFICES ASSUME n + 1 <= L PROVE Good(n + 1)
    BY <2>1
  <2>3. Good(n)
    BY <1>3, <2>1, <2>2
  <2>4. after[n + 1] = IF after[n] # 0 /\ SC(after[n]) = "HIGH" THEN after[n]
                       ELSE IF SC(n + 1) \in {"HIGH", "MEDIUM"} THEN n + 1
                       ELSE after[n]
    BY <1>3, <1>5, <2>1, <2>2
  <2>5. \A k \in 1 .. n + 1 : k \in 1 .. n \/ k = n + 1
    BY <2>1
  <2>6. after[n + 1] \in 0 .. n + 1
    BY <2>1, <2>3, <2>4
  <2>7. QED
    BY <1>2, <2>1, <2>3, <2>4, <2>5, <2>6
<1>8. G = Nat
  <2> HIDE DEF G
  <2>1. G \in SUBSET Nat
    BY DEF G
  <2>2. QED
    BY <1>6, <1>7, <2>1, Induction
<1>9. Good(L)
  BY <1>3, <1>8
<1>10. QED
  BY <1>1, <1>9 DEF GivenIs, L, SC

\* The entries and batches.
BatchTypes ==
  /\ boards \in SnapshotLists
  /\ position \in 0 .. Len(CaseEntries)
  /\ matched \in [Indices -> Nat]
  /\ \A i \in Indices : matched[i] \in 0 .. Len(boards)
  /\ result_rows \in [Indices -> Nat] /\ unwritten \in [Indices -> Nat] /\ passes \in [Indices -> Nat]
  /\ batches \in Nat

Given == \A i \in 1 .. position : GivenIs(CaseEntries[i], matched[i])

BatchInv == BatchTypes /\ Given /\ RowsAccounted

\* The links, and what requests know of them.
LinkTypes ==
  /\ link \in LinkRow \cup {NoLink}
  /\ asked \in [LinkRequests -> {"idle", "score", "alert", "log"}]
  /\ link_read \in [LinkRequests -> LinkRow \cup {NoLink}]
  /\ delivered \in [LinkRequests -> {"none", "nothing", "link"}]
  /\ delivery_log \in [LinkRequests -> {"none", "nothing", "link"}]
  /\ link_day \in Nat /\ edits \in Nat /\ overtaken \subseteq LinkRequests

\* What was read before it is scored is the link that is stored, unless overtaken; and
\* nothing is logged before it is answered.
LinkAt(r) ==
  /\ asked[r] = "score" =>
       /\ delivered[r] = "none"
       /\ r \in overtaken \/ link_read[r] \in {link, NoLink}
  /\ asked[r] # "idle" => delivery_log[r] = "none"
  /\ delivered[r] = "link" =>
       \/ r \in overtaken
       \/ /\ link # NoLink /\ link.place = LinkHearing
          /\ link.verified /\ link_day <= link.at + StaleDays
  /\ delivery_log[r] \in {"none", delivered[r]}

LinkInv == LinkTypes /\ \A r \in LinkRequests : LinkAt(r)

MatchingInv == BatchInv /\ LinkInv /\ matchFaults \in Nat

LEMMA MatchingInvInit == MatchingInit => MatchingInv
<1> SUFFICES ASSUME MatchingInit PROVE MatchingInv
  OBVIOUS
<1>1. \A b \in SnapshotLists : Len(b) \in Nat
  BY MatchingAssumption
<1>2. Len(CaseEntries) \in Nat
  BY MatchingAssumption
<1>3. BatchInv
  BY <1>1, <1>2 DEF MatchingInit, BatchInv, BatchTypes, Given, RowsAccounted
<1>4. LinkInv /\ matchFaults \in Nat
  BY DEF MatchingInit, LinkInv, LinkTypes, LinkAt
<1>5. QED
  BY <1>3, <1>4 DEF MatchingInv

LEMMA MatchingFaults == MatchingInv /\ [MatchingNext]_matchingVars => matchFaults' \in Nat
BY DEF MatchingInv, MatchingNext, ReconciliationNext, LinksNext, reconcile_entry, run_reconciliation_batch,
       ReadLink, Score, fire_stale_alert, log_delivery, EditLink, LinkDay, MatchFault, matchingVars

LEMMA ReconcileKept == BatchInv /\ reconcile_entry => BatchInv'
<1> SUFFICES ASSUME BatchInv, reconcile_entry PROVE BatchInv'
  OBVIOUS
<1> USE DEF BatchInv, BatchTypes
<1>1. Len(boards) \in Nat /\ Len(CaseEntries) \in Nat
  BY MatchingAssumption
<1> DEFINE i == position + 1
           pick == best(CaseEntries[i])
<1>2. GivenIs(CaseEntries[i], pick)
  BY <1>1, BestIs
<1>3. pick \in 0 .. Len(boards)
  BY <1>2 DEF GivenIs
<1>4. i \in Indices /\ i \in Nat /\ position \in Nat
  BY <1>1 DEF reconcile_entry, Indices
<1>5. /\ position' = i /\ boards' = boards /\ batches' = batches
      /\ matched' = [matched EXCEPT ![i] = pick]
      /\ passes' = IF pick = 0 THEN passes ELSE [passes EXCEPT ![i] = passes[i] + 1]
      /\ \/ /\ result_rows' = IF pick = 0 THEN result_rows
                               ELSE [result_rows EXCEPT ![i] = result_rows[i] + 1]
            /\ unwritten' = unwritten
         \/ /\ pick # 0
            /\ unwritten' = [unwritten EXCEPT ![i] = unwritten[i] + 1]
            /\ result_rows' = result_rows
  BY DEF reconcile_entry
<1> HIDE DEF pick, i
<1>6. BatchTypes'
  <2>1. position' \in 0 .. Len(CaseEntries)
    BY <1>1, <1>4, <1>5 DEF Indices
  <2>2. matched' \in [Indices -> Nat] /\ \A k \in Indices : matched'[k] \in 0 .. Len(boards)
    BY <1>1, <1>3, <1>4, <1>5
  <2>3. passes' \in [Indices -> Nat]
    BY <1>4, <1>5
  <2>5. unwritten' \in [Indices -> Nat]
    BY <1>4, <1>5
  <2>6. result_rows' \in [Indices -> Nat]
    BY <1>4, <1>5
  <2>4. QED
    BY <1>5, <2>1, <2>2, <2>3, <2>5, <2>6
<1>7. Given'
  <2>1. SUFFICES ASSUME NEW k \in 1 .. i PROVE GivenIs(CaseEntries[k], matched[k])'
    BY <1>5 DEF Given
  <2>2. GivenIs(CaseEntries[k], matched'[k])
    <3>1. CASE k = i
      BY <1>2, <1>4, <1>5, <3>1
    <3>2. CASE k # i
      <4>1. k \in 1 .. position /\ k \in Indices
        BY <1>1, <1>4, <3>2 DEF i, Indices
      <4>2. matched'[k] = matched[k]
        BY <1>5, <3>2, <4>1
      <4>3. QED
        BY <4>1, <4>2 DEF Given
    <3>3. QED
      BY <3>1, <3>2
  <2>3. QED
    BY <1>5, <2>2 DEF GivenIs
<1>8. RowsAccounted'
  <2>1. SUFFICES ASSUME NEW k \in Indices PROVE result_rows'[k] + unwritten'[k] = passes'[k]
    BY DEF RowsAccounted
  <2>2. /\ result_rows[k] \in Nat /\ unwritten[k] \in Nat /\ passes[k] \in Nat
        /\ result_rows[k] + unwritten[k] = passes[k]
    BY DEF RowsAccounted
  <2>3. CASE k = i /\ pick # 0
    <3>1. passes'[k] = passes[k] + 1
      BY <1>5, <2>3
    <3>2. \/ result_rows'[k] = result_rows[k] + 1 /\ unwritten'[k] = unwritten[k]
          \/ result_rows'[k] = result_rows[k] /\ unwritten'[k] = unwritten[k] + 1
      BY <1>5, <2>3
    <3>3. QED
      BY <2>2, <3>1, <3>2
  <2>4. CASE k # i \/ pick = 0
    <3>1. passes'[k] = passes[k] /\ result_rows'[k] = result_rows[k] /\ unwritten'[k] = unwritten[k]
      BY <1>5, <2>4
    <3>2. QED
      BY <2>2, <3>1
  <2>5. QED
    BY <2>3, <2>4
<1>9. QED
  BY <1>6, <1>7, <1>8

LEMMA BatchInvNext == BatchInv /\ [MatchingNext]_matchingVars => BatchInv'
<1> SUFFICES ASSUME BatchInv, [MatchingNext]_matchingVars PROVE BatchInv'
  OBVIOUS
<1>1. CASE run_reconciliation_batch
  <2>1. Len(CaseEntries) \in Nat /\ \A b \in SnapshotLists : Len(b) \in Nat
    BY MatchingAssumption
  <2>2. /\ boards' \in SnapshotLists /\ position' = 0 /\ batches' = batches + 1
        /\ matched' = [k \in Indices |-> 0]
        /\ UNCHANGED <<result_rows, unwritten, passes>>
    BY <1>1 DEF run_reconciliation_batch
  <2> DEFINE none == [k \in Indices |-> 0]
  <2>3. none \in [Indices -> Nat] /\ \A k \in Indices : none[k] = 0
    OBVIOUS
  <2> HIDE DEF none
  <2>4. BatchTypes'
    BY <2>1, <2>2, <2>3 DEF BatchInv, BatchTypes
  <2>5. Given' /\ RowsAccounted'
    BY <2>2 DEF BatchInv, Given, RowsAccounted
  <2>6. QED
    BY <2>4, <2>5 DEF BatchInv
<1>2. CASE UNCHANGED batchVars
  <2>1. BatchTypes' /\ RowsAccounted'
    BY <1>2 DEF batchVars, BatchInv, BatchTypes, RowsAccounted
  <2>2. Given'
    BY <1>2 DEF batchVars, BatchInv, Given, GivenIs
  <2>3. QED
    BY <2>1, <2>2 DEF BatchInv
<1>3. QED
  BY <1>1, <1>2, ReconcileKept DEF MatchingNext, ReconciliationNext, LinksNext, ReadLink, Score,
     fire_stale_alert, log_delivery, EditLink, LinkDay, matchingVars

\* Three fields agree only when all of them do.
LEMMA HighIsHearing ==
  ASSUME NEW row \in LinkRow, score_confidence(row) = "HIGH"
  PROVE  row.place = LinkHearing
<1> DEFINE p == row.place
           A == {f \in LinkFields : p[f] = LinkHearing[f] /\ (f = "hearing_date" => p[f] # Missing)}
<1>1. p \in LinkPlaces /\ p = [f \in LinkFields |-> p[f]] /\ LinkHearing = [f \in LinkFields |-> LinkHearing[f]]
  BY MatchingAssumption DEF LinkRow
<1>2. Cardinality(A) >= 3
  BY DEF score_confidence, Graded
<1> HIDE DEF p
<1>3. A = LinkFields
  <2>1. SUFFICES ASSUME NEW g \in LinkFields, g \notin A PROVE FALSE
    OBVIOUS
  <2>2. PICK x, y : A \subseteq {x, y}
    BY <2>1 DEF LinkFields
  <2> HIDE DEF A
  <2>3. IsFiniteSet({x}) /\ Cardinality({x}) = 1
    BY FS_Singleton
  <2>4. Cardinality(A) \in Nat /\ Cardinality(A) <= Cardinality({x}) + 1
    <3>1. A \subseteq {x} \cup {y}
      BY <2>2
    <3>2. QED
      BY <2>3, <3>1, GrowsByOne
  <2>5. QED
    BY <1>2, <2>3, <2>4
<1>4. p = LinkHearing
  BY <1>1, <1>3
<1>5. QED
  BY <1>4 DEF p

LEMMA LinkInvNext == MatchingInv /\ [MatchingNext]_matchingVars => LinkInv'
<1> SUFFICES ASSUME LinkInv, [MatchingNext]_matchingVars PROVE LinkInv'
  BY DEF MatchingInv
<1>0. StaleDays \in Nat
  BY MatchingAssumption
<1>1. ASSUME NEW r \in LinkRequests, ReadLink(r) PROVE LinkInv'
  BY <1>1 DEF ReadLink, LinkInv, LinkTypes, LinkAt
<1>2. ASSUME NEW r \in LinkRequests, Score(r) PROVE LinkInv'
  <2>1. /\ asked[r] = "score"
        /\ delivered' = [delivered EXCEPT ![r] = IF Merits(r) THEN "link" ELSE "nothing"]
        /\ \E a \in {"alert", "log"} : asked' = [asked EXCEPT ![r] = a]
        /\ UNCHANGED <<link, link_read, delivery_log, link_day, edits, overtaken>>
    BY <1>2 DEF Score
  <2>2. ASSUME Merits(r)
        PROVE  r \in overtaken \/ (/\ link # NoLink /\ link.place = LinkHearing
                                   /\ link.verified /\ link_day <= link.at + StaleDays)
    <3>1. CASE r \notin overtaken
      <4>1. link_read[r] = link /\ link # NoLink /\ link \in LinkRow
        BY <2>1, <2>2, <3>1 DEF Merits, LinkInv, LinkTypes, LinkAt
      <4>2. link.place = LinkHearing
        BY <2>2, <4>1, HighIsHearing DEF Merits
      <4>3. link.verified /\ ~ (link_day - link.at > StaleDays)
        BY <2>2, <4>1 DEF Merits, is_stale
      <4>4. link.at \in Nat /\ link_day \in Nat
        BY <4>1 DEF LinkRow, LinkInv, LinkTypes
      <4>5. link_day <= link.at + StaleDays
        BY <1>0, <4>3, <4>4
      <4>6. QED
        BY <4>1, <4>2, <4>3, <4>5
    <3>2. QED
      BY <3>1
  <2>3. LinkTypes'
    BY <2>1 DEF LinkInv, LinkTypes
  <2>4. ASSUME NEW s \in LinkRequests PROVE LinkAt(s)'
    <3>1. CASE s = r
      <4>1. asked'[r] \in {"alert", "log"} /\ delivery_log'[r] = "none"
            /\ delivered'[r] = (IF Merits(r) THEN "link" ELSE "nothing")
        BY <2>1 DEF LinkInv, LinkTypes, LinkAt
      <4>2. QED
        BY <2>1, <2>2, <3>1, <4>1 DEF LinkAt
    <3>2. CASE s # r
      <4>1. asked'[s] = asked[s] /\ delivered'[s] = delivered[s]
        BY <2>1, <3>2 DEF LinkInv, LinkTypes
      <4>2. QED
        BY <2>1, <4>1 DEF LinkInv, LinkAt
    <3>3. QED
      BY <3>1, <3>2
  <2>5. QED
    BY <2>3, <2>4 DEF LinkInv
<1>3. ASSUME NEW r \in LinkRequests, fire_stale_alert(r) PROVE LinkInv'
  BY <1>3 DEF fire_stale_alert, LinkInv, LinkTypes, LinkAt
<1>4. ASSUME NEW r \in LinkRequests, log_delivery(r) PROVE LinkInv'
  BY <1>4 DEF log_delivery, LinkInv, LinkTypes, LinkAt
<1>5. CASE EditLink
  <2>1. link' \in LinkRow \cup {NoLink}
    BY <1>5 DEF EditLink, LinkInv, LinkTypes, LinkRow
  <2>2. QED
    BY <1>5, <2>1 DEF EditLink, LinkInv, LinkTypes, LinkAt
<1>6. CASE LinkDay
  BY <1>6 DEF LinkDay, LinkInv, LinkTypes, LinkAt
<1>7. CASE UNCHANGED linkVars
  BY <1>7 DEF linkVars, LinkInv, LinkTypes, LinkAt
<1>8. QED
  BY <1>1, <1>2, <1>3, <1>4, <1>5, <1>6, <1>7
  DEF MatchingNext, ReconciliationNext, LinksNext, reconcile_entry, run_reconciliation_batch, matchingVars

LEMMA MatchingInvNext == MatchingInv /\ [MatchingNext]_matchingVars => MatchingInv'
BY MatchingFaults, BatchInvNext, LinkInvNext DEF MatchingInv

LEMMA MatchingInvBounds == MatchingInv => MatchingTypeOK /\ MatchingKept
<1> SUFFICES ASSUME MatchingInv PROVE MatchingTypeOK /\ MatchingKept
  OBVIOUS
<1>1. MatchingTypeOK
  <2>1. matched \in [Indices -> 0 .. Len(boards)]
    BY DEF MatchingInv, BatchInv, BatchTypes
  <2>2. QED
    BY <2>1 DEF MatchingInv, BatchInv, BatchTypes, LinkInv, LinkTypes, MatchingTypeOK
<1>2. BestIsGiven
  <2>1. DOMAIN boards = 1 .. Len(boards) /\ Len(boards) \in Nat
    BY MatchingAssumption DEF MatchingInv, BatchInv, BatchTypes
  <2>2. ASSUME NEW i \in 1 .. position PROVE GivenIs(CaseEntries[i], matched[i])
    BY DEF MatchingInv, BatchInv, Given
  <2>3. QED
    BY <2>1, <2>2 DEF BestIsGiven, GivenIs
<1>3. RowsAccounted /\ LinksMerited
  BY DEF MatchingInv, BatchInv, LinkInv, LinkAt, LinksMerited
<1>4. QED
  BY <1>1, <1>2, <1>3 DEF MatchingKept

\* For any entries, snapshots and links: the best snapshot there is for an entry is the one
\* it is given, every batch that found one has written a row or failed to, and the link of a
\* hearing is answered only when it merits it.
THEOREM MatchesCorrect == MatchingSpec => [](MatchingTypeOK /\ MatchingKept)
<1>1. QED
  BY MatchingInvInit, MatchingInvNext, MatchingInvBounds, PTL DEF MatchingSpec

-----------------------------------------------------------------------------
(* Monitor: what holds of a part by itself holds of it among the others.   *)

\* The nights and other numbers of the refresh, which its news do not depend on.
HistoryCounts ==
  /\ night \in 1 .. MaxNights /\ refreshed \in 0 .. MaxNights
  /\ \A k \in keys : k.user \in Followers /\ k.night \in 1 .. MaxNights
  /\ visits \in 0 .. MaxVisits /\ stops \in 0 .. MaxStops

LEMMA HistoryCountsInit == HistoryInit => HistoryCounts
BY CaseHistoryAssumption DEF HistoryInit, HistoryCounts

LEMMA HistoryCountsNext == HistoryCounts /\ [HistoryNext]_historyVars => HistoryCounts'
<1> SUFFICES ASSUME HistoryCounts, [HistoryNext]_historyVars PROVE HistoryCounts'
  OBVIOUS
<1> USE CaseHistoryAssumption DEF HistoryCounts, refreshVars, RefreshOver
<1>1. ASSUME NEW u \in Followers, NEW how \in {"no_cino", "cino"}, Follow(u, how)
      PROVE HistoryCounts'
  BY <1>1 DEF Follow, Visit
<1>2. ASSUME NEW u \in Followers, NEW data \in Contents, fetch_ecourts(u, data)
      PROVE HistoryCounts'
  BY <1>2 DEF fetch_ecourts, Visit
<1>3. ASSUME NEW u \in Followers, Unfollow(u) PROVE HistoryCounts'
  BY <1>3 DEF Unfollow, Visit
<1>4. ASSUME NEW u \in Followers, TellHearing(u) PROVE HistoryCounts'
  BY <1>4 DEF TellHearing, Tell, Queued, TellOrdersFrom
<1>5. ASSUME NEW u \in Followers, TellOrder(u) PROVE HistoryCounts'
  BY <1>5 DEF TellOrder, Tell, Queued, TellOrdersFrom
<1>6. CASE FetchWrites \/ FetchLearns \/ FetchEcourtsFails
  BY <1>6 DEF FetchWrites, FetchLearns, FetchEcourtsFails
<1>7. CASE ListCases \/ ReadOld \/ FetchHistory \/ HistoryFails
  BY <1>7 DEF ListCases, ReadOld, FetchHistory, HistoryFails
<1>8. CASE set_case_history_cache
  BY <1>8 DEF set_case_history_cache, TellOrdersFrom
<1>9. CASE TellFails \/ ProcessStops \/ NextNight
  BY <1>9 DEF TellFails, ProcessStops, NextNight
<1>10. CASE UNCHANGED historyVars
  BY <1>10 DEF historyVars
<1>11. QED
  BY <1>1, <1>2, <1>3, <1>4, <1>5, <1>6, <1>7, <1>8, <1>9, <1>10 DEF HistoryNext

HistoryInv == NewsInv /\ HistoryCounts

LEMMA HistoryInvBounds == HistoryInv => HistoryTypeOK /\ NewsIsTold
<1> SUFFICES ASSUME HistoryInv PROVE HistoryTypeOK /\ NewsIsTold
  OBVIOUS
<1>1. NewsIsTold
  BY NewsInvBounds DEF HistoryInv
<1>2. HistoryTypeOK
  BY DEF HistoryInv, HistoryCounts, NewsInv, NewsTypes, FetchType, HistoryTypeOK
<1>3. QED
  BY <1>1, <1>2

\* The invariant of each part, whether it runs or stays as it began.
MonitorInv ==
  /\ part \in Parts
  /\ PollInv /\ DetInv /\ AlertsInv /\ VcInv /\ HistoryInv /\ GuardInv /\ MatchingInv

LEMMA MonitorInvInit == Init => MonitorInv
<1> SUFFICES ASSUME Init PROVE MonitorInv
  OBVIOUS
<1>1. /\ part \in Parts /\ PollLoopInit /\ DetectorInit /\ AlertsInit /\ VcInit
      /\ HistoryInit /\ GuardInit /\ MatchingInit
  BY DEF Init
<1>2. QED
  BY <1>1, PollInvInit, DetInvInit, AlertsInvInit, VcInvInit, NewsInvInit, HistoryCountsInit,
     GuardInvInit, MatchingInvInit DEF MonitorInv, HistoryInv

\* A step of Monitor is a step of each part, or leaves it alone.
LEMMA MonitorSteps ==
  [Next]_vars =>
    /\ part' = part
    /\ [PollLoopNext]_pollLoopVars /\ [DetectorNext]_detectorVars /\ [AlertsNext]_alertVars
    /\ [VcNext]_vcVars /\ [HistoryNext]_historyVars /\ [GuardNext]_guardVars
    /\ [MatchingNext]_matchingVars
<1>1. Next =>
        /\ part' = part
        /\ [PollLoopNext]_pollLoopVars /\ [DetectorNext]_detectorVars /\ [AlertsNext]_alertVars
        /\ [VcNext]_vcVars /\ [HistoryNext]_historyVars /\ [GuardNext]_guardVars
        /\ [MatchingNext]_matchingVars
  BY DEF Next, MatchingNext
<1>2. UNCHANGED vars =>
        /\ part' = part
        /\ UNCHANGED pollLoopVars /\ UNCHANGED detectorVars /\ UNCHANGED alertVars
        /\ UNCHANGED vcVars /\ UNCHANGED historyVars /\ UNCHANGED guardVars
        /\ UNCHANGED matchingVars
  BY DEF vars
<1>3. QED
  BY <1>1, <1>2

LEMMA MonitorInvNext == MonitorInv /\ [Next]_vars => MonitorInv'
<1> SUFFICES ASSUME MonitorInv, [Next]_vars PROVE MonitorInv'
  OBVIOUS
<1>1. /\ part' = part
      /\ [PollLoopNext]_pollLoopVars /\ [DetectorNext]_detectorVars /\ [AlertsNext]_alertVars
      /\ [VcNext]_vcVars /\ [HistoryNext]_historyVars /\ [GuardNext]_guardVars
      /\ [MatchingNext]_matchingVars
  BY MonitorSteps
<1>2. PollInv' /\ DetInv' /\ AlertsInv' /\ VcInv'
  BY <1>1, PollInvNext, DetInvNext, AlertsInvNext, VcInvNext DEF MonitorInv
<1>3. NewsInv' /\ HistoryCounts' /\ GuardInv' /\ MatchingInv'
  BY <1>1, NewsInvNext, HistoryCountsNext, GuardInvNext, MatchingInvNext DEF MonitorInv, HistoryInv
<1>4. part' \in Parts
  BY <1>1 DEF MonitorInv
<1>5. QED
  BY <1>2, <1>3, <1>4 DEF MonitorInv, HistoryInv

\* The poll loop, the detector, the alerts, the scrapes of links, the refresh, the guard and
\* the matches keep their types, for any constants.
THEOREM MonitorTypeCorrect == Spec => []TypeOK
<1>1. MonitorInv => TypeOK
  BY PollInvBounds, DetInvTypes, VcInvBounds, HistoryInvBounds, MatchingInvBounds
  DEF MonitorInv, TypeOK, AlertsInv, GuardInv
<1>2. QED
  BY <1>1, MonitorInvInit, MonitorInvNext, PTL DEF Spec

\* The threads of the monitor and the two services keep among each other what each keeps by
\* itself: no step of one breaks what another promises.
THEOREM MonitorCorrect ==
  Spec => [](/\ PollsKept /\ TracesKept /\ BoardRecorded /\ SerialAlertsKept
             /\ WindowsKept /\ NewsIsTold /\ GuardKept /\ MatchingKept)
<1>1. MonitorInv => /\ PollsKept /\ TracesKept /\ BoardRecorded /\ SerialAlertsKept
                    /\ WindowsKept /\ NewsIsTold /\ GuardKept /\ MatchingKept
  BY PollInvBounds, DetInvTraces, DetInvBoard, AlertsInvBounds, VcInvBounds, HistoryInvBounds,
     GuardInvBounds, MatchingInvBounds DEF MonitorInv, BoardRecorded
<1>2. QED
  BY <1>1, MonitorInvInit, MonitorInvNext, PTL DEF Spec

\* field_state and the traces implement the history of fields whatever else runs.
THEOREM MonitorImplementsHistory == Spec => ImplementsFieldHistory
<1>1. Init => History!Init
  BY HistoryStarts DEF Init
<1>2. MonitorInv /\ [Next]_vars => [History!Next]_(History!vars)
  BY MonitorSteps, HistorySteps DEF MonitorInv
<1>3. QED
  BY <1>1, <1>2, MonitorInvInit, MonitorInvNext, PTL DEF Spec, ImplementsFieldHistory, History!Spec

=============================================================================
