----------------------------- MODULE CaseHistory -----------------------------
(***************************************************************************)
(* eCourts histories of tracked cases: case_history_refresh.refresh_cases, *)
(* which fetches them every night, caches them and tells those who track   *)
(* the case what is new, and routes/my_cases.fetch_ecourts, which fills    *)
(* the same cache on request.                                              *)
(*                                                                         *)
(* One case.  A history is its next hearing date, 0 = none, and the number *)
(* of its orders.  Dispatch is its table of keys: one notification per     *)
(* user, trigger and day, or none at all for other reasons (preferences,   *)
(* quiet hours, the cap).  The cache keeps what is fresh from being        *)
(* fetched for six hours; hours are not counted, so a request may find it  *)
(* old at any time.                                                        *)
(***************************************************************************)
EXTENDS Integers

CONSTANTS
  Followers,       \* users
  Contents,        \* histories that eCourts may show
  Unknown,
  MaxNights, MaxVisits, MaxStops   \* bounds

ASSUME CaseHistoryAssumption ==
  /\ Contents \subseteq [hearing : Nat, orders : Nat]
  /\ Unknown \notin Nat
  /\ MaxNights \in Nat \ {0}
  /\ MaxVisits \in Nat /\ MaxStops \in Nat

VARIABLES
  night,
  history,     \* case_history_cache, nothing for no row
  followed,    \* tracked_cases: "no", "no_cino" or "cino"
  fetch,       \* the thread of a fetch_ecourts
  refreshed,   \* _last_refresh_date
  refresh_step,
  followers,   \* user_ids of the refresh
  old_data, new_data,   \* in the cache before, and what was fetched
  order,       \* number of the order being told
  untold,      \* users still to be told of the hearing, or of that order
  keys,        \* dedup keys: [user, trigger, night]
  knows,       \* history: what a user has been told, or has seen in the cache
  visits, stops

historyVars == <<night, history, followed, fetch, refreshed, refresh_step, followers,
                 old_data, new_data, order, untold, keys, knows, visits, stops>>

refreshVars == <<refreshed, refresh_step, followers, old_data, new_data, order, untold>>

Nothing == [hearing |-> 0, orders |-> 0]

Histories == Contents \cup {Nothing}

Knowledge == [hearing : Nat \cup {Unknown}, orders : Nat \cup {Unknown}]

NoIdea == [hearing |-> Unknown, orders |-> Unknown]

NoFetch == [step |-> "none"]

HistoryTypeOK ==
  /\ night \in 1 .. MaxNights
  /\ history \in Histories
  /\ followed \in [Followers -> {"no", "no_cino", "cino"}]
  /\ fetch \in [step : {"write", "learn"}, user : Followers, with_cino : BOOLEAN, data : Histories]
                 \cup {NoFetch}
  /\ refreshed \in 0 .. MaxNights
  /\ refresh_step \in {"idle", "old", "fetch", "set", "hearing", "orders"}
  /\ followers \subseteq Followers /\ untold \subseteq followers
  /\ old_data \in Histories /\ new_data \in Histories /\ order \in Nat
  /\ \A k \in keys : k.user \in Followers /\ k.night \in 1 .. MaxNights
  /\ knows \in [Followers -> Knowledge]
  /\ visits \in 0 .. MaxVisits /\ stops \in 0 .. MaxStops

\* Nobody follows the case, or all do, and there is no news of it yet.
HistoryInit ==
  /\ night = 1
  /\ history = Nothing
  /\ \/ /\ followed = [u \in Followers |-> "no"]
        /\ knows = [u \in Followers |-> NoIdea]
     \/ /\ followed = [u \in Followers |-> "cino"]
        /\ knows = [u \in Followers |-> Nothing]
  /\ fetch = NoFetch
  /\ refreshed = 0 /\ refresh_step = "idle"
  /\ followers = {} /\ untold = {}
  /\ old_data = Nothing /\ new_data = Nothing /\ order = 0
  /\ keys = {}
  /\ visits = 0 /\ stops = 0

-----------------------------------------------------------------------------
(* The requests of users.                                                  *)

Visit == visits < MaxVisits /\ visits' = visits + 1

\* One who begins to follow the case sees what is in the cache; the refresh under way
\* does not know of him.
Sees == IF refresh_step = "idle" THEN history ELSE NoIdea

\* add_tracked_case writes over the number of the case.
Follow(u, how) ==
  /\ how \in {"no_cino", "cino"}
  /\ Visit
  /\ followed' = [followed EXCEPT ![u] = how]
  /\ knows' = [knows EXCEPT ![u] = IF how = "no_cino" THEN NoIdea
                                   ELSE IF followed[u] = "cino" THEN @ ELSE Sees]
  /\ UNCHANGED <<night, history, fetch, refreshVars, keys, stops>>

Unfollow(u) ==
  /\ followed[u] # "no"
  /\ Visit
  /\ followed' = [followed EXCEPT ![u] = "no"]
  /\ knows' = [knows EXCEPT ![u] = NoIdea]
  /\ UNCHANGED <<night, history, fetch, refreshVars, keys, stops>>

\* The row is read, and a thread fetches the history.
fetch_ecourts(u, data) ==
  /\ fetch = NoFetch
  /\ followed[u] # "no"
  /\ Visit
  /\ fetch' = [step |-> "write", user |-> u, with_cino |-> followed[u] = "cino", data |-> data]
  /\ UNCHANGED <<night, history, followed, refreshVars, keys, knows, stops>>

\* What a user knows when others write the cache: nobody is told.
KnowsStill(k, data) ==
  [hearing |-> IF k.hearing = data.hearing THEN k.hearing ELSE Unknown,
   orders |-> IF k.orders = data.orders THEN k.orders ELSE Unknown]

FetchWrites ==
  /\ fetch.step = "write"
  /\ history' = fetch.data
  /\ knows' = [u \in Followers |-> KnowsStill(knows[u], fetch.data)]
  /\ fetch' = IF fetch.with_cino THEN NoFetch ELSE [fetch EXCEPT !.step = "learn"]
  /\ UNCHANGED <<night, followed, refreshVars, keys, visits, stops>>

\* The number that was found is written to the row, if it is still there.
FetchLearns ==
  LET u == fetch.user
  IN
  /\ fetch.step = "learn"
  /\ followed' = IF followed[u] = "no" THEN followed ELSE [followed EXCEPT ![u] = "cino"]
  /\ fetch' = NoFetch
  /\ UNCHANGED <<night, history, refreshVars, keys, knows, visits, stops>>

FetchEcourtsFails ==
  /\ fetch # NoFetch
  /\ fetch' = NoFetch
  /\ UNCHANGED <<night, history, followed, refreshVars, keys, knows, visits, stops>>

-----------------------------------------------------------------------------
(* The refresh, at 21:30.                                                  *)

RefreshOver ==
  /\ refresh_step' = "idle"
  /\ refreshed' = night
  /\ followers' = {} /\ untold' = {}
  /\ old_data' = Nothing /\ new_data' = Nothing /\ order' = 0

ListCases ==
  LET listed == {u \in Followers : followed[u] = "cino"}
  IN
  /\ refresh_step = "idle" /\ refreshed # night
  /\ IF listed = {} THEN RefreshOver
     ELSE /\ refresh_step' = "old" /\ followers' = listed
          /\ UNCHANGED <<refreshed, old_data, new_data, order, untold>>
  /\ UNCHANGED <<night, history, followed, fetch, keys, knows, visits, stops>>

ReadOld ==
  /\ refresh_step = "old"
  /\ old_data' = history
  /\ refresh_step' = "fetch"
  /\ UNCHANGED <<refreshed, followers, new_data, order, untold>>
  /\ UNCHANGED <<night, history, followed, fetch, keys, knows, visits, stops>>

FetchHistory ==
  /\ refresh_step = "fetch"
  /\ \E data \in Contents : new_data' = data
  /\ refresh_step' = "set"
  /\ UNCHANGED <<refreshed, followers, old_data, order, untold>>
  /\ UNCHANGED <<night, history, followed, fetch, keys, knows, visits, stops>>

\* The case is left for the next night.
HistoryFails ==
  /\ refresh_step \in {"old", "fetch", "set"}
  /\ RefreshOver
  /\ UNCHANGED <<night, history, followed, fetch, keys, knows, visits, stops>>

\* The hearing is told first, then one new order after the other.
TellOrdersFrom(n) ==
  IF n > new_data.orders THEN RefreshOver
  ELSE /\ refresh_step' = "orders" /\ order' = n /\ untold' = followers
       /\ UNCHANGED <<refreshed, followers, old_data, new_data>>

\* Mutant: the old data are read after the new are written.
SetCacheFirst ==
  /\ refresh_step = "set"
  /\ history' = new_data
  /\ RefreshOver
  /\ UNCHANGED <<night, followed, fetch, keys, knows, visits, stops>>

\* A hearing that is not in the new data is not told.
set_case_history_cache ==
  /\ refresh_step = "set"
  /\ history' = new_data
  /\ IF new_data.hearing \notin {0, old_data.hearing}
     THEN /\ refresh_step' = "hearing" /\ untold' = followers
          /\ UNCHANGED <<refreshed, followers, old_data, new_data, order>>
     ELSE TellOrdersFrom(old_data.orders + 1)
  /\ UNCHANGED <<night, followed, fetch, keys, knows, visits, stops>>

Queued(u, trigger) == [user |-> u, trigger |-> trigger, night |-> night]

\* A notification is logged, or refused: the second of a day always is.
Tell(u, trigger, told_, not_told) ==
  \/ /\ Queued(u, trigger) \notin keys
     /\ keys' = keys \cup {Queued(u, trigger)}
     /\ knows' = [knows EXCEPT ![u] = told_]
  \/ /\ knows' = [knows EXCEPT ![u] = not_told]
     /\ UNCHANGED keys

\* A request may have written other data in the meantime.
TellHearing(u) ==
  LET current == followed[u] = "cino" /\ history.hearing = new_data.hearing
  IN
  /\ refresh_step = "hearing" /\ u \in untold
  /\ Tell(u, "hearing_date_changed",
          [knows[u] EXCEPT !.hearing = IF current THEN new_data.hearing ELSE Unknown],
          [knows[u] EXCEPT !.hearing = Unknown])
  /\ IF untold = {u} THEN TellOrdersFrom(old_data.orders + 1)
     ELSE /\ untold' = untold \ {u}
          /\ UNCHANGED <<refreshed, refresh_step, followers, old_data, new_data, order>>
  /\ UNCHANGED <<night, history, followed, fetch, visits, stops>>

\* All orders have the key of the first: only one a day is told.
TellOrder(u) ==
  LET knew == knows[u].orders
  IN
  /\ refresh_step = "orders" /\ u \in untold
  /\ Tell(u, "order_uploaded",
          [knows[u] EXCEPT !.orders = IF knew = order - 1 THEN order ELSE knew],
          [knows[u] EXCEPT !.orders = Unknown])
  /\ IF untold = {u} THEN TellOrdersFrom(order + 1)
     ELSE /\ untold' = untold \ {u}
          /\ UNCHANGED <<refreshed, refresh_step, followers, old_data, new_data, order>>
  /\ UNCHANGED <<night, history, followed, fetch, visits, stops>>

\* What users know when they are not told any more.
LeftUntold ==
  [u \in Followers |->
    [hearing |-> IF refresh_step = "hearing" /\ u \in untold THEN Unknown ELSE knows[u].hearing,
     orders |-> IF refresh_step \in {"hearing", "orders"} /\ knows[u].orders \in 0 .. new_data.orders - 1
                THEN Unknown ELSE knows[u].orders]]

\* A notification raises: the case is over, and its cache written.
TellFails ==
  /\ refresh_step \in {"hearing", "orders"}
  /\ stops < MaxStops /\ stops' = stops + 1
  /\ knows' = LeftUntold
  /\ RefreshOver
  /\ UNCHANGED <<night, history, followed, fetch, keys, visits>>

\* The process dies; the new one does not know that it was refreshed.
ProcessStops ==
  /\ stops < MaxStops /\ stops' = stops + 1
  /\ knows' = LeftUntold
  /\ refresh_step' = "idle" /\ refreshed' = 0
  /\ followers' = {} /\ untold' = {}
  /\ old_data' = Nothing /\ new_data' = Nothing /\ order' = 0
  /\ UNCHANGED <<night, history, followed, fetch, keys, visits>>

NextNight ==
  /\ refresh_step = "idle" /\ night < MaxNights
  /\ night' = night + 1
  /\ UNCHANGED <<history, followed, fetch, refreshVars, keys, knows, visits, stops>>

HistoryNext ==
  \/ \E u \in Followers :
       \/ \E how \in {"no_cino", "cino"} : Follow(u, how)
       \/ \E data \in Contents : fetch_ecourts(u, data)
       \/ Unfollow(u) \/ TellHearing(u) \/ TellOrder(u)
  \/ FetchWrites \/ FetchLearns \/ FetchEcourtsFails
  \/ ListCases \/ ReadOld \/ FetchHistory \/ HistoryFails \/ set_case_history_cache
  \/ TellFails \/ ProcessStops \/ NextNight

HistorySpec == HistoryInit /\ [][HistoryNext]_historyVars

-----------------------------------------------------------------------------
(* Properties.                                                             *)

\* Between refreshes a follower of the case who knew of its hearing and orders still does:
\* refresh_cases told him what it found, however requests wrote the cache and the rows in
\* between.  He does not when a notification was refused, the second of a day (a second
\* order is) or failed, when fetch_ecourts wrote the cache before it or over it, or when he
\* has come since the refresh has begun.  A history without a hearing, or with fewer
\* orders, is not told.
NewsIsTold ==
  refresh_step = "idle" =>
    \A u \in Followers : followed[u] = "cino" =>
      /\ history.hearing # 0 => knows[u].hearing \in {history.hearing, Unknown}
      /\ knows[u].orders = Unknown \/ knows[u].orders >= history.orders

=============================================================================
