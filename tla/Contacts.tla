------------------------------ MODULE Contacts ------------------------------
(***************************************************************************)
(* Where a user is reached, and whether at all: the e-mail address and     *)
(* whether it bounced, the Telegram chat, the settings of the account and  *)
(* the preference of one alert of one case.  They are written by the       *)
(* user's requests, by webhooks and by the retry worker, and read by       *)
(* services/notification_dispatch and again by the worker that sends.      *)
(*                                                                         *)
(* Every call of the repository commits by itself, so that what one of     *)
(* these threads has read may be old when it is used.  A row of the queue  *)
(* is no more here than its user and its channel (its life is in           *)
(* NotificationQueue, caps and repetitions in NotificationDispatch).       *)
(***************************************************************************)
EXTENDS Integers, FiniteSets

CONSTANTS
  Persons,         \* users
  Emails, Chats,   \* e-mail addresses, Telegram accounts
  First, FirstEmail, FirstChat,   \* the one who can be reached at the beginning, and where
  Keys, Updates,   \* settings of an account, and what a request may say of them
  Handlers,        \* threads of requests, webhooks, producers and workers
  None,
  MaxContactCalls, MaxContactFaults    \* bounds on what arrives, and on what fails

ASSUME ContactsAssumption ==
  /\ IsFiniteSet(Handlers)
  /\ First \in Persons /\ FirstEmail \in Emails /\ FirstChat \in Chats
  /\ None \notin Emails \cup Chats \cup Persons
  /\ \A update \in Updates :
       update \in [DOMAIN update -> BOOLEAN] /\ DOMAIN update \subseteq Keys /\ DOMAIN update # {}
  /\ MaxContactCalls \in Nat /\ MaxContactFaults \in Nat

VARIABLES
  person,      \* rows of users
  settings,    \* notification_prefs of each user
  alert_pref,  \* the row of alert_preferences of each user, None = no row
  queued,      \* rows in notification_queue, by user and channel
  mailed,      \* addresses that have had mail
  hpc, hreq,   \* where each thread is and what it has read
  contactCalls, contactFaults,
  \* history
  held,        \* <<user, address>> of every address a user could be mailed at
  bounced,     \* addresses that were refused or bounced
  stopped,     \* what each user has stopped: mail, by a bounce; the chat; the alert
  owed, heard, \* what was under way when they did, and what has come since
  wanted,      \* settings as of the last request that named each of them
  disturbed    \* <<user, key>> that another update got in the way of

contactsVars == <<person, settings, alert_pref, queued, mailed, hpc, hreq, contactCalls,
                  contactFaults, held, bounced, stopped, owed, heard, wanted, disturbed>>

threadVars == <<hpc, hreq>>
limitVars == <<contactCalls, contactFaults>>
stopVars == <<stopped, owed, heard>>
settingVars == <<settings, wanted, disturbed>>
mailVars == <<held, bounced, mailed>>

MessageChannels == {"telegram", "email", "whatsapp"}
Stops == {"email", "telegram", "alert"}

PersonRow ==
  [email : Emails \cup {None}, email_verified : BOOLEAN, email_valid : BOOLEAN,
   telegram_username : Chats \cup {None}, telegram_chat_id : Chats \cup {None},
   preferred_channel : {"telegram", "email", "both"}]

AlertPref == [channel : MessageChannels, enabled : BOOLEAN]

ASSUME AlertPrefAssumption == None \notin AlertPref /\ None \notin MessageChannels /\ None \notin BOOLEAN

HandlerStep == {"idle", "invalid", "merge", "enable", "pref", "queue", "post"}

NoRequest == [who |-> None, where |-> None, channels |-> {}, row |-> None, update |-> << >>,
              seen |-> << >>, overlapped |-> {}]

ContactsTypeOK ==
  /\ person \in [Persons -> PersonRow]
  /\ settings \in [Persons -> [Keys -> BOOLEAN]] /\ wanted \in [Persons -> [Keys -> BOOLEAN]]
  /\ alert_pref \in [Persons -> AlertPref \cup {None}]
  /\ queued \in [Persons \X MessageChannels -> Nat]
  /\ mailed \subseteq Emails /\ bounced \subseteq Emails
  /\ hpc \in [Handlers -> HandlerStep]
  /\ hreq \in [Handlers -> [who : Persons \cup {None}, where : Emails \cup Chats \cup {None},
                            channels : SUBSET MessageChannels, row : PersonRow \cup {None},
                            update : Updates \cup {<< >>},
                            seen : [Keys -> BOOLEAN] \cup {<< >>}, overlapped : SUBSET Keys]]
  /\ contactCalls \in 0 .. MaxContactCalls /\ contactFaults \in 0 .. MaxContactFaults
  /\ held \subseteq Persons \X Emails /\ disturbed \subseteq Persons \X Keys
  /\ stopped \subseteq Persons \X Stops
  /\ owed \in [Persons \X Stops -> Nat] /\ heard \in [Persons \X Stops -> Nat]

Newcomer == [email |-> None, email_verified |-> FALSE, email_valid |-> TRUE,
             telegram_username |-> None, telegram_chat_id |-> None, preferred_channel |-> "both"]

Settled(email, chat) ==
  [Newcomer EXCEPT !.email = email, !.email_verified = TRUE,
                   !.telegram_username = chat, !.telegram_chat_id = chat]

\* First can be reached, the others have given no address yet.
ContactsInit ==
  /\ person = [u \in Persons |-> IF u = First THEN Settled(FirstEmail, FirstChat) ELSE Newcomer]
  /\ held = {<<u, person[u].email>> : u \in {v \in Persons : person[v].email_verified}}
  /\ settings = [u \in Persons |-> [k \in Keys |-> TRUE]] /\ wanted = settings
  /\ alert_pref = [u \in Persons |-> None]
  /\ queued = [x \in Persons \X MessageChannels |-> 0]
  /\ mailed = {} /\ bounced = {} /\ disturbed = {} /\ stopped = {}
  /\ hpc = [r \in Handlers |-> "idle"] /\ hreq = [r \in Handlers |-> NoRequest]
  /\ contactCalls = 0 /\ contactFaults = 0
  /\ owed = [x \in Persons \X Stops |-> 0] /\ heard = [x \in Persons \X Stops |-> 0]

-----------------------------------------------------------------------------
(* Threads and history.                                                    *)

Proceed(r, step, request) ==
  /\ hpc' = [hpc EXCEPT ![r] = step]
  /\ hreq' = [hreq EXCEPT ![r] = request]

HandlerDone(r) == Proceed(r, "idle", NoRequest)

\* The next request, report or alert.
ContactCall ==
  /\ contactCalls < MaxContactCalls /\ contactCalls' = contactCalls + 1
  /\ UNCHANGED contactFaults

At(u, step, ch) ==
  Cardinality({r \in Handlers : hpc[r] = step /\ hreq[r].who = u /\ ch \in hreq[r].channels})

\* Messages under way to a user: rows of the queue, rows about to be written, messages
\* about to be sent.  A call that has read the user but not the preference may become
\* a row of either channel.
UnderWay(u, stop) ==
  CASE stop = "email" -> queued[u, "email"] + At(u, "pref", "email") + At(u, "queue", "email")
                         + At(u, "post", "email")
    [] stop = "telegram" -> At(u, "post", "telegram")
    [] stop = "alert" -> At(u, "queue", "email") + At(u, "queue", "telegram") + At(u, "queue", "whatsapp")

Stop(u, stop) ==
  /\ stopped' = stopped \cup {<<u, stop>>}
  /\ IF <<u, stop>> \in stopped
     THEN UNCHANGED <<owed, heard>>
     ELSE /\ owed' = [owed EXCEPT ![<<u, stop>>] = UnderWay(u, stop)]
          /\ heard' = [heard EXCEPT ![<<u, stop>>] = 0]

Resume(u, stop) ==
  /\ stopped' = stopped \ {<<u, stop>>}
  /\ owed' = [owed EXCEPT ![<<u, stop>>] = 0]
  /\ heard' = [heard EXCEPT ![<<u, stop>>] = 0]

Hear(u, stop) ==
  /\ heard' = IF <<u, stop>> \in stopped THEN [heard EXCEPT ![<<u, stop>>] = @ + 1] ELSE heard
  /\ UNCHANGED <<stopped, owed>>

Hold(u) == held' = IF person'[u].email_verified /\ person'[u].email # None
                   THEN held \cup {<<u, person'[u].email>>} ELSE held

-----------------------------------------------------------------------------
(* The user's own contacts: routes/auth, and Telegram's webhook.           *)

\* The unique index on addresses.
FreeEmail(u, email) == \A v \in Persons \ {u} : person[v].email # email

\* After its code was given; that the former address bounced is not forgotten.
set_email_verified(u, email) ==
  /\ ContactCall
  /\ FreeEmail(u, email)
  /\ person' = [person EXCEPT ![u].email = email, ![u].email_verified = TRUE]
  /\ Hold(u)
  /\ UNCHANGED <<settingVars, alert_pref, queued, threadVars, stopVars, mailed, bounced>>

\* update_me; email_verified stays.
ChangeEmail(u, email) ==
  /\ ContactCall
  /\ FreeEmail(u, email)
  /\ person' = [person EXCEPT ![u].email = email]
  /\ Hold(u)
  /\ UNCHANGED <<settingVars, alert_pref, queued, threadVars, stopVars, mailed, bounced>>

\* update_me; the chat stays.
GiveUsername(u, chat) ==
  /\ ContactCall
  /\ person' = [person EXCEPT ![u].telegram_username = chat]
  /\ UNCHANGED <<settingVars, alert_pref, queued, threadVars, stopVars, mailVars>>

clear_telegram_chat_id(u) ==
  /\ ContactCall
  /\ person' = [person EXCEPT ![u].telegram_chat_id = None, ![u].telegram_username = None]
  /\ Stop(u, "telegram")
  /\ UNCHANGED <<settingVars, alert_pref, queued, threadVars, mailVars>>

\* /start: the chat is given to one of those who gave its name; nothing else is changed.
set_telegram_chat_id_by_username(u, chat) ==
  /\ person[u].telegram_username = chat
  /\ ContactCall
  /\ person' = [person EXCEPT ![u].telegram_chat_id = chat]
  /\ Resume(u, "telegram")
  /\ UNCHANGED <<settingVars, alert_pref, queued, threadVars, mailVars>>

\* PATCH /notifications/prefs
update_user_notification_prefs(u, channel) ==
  /\ ContactCall
  /\ person' = [person EXCEPT ![u].preferred_channel = channel]
  /\ UNCHANGED <<settingVars, alert_pref, queued, threadVars, stopVars, mailVars>>

-----------------------------------------------------------------------------
(* Settings: the row is read, and written with the update, in two          *)
(* transactions.                                                           *)

get_notification_prefs(r, u, update) ==
  /\ hpc[r] = "idle"
  /\ ContactCall
  /\ Proceed(r, "merge", [NoRequest EXCEPT !.who = u, !.update = update, !.seen = settings[u]])
  /\ UNCHANGED <<person, settingVars, alert_pref, queued, stopVars, mailVars>>

\* Mutant: what is not named goes back to its default.
MergedWithDefaults(old, update) == [k \in Keys |-> IF k \in DOMAIN update THEN update[k] ELSE TRUE]

Merged(old, update) == [k \in Keys |-> IF k \in DOMAIN update THEN update[k] ELSE old[k]]

\* Those who have read the settings before this write will undo it.
update_notification_prefs(r) ==
  LET u == hreq[r].who
      named == DOMAIN hreq[r].update
  IN
  /\ hpc[r] = "merge"
  /\ settings' = [settings EXCEPT ![u] = Merged(hreq[r].seen, hreq[r].update)]
  /\ wanted' = [wanted EXCEPT ![u] = [k \in Keys |-> IF k \in named THEN hreq[r].update[k] ELSE @[k]]]
  /\ disturbed' = (disturbed \ {<<u, k>> : k \in named}) \cup {<<u, k>> : k \in hreq[r].overlapped \ named}
  /\ hpc' = [hpc EXCEPT ![r] = "idle"]
  /\ hreq' = [q \in Handlers |->
       IF q = r THEN NoRequest
       ELSE IF hpc[q] = "merge" /\ hreq[q].who = u
       THEN [hreq[q] EXCEPT !.overlapped = @ \cup named \cup hreq[r].overlapped]
       ELSE hreq[q]]
  /\ UNCHANGED <<person, alert_pref, queued, limitVars, stopVars, mailVars>>

-----------------------------------------------------------------------------
(* The preference of an alert.                                             *)

DefaultPref == [channel |-> "whatsapp", enabled |-> TRUE]

Switch(u, enabled) == IF enabled THEN Resume(u, "alert") ELSE Stop(u, "alert")

\* What is not given (None) stays, or is the default of a new row.
upsert_single_alert_pref(u, channel, enabled) ==
  LET old == IF alert_pref[u] = None THEN DefaultPref ELSE alert_pref[u]
      new == [channel |-> IF channel = None THEN old.channel ELSE channel,
              enabled |-> IF enabled = None THEN old.enabled ELSE enabled]
  IN
  /\ alert_pref' = [alert_pref EXCEPT ![u] = new]
  /\ IF enabled = None THEN UNCHANGED stopVars ELSE Switch(u, enabled)

\* PATCH, and DELETE /notify, which is one with enabled = FALSE.
PatchPref(u) ==
  /\ ContactCall
  /\ \/ \E channel \in MessageChannels : upsert_single_alert_pref(u, channel, None)
     \/ \E enabled \in BOOLEAN : upsert_single_alert_pref(u, None, enabled)
  /\ UNCHANGED <<person, settingVars, queued, threadVars, mailVars>>

\* PUT gives every column.
upsert_alert_prefs(u) ==
  /\ ContactCall
  /\ \E pref \in AlertPref : upsert_single_alert_pref(u, pref.channel, pref.enabled)
  /\ UNCHANGED <<person, settingVars, queued, threadVars, mailVars>>

\* POST /notify: the case is tracked, if it is not, and then the alert is switched on.
subscribe_causelist_alert(r, u) ==
  /\ hpc[r] = "idle"
  /\ ContactCall
  /\ Proceed(r, "enable", [NoRequest EXCEPT !.who = u])
  /\ UNCHANGED <<person, settingVars, alert_pref, queued, stopVars, mailVars>>

EnableAlert(r) ==
  /\ hpc[r] = "enable"
  /\ upsert_single_alert_pref(hreq[r].who, None, TRUE)
  /\ HandlerDone(r)
  /\ UNCHANGED <<person, settingVars, queued, limitVars, mailVars>>

-----------------------------------------------------------------------------
(* enqueue_notification: the user is read, the preference is read, and     *)
(* there is a row for every channel.                                       *)

Emailable(row) == row.email_verified /\ row.email # None /\ row.email_valid

\* The preference has the say; the channel the user prefers only counts without one.
ChannelsOf(row, pref) ==
  LET effective == IF pref # None THEN pref.channel ELSE row.preferred_channel
      all == IF effective = "both" THEN {"telegram", "email"} ELSE {effective}
  IN {ch \in all : /\ ch = "telegram" => row.telegram_chat_id # None
                   /\ ch = "email" => Emailable(row)}

ReadUser(r, u) ==
  /\ hpc[r] = "idle"
  /\ ContactCall
  /\ Proceed(r, "pref", [NoRequest EXCEPT !.who = u, !.row = person[u], !.channels = {"email"}])
  /\ UNCHANGED <<person, settingVars, alert_pref, queued, stopVars, mailVars>>

\* Nothing is sent when the alert is off, within its quiet hours (it may have some and be
\* that time, or not), or without a channel.
Choose(r, pref) ==
  LET channels == ChannelsOf(hreq[r].row, pref)
  IN \/ pref # None /\ HandlerDone(r)
     \/ /\ pref # None => pref.enabled
        /\ IF channels = {} THEN HandlerDone(r)
           ELSE Proceed(r, "queue", [hreq[r] EXCEPT !.channels = channels])

ReadPref(r) ==
  /\ hpc[r] = "pref"
  /\ Choose(r, alert_pref[hreq[r].who])
  /\ UNCHANGED <<person, settingVars, alert_pref, queued, stopVars, mailVars, limitVars>>

\* A preference that cannot be read is none, whatever the user switched off.
ReadPrefFails(r) ==
  LET u == hreq[r].who
  IN
  /\ hpc[r] = "pref"
  /\ contactFaults < MaxContactFaults /\ contactFaults' = contactFaults + 1
  /\ Choose(r, None)
  /\ owed' = IF <<u, "alert">> \in stopped
             THEN [owed EXCEPT ![<<u, "alert">>] = @ + Cardinality(ChannelsOf(hreq[r].row, None))]
             ELSE owed
  /\ UNCHANGED <<person, settingVars, alert_pref, queued, stopped, heard, mailVars, contactCalls>>

WriteRow(r, ch) ==
  LET u == hreq[r].who
      left == hreq[r].channels \ {ch}
  IN
  /\ hpc[r] = "queue" /\ ch \in hreq[r].channels
  /\ queued' = [queued EXCEPT ![<<u, ch>>] = @ + 1]
  /\ Hear(u, "alert")
  /\ IF left = {} THEN HandlerDone(r) ELSE Proceed(r, "queue", [hreq[r] EXCEPT !.channels = left])
  /\ UNCHANGED <<person, settingVars, alert_pref, mailVars, limitVars>>

-----------------------------------------------------------------------------
(* The retry worker reads the user again, and sends to what it has read;   *)
(* it does not look at email_valid.                                        *)

Address(row, ch) ==
  CASE ch = "email" -> IF row.email_verified THEN row.email ELSE None
    [] ch = "telegram" -> row.telegram_chat_id
    [] ch = "whatsapp" -> None

\* A row without an address fails, and so does every attempt at it; WhatsApp always has
\* a number, and what is sent there is told nobody here.
TakeRow(r, u, ch) ==
  /\ hpc[r] = "idle"
  /\ queued[u, ch] > 0
  /\ queued' = [queued EXCEPT ![<<u, ch>>] = @ - 1]
  /\ IF Address(person[u], ch) = None
     THEN UNCHANGED threadVars
     ELSE Proceed(r, "post", [NoRequest EXCEPT !.who = u, !.channels = {ch},
                                               !.where = Address(person[u], ch)])
  /\ UNCHANGED <<person, settingVars, alert_pref, stopVars, mailVars, limitVars>>

Post(r) ==
  LET u == hreq[r].who
      ch == CHOOSE c \in hreq[r].channels : TRUE
  IN
  /\ hpc[r] = "post"
  /\ mailed' = IF ch = "email" THEN mailed \cup {hreq[r].where} ELSE mailed
  /\ Hear(u, ch)
  /\ HandlerDone(r)
  /\ UNCHANGED <<person, settingVars, alert_pref, queued, held, bounced, limitVars>>

\* The row is tried again, or given up.
PostFails(r) ==
  /\ hpc[r] = "post"
  /\ \E again \in {0, 1} :
       queued' = [queued EXCEPT ![<<hreq[r].who, CHOOSE c \in hreq[r].channels : TRUE>>] = @ + again]
  /\ HandlerDone(r)
  /\ UNCHANGED <<person, settingVars, alert_pref, stopVars, mailVars, limitVars>>

\* The provider answers 4xx: then the user is marked, and the row tried again or given up.
PostRefused(r) ==
  /\ hpc[r] = "post" /\ hreq[r].channels = {"email"}
  /\ \E again \in {0, 1} : queued' = [queued EXCEPT ![<<hreq[r].who, "email">>] = @ + again]
  /\ bounced' = bounced \cup {hreq[r].where}
  /\ Proceed(r, "invalid", [NoRequest EXCEPT !.who = hreq[r].who, !.where = hreq[r].where])
  /\ UNCHANGED <<person, settingVars, alert_pref, stopVars, held, mailed, limitVars>>

\* run_monitor._deliver mails the subscribers of WhatsApp too, bounced or not.
MonitorMails(u) ==
  /\ Address(person[u], "email") \notin {None} \cup mailed
  /\ mailed' = mailed \cup {person[u].email}
  /\ UNCHANGED <<person, settingVars, alert_pref, queued, threadVars, stopVars, held, bounced, limitVars>>

-----------------------------------------------------------------------------
(* Resend's webhook: who has the address now, and then the mark.           *)

\* get_user_by_email
HasVerified(u, email) == person[u].email = email /\ person[u].email_verified

\* A report comes once, or again, for an address that nobody may have any more.
Bounce(r, email) ==
  /\ hpc[r] = "idle" /\ email \in mailed
  /\ ContactCall
  /\ bounced' = bounced \cup {email}
  /\ IF \E u \in Persons : HasVerified(u, email)
     THEN Proceed(r, "invalid", [NoRequest EXCEPT !.who = CHOOSE u \in Persons : HasVerified(u, email),
                                                  !.where = email])
     ELSE UNCHANGED threadVars
  /\ UNCHANGED <<person, settingVars, alert_pref, queued, stopVars, held, mailed>>

\* By id: whatever the address is by now.
set_email_invalid(r) ==
  LET u == hreq[r].who
  IN
  /\ hpc[r] = "invalid"
  /\ person' = [person EXCEPT ![u].email_valid = FALSE]
  /\ Stop(u, "email")
  /\ HandlerDone(r)
  /\ UNCHANGED <<settingVars, alert_pref, queued, mailVars, limitVars>>

\* A request or a thread is given up between two transactions; a row it had taken comes
\* back when its lock expires.
HandlerFails(r) ==
  LET row == <<hreq[r].who, IF hpc[r] = "post" THEN CHOOSE c \in hreq[r].channels : TRUE ELSE "email">>
  IN
  /\ hpc[r] # "idle"
  /\ contactFaults < MaxContactFaults /\ contactFaults' = contactFaults + 1
  /\ queued' = IF hpc[r] = "post" THEN [queued EXCEPT ![row] = @ + 1] ELSE queued
  /\ HandlerDone(r)
  /\ UNCHANGED <<person, settingVars, alert_pref, stopVars, mailVars, contactCalls>>

HandlerNext(r) ==
  \/ \E u \in Persons :
       \/ \E update \in Updates : get_notification_prefs(r, u, update)
       \/ subscribe_causelist_alert(r, u)
       \/ ReadUser(r, u)
       \/ \E ch \in MessageChannels : TakeRow(r, u, ch)
  \/ update_notification_prefs(r) \/ EnableAlert(r)
  \/ ReadPref(r) \/ ReadPrefFails(r) \/ \E ch \in MessageChannels : WriteRow(r, ch)
  \/ Post(r) \/ PostFails(r) \/ PostRefused(r)
  \/ \E email \in Emails : Bounce(r, email)
  \/ set_email_invalid(r)
  \/ HandlerFails(r)

PersonNext(u) ==
  \/ \E email \in Emails : set_email_verified(u, email) \/ ChangeEmail(u, email)
  \/ \E chat \in Chats : GiveUsername(u, chat) \/ set_telegram_chat_id_by_username(u, chat)
  \/ clear_telegram_chat_id(u)
  \/ \E channel \in {"telegram", "email"} : update_user_notification_prefs(u, channel)
  \/ PatchPref(u) \/ upsert_alert_prefs(u)
  \/ MonitorMails(u)

ContactsNext ==
  \/ \E r \in Handlers : HandlerNext(r)
  \/ \E u \in Persons : PersonNext(u)

ContactsSpec == ContactsInit /\ [][ContactsNext]_contactsVars

-----------------------------------------------------------------------------
(* Properties.                                                             *)

\* A setting is what the last request that named it said, unless another request was
\* between its read and its write then.
SettingsKept ==
  \A u \in Persons, k \in Keys : settings[u][k] # wanted[u][k] => <<u, k>> \in disturbed

\* An account whose mail is off had an address that bounced.
BouncesHaveCause ==
  \A u \in Persons : ~ person[u].email_valid => \E email \in bounced : <<u, email>> \in held

\* What a user has stopped - mail by a bounce, the chat by unlinking it, the alert by its
\* preference - comes after that no more often than messages were under way then, and the
\* alert once more for every time the preference could not be read.
StopsHold == \A x \in stopped : heard[x] <= owed[x]

\* No update of an account's contacts is lost or outlived, but for requests and messages
\* that were under way (routes/auth, routes/webhooks, enqueue_notification, _dispatch_queue_item).
ContactsKept == SettingsKept /\ BouncesHaveCause /\ StopsHold

=============================================================================
