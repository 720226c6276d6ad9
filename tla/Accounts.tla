------------------------------ MODULE Accounts ------------------------------
(***************************************************************************)
(* Accounts: routes/auth over storage/repositories/auth_alchemy.  One-time *)
(* codes for a phone (log-in), an e-mail address or a WhatsApp number, and *)
(* the refresh tokens of a log-in.                                         *)
(*                                                                         *)
(* Requests are handled by threads r of one or several API processes; each *)
(* call of the repository commits by itself, so every such call is a step. *)
(* An increment of attempts is two: the row is read by session.get and the *)
(* sum is written by the commit.                                           *)
(*                                                                         *)
(* A code sent back is right or wrong for the row it is compared with.     *)
(* Access tokens keep no state.  Refresh tokens live 30 days and do not    *)
(* expire here.                                                            *)
(***************************************************************************)
EXTENDS Integers, Sequences, FiniteSets

CONSTANTS
  Users,           \* accounts, one per phone
  Registered,      \* those who registered before there was a WhatsApp number
  Places,          \* where codes are sent: [kind |-> "phone" | "email" | "whatsapp", address |-> ...]
  PhoneOf,         \* the place with the phone of a user
  Requests,        \* threads that handle requests
  NoValue,
  OtpLife,         \* OTP_EXPIRE_MINUTES
  ResendAfter,     \* minutes before another code is sent
  OtpMaxAttempts,
  MaxMinutes, MaxCalls     \* bounds on the time and the number of requests

ASSUME AccountsAssumption ==
  /\ IsFiniteSet(Requests)
  /\ DOMAIN PhoneOf = Users /\ Registered \subseteq Users
  /\ \A p \in Places : p.kind \in {"phone", "email", "whatsapp"}
  /\ \A u \in Users : PhoneOf[u].kind = "phone" /\ \A v \in Users \ {u} : PhoneOf[v] # PhoneOf[u]
  /\ OtpLife \in Nat /\ ResendAfter \in Nat /\ OtpMaxAttempts \in Nat
  /\ NoValue \notin Users \cup Places
  /\ MaxMinutes \in Nat /\ MaxCalls \in Nat

VARIABLES
  minute,    \* the clock
  users,     \* rows of users, NoValue = no row
  otps,      \* rows of phone_otps, email_otps and whatsapp_otps
  refresh,   \* rows of refresh_tokens
  rpc,       \* where each request is
  req,       \* its arguments and what it has read
  outs,      \* history: log-ins whose user has logged out
  overlaps,  \* history, by log-in: rotations that another request got in the way of
  calls      \* number of requests so far

accountsVars == <<minute, users, otps, refresh, rpc, req, outs, overlaps, calls>>

Addresses(kind) == {p \in Places : p.kind = kind}

UserRow ==
  [verified : BOOLEAN,
   email : Addresses("email") \cup {NoValue}, email_verified : BOOLEAN,
   whatsapp_number : Places \cup {NoValue} \cup {PhoneOf[u] : u \in Users}, whatsapp_verified : BOOLEAN]

ASSUME RowAssumption == NoValue \notin UserRow

\* compared, overtaken and accepted are history: comparisons with the code, the
\* increments other requests made while one was at it, and successes.
OtpRow ==
  [place : Places, user : Users \cup {NoValue}, expires_at : Nat,
   attempts : Nat, used : BOOLEAN,
   compared : Nat, overtaken : Nat, accepted : Nat]

RefreshRow == [user : Users, login : Nat, revoked : BOOLEAN]

RequestStep ==
  {"idle", "owner", "limit", "upsert", "save",
   "increment", "write", "mark", "apply", "number", "set", "session", "revoke", "rotate"}

Idle == [user |-> NoValue, place |-> NoValue, right |-> FALSE, row |-> 0, read |-> 0, seen |-> 0]

AccountsTypeOK ==
  /\ minute \in 0 .. MaxMinutes
  /\ users \in [Users -> UserRow \cup {NoValue}]
  /\ otps \in Seq(OtpRow) /\ refresh \in Seq(RefreshRow)
  /\ rpc \in [Requests -> RequestStep]
  /\ req \in [Requests -> [user : Users \cup {NoValue}, place : Places \cup {NoValue},
                           right : BOOLEAN, row : Nat, read : Nat, seen : Nat]]
  /\ outs \subseteq 1 .. Len(refresh)
  /\ overlaps \in [1 .. Len(refresh) -> Nat]
  /\ calls \in 0 .. MaxCalls
  /\ \A r \in Requests :
       /\ rpc[r] \in {"increment", "write", "mark", "apply", "number", "set", "session"} =>
            req[r].row \in DOMAIN otps
       /\ rpc[r] \in {"revoke", "rotate"} => req[r].row \in DOMAIN refresh

Old == [verified |-> TRUE, email |-> NoValue, email_verified |-> FALSE,
        whatsapp_number |-> NoValue, whatsapp_verified |-> FALSE]

AccountsInit ==
  /\ minute = 0
  /\ users = [u \in Users |-> IF u \in Registered THEN Old ELSE NoValue]
  /\ otps = <<>> /\ refresh = <<>>
  /\ rpc = [r \in Requests |-> "idle"]
  /\ req = [r \in Requests |-> Idle]
  /\ outs = {} /\ overlaps = <<>>
  /\ calls = 0

Return(r) ==
  /\ rpc' = [rpc EXCEPT ![r] = "idle"]
  /\ req' = [req EXCEPT ![r] = Idle]

Goto(r, step) == rpc' = [rpc EXCEPT ![r] = step] /\ UNCHANGED req

\* The next request.
Call == calls < MaxCalls /\ calls' = calls + 1

Begin(r, step, arguments) ==
  /\ rpc[r] = "idle"
  /\ Call
  /\ rpc' = [rpc EXCEPT ![r] = step]
  /\ req' = [req EXCEPT ![r] = arguments]

Minute ==
  /\ minute < MaxMinutes
  /\ minute' = minute + 1
  /\ UNCHANGED <<users, otps, refresh, rpc, req, outs, overlaps, calls>>

\* Max of a set of row numbers, 0 for none.
LastOf(S) == IF S = {} THEN 0 ELSE CHOOSE i \in S : \A j \in S : j <= i

\* get_latest_otp, get_latest_email_otp, get_latest_whatsapp_otp
Latest(place) == LastOf({i \in DOMAIN otps : otps[i].place = place /\ ~ otps[i].used})

\* get_latest_whatsapp_otp_for_user
LatestForUser(u) ==
  LastOf({i \in DOMAIN otps : otps[i].place.kind = "whatsapp" /\ otps[i].user = u /\ ~ otps[i].used})

-----------------------------------------------------------------------------
(* Sending a code.                                                         *)

\* Another account that has verified the address (get_user_by_email).
Taken(u, email) ==
  \E v \in Users \ {u} :
    users[v] # NoValue /\ users[v].email = email /\ users[v].email_verified

otp_rate_limited(i) == i # 0 /\ otps[i].expires_at - minute > OtpLife - ResendAfter

\* A phone needs no account; for the others the user is logged in.
SendOtp(r, u, place) ==
  /\ place.kind = "phone" => place = PhoneOf[u]
  /\ place.kind # "phone" => users[u] # NoValue
  /\ Begin(r, IF place.kind = "email" THEN "owner" ELSE "limit",
           [Idle EXCEPT !.user = u, !.place = place])
  /\ UNCHANGED <<minute, users, otps, refresh, outs, overlaps>>

CheckOwner(r) ==
  /\ rpc[r] = "owner"
  /\ \/ Taken(req[r].user, req[r].place) /\ Return(r)
     \/ ~ Taken(req[r].user, req[r].place) /\ Goto(r, "limit")
  /\ UNCHANGED <<minute, users, otps, refresh, outs, overlaps, calls>>

CheckLimit(r) ==
  LET place == req[r].place
      latest == IF place.kind = "whatsapp" THEN LatestForUser(req[r].user) ELSE Latest(place)
  IN
  /\ rpc[r] = "limit"
  /\ \/ otp_rate_limited(latest) /\ Return(r)
     \/ ~ otp_rate_limited(latest) /\ Goto(r, IF place.kind = "phone" THEN "upsert" ELSE "save")
  /\ UNCHANGED <<minute, users, otps, refresh, outs, overlaps, calls>>

\* A new account takes the phone for its WhatsApp number, or the number given.
upsert_user(r) ==
  LET u == req[r].user
  IN
  /\ rpc[r] = "upsert"
  /\ \E number \in {PhoneOf[u]} \cup Addresses("whatsapp") :
       users' = IF users[u] = NoValue
                THEN [users EXCEPT ![u] = [Old EXCEPT !.verified = FALSE, !.whatsapp_number = number]]
                ELSE IF users[u].whatsapp_number = NoValue /\ number # PhoneOf[u]
                THEN [users EXCEPT ![u].whatsapp_number = number]
                ELSE users
  /\ Goto(r, "save")
  /\ UNCHANGED <<minute, otps, refresh, outs, overlaps, calls>>

\* The message is sent afterwards; when that fails the row stays.
save_otp(r) ==
  LET row == [place |-> req[r].place,
              user |-> IF req[r].place.kind = "phone" THEN NoValue ELSE req[r].user,
              expires_at |-> minute + OtpLife, attempts |-> 0, used |-> FALSE,
              compared |-> 0, overtaken |-> 0, accepted |-> 0]
  IN
  /\ rpc[r] = "save"
  /\ otps' = Append(otps, row)
  /\ Return(r)
  /\ UNCHANGED <<minute, users, refresh, outs, overlaps, calls>>

-----------------------------------------------------------------------------
(* Verifying it.                                                           *)

\* Who may use a code: the row of an e-mail address or a number has an owner.
MayUse(u, place, i) ==
  /\ i # 0
  /\ place.kind = "phone" \/ otps[i].user = u
  /\ minute <= otps[i].expires_at
  /\ otps[i].attempts < OtpMaxAttempts

\* Mutant: attempts equal to the limit are let through.
LookupLate(r, u, place, right) ==
  LET i == Latest(place)
  IN
  /\ place.kind = "phone" => place = PhoneOf[u]
  /\ i # 0
  /\ place.kind = "phone" \/ otps[i].user = u
  /\ minute <= otps[i].expires_at
  /\ otps[i].attempts <= OtpMaxAttempts
  /\ Begin(r, "increment", [user |-> u, place |-> place, right |-> right, row |-> i, read |-> 0,
                            seen |-> otps[i].compared])
  /\ UNCHANGED <<minute, users, otps, refresh, outs, overlaps>>

\* A request that finds no code, an expired or exhausted one, changes nothing.
Lookup(r, u, place, right) ==
  LET i == Latest(place)
  IN
  /\ place.kind = "phone" => place = PhoneOf[u]
  /\ MayUse(u, place, i)
  /\ Begin(r, "increment", [user |-> u, place |-> place, right |-> right, row |-> i, read |-> 0,
                            seen |-> otps[i].compared])
  /\ UNCHANGED <<minute, users, otps, refresh, outs, overlaps>>

\* session.get, outside of any lock.
ReadAttempts(r) ==
  /\ rpc[r] = "increment"
  /\ rpc' = [rpc EXCEPT ![r] = "write"]
  /\ req' = [req EXCEPT ![r].read = otps[req[r].row].attempts]
  /\ UNCHANGED <<minute, users, otps, refresh, outs, overlaps, calls>>

\* The commit; then the code is compared.
increment_otp_attempts(r) ==
  LET i == req[r].row
  IN
  /\ rpc[r] = "write"
  /\ otps' = [otps EXCEPT ![i].attempts = req[r].read + 1,
                          ![i].compared = @ + 1,
                          ![i].overtaken = @ + (otps[i].compared - req[r].seen)]
  /\ \/ req[r].right /\ Goto(r, "mark")
     \/ ~ req[r].right /\ Return(r)
  /\ UNCHANGED <<minute, users, refresh, outs, overlaps, calls>>

mark_otp_used(r) ==
  LET i == req[r].row
  IN
  /\ rpc[r] = "mark"
  /\ otps' = [otps EXCEPT ![i].used = TRUE, ![i].accepted = @ + 1]
  /\ Goto(r, "apply")
  /\ UNCHANGED <<minute, users, refresh, outs, overlaps, calls>>

mark_user_verified(r) ==
  /\ rpc[r] = "apply"
  /\ req[r].place.kind = "phone"
  /\ users' = [users EXCEPT ![req[r].user].verified = TRUE]
  /\ Goto(r, "number")
  /\ UNCHANGED <<minute, otps, refresh, outs, overlaps, calls>>

\* An account without a WhatsApp number gets the phone's, in another transaction.
ReadNumber(r) ==
  /\ rpc[r] = "number"
  /\ Goto(r, IF users[req[r].user].whatsapp_number = NoValue THEN "set" ELSE "session")
  /\ UNCHANGED <<minute, users, otps, refresh, outs, overlaps, calls>>

SetPhoneNumber(r) ==
  LET u == req[r].user
  IN
  /\ rpc[r] = "set"
  /\ users' = [users EXCEPT ![u].whatsapp_number = PhoneOf[u], ![u].whatsapp_verified = TRUE]
  /\ Goto(r, "session")
  /\ UNCHANGED <<minute, otps, refresh, outs, overlaps, calls>>

\* The unique index on e-mail addresses, verified or not.
EmailFree(u, email) == ~ \E v \in Users \ {u} : users[v] # NoValue /\ users[v].email = email

\* set_email_verified raises when another account holds the address.
VerifyEmail(r) ==
  LET u == req[r].user
  IN
  /\ rpc[r] = "apply"
  /\ req[r].place.kind = "email"
  /\ users' = IF EmailFree(u, req[r].place)
              THEN [users EXCEPT ![u].email = req[r].place, ![u].email_verified = TRUE]
              ELSE users
  /\ Return(r)
  /\ UNCHANGED <<minute, otps, refresh, outs, overlaps, calls>>

VerifyWhatsapp(r) ==
  LET u == req[r].user
  IN
  /\ rpc[r] = "apply"
  /\ req[r].place.kind = "whatsapp"
  /\ users' = [users EXCEPT ![u].whatsapp_number = req[r].place, ![u].whatsapp_verified = TRUE]
  /\ Return(r)
  /\ UNCHANGED <<minute, otps, refresh, outs, overlaps, calls>>

-----------------------------------------------------------------------------
(* Sessions. A log-in is known by the number of its first token.           *)

SaveToken(u, login) ==
  /\ refresh' = Append(refresh, [user |-> u, login |-> login, revoked |-> FALSE])
  /\ overlaps' = Append(overlaps, 0)

LogIn(r) ==
  /\ rpc[r] = "session"
  /\ SaveToken(req[r].user, Len(refresh) + 1)
  /\ Return(r)
  /\ UNCHANGED <<minute, users, otps, outs, calls>>

\* get_refresh_token: the token must not be revoked.
Refresh(r, t) ==
  /\ ~ refresh[t].revoked
  /\ Begin(r, "revoke", [Idle EXCEPT !.row = t])
  /\ UNCHANGED <<minute, users, otps, refresh, outs, overlaps>>

Overlap(login, n) == overlaps' = [overlaps EXCEPT ![login] = @ + n]

revoke_refresh_token(r) ==
  LET t == req[r].row
  IN
  /\ rpc[r] = "revoke"
  /\ refresh' = [refresh EXCEPT ![t].revoked = TRUE]
  /\ Overlap(refresh[t].login, IF refresh[t].revoked THEN 1 ELSE 0)
  /\ Goto(r, "rotate")
  /\ UNCHANGED <<minute, users, otps, outs, calls>>

Rotate(r) ==
  LET t == req[r].row
  IN
  /\ rpc[r] = "rotate"
  /\ SaveToken(refresh[t].user, refresh[t].login)
  /\ Return(r)
  /\ UNCHANGED <<minute, users, otps, outs, calls>>

\* The cookie of a log-out may be one that a rotation has just replaced.
Logout(t) ==
  LET login == refresh[t].login
  IN
  /\ Call
  /\ refresh' = [refresh EXCEPT ![t].revoked = TRUE]
  /\ outs' = outs \cup {login}
  /\ Overlap(login, IF refresh[t].revoked THEN 1 ELSE 0)
  /\ UNCHANGED <<minute, users, otps, rpc, req>>

-----------------------------------------------------------------------------

\* update_me and notification settings are one transaction; a change of the address
\* leaves email_verified as it is.
UpdateProfile(u) ==
  /\ users[u] # NoValue
  /\ Call
  /\ \/ \E email \in Addresses("email") :
          EmailFree(u, email) /\ users' = [users EXCEPT ![u].email = email]
     \/ \E number \in Addresses("whatsapp") : users' = [users EXCEPT ![u].whatsapp_number = number]
  /\ UNCHANGED <<minute, otps, refresh, rpc, req, outs, overlaps>>

\* A statement raises, or the process dies.
RequestFails(r) ==
  /\ rpc[r] # "idle"
  /\ Return(r)
  /\ UNCHANGED <<minute, users, otps, refresh, outs, overlaps, calls>>

RequestNext(r) ==
  \/ \E u \in Users, place \in Places : SendOtp(r, u, place)
  \/ CheckOwner(r) \/ CheckLimit(r) \/ upsert_user(r) \/ save_otp(r)
  \/ \E u \in Users, place \in Places, right \in BOOLEAN : Lookup(r, u, place, right)
  \/ ReadAttempts(r) \/ increment_otp_attempts(r) \/ mark_otp_used(r)
  \/ mark_user_verified(r) \/ ReadNumber(r) \/ SetPhoneNumber(r)
  \/ VerifyEmail(r) \/ VerifyWhatsapp(r) \/ LogIn(r)
  \/ \E t \in DOMAIN refresh : Refresh(r, t)
  \/ revoke_refresh_token(r) \/ Rotate(r)
  \/ RequestFails(r)

AccountsNext ==
  \/ Minute
  \/ \E r \in Requests : RequestNext(r)
  \/ \E t \in DOMAIN refresh : Logout(t)
  \/ \E u \in Users : UpdateProfile(u)

AccountsSpec == AccountsInit /\ [][AccountsNext]_accountsVars

-----------------------------------------------------------------------------
(* Properties.                                                             *)

\* A code is compared no more often than its attempts allow, plus one for every
\* increment that fell between the check of the limit and the increment of another
\* request: the counter may be set back by those, never by requests one at a time.
\* Once used it is accepted only for requests that were under way then.
CodesLimited ==
  \A i \in DOMAIN otps :
    /\ otps[i].compared <= OtpMaxAttempts + otps[i].overtaken
    /\ otps[i].accepted <= Cardinality(Requests)

LiveTokens(login) == {t \in DOMAIN refresh : refresh[t].login = login /\ ~ refresh[t].revoked}

\* A log-in has one token that is good for another one, and none after the log-out,
\* but for one more per rotation that overlapped a second rotation or the log-out
\* (routes/auth.refresh: the old token is read, revoked and replaced in three steps).
SessionsBounded ==
  \A login \in DOMAIN refresh :
    Cardinality(LiveTokens(login)) <= (IF login \in outs THEN 0 ELSE 1) + overlaps[login]

\* Codes are not guessed and sessions not multiplied by requests at the same time, but for
\* those that are at the same row (routes/auth: send and verify codes, refresh, logout).
AccountsKept == CodesLimited /\ SessionsBounded

=============================================================================
