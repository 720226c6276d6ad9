--------------------------- MODULE TelegramSender ---------------------------
(***************************************************************************)
(* Telegram sends: services/telegram_sender (send, _check_rate_limit,      *)
(* _do_send, enqueue_dlq) by several threads and processes that share the  *)
(* counters and the dead-letter list in Redis, and the loop of             *)
(* services/dlq_worker (process_dlq_batch) that drains this list.          *)
(*                                                                         *)
(* A job is one call of send: a notification the queue retries is a new    *)
(* one.  run_monitor does not start run_dlq_worker; DlqWorkers may be      *)
(* empty for what runs today.  The pause between two batches of that       *)
(* worker, and where one batch ends, are not visible here: it may pop at   *)
(* any time.                                                               *)
(*                                                                         *)
(* Time is counted in ticks, Second of them to a second.                   *)
(***************************************************************************)
EXTENDS Integers, Sequences, FiniteSets

CONSTANTS
  MaxCalls,        \* bound on calls of send; a job is the number of its call
  Chats,
  Senders,         \* threads that call send
  DlqWorkers,      \* threads that run run_dlq_worker
  Second,          \* ticks in a second: expiry of a counter, pause when limited
  RetryDelay,      \* ticks between retries on failure
  GlobalLimit,
  ChatLimit,
  MaxRetries,
  MaxDlqAttempts,
  None,
  MaxFaults        \* bound on Redis errors and crashes

ASSUME ChatsAssumption == None \notin Chats \cup Nat
ASSUME SendersAssumption == IsFiniteSet(Senders) /\ IsFiniteSet(DlqWorkers)
ASSUME TimesAssumption == Second \in Nat \ {0} /\ RetryDelay \in Nat
ASSUME LimitsAssumption ==
  /\ GlobalLimit \in Nat \ {0} /\ ChatLimit \in Nat \ {0}
  /\ MaxRetries \in Nat /\ MaxDlqAttempts \in Nat
  /\ MaxCalls \in Nat /\ MaxFaults \in Nat

VARIABLES
  redis,      \* get_redis returned a client
  globalKey,  \* ratelimit:telegram:global, a counter with the ticks it has left
  chatKey,    \* ratelimit:telegram:chat:<chat>, one per chat
  calls,      \* calls of send so far
  spc,        \* where each sender is in send
  job,        \* the job it sends, None = no job
  chat_id,    \* its chat
  attempt,    \* its loop counter
  wake,       \* ticks left of its sleep
  checks,     \* history: rate-limit checks of this call
  dlq,        \* dlq:notifications
  dpc,        \* where each worker is in process_dlq_batch
  hand,       \* the entry it popped
  ended,      \* history: jobs accepted by Telegram, or given up by the worker
  lost,       \* history: jobs nothing in the system knows any more
  posts,      \* history: sendMessage calls made for each job under way
  permits,    \* history: passed checks of the last second, with the counts they were given
  faults

keyVars == <<redis, globalKey, chatKey, permits>>
senderVars == <<calls, spc, job, chat_id, attempt, wake, checks>>
dlqVars == <<dlq, dpc, hand>>
endVars == <<ended, lost, posts>>
vars == <<keyVars, senderVars, dlqVars, endVars, faults>>

Key == [count : Nat, ttl : 0 .. Second]
NoKey == [count |-> 0, ttl |-> 0]

Permit == [chat : Chats, age : 0 .. Second - 1, nth : Nat, chat_nth : Nat]

Jobs == 1 .. MaxCalls

Entry == [job : Jobs, dlq_attempts : 0 .. MaxDlqAttempts]

SenderStep == {"idle", "check", "post", "asleep", "push"}

TypeOK ==
  /\ redis \in BOOLEAN
  /\ globalKey \in Key /\ chatKey \in [Chats -> Key]
  /\ calls \in 0 .. MaxCalls
  /\ spc \in [Senders -> SenderStep]
  /\ job \in [Senders -> Jobs \cup {None}]
  /\ chat_id \in [Senders -> Chats \cup {None}]
  /\ attempt \in [Senders -> 0 .. MaxRetries + 1]
  /\ wake \in [Senders -> Nat]
  /\ checks \in [Senders -> Nat]
  /\ dlq \in Seq(Entry)
  /\ dpc \in [DlqWorkers -> {"idle", "post", "push"}]
  /\ hand \in [DlqWorkers -> Entry \cup {None}]
  /\ ended \subseteq Jobs /\ lost \subseteq Jobs
  /\ posts \in [Jobs -> Nat]
  /\ permits \subseteq Permit
  /\ faults \in 0 .. MaxFaults
  /\ \A s \in Senders : spc[s] # "idle" => job[s] \in 1 .. calls /\ chat_id[s] \in Chats
  /\ \A d \in DlqWorkers : dpc[d] # "idle" => hand[d] \in Entry

Init ==
  /\ redis \in BOOLEAN
  /\ globalKey = NoKey /\ chatKey = [c \in Chats |-> NoKey]
  /\ calls = 0
  /\ spc = [s \in Senders |-> "idle"]
  /\ job = [s \in Senders |-> None]
  /\ chat_id = [s \in Senders |-> None]
  /\ attempt = [s \in Senders |-> 0]
  /\ wake = [s \in Senders |-> 0]
  /\ checks = [s \in Senders |-> 0]
  /\ dlq = <<>>
  /\ dpc = [d \in DlqWorkers |-> "idle"]
  /\ hand = [d \in DlqWorkers |-> None]
  /\ ended = {} /\ lost = {}
  /\ posts = [j \in Jobs |-> 0]
  /\ permits = {}
  /\ faults = 0

\* A call to Redis raises, a thread dies.
Fault == faults < MaxFaults /\ faults' = faults + 1

\* What becomes of a job in the end.
End(j) ==
  /\ ended' = ended \cup {j}
  /\ posts' = [posts EXCEPT ![j] = 0]
  /\ UNCHANGED lost

Lose(j) ==
  /\ lost' = lost \cup {j}
  /\ posts' = [posts EXCEPT ![j] = 0]
  /\ UNCHANGED ended

Posted(j) ==
  /\ posts' = [posts EXCEPT ![j] = @ + 1]
  /\ UNCHANGED <<ended, lost>>

-----------------------------------------------------------------------------
(* Time.                                                                   *)

Less(ticks) == IF ticks = 0 THEN 0 ELSE ticks - 1

\* A key is gone when its time is up.
Age(key) == IF key.ttl <= 1 THEN NoKey ELSE [key EXCEPT !.ttl = @ - 1]

Tick ==
  /\ globalKey' = Age(globalKey)
  /\ chatKey' = [c \in Chats |-> Age(chatKey[c])]
  /\ wake' = [s \in Senders |-> Less(wake[s])]
  /\ permits' = {[p EXCEPT !.age = @ + 1] : p \in {q \in permits : q.age < Second - 1}}
  /\ UNCHANGED <<redis, calls, spc, job, chat_id, attempt, checks, dlqVars, endVars, faults>>

-----------------------------------------------------------------------------
(* send.                                                                   *)

Send(s, c) ==
  /\ spc[s] = "idle"
  /\ calls < MaxCalls
  /\ calls' = calls + 1
  /\ job' = [job EXCEPT ![s] = calls + 1]
  /\ chat_id' = [chat_id EXCEPT ![s] = c]
  /\ attempt' = [attempt EXCEPT ![s] = 1]
  /\ spc' = [spc EXCEPT ![s] = "check"]
  /\ UNCHANGED <<keyVars, wake, checks, dlqVars, endVars, faults>>

\* Mutant: EXPIRE when the key is new, half a second too short.
IncrShort(key) ==
  [count |-> key.count + 1, ttl |-> IF key.count = 0 THEN Second - 1 ELSE key.ttl]

\* INCR and EXPIRE: every check renews the key, whether it passes or not.
Incr(key) == [count |-> key.count + 1, ttl |-> Second]

Passes(c) ==
  /\ Incr(globalKey).count <= GlobalLimit
  /\ Incr(chatKey[c]).count <= ChatLimit

Sleep(s, ticks) ==
  /\ spc' = [spc EXCEPT ![s] = "asleep"]
  /\ wake' = [wake EXCEPT ![s] = ticks]

\* _check_rate_limit: one MULTI/EXEC.
Count(c) ==
  /\ globalKey' = Incr(globalKey)
  /\ chatKey' = [chatKey EXCEPT ![c] = Incr(@)]

CheckRateLimit(s) ==
  LET c == chat_id[s]
  IN
  /\ spc[s] = "check"
  /\ redis
  /\ Count(c)
  /\ checks' = [checks EXCEPT ![s] = @ + 1]
  /\ \/ /\ Passes(c)
        /\ permits' = permits \cup {[chat |-> c, age |-> 0, nth |-> globalKey'.count,
                                    chat_nth |-> chatKey'[c].count]}
        /\ spc' = [spc EXCEPT ![s] = "post"]
        /\ UNCHANGED wake
     \/ /\ ~ Passes(c)
        /\ Sleep(s, Second)
        /\ UNCHANGED permits
  /\ UNCHANGED <<redis, calls, job, chat_id, attempt, dlqVars, endVars, faults>>

\* Without Redis, or when it raises (before or after the counters were changed),
\* the message goes out.
FailOpen(s) ==
  /\ spc[s] = "check"
  /\ \/ /\ ~ redis
        /\ UNCHANGED <<globalKey, chatKey, faults>>
     \/ /\ redis
        /\ Fault
        /\ Count(chat_id[s]) \/ UNCHANGED <<globalKey, chatKey>>
  /\ checks' = [checks EXCEPT ![s] = @ + 1]
  /\ spc' = [spc EXCEPT ![s] = "post"]
  /\ UNCHANGED <<redis, permits, calls, job, chat_id, attempt, wake, dlqVars, endVars>>

Return(s) ==
  /\ spc' = [spc EXCEPT ![s] = "idle"]
  /\ job' = [job EXCEPT ![s] = None]
  /\ chat_id' = [chat_id EXCEPT ![s] = None]
  /\ attempt' = [attempt EXCEPT ![s] = 0]
  /\ checks' = [checks EXCEPT ![s] = 0]

\* Mutant: a message that Telegram accepted on the last attempt is pushed as well.
DoSendFallThrough(s) ==
  LET j == job[s]
  IN
  /\ spc[s] = "post"
  /\ \/ /\ End(j)
        /\ attempt[s] <= MaxRetries
        /\ Return(s)
        /\ UNCHANGED wake
     \/ /\ End(j)
        /\ attempt[s] > MaxRetries
        /\ spc' = [spc EXCEPT ![s] = "push"]
        /\ UNCHANGED <<job, chat_id, attempt, wake, checks>>
     \/ /\ Posted(j)
        /\ attempt[s] <= MaxRetries
        /\ Sleep(s, RetryDelay)
        /\ UNCHANGED <<job, chat_id, attempt, checks>>
  /\ UNCHANGED <<keyVars, calls, dlqVars, faults>>

\* _do_send: 200; 400 or 403; any other answer or none. After the last attempt
\* there is no pause.
DoSend(s) ==
  LET j == job[s]
  IN
  /\ spc[s] = "post"
  /\ \/ /\ End(j)
        /\ Return(s)
        /\ UNCHANGED wake
     \/ /\ Posted(j)
        /\ spc' = [spc EXCEPT ![s] = "push"]
        /\ UNCHANGED <<job, chat_id, attempt, wake, checks>>
     \/ /\ Posted(j)
        /\ attempt[s] <= MaxRetries
        /\ Sleep(s, RetryDelay)
        /\ UNCHANGED <<job, chat_id, attempt, checks>>
  /\ UNCHANGED <<keyVars, calls, dlqVars, faults>>

\* Mutant: a rate-limited attempt does not count.
WakeUncounted(s) ==
  /\ spc[s] = "asleep"
  /\ wake[s] = 0
  /\ \/ /\ attempt[s] <= MaxRetries
        /\ spc' = [spc EXCEPT ![s] = "check"]
        /\ attempt' = [attempt EXCEPT ![s] = IF posts[job[s]] = 0 THEN @ ELSE @ + 1]
     \/ /\ attempt[s] = MaxRetries + 1
        /\ spc' = [spc EXCEPT ![s] = "push"]
        /\ UNCHANGED attempt
  /\ UNCHANGED <<keyVars, calls, job, chat_id, wake, checks, dlqVars, endVars, faults>>

\* On with the loop, or out of it.
Wake(s) ==
  /\ spc[s] = "asleep"
  /\ wake[s] = 0
  /\ \/ /\ attempt[s] <= MaxRetries
        /\ spc' = [spc EXCEPT ![s] = "check"]
        /\ attempt' = [attempt EXCEPT ![s] = @ + 1]
     \/ /\ attempt[s] = MaxRetries + 1
        /\ spc' = [spc EXCEPT ![s] = "push"]
        /\ UNCHANGED attempt
  /\ UNCHANGED <<keyVars, calls, job, chat_id, wake, checks, dlqVars, endVars, faults>>

\* enqueue_dlq, also of a message that was refused for good. Without Redis, or
\* when it raises, the job is gone.
EnqueueDlq(s) ==
  LET entry == [job |-> job[s], dlq_attempts |-> 0]
  IN
  /\ spc[s] = "push"
  /\ \/ /\ redis
        /\ dlq' = Append(dlq, entry)
        /\ UNCHANGED <<endVars, faults>>
     \/ /\ \/ ~ redis /\ UNCHANGED faults
           \/ redis /\ Fault
        /\ Lose(job[s])
        /\ UNCHANGED dlq
  /\ Return(s)
  /\ UNCHANGED <<keyVars, calls, wake, dpc, hand>>

SenderCrash(s) ==
  /\ spc[s] # "idle"
  /\ Fault
  /\ Lose(job[s])
  /\ Return(s)
  /\ UNCHANGED <<keyVars, calls, wake, dlqVars>>

-----------------------------------------------------------------------------
(* process_dlq_batch.                                                      *)

Put(d, step, entry) ==
  /\ dpc' = [dpc EXCEPT ![d] = step]
  /\ hand' = [hand EXCEPT ![d] = entry]

\* Mutant: the limit is checked one attempt too late.
PopUnchecked(d) ==
  /\ dpc[d] = "idle"
  /\ dlq # <<>>
  /\ dlq' = Tail(dlq)
  /\ LET entry == Head(dlq)
         attempts == entry.dlq_attempts + 1
     IN  \/ /\ entry.dlq_attempts > MaxDlqAttempts
            /\ End(entry.job)
            /\ UNCHANGED <<dpc, hand>>
         \/ /\ entry.dlq_attempts <= MaxDlqAttempts
            /\ Put(d, "post", [entry EXCEPT !.dlq_attempts = attempts])
            /\ UNCHANGED endVars
  /\ UNCHANGED <<keyVars, senderVars, faults>>

\* LPOP; a job that has had its attempts is dropped.
Pop(d) ==
  /\ dpc[d] = "idle"
  /\ dlq # <<>>
  /\ dlq' = Tail(dlq)
  /\ LET entry == Head(dlq)
         attempts == entry.dlq_attempts + 1
     IN  \/ /\ attempts > MaxDlqAttempts
            /\ End(entry.job)
            /\ UNCHANGED <<dpc, hand>>
         \/ /\ attempts <= MaxDlqAttempts
            /\ Put(d, "post", [entry EXCEPT !.dlq_attempts = attempts])
            /\ UNCHANGED endVars
  /\ UNCHANGED <<keyVars, senderVars, faults>>

\* _do_send, past the rate limit: accepted, or refused for good and dropped; any
\* other outcome leaves the job to be put back.
RetrySend(d) ==
  LET j == hand[d].job
  IN
  /\ dpc[d] = "post"
  /\ \/ /\ End(j)
        /\ Put(d, "idle", None)
     \/ /\ Posted(j)
        /\ Put(d, "push", hand[d])
  /\ UNCHANGED <<keyVars, senderVars, dlq, faults>>

ReEnqueue(d) ==
  /\ dpc[d] = "push"
  /\ \/ /\ dlq' = Append(dlq, hand[d])
        /\ UNCHANGED <<endVars, faults>>
     \/ /\ Fault
        /\ Lose(hand[d].job)
        /\ UNCHANGED dlq
  /\ Put(d, "idle", None)
  /\ UNCHANGED <<keyVars, senderVars>>

DlqCrash(d) ==
  /\ dpc[d] # "idle"
  /\ Fault
  /\ Lose(hand[d].job)
  /\ Put(d, "idle", None)
  /\ UNCHANGED <<keyVars, senderVars, dlq>>

-----------------------------------------------------------------------------

SenderNext(s) ==
  CheckRateLimit(s) \/ FailOpen(s) \/ DoSend(s) \/ Wake(s) \/ EnqueueDlq(s)

DlqNext(d) == Pop(d) \/ RetrySend(d) \/ ReEnqueue(d)

Next ==
  \/ Tick
  \/ \E s \in Senders, c \in Chats : Send(s, c)
  \/ \E s \in Senders : SenderNext(s) \/ SenderCrash(s)
  \/ \E d \in DlqWorkers : DlqNext(d) \/ DlqCrash(d)

Spec == Init /\ [][Next]_vars

-----------------------------------------------------------------------------
(* Properties.                                                             *)

InLastSecond(c) == {p \in permits : p.chat = c}

\* Whatever threads and processes share the counters: within any second Redis lets
\* no more messages pass than the limits of the Telegram API, in all and per chat.
RateKept ==
  /\ \A c \in Chats : Cardinality(InLastSecond(c)) <= ChatLimit
  /\ Cardinality(permits) <= GlobalLimit

\* Where a job is: in calls of send, in the list, with workers, at its ends.
Places(j) ==
  {"send"} \X {s \in Senders : job[s] = j}
  \cup {"list"} \X {i \in DOMAIN dlq : dlq[i].job = j}
  \cup {"worker"} \X {d \in DlqWorkers : dpc[d] # "idle" /\ hand[d].job = j}
  \cup {"end"} \X {e \in {"ended", "lost"} : j \in (IF e = "ended" THEN ended ELSE lost)}

\* A message that was handed to send is in one place, so that it is never sent again
\* once it was accepted or given up; with Redis, only a fault loses one.
JobsAccounted ==
  /\ \A j \in Jobs : Cardinality(Places(j)) = IF j <= calls THEN 1 ELSE 0
  /\ redis => Cardinality(lost) <= faults

\* However contended the rate limit, which rejected checks prolong for everyone:
\* send asks it max_retries + 1 times at most and returns. Sender and worker together
\* call Telegram a bounded number of times for a job.
TriesBounded ==
  /\ \A s \in Senders : checks[s] <= MaxRetries + 1
  /\ \A j \in Jobs : posts[j] <= MaxRetries + 1 + MaxDlqAttempts

=============================================================================
