----------------------- MODULE TelegramSender_proofs ------------------------
(***************************************************************************)
(* Proofs about TelegramSender, for any number of senders, workers, chats  *)
(* and messages and any limits: the rate is kept, a message is in one      *)
(* place, and is tried a bounded number of times.                          *)
(***************************************************************************)
EXTENDS TelegramSender, TLAPS, FiniteSetTheorems

-----------------------------------------------------------------------------
(* Types, by the part of the state they are about.                         *)

KeysTyped ==
  /\ redis \in BOOLEAN
  /\ globalKey \in Key /\ chatKey \in [Chats -> Key]
  /\ permits \subseteq Permit

CallsTyped ==
  /\ calls \in 0 .. MaxCalls
  /\ spc \in [Senders -> SenderStep]
  /\ job \in [Senders -> Jobs \cup {None}]
  /\ chat_id \in [Senders -> Chats \cup {None}]
  /\ attempt \in [Senders -> 0 .. MaxRetries + 1]
  /\ wake \in [Senders -> Nat]
  /\ checks \in [Senders -> Nat]
  /\ \A s \in Senders : spc[s] # "idle" => job[s] \in 1 .. calls /\ chat_id[s] \in Chats

ListTyped ==
  /\ dlq \in Seq(Entry)
  /\ dpc \in [DlqWorkers -> {"idle", "post", "push"}]
  /\ hand \in [DlqWorkers -> Entry \cup {None}]
  /\ \A d \in DlqWorkers : dpc[d] # "idle" => hand[d] \in Entry

EndsTyped ==
  /\ ended \subseteq Jobs /\ lost \subseteq Jobs
  /\ posts \in [Jobs -> Nat]
  /\ faults \in 0 .. MaxFaults

LEMMA TypeParts == TypeOK <=> KeysTyped /\ CallsTyped /\ ListTyped /\ EndsTyped
BY DEF TypeOK, KeysTyped, CallsTyped, ListTyped, EndsTyped

LEMMA TypePartsNext ==
  ASSUME KeysTyped', CallsTyped', ListTyped', EndsTyped'
  PROVE  TypeOK'
BY DEF TypeOK, KeysTyped, CallsTyped, ListTyped, EndsTyped

\* What the steps of a call or of a worker do to the ends of a job, and to the faults.
LEMMA EndsStay ==
  ASSUME EndsTyped, NEW j \in Jobs, End(j) \/ Lose(j) \/ Posted(j) \/ UNCHANGED endVars,
         UNCHANGED faults \/ Fault
  PROVE  EndsTyped'
<1>1. faults' \in 0 .. MaxFaults
  BY LimitsAssumption DEF EndsTyped, Fault
<1>2. posts' \in [Jobs -> Nat]
  BY DEF EndsTyped, End, Lose, Posted, endVars
<1>3. ended' \subseteq Jobs /\ lost' \subseteq Jobs
  BY DEF EndsTyped, End, Lose, Posted, endVars
<1>4. QED
  BY <1>1, <1>2, <1>3 DEF EndsTyped

LEMMA KeysStay ==
  ASSUME KeysTyped, NEW c \in Chats
  PROVE  /\ Incr(globalKey) \in Key
         /\ Incr(chatKey[c]) \in Key
         /\ [chatKey EXCEPT ![c] = Incr(@)] \in [Chats -> Key]
<1>1. \A k \in Key : Incr(k) \in Key
  BY TimesAssumption DEF Key, Incr
<1>2. QED
  BY <1>1 DEF KeysTyped

LEMMA AgeTyped ==
  ASSUME NEW k \in Key
  PROVE  Age(k) \in Key
<1>1. CASE k.ttl <= 1
  BY <1>1, TimesAssumption DEF Age, NoKey, Key
<1>2. CASE ~ k.ttl <= 1
  <2>1. k.ttl - 1 \in 0 .. Second
    BY <1>2, TimesAssumption DEF Key
  <2>2. QED
    BY <1>2, <2>1 DEF Age, Key
<1>3. QED
  BY <1>1, <1>2

LEMMA TickTypes ==
  ASSUME TypeOK, Tick
  PROVE  TypeOK'
<1>0. KeysTyped /\ CallsTyped /\ ListTyped /\ EndsTyped
  BY TypeParts
<1>1. globalKey' \in Key /\ chatKey' \in [Chats -> Key]
  BY <1>0, AgeTyped DEF Tick, KeysTyped
<1>2. permits' \subseteq Permit
  <2>1. ASSUME NEW q \in permits, q.age < Second - 1
        PROVE  [q EXCEPT !.age = @ + 1] \in Permit
    <3>1. q \in Permit
      BY <1>0 DEF KeysTyped
    <3>2. q.age + 1 \in 0 .. Second - 1
      BY <2>1, <3>1, TimesAssumption DEF Permit
    <3>3. QED
      BY <3>1, <3>2 DEF Permit
  <2>2. QED
    BY <2>1 DEF Tick
<1>3. KeysTyped'
  BY <1>0, <1>1, <1>2 DEF Tick, KeysTyped
<1>4. wake' \in [Senders -> Nat]
  BY <1>0 DEF Tick, CallsTyped, Less
<1>5. CallsTyped'
  BY <1>0, <1>4 DEF Tick, CallsTyped
<1>6. ListTyped' /\ EndsTyped'
  BY <1>0 DEF Tick, ListTyped, EndsTyped, dlqVars, endVars
<1>7. QED
  BY <1>3, <1>5, <1>6, TypePartsNext

LEMMA SendTypes ==
  ASSUME TypeOK, NEW s \in Senders, NEW c \in Chats, Send(s, c)
  PROVE  TypeOK'
<1>0. KeysTyped /\ CallsTyped /\ ListTyped /\ EndsTyped
  BY TypeParts
<1>1. calls' \in 0 .. MaxCalls /\ calls + 1 \in Jobs /\ calls' = calls + 1
  BY <1>0, LimitsAssumption DEF Send, CallsTyped, Jobs
<1>2. /\ spc' \in [Senders -> SenderStep] /\ job' \in [Senders -> Jobs \cup {None}]
      /\ chat_id' \in [Senders -> Chats \cup {None}]
  BY <1>0, <1>1 DEF Send, CallsTyped, SenderStep
<1>3. attempt' \in [Senders -> 0 .. MaxRetries + 1]
  BY <1>0, LimitsAssumption DEF Send, CallsTyped
<1>4. ASSUME NEW x \in Senders, spc'[x] # "idle"
      PROVE  job'[x] \in 1 .. calls' /\ chat_id'[x] \in Chats
  <2>1. CASE x = s
    BY <1>0, <1>1, <2>1 DEF Send, CallsTyped, Jobs
  <2>2. CASE x # s
    <3>1. job[x] \in 1 .. calls /\ chat_id[x] \in Chats /\ calls \in Nat
      BY <1>0, <1>4, <2>2 DEF Send, CallsTyped
    <3>2. job'[x] = job[x] /\ chat_id'[x] = chat_id[x]
      BY <1>0, <2>2 DEF Send, CallsTyped
    <3>3. QED
      BY <1>1, <3>1, <3>2
  <2>3. QED
    BY <2>1, <2>2
<1>5. wake' \in [Senders -> Nat] /\ checks' \in [Senders -> Nat]
  BY <1>0 DEF Send, CallsTyped
<1>6. CallsTyped'
  BY <1>1, <1>2, <1>3, <1>4, <1>5 DEF CallsTyped
<1>7. KeysTyped' /\ ListTyped' /\ EndsTyped'
  BY <1>0 DEF Send, KeysTyped, ListTyped, EndsTyped, keyVars, dlqVars, endVars
<1>8. QED
  BY <1>6, <1>7, TypePartsNext

\* A sender goes on with its call, or returns.
GoesOn(s) ==
  /\ UNCHANGED <<calls, job, chat_id>>
  /\ \E st \in SenderStep \ {"idle"} : spc' = [spc EXCEPT ![s] = st]
  /\ spc[s] # "idle"

LEMMA CallStays ==
  ASSUME CallsTyped, NEW s \in Senders, spc[s] # "idle",
         GoesOn(s) \/ (Return(s) /\ UNCHANGED calls),
         wake' \in [Senders -> Nat],
         GoesOn(s) => attempt' \in [Senders -> 0 .. MaxRetries + 1] /\ checks' \in [Senders -> Nat]
  PROVE  CallsTyped'
<1>1. spc' \in [Senders -> SenderStep]
  BY DEF CallsTyped, GoesOn, Return, SenderStep
<1>2. /\ job' \in [Senders -> Jobs \cup {None}]
      /\ chat_id' \in [Senders -> Chats \cup {None}]
      /\ calls' = calls
  BY DEF CallsTyped, GoesOn, Return
<1>3. attempt' \in [Senders -> 0 .. MaxRetries + 1] /\ checks' \in [Senders -> Nat]
  BY LimitsAssumption DEF CallsTyped, Return
<1>4. ASSUME NEW x \in Senders, spc'[x] # "idle"
      PROVE  job'[x] \in 1 .. calls /\ chat_id'[x] \in Chats
  BY <1>4 DEF CallsTyped, GoesOn, Return
<1>5. QED
  BY <1>1, <1>2, <1>3, <1>4 DEF CallsTyped

LEMMA JobOfCall ==
  ASSUME TypeOK, NEW s \in Senders, spc[s] # "idle"
  PROVE  /\ job[s] \in Jobs /\ job[s] \in 1 .. calls /\ chat_id[s] \in Chats
         /\ calls \in Nat /\ attempt[s] \in 0 .. MaxRetries + 1 /\ MaxRetries \in Nat
BY LimitsAssumption DEF TypeOK, Jobs

\* What a step of a sender leaves alone, by the part of the state.
LEMMA SenderTypes ==
  ASSUME TypeOK, NEW s \in Senders, SenderNext(s) \/ SenderCrash(s)
  PROVE  TypeOK' /\ spc[s] # "idle"
<1>0. KeysTyped /\ CallsTyped /\ ListTyped /\ EndsTyped
  BY TypeParts
<1>1. spc[s] # "idle"
  BY DEF SenderNext, CheckRateLimit, FailOpen, DoSend, Wake, EnqueueDlq, SenderCrash
<1>2. /\ job[s] \in Jobs /\ job[s] \in 1 .. calls /\ chat_id[s] \in Chats
      /\ calls \in Nat /\ attempt[s] \in 0 .. MaxRetries + 1 /\ MaxRetries \in Nat
  BY <1>1, JobOfCall
<1>3. /\ attempt \in [Senders -> 0 .. MaxRetries + 1] /\ checks \in [Senders -> Nat]
      /\ wake \in [Senders -> Nat] /\ RetryDelay \in Nat /\ Second \in Nat
  BY <1>0, TimesAssumption DEF CallsTyped
<1>4. CASE CheckRateLimit(s)
  <2> DEFINE c == chat_id[s]
  <2>1. /\ globalKey' = Incr(globalKey) /\ chatKey' = [chatKey EXCEPT ![c] = Incr(@)]
        /\ redis' = redis
    BY <1>4 DEF CheckRateLimit, Count
  <2>2. globalKey' \in Key /\ chatKey' \in [Chats -> Key]
    BY <1>0, <1>2, <2>1, KeysStay
  <2>3. [chat |-> c, age |-> 0, nth |-> globalKey'.count,
         chat_nth |-> chatKey'[c].count] \in Permit
    <3>1. globalKey'.count \in Nat /\ chatKey'[c].count \in Nat
      BY <1>2, <2>2 DEF Key
    <3>2. 0 \in 0 .. Second - 1
      BY TimesAssumption
    <3>3. QED
      BY <1>2, <3>1, <3>2 DEF Permit
  <2>4. permits' \subseteq Permit
    BY <1>0, <1>4, <2>3 DEF CheckRateLimit, KeysTyped
  <2>5. KeysTyped'
    BY <1>0, <2>1, <2>2, <2>4 DEF KeysTyped
  <2>6. GoesOn(s)
    BY <1>1, <1>4 DEF CheckRateLimit, GoesOn, Sleep, SenderStep
  <2>7. wake' \in [Senders -> Nat] /\ checks' \in [Senders -> Nat] /\ attempt' = attempt
    BY <1>3, <1>4 DEF CheckRateLimit, Sleep
  <2>8. CallsTyped'
    BY <1>0, <1>1, <1>3, <2>6, <2>7, CallStays
  <2>9. ListTyped' /\ EndsTyped'
    BY <1>0, <1>4 DEF CheckRateLimit, ListTyped, EndsTyped, dlqVars, endVars
  <2>10. QED
    BY <1>1, <2>5, <2>8, <2>9, TypePartsNext
<1>5. CASE FailOpen(s)
  <2>1. globalKey' \in Key /\ chatKey' \in [Chats -> Key]
    <3>1. globalKey \in Key /\ chatKey \in [Chats -> Key]
      BY <1>0 DEF KeysTyped
    <3>2. Count(chat_id[s]) \/ UNCHANGED <<globalKey, chatKey>>
      BY <1>5 DEF FailOpen
    <3>3. QED
      BY <1>0, <1>2, <3>1, <3>2, KeysStay DEF Count
  <2>2. KeysTyped'
    BY <1>0, <1>5, <2>1 DEF FailOpen, KeysTyped
  <2>3. GoesOn(s)
    BY <1>1, <1>5 DEF FailOpen, GoesOn, SenderStep
  <2>4. wake' \in [Senders -> Nat] /\ checks' \in [Senders -> Nat] /\ attempt' = attempt
    BY <1>3, <1>5 DEF FailOpen
  <2>5. CallsTyped'
    BY <1>0, <1>1, <1>3, <2>3, <2>4, CallStays
  <2>6. EndsTyped'
    <3>1. UNCHANGED endVars /\ (UNCHANGED faults \/ Fault)
      BY <1>5 DEF FailOpen
    <3>2. QED
      BY <1>0, <1>2, <3>1, EndsStay
  <2>7. ListTyped'
    BY <1>0, <1>5 DEF FailOpen, ListTyped, dlqVars
  <2>8. QED
    BY <1>1, <2>2, <2>5, <2>6, <2>7, TypePartsNext
<1>6. CASE DoSend(s)
  <2>1. End(job[s]) \/ Posted(job[s])
    BY <1>6 DEF DoSend
  <2>2. EndsTyped'
    BY <1>0, <1>2, <1>6, <2>1, EndsStay DEF DoSend
  <2>3. GoesOn(s) \/ (Return(s) /\ UNCHANGED calls)
    BY <1>1, <1>6 DEF DoSend, GoesOn, Sleep, SenderStep
  <2>4. wake' \in [Senders -> Nat]
    BY <1>3, <1>6 DEF DoSend, Sleep
  <2>5. Return(s) \/ UNCHANGED <<attempt, checks>>
    BY <1>6 DEF DoSend
  <2>6. GoesOn(s) => attempt' \in [Senders -> 0 .. MaxRetries + 1] /\ checks' \in [Senders -> Nat]
    BY <1>0, <1>3, <2>5, LimitsAssumption DEF Return, CallsTyped
  <2>7. CallsTyped'
    BY <1>0, <1>1, <2>3, <2>4, <2>6, CallStays
  <2>8. KeysTyped' /\ ListTyped'
    BY <1>0, <1>6 DEF DoSend, KeysTyped, ListTyped, keyVars, dlqVars
  <2>9. QED
    BY <1>1, <2>2, <2>7, <2>8, TypePartsNext
<1>7. CASE Wake(s)
  <2>1. GoesOn(s)
    BY <1>1, <1>7 DEF Wake, GoesOn, SenderStep
  <2>2. attempt' \in [Senders -> 0 .. MaxRetries + 1]
    <3>1. attempt' = attempt \/
          (attempt' = [attempt EXCEPT ![s] = attempt[s] + 1] /\ attempt[s] <= MaxRetries)
      BY <1>3, <1>7 DEF Wake
    <3>2. attempt[s] <= MaxRetries => attempt[s] + 1 \in 0 .. MaxRetries + 1
      BY <1>2
    <3>3. QED
      BY <1>3, <3>1, <3>2
  <2>3. wake' = wake /\ checks' = checks
    BY <1>7 DEF Wake
  <2>4. CallsTyped'
    BY <1>0, <1>1, <1>3, <2>1, <2>2, <2>3, CallStays
  <2>5. KeysTyped' /\ ListTyped' /\ EndsTyped'
    BY <1>0, <1>7 DEF Wake, KeysTyped, ListTyped, EndsTyped, keyVars, dlqVars, endVars
  <2>6. QED
    BY <1>1, <2>4, <2>5, TypePartsNext
<1>8. CASE EnqueueDlq(s)
  <2>1. [job |-> job[s], dlq_attempts |-> 0] \in Entry
    BY <1>2, LimitsAssumption DEF Entry
  <2>2. dlq' \in Seq(Entry)
    BY <1>0, <1>8, <2>1 DEF EnqueueDlq, ListTyped
  <2>3. ListTyped'
    BY <1>0, <1>8, <2>2 DEF EnqueueDlq, ListTyped
  <2>4. EndsTyped'
    <3>1. (Lose(job[s]) \/ UNCHANGED endVars) /\ (UNCHANGED faults \/ Fault)
      BY <1>8 DEF EnqueueDlq
    <3>2. QED
      BY <1>0, <1>2, <3>1, EndsStay
  <2>5. Return(s) /\ UNCHANGED <<keyVars, calls, wake>> /\ ~ GoesOn(s)
    <3>1. Return(s) /\ UNCHANGED <<keyVars, calls, wake>>
      BY <1>8 DEF EnqueueDlq
    <3>2. job'[s] = None /\ job[s] # None
      BY <1>0, <1>2, <3>1, ChatsAssumption DEF Return, CallsTyped
    <3>3. QED
      BY <3>1, <3>2 DEF GoesOn
  <2>6. CallsTyped'
    BY <1>0, <1>1, <1>3, <2>5, CallStays
  <2>7. KeysTyped'
    BY <1>0, <2>5 DEF KeysTyped, keyVars
  <2>8. QED
    BY <1>1, <2>3, <2>4, <2>6, <2>7, TypePartsNext
<1>9. CASE SenderCrash(s)
  <2>1. Return(s) /\ UNCHANGED <<keyVars, calls, wake, dlqVars>> /\ Fault /\ Lose(job[s])
    BY <1>9 DEF SenderCrash
  <2>2. ~ GoesOn(s)
    <3>1. job'[s] = None /\ job[s] # None
      BY <1>0, <1>2, <2>1, ChatsAssumption DEF Return, CallsTyped
    <3>2. QED
      BY <3>1 DEF GoesOn
  <2>3. CallsTyped'
    BY <1>0, <1>1, <1>3, <2>1, <2>2, CallStays
  <2>4. EndsTyped'
    BY <1>0, <1>2, <2>1, EndsStay
  <2>5. KeysTyped' /\ ListTyped'
    BY <1>0, <2>1 DEF KeysTyped, ListTyped, keyVars, dlqVars
  <2>6. QED
    BY <1>1, <2>3, <2>4, <2>5, TypePartsNext
<1>10. QED
  BY <1>1, <1>4, <1>5, <1>6, <1>7, <1>8, <1>9 DEF SenderNext

LEMMA WorkerTypes ==
  ASSUME TypeOK, NEW d \in DlqWorkers, DlqNext(d) \/ DlqCrash(d)
  PROVE  TypeOK'
<1>0. KeysTyped /\ CallsTyped /\ ListTyped /\ EndsTyped
  BY TypeParts
<1>1. UNCHANGED <<keyVars, senderVars>>
  BY DEF DlqNext, Pop, RetrySend, ReEnqueue, DlqCrash
<1>2. KeysTyped' /\ CallsTyped'
  BY <1>0, <1>1 DEF KeysTyped, CallsTyped, keyVars, senderVars
<1>3. CASE Pop(d)
  <2>1. dlq # <<>> /\ dlq' = Tail(dlq) /\ Head(dlq) \in Entry /\ Tail(dlq) \in Seq(Entry)
    BY <1>0, <1>3 DEF Pop, ListTyped
  <2>2. \/ End(Head(dlq).job) /\ UNCHANGED <<dpc, hand>>
        \/ /\ Head(dlq).dlq_attempts + 1 <= MaxDlqAttempts
           /\ Put(d, "post", [Head(dlq) EXCEPT !.dlq_attempts = Head(dlq).dlq_attempts + 1])
           /\ UNCHANGED endVars
    BY <1>3 DEF Pop
  <2>3. Head(dlq).job \in Jobs /\ Head(dlq).dlq_attempts \in 0 .. MaxDlqAttempts
    BY <2>1 DEF Entry
  <2>4. Head(dlq).dlq_attempts + 1 <= MaxDlqAttempts =>
          [Head(dlq) EXCEPT !.dlq_attempts = Head(dlq).dlq_attempts + 1] \in Entry
    <3>1. Head(dlq).dlq_attempts + 1 <= MaxDlqAttempts =>
            Head(dlq).dlq_attempts + 1 \in 0 .. MaxDlqAttempts
      BY <2>3, LimitsAssumption
    <3>2. QED
      BY <2>1, <3>1 DEF Entry
  <2>5. ListTyped'
    BY <1>0, <2>1, <2>2, <2>4 DEF ListTyped, Put
  <2>6. EndsTyped'
    BY <1>0, <1>3, <2>2, <2>3, EndsStay DEF Pop
  <2>7. QED
    BY <1>2, <2>5, <2>6, TypePartsNext
<1>4. ASSUME dpc[d] # "idle"
      PROVE  hand[d] \in Entry /\ hand[d].job \in Jobs
  BY <1>0, <1>4 DEF ListTyped, Entry
<1>5. CASE RetrySend(d)
  <2>1. hand[d] \in Entry /\ hand[d].job \in Jobs
    BY <1>4, <1>5 DEF RetrySend
  <2>2. ListTyped'
    BY <1>0, <1>5, <2>1 DEF RetrySend, ListTyped, Put
  <2>3. EndsTyped'
    BY <1>0, <1>5, <2>1, EndsStay DEF RetrySend
  <2>4. QED
    BY <1>2, <2>2, <2>3, TypePartsNext
<1>6. CASE ReEnqueue(d)
  <2>1. hand[d] \in Entry /\ hand[d].job \in Jobs
    BY <1>4, <1>6 DEF ReEnqueue
  <2>2. dlq' \in Seq(Entry)
    BY <1>0, <1>6, <2>1 DEF ReEnqueue, ListTyped
  <2>3. ListTyped'
    BY <1>0, <1>6, <2>2 DEF ReEnqueue, ListTyped, Put
  <2>4. EndsTyped'
    BY <1>0, <1>6, <2>1, EndsStay DEF ReEnqueue
  <2>5. QED
    BY <1>2, <2>3, <2>4, TypePartsNext
<1>7. CASE DlqCrash(d)
  <2>1. hand[d] \in Entry /\ hand[d].job \in Jobs
    BY <1>4, <1>7 DEF DlqCrash
  <2>2. ListTyped'
    BY <1>0, <1>7 DEF DlqCrash, ListTyped, Put
  <2>3. EndsTyped'
    BY <1>0, <1>7, <2>1, EndsStay DEF DlqCrash
  <2>4. QED
    BY <1>2, <2>2, <2>3, TypePartsNext
<1>8. QED
  BY <1>3, <1>5, <1>6, <1>7 DEF DlqNext

LEMMA InitTypes == Init => TypeOK
<1>. SUFFICES ASSUME Init PROVE TypeOK
  OBVIOUS
<1>1. KeysTyped
  BY TimesAssumption DEF Init, KeysTyped, Key, NoKey
<1>2. CallsTyped
  BY LimitsAssumption DEF Init, CallsTyped, SenderStep
<1>3. ListTyped
  BY DEF Init, ListTyped
<1>4. EndsTyped
  BY LimitsAssumption DEF Init, EndsTyped
<1>5. QED
  BY <1>1, <1>2, <1>3, <1>4, TypeParts

LEMMA NextTypes == TypeOK /\ [Next]_vars => TypeOK'
<1>1. ASSUME TypeOK, UNCHANGED vars PROVE TypeOK'
  BY <1>1 DEF vars, keyVars, senderVars, dlqVars, endVars, TypeOK
<1>2. QED
  BY <1>1, TickTypes, SendTypes, SenderTypes, WorkerTypes DEF Next

\* The counters, the calls, the list and the workers keep their types; a call under way
\* has a job and a chat, a worker that posts or pushes has an entry with attempts left.
THEOREM SenderTypeCorrect == Spec => []TypeOK
BY InitTypes, NextTypes, PTL DEF Spec

-----------------------------------------------------------------------------
(* The rate.                                                               *)

\* The counters outlive the checks they let pass, so that each of those is counted, and by
\* a number of its own.
PermitInv ==
  \A p \in permits :
    /\ globalKey.ttl >= Second - p.age
    /\ p.nth \in 1 .. globalKey.count /\ p.nth <= GlobalLimit
    /\ chatKey[p.chat].ttl >= Second - p.age
    /\ p.chat_nth \in 1 .. chatKey[p.chat].count /\ p.chat_nth <= ChatLimit

NumbersDiffer ==
  \A p, q \in permits :
    /\ p.nth = q.nth => p = q
    /\ p.chat = q.chat /\ p.chat_nth = q.chat_nth => p = q

RateInv == PermitInv /\ NumbersDiffer

\* A set whose members have different numbers up to n has at most n members.
LEMMA NumberedSet ==
  ASSUME NEW S, NEW n \in Nat, NEW number \in [S -> 1 .. n],
         \A x, y \in S : number[x] = number[y] => x = y
  PROVE  Cardinality(S) <= n
<1>1. IsFiniteSet(1 .. n) /\ Cardinality(1 .. n) = n
  BY FS_Interval
<1>2. number \in Injection(S, 1 .. n)
  BY DEF Injection, IsInjective
<1>3. QED
  BY <1>1, <1>2, FS_Injection

LEMMA RateInvKept ==
  ASSUME TypeOK, RateInv
  PROVE  RateKept
<1>0. permits \subseteq Permit /\ GlobalLimit \in Nat /\ ChatLimit \in Nat
  BY LimitsAssumption DEF TypeOK
<1>1. Cardinality(permits) <= GlobalLimit
  <2> DEFINE number == [p \in permits |-> p.nth]
  <2>1. \A p \in permits : p.nth \in 1 .. GlobalLimit
    BY <1>0 DEF RateInv, PermitInv, Permit
  <2>2. number \in [permits -> 1 .. GlobalLimit]
    BY <2>1
  <2>3. \A x, y \in permits : number[x] = number[y] => x = y
    BY DEF RateInv, NumbersDiffer
  <2> HIDE DEF number
  <2>4. QED
    BY <1>0, <2>2, <2>3, NumberedSet
<1>2. ASSUME NEW c \in Chats PROVE Cardinality(InLastSecond(c)) <= ChatLimit
  <2> DEFINE S == InLastSecond(c)
             number == [p \in S |-> p.chat_nth]
  <2>1. \A p \in S : p.chat_nth \in 1 .. ChatLimit
    BY <1>0 DEF RateInv, PermitInv, Permit, InLastSecond
  <2>2. number \in [S -> 1 .. ChatLimit]
    BY <2>1
  <2>3. \A x, y \in S : number[x] = number[y] => x = y
    BY DEF RateInv, NumbersDiffer, InLastSecond
  <2> HIDE DEF number, S
  <2>4. Cardinality(S) <= ChatLimit
    BY <1>0, <2>2, <2>3, NumberedSet
  <2>5. QED
    BY <2>4 DEF S
<1>3. QED
  BY <1>1, <1>2 DEF RateKept

LEMMA PermitTyped ==
  ASSUME TypeOK, NEW p \in permits
  PROVE  /\ p.chat \in Chats /\ p.age \in 0 .. Second - 1
         /\ p.nth \in Nat /\ p.chat_nth \in Nat /\ Second \in Nat
         /\ globalKey.count \in Nat /\ globalKey.ttl \in 0 .. Second
         /\ chatKey[p.chat].count \in Nat /\ chatKey[p.chat].ttl \in 0 .. Second
BY TimesAssumption DEF TypeOK, Permit, Key

LEMMA TickRate ==
  ASSUME TypeOK, RateInv, Tick
  PROVE  RateInv'
<1>1. ASSUME NEW p \in permits'
      PROVE  \E q \in permits : q.age < Second - 1 /\ p = [q EXCEPT !.age = q.age + 1]
  BY <1>1 DEF Tick
<1>2. ASSUME NEW q \in permits, q.age < Second - 1
      PROVE  /\ Age(globalKey).ttl = globalKey.ttl - 1 /\ Age(globalKey).count = globalKey.count
             /\ Age(chatKey[q.chat]).ttl = chatKey[q.chat].ttl - 1
             /\ Age(chatKey[q.chat]).count = chatKey[q.chat].count
  <2>1. globalKey.ttl > 1 /\ chatKey[q.chat].ttl > 1
    BY <1>2, PermitTyped DEF RateInv, PermitInv
  <2>2. globalKey \in Key /\ chatKey[q.chat] \in Key
    BY PermitTyped DEF TypeOK
  <2>3. QED
    BY <2>1, <2>2 DEF Age, Key
<1>3. ASSUME NEW q \in permits
      PROVE  LET p == [q EXCEPT !.age = q.age + 1]
             IN  /\ p.chat = q.chat /\ p.nth = q.nth /\ p.chat_nth = q.chat_nth
                 /\ p.age = q.age + 1
  BY DEF TypeOK, Permit
<1>4. PermitInv'
  <2>. SUFFICES ASSUME NEW p \in permits'
                PROVE  /\ globalKey'.ttl >= Second - p.age
                       /\ p.nth \in 1 .. globalKey'.count /\ p.nth <= GlobalLimit
                       /\ chatKey'[p.chat].ttl >= Second - p.age
                       /\ p.chat_nth \in 1 .. chatKey'[p.chat].count /\ p.chat_nth <= ChatLimit
    BY DEF PermitInv
  <2>1. PICK q \in permits : q.age < Second - 1 /\ p = [q EXCEPT !.age = q.age + 1]
    BY <1>1
  <2>2. /\ p.chat = q.chat /\ p.nth = q.nth /\ p.chat_nth = q.chat_nth
        /\ p.age = q.age + 1
    BY <1>3, <2>1
  <2>3. globalKey' = Age(globalKey) /\ chatKey'[q.chat] = Age(chatKey[q.chat])
    BY PermitTyped DEF Tick
  <2>4. /\ globalKey'.ttl = globalKey.ttl - 1 /\ globalKey'.count = globalKey.count
        /\ chatKey'[q.chat].ttl = chatKey[q.chat].ttl - 1
        /\ chatKey'[q.chat].count = chatKey[q.chat].count
    BY <1>2, <2>1, <2>3
  <2>5. /\ globalKey.ttl >= Second - q.age
        /\ q.nth \in 1 .. globalKey.count /\ q.nth <= GlobalLimit
        /\ chatKey[q.chat].ttl >= Second - q.age
        /\ q.chat_nth \in 1 .. chatKey[q.chat].count /\ q.chat_nth <= ChatLimit
    BY DEF RateInv, PermitInv
  <2>6. QED
    BY <2>2, <2>4, <2>5, PermitTyped
<1>5. NumbersDiffer'
  <2>. SUFFICES ASSUME NEW p \in permits', NEW q \in permits'
                PROVE  /\ p.nth = q.nth => p = q
                       /\ p.chat = q.chat /\ p.chat_nth = q.chat_nth => p = q
    BY DEF NumbersDiffer
  <2>1. PICK p0 \in permits : p = [p0 EXCEPT !.age = p0.age + 1]
    BY <1>1
  <2>2. PICK q0 \in permits : q = [q0 EXCEPT !.age = q0.age + 1]
    BY <1>1
  <2>3. /\ p.chat = p0.chat /\ p.nth = p0.nth /\ p.chat_nth = p0.chat_nth
        /\ q.chat = q0.chat /\ q.nth = q0.nth /\ q.chat_nth = q0.chat_nth
    BY <1>3, <2>1, <2>2
  <2>4. p0 = q0 => p = q
    BY <2>1, <2>2
  <2>5. QED
    BY <2>3, <2>4 DEF RateInv, NumbersDiffer
<1>6. QED
  BY <1>4, <1>5 DEF RateInv

\* Every check, whether it passes or not, makes the counters last a second more.
LEMMA CountKeeps ==
  ASSUME TypeOK, RateInv, NEW c \in Chats, Count(c), NEW p \in permits
  PROVE  /\ globalKey'.ttl >= Second - p.age
         /\ p.nth \in 1 .. globalKey.count /\ globalKey'.count = globalKey.count + 1
         /\ p.nth \in 1 .. globalKey'.count /\ p.nth <= GlobalLimit
         /\ chatKey'[p.chat].ttl >= Second - p.age
         /\ p.chat_nth \in 1 .. chatKey[p.chat].count
         /\ p.chat_nth \in 1 .. chatKey'[p.chat].count /\ p.chat_nth <= ChatLimit
<1>1. /\ globalKey' = Incr(globalKey)
      /\ chatKey'[p.chat] = IF p.chat = c THEN Incr(chatKey[p.chat]) ELSE chatKey[p.chat]
  BY PermitTyped DEF Count, TypeOK
<1>2. /\ globalKey'.ttl = Second /\ globalKey'.count = globalKey.count + 1
      /\ \/ chatKey'[p.chat].ttl = Second /\ chatKey'[p.chat].count = chatKey[p.chat].count + 1
         \/ chatKey'[p.chat] = chatKey[p.chat]
  BY <1>1 DEF Incr
<1>3. /\ globalKey.ttl >= Second - p.age
      /\ p.nth \in 1 .. globalKey.count /\ p.nth <= GlobalLimit
      /\ chatKey[p.chat].ttl >= Second - p.age
      /\ p.chat_nth \in 1 .. chatKey[p.chat].count /\ p.chat_nth <= ChatLimit
  BY DEF RateInv, PermitInv
<1>4. QED
  BY <1>2, <1>3, PermitTyped

LEMMA CheckRate ==
  ASSUME TypeOK, RateInv, NEW s \in Senders, CheckRateLimit(s)
  PROVE  RateInv'
<1> DEFINE c == chat_id[s]
           new == [chat |-> c, age |-> 0, nth |-> globalKey'.count,
                   chat_nth |-> chatKey'[c].count]
<1>0. c \in Chats /\ Count(c)
  BY JobOfCall DEF CheckRateLimit
<1>1. /\ globalKey \in Key /\ chatKey \in [Chats -> Key] /\ permits \subseteq Permit
  BY TimesAssumption DEF TypeOK
<1>2. permits' = permits \/ (permits' = permits \cup {new} /\ Passes(c))
  BY DEF CheckRateLimit
<1>3. /\ globalKey'.ttl = Second /\ globalKey'.count = globalKey.count + 1
      /\ chatKey'[c].ttl = Second /\ chatKey'[c].count = chatKey[c].count + 1
  BY <1>0, <1>1 DEF Count, Incr
<1>4. globalKey.count \in Nat /\ chatKey[c].count \in Nat /\ Second \in Nat
  BY <1>0, <1>1, TimesAssumption DEF Key
<1>5. Passes(c) => globalKey'.count <= GlobalLimit /\ chatKey'[c].count <= ChatLimit
  BY <1>3 DEF Passes, Incr
<1>6. PermitInv'
  <2>. SUFFICES ASSUME NEW p \in permits'
                PROVE  /\ globalKey'.ttl >= Second - p.age
                       /\ p.nth \in 1 .. globalKey'.count /\ p.nth <= GlobalLimit
                       /\ chatKey'[p.chat].ttl >= Second - p.age
                       /\ p.chat_nth \in 1 .. chatKey'[p.chat].count /\ p.chat_nth <= ChatLimit
    BY DEF PermitInv
  <2>1. CASE p \in permits
    BY <1>0, <2>1, CountKeeps
  <2>2. CASE p = new /\ Passes(c)
    BY <1>3, <1>4, <1>5, <2>2
  <2>3. QED
    BY <1>2, <2>1, <2>2
<1>7. NumbersDiffer'
  <2>1. ASSUME NEW p \in permits
        PROVE  p.nth # new.nth /\ (p.chat = c => p.chat_nth # new.chat_nth)
    <3>1. /\ p.nth \in 1 .. globalKey.count
          /\ p.chat_nth \in 1 .. chatKey[p.chat].count
      BY <1>0, CountKeeps
    <3>2. QED
      BY <1>3, <1>4, <3>1
  <2>2. new.chat = c
    OBVIOUS
  <2> HIDE DEF new
  <2>3. QED
    BY <1>2, <2>1, <2>2 DEF RateInv, NumbersDiffer
<1>8. QED
  BY <1>6, <1>7 DEF RateInv

LEMMA FailOpenRate ==
  ASSUME TypeOK, RateInv, NEW s \in Senders, FailOpen(s)
  PROVE  RateInv'
<1>0. chat_id[s] \in Chats /\ permits' = permits
  BY JobOfCall DEF FailOpen
<1>1. CASE Count(chat_id[s])
  <2>1. PermitInv'
    BY <1>0, <1>1, CountKeeps DEF PermitInv
  <2>2. QED
    BY <1>0, <2>1 DEF RateInv, NumbersDiffer
<1>2. CASE UNCHANGED <<globalKey, chatKey>>
  BY <1>0, <1>2 DEF RateInv, PermitInv, NumbersDiffer
<1>3. QED
  BY <1>1, <1>2 DEF FailOpen

LEMMA RateInvNext == TypeOK /\ RateInv /\ [Next]_vars => RateInv'
<1>1. ASSUME RateInv, UNCHANGED keyVars PROVE RateInv'
  BY <1>1 DEF keyVars, RateInv, PermitInv, NumbersDiffer
<1>2. ASSUME [Next]_vars
      PROVE  \/ Tick \/ UNCHANGED keyVars
             \/ \E s \in Senders : CheckRateLimit(s) \/ FailOpen(s)
  BY <1>2 DEF Next, SenderNext, DlqNext, Send, DoSend, Wake, EnqueueDlq, SenderCrash,
              Pop, RetrySend, ReEnqueue, DlqCrash, vars
<1>3. QED
  BY <1>1, <1>2, TickRate, CheckRate, FailOpenRate

\* For any threads and processes that share the counters: within any second no more checks
\* pass than the limits allow, in all and per chat, although the counters are two keys with
\* times of their own and rejected checks change them too (telegram_sender.py:100-120).
THEOREM SenderRateKept == Spec => []RateKept
<1>1. Init => RateInv
  BY DEF Init, RateInv, PermitInv, NumbersDiffer
<1>2. QED
  BY <1>1, InitTypes, NextTypes, RateInvNext, RateInvKept, PTL DEF Spec

-----------------------------------------------------------------------------
(* Where a job is.                                                         *)

Calling == {s \in Senders : spc[s] # "idle"}
Busy == {d \in DlqWorkers : dpc[d] # "idle"}

\* The jobs of calls under way, of the list and of the workers.
Sending == {job[s] : s \in Calling}
Listed == {dlq[i].job : i \in DOMAIN dlq}
Working == {hand[d].job : d \in Busy}

SendersApart ==
  /\ \A s \in Senders : spc[s] = "idle" => job[s] = None
  /\ \A s, x \in Calling : job[s] = job[x] => s = x

ListApart == \A i, k \in DOMAIN dlq : dlq[i].job = dlq[k].job => i = k

WorkersApart == \A d, e \in Busy : hand[d].job = hand[e].job => d = e

\* No job is of two kinds.
KindsApart ==
  /\ Sending \cap Listed = {} /\ Sending \cap Working = {}
  /\ Sending \cap ended = {} /\ Sending \cap lost = {}
  /\ Listed \cap Working = {} /\ Listed \cap ended = {} /\ Listed \cap lost = {}
  /\ Working \cap ended = {} /\ Working \cap lost = {} /\ ended \cap lost = {}

AllPlaced == Sending \cup Listed \cup Working \cup ended \cup lost = 1 .. calls

PlaceInv == SendersApart /\ ListApart /\ WorkersApart /\ KindsApart /\ AllPlaced

LEMMA CallReturns ==
  ASSUME TypeOK, SendersApart, NEW s \in Senders, spc[s] # "idle", Return(s)
  PROVE  SendersApart' /\ Sending' = Sending \ {job[s]} /\ job[s] \in Sending
<1>1. /\ spc \in [Senders -> SenderStep] /\ job \in [Senders -> Jobs \cup {None}]
      /\ spc' = [spc EXCEPT ![s] = "idle"] /\ job' = [job EXCEPT ![s] = None]
  BY DEF TypeOK, Return
<1>2. Calling' = Calling \ {s} /\ \A x \in Calling' : job'[x] = job[x]
  BY <1>1 DEF Calling
<1>3. s \in Calling /\ \A x \in Calling : job[x] = job[s] => x = s
  BY DEF Calling, SendersApart
<1>4. Sending' = Sending \ {job[s]}
  BY <1>2, <1>3 DEF Sending
<1>5. SendersApart'
  BY <1>1, <1>2 DEF SendersApart
<1>6. QED
  BY <1>3, <1>4, <1>5 DEF Sending

LEMMA CallGoesOn ==
  ASSUME TypeOK, SendersApart, NEW s \in Senders, GoesOn(s)
  PROVE  SendersApart' /\ Sending' = Sending
<1>1. PICK st \in SenderStep \ {"idle"} : spc' = [spc EXCEPT ![s] = st]
  BY DEF GoesOn
<1>2. spc \in [Senders -> SenderStep] /\ job' = job /\ spc[s] # "idle"
  BY DEF TypeOK, GoesOn
<1>3. Calling' = Calling
  BY <1>1, <1>2 DEF Calling
<1>4. \A x \in Senders : spc'[x] = "idle" => spc[x] = "idle"
  BY <1>1, <1>2
<1>5. QED
  BY <1>2, <1>3, <1>4 DEF Sending, SendersApart

LEMMA Appended ==
  ASSUME TypeOK, ListApart, NEW entry \in Entry, entry.job \notin Listed,
         dlq' = Append(dlq, entry)
  PROVE  ListApart' /\ Listed' = Listed \cup {entry.job}
<1> DEFINE n == Len(dlq)
<1>1. n \in Nat /\ DOMAIN dlq = 1 .. n
  BY DEF TypeOK
<1>2. /\ DOMAIN dlq' = 1 .. n + 1 /\ dlq'[n + 1] = entry
      /\ \A i \in 1 .. n : dlq'[i] = dlq[i]
  BY DEF TypeOK
<1> HIDE DEF n
<1>3. 1 .. n + 1 = (1 .. n) \cup {n + 1} /\ n + 1 \notin 1 .. n
  BY <1>1
<1>4. Listed' = Listed \cup {entry.job}
  BY <1>1, <1>2, <1>3 DEF Listed
<1>5. \A i \in 1 .. n : dlq[i].job # entry.job
  BY <1>1 DEF Listed
<1>6. ListApart'
  BY <1>1, <1>2, <1>3, <1>5 DEF ListApart
<1>7. QED
  BY <1>4, <1>6

LEMMA Popped ==
  ASSUME TypeOK, ListApart, dlq # <<>>, dlq' = Tail(dlq)
  PROVE  /\ ListApart' /\ Listed' = Listed \ {Head(dlq).job} /\ Head(dlq).job \in Listed
         /\ \A i \in DOMAIN dlq' : i + 1 \in DOMAIN dlq /\ dlq'[i] = dlq[i + 1]
<1> DEFINE n == Len(dlq)
<1>1. n \in Nat \ {0} /\ DOMAIN dlq = 1 .. n /\ Head(dlq) = dlq[1]
  BY DEF TypeOK
<1>2. /\ DOMAIN dlq' = 1 .. n - 1
      /\ \A i \in 1 .. n - 1 : dlq'[i] = dlq[i + 1]
  BY DEF TypeOK
<1> HIDE DEF n
<1>3. \A i \in 1 .. n - 1 : i + 1 \in 1 .. n /\ i + 1 # 1
  BY <1>1
<1>4. \A k \in 1 .. n : k # 1 => k - 1 \in 1 .. n - 1 /\ (k - 1) + 1 = k
  BY <1>1
<1>5. 1 \in 1 .. n
  BY <1>1
<1>6. \A k \in 1 .. n : dlq[k].job = dlq[1].job => k = 1
  BY <1>1, <1>5 DEF ListApart
<1>7. Listed' \subseteq Listed \ {dlq[1].job}
  BY <1>1, <1>2, <1>3, <1>6 DEF Listed
<1>8. Listed \ {dlq[1].job} \subseteq Listed'
  <2>1. ASSUME NEW k \in 1 .. n, dlq[k].job # dlq[1].job
        PROVE  dlq[k].job \in Listed'
    <3>1. k - 1 \in 1 .. n - 1 /\ (k - 1) + 1 = k
      BY <1>4, <2>1
    <3>2. dlq'[k - 1] = dlq[k]
      BY <1>2, <3>1
    <3>3. QED
      BY <1>2, <3>1, <3>2 DEF Listed
  <2>2. QED
    BY <1>1, <2>1 DEF Listed
<1>9. ListApart'
  <2>1. ASSUME NEW i \in 1 .. n - 1, NEW k \in 1 .. n - 1, dlq'[i].job = dlq'[k].job
        PROVE  i = k
    <3>1. i + 1 = k + 1
      BY <1>1, <1>2, <1>3, <2>1 DEF ListApart
    <3>2. QED
      BY <1>1, <3>1
  <2>2. QED
    BY <1>2, <2>1 DEF ListApart
<1>10. dlq[1].job \in Listed
  BY <1>1, <1>5 DEF Listed
<1>11. QED
  BY <1>1, <1>2, <1>3, <1>7, <1>8, <1>9, <1>10

LEMMA TakenUp ==
  ASSUME TypeOK, WorkersApart, NEW d \in DlqWorkers, dpc[d] = "idle",
         NEW entry \in Entry, entry.job \notin Working, Put(d, "post", entry)
  PROVE  WorkersApart' /\ Working' = Working \cup {entry.job}
<1>1. /\ dpc' = [dpc EXCEPT ![d] = "post"] /\ hand' = [hand EXCEPT ![d] = entry]
      /\ dpc \in [DlqWorkers -> {"idle", "post", "push"}]
      /\ hand \in [DlqWorkers -> Entry \cup {None}]
  BY DEF Put, TypeOK
<1>2. /\ Busy' = Busy \cup {d} /\ d \notin Busy /\ hand'[d] = entry
      /\ \A e \in Busy : hand'[e] = hand[e]
  BY <1>1 DEF Busy
<1>3. \A e \in Busy : hand[e].job # entry.job
  BY DEF Working
<1>4. QED
  BY <1>2, <1>3 DEF Working, WorkersApart

LEMMA PutDown ==
  ASSUME TypeOK, WorkersApart, NEW d \in DlqWorkers, dpc[d] # "idle", Put(d, "idle", None)
  PROVE  WorkersApart' /\ Working' = Working \ {hand[d].job} /\ hand[d].job \in Working
<1>1. /\ dpc' = [dpc EXCEPT ![d] = "idle"] /\ hand' = [hand EXCEPT ![d] = None]
      /\ dpc \in [DlqWorkers -> {"idle", "post", "push"}]
      /\ hand \in [DlqWorkers -> Entry \cup {None}]
  BY DEF Put, TypeOK
<1>2. /\ Busy' = Busy \ {d} /\ d \in Busy
      /\ \A e \in Busy' : hand'[e] = hand[e]
  BY <1>1 DEF Busy
<1>3. \A e \in Busy : hand[e].job = hand[d].job => e = d
  BY <1>2 DEF WorkersApart
<1>4. QED
  BY <1>2, <1>3 DEF Working, WorkersApart

LEMMA KeptInHand ==
  ASSUME TypeOK, WorkersApart, NEW d \in DlqWorkers, dpc[d] # "idle", Put(d, "push", hand[d])
  PROVE  WorkersApart' /\ Working' = Working /\ hand' = hand /\ hand[d].job \in Working
<1>1. /\ dpc' = [dpc EXCEPT ![d] = "push"] /\ hand' = hand
      /\ dpc \in [DlqWorkers -> {"idle", "post", "push"}]
  BY DEF Put, TypeOK
<1>2. Busy' = Busy /\ d \in Busy
  BY <1>1 DEF Busy
<1>3. QED
  BY <1>1, <1>2 DEF Working, WorkersApart

\* The kinds of a job that takes no part in a step.
LEMMA ListSame ==
  ASSUME ListApart, dlq' = dlq
  PROVE  ListApart' /\ Listed' = Listed
BY DEF ListApart, Listed

LEMMA WorkersSame ==
  ASSUME WorkersApart, UNCHANGED <<dpc, hand>>
  PROVE  WorkersApart' /\ Working' = Working
BY DEF WorkersApart, Working, Busy

LEMMA SendersSame ==
  ASSUME SendersApart, UNCHANGED <<spc, job>>
  PROVE  SendersApart' /\ Sending' = Sending
BY DEF SendersApart, Sending, Calling

LEMMA SendPlaces ==
  ASSUME TypeOK, PlaceInv, NEW s \in Senders, NEW c \in Chats, Send(s, c)
  PROVE  PlaceInv'
<1> DEFINE j == calls + 1
<1>1. /\ spc \in [Senders -> SenderStep] /\ job \in [Senders -> Jobs \cup {None}]
      /\ spc' = [spc EXCEPT ![s] = "check"] /\ job' = [job EXCEPT ![s] = j]
      /\ spc[s] = "idle" /\ calls' = j /\ calls \in Nat
  BY LimitsAssumption DEF TypeOK, Send
<1>2. j \notin 1 .. calls /\ 1 .. j = (1 .. calls) \cup {j}
  BY <1>1
<1> HIDE DEF j
<1>3. /\ Calling' = Calling \cup {s} /\ s \notin Calling /\ job'[s] = j
      /\ \A x \in Calling : job'[x] = job[x]
  BY <1>1 DEF Calling
<1>4. Sending' = Sending \cup {j}
  BY <1>3 DEF Sending
<1>5. \A x \in Calling : job[x] # j
  BY <1>2 DEF PlaceInv, AllPlaced, Sending
<1>6. SendersApart'
  <2>1. \A x, y \in Calling' : job'[x] = job'[y] => x = y
    BY <1>3, <1>5 DEF PlaceInv, SendersApart
  <2>2. \A x \in Senders : spc'[x] = "idle" => job'[x] = None
    BY <1>1 DEF PlaceInv, SendersApart
  <2>3. QED
    BY <2>1, <2>2 DEF SendersApart
<1>7. ListApart' /\ WorkersApart' /\ Listed' = Listed /\ Working' = Working
  BY ListSame, WorkersSame DEF PlaceInv, Send, dlqVars
<1>8. ended' = ended /\ lost' = lost
  BY DEF Send, endVars
<1>9. KindsApart'
  BY <1>2, <1>4, <1>7, <1>8 DEF PlaceInv, KindsApart, AllPlaced
<1>10. AllPlaced'
  BY <1>1, <1>2, <1>4, <1>7, <1>8 DEF PlaceInv, AllPlaced
<1>11. QED
  BY <1>6, <1>7, <1>9, <1>10 DEF PlaceInv

\* A job that a step takes out of a call goes to the list or to its end.
LEMMA CallPlaces ==
  ASSUME TypeOK, PlaceInv, NEW s \in Senders, SenderNext(s) \/ SenderCrash(s)
  PROVE  /\ PlaceInv'
         /\ \/ GoesOn(s) /\ UNCHANGED <<ended, lost, dlqVars>>
            \/ /\ Return(s) /\ job[s] \in Sending
               /\ Sending' = Sending \ {job[s]}
               /\ UNCHANGED <<dpc, hand, calls>>
               /\ \/ /\ dlq' = Append(dlq, [job |-> job[s], dlq_attempts |-> 0])
                     /\ UNCHANGED endVars
                  \/ (End(job[s]) \/ Lose(job[s])) /\ UNCHANGED dlq
<1> DEFINE j == job[s]
           entry == [job |-> j, dlq_attempts |-> 0]
<1>0. /\ spc[s] # "idle" /\ j \in Jobs
      /\ SendersApart /\ ListApart /\ WorkersApart /\ KindsApart /\ AllPlaced
  BY SenderTypes, JobOfCall DEF PlaceInv
<1>1. CASE GoesOn(s) /\ UNCHANGED <<ended, lost, dlqVars>>
  <2>1. SendersApart' /\ Sending' = Sending
    BY <1>0, <1>1, CallGoesOn
  <2>2. /\ ListApart' /\ WorkersApart' /\ Listed' = Listed /\ Working' = Working
        /\ ended' = ended /\ lost' = lost /\ calls' = calls
    BY <1>0, <1>1, ListSame, WorkersSame DEF dlqVars, GoesOn
  <2>3. KindsApart' /\ AllPlaced'
    BY <1>0, <2>1, <2>2 DEF KindsApart, AllPlaced
  <2>4. QED
    BY <1>1, <2>1, <2>2, <2>3 DEF PlaceInv
<1>2. CASE /\ Return(s) /\ UNCHANGED <<dpc, hand, calls>>
           /\ \/ dlq' = Append(dlq, entry) /\ UNCHANGED endVars
              \/ (End(j) \/ Lose(j)) /\ UNCHANGED dlq
  <2>1. SendersApart' /\ Sending' = Sending \ {j} /\ j \in Sending
    BY <1>0, <1>2, CallReturns
  <2>2. WorkersApart' /\ Working' = Working /\ calls' = calls
    BY <1>0, <1>2, WorkersSame
  <2>3. j \notin Listed /\ j \notin Working /\ j \notin ended /\ j \notin lost
    BY <1>0, <2>1 DEF KindsApart
  <2>4. CASE dlq' = Append(dlq, entry) /\ UNCHANGED endVars
    <3>1. entry \in Entry /\ entry.job = j
      BY <1>0, LimitsAssumption DEF Entry
    <3>2. ListApart' /\ Listed' = Listed \cup {j}
      BY <1>0, <2>3, <2>4, <3>1, Appended
    <3>3. ended' = ended /\ lost' = lost
      BY <2>4 DEF endVars
    <3>4. KindsApart' /\ AllPlaced'
      BY <1>0, <2>1, <2>2, <2>3, <3>2, <3>3 DEF KindsApart, AllPlaced
    <3>5. QED
      BY <1>2, <2>1, <2>2, <3>2, <3>4 DEF PlaceInv
  <2>5. CASE (End(j) \/ Lose(j)) /\ UNCHANGED dlq
    <3>1. ListApart' /\ Listed' = Listed
      BY <1>0, <2>5, ListSame
    <3>2. \/ ended' = ended \cup {j} /\ lost' = lost
          \/ ended' = ended /\ lost' = lost \cup {j}
      BY <2>5 DEF End, Lose
    <3>3. KindsApart' /\ AllPlaced'
      BY <1>0, <2>1, <2>2, <2>3, <3>1, <3>2 DEF KindsApart, AllPlaced
    <3>4. QED
      BY <1>2, <2>1, <2>2, <3>1, <3>3 DEF PlaceInv
  <2>6. QED
    BY <1>2, <2>4, <2>5
<1>3. CASE CheckRateLimit(s) \/ FailOpen(s) \/ Wake(s)
  <2>1. GoesOn(s)
    BY <1>0, <1>3 DEF CheckRateLimit, FailOpen, Wake, GoesOn, Sleep, SenderStep
  <2>2. UNCHANGED <<ended, lost, dlqVars>>
    BY <1>3 DEF CheckRateLimit, FailOpen, Wake, endVars
  <2>3. QED
    BY <1>1, <2>1, <2>2
<1>4. CASE DoSend(s)
  <2>1. \/ End(j) /\ Return(s)
        \/ Posted(j) /\ GoesOn(s)
    BY <1>0, <1>4 DEF DoSend, GoesOn, Sleep, SenderStep
  <2>2. UNCHANGED <<dlqVars, calls>>
    BY <1>4 DEF DoSend
  <2>3. QED
    BY <1>1, <1>2, <2>1, <2>2 DEF dlqVars, Posted
<1>5. CASE EnqueueDlq(s) \/ SenderCrash(s)
  <2>1. /\ Return(s) /\ UNCHANGED <<dpc, hand, calls>>
        /\ \/ dlq' = Append(dlq, entry) /\ UNCHANGED endVars
           \/ (End(j) \/ Lose(j)) /\ UNCHANGED dlq
    BY <1>5 DEF EnqueueDlq, SenderCrash, dlqVars
  <2>2. QED
    BY <1>2, <2>1
<1>6. QED
  BY <1>3, <1>4, <1>5 DEF SenderNext

LEMMA PopPlaces ==
  ASSUME TypeOK, PlaceInv, NEW d \in DlqWorkers, Pop(d)
  PROVE  PlaceInv'
<1> DEFINE first == Head(dlq)
           j == Head(dlq).job
           entry == [Head(dlq) EXCEPT !.dlq_attempts = Head(dlq).dlq_attempts + 1]
<1>0. SendersApart /\ ListApart /\ WorkersApart /\ KindsApart /\ AllPlaced
  BY DEF PlaceInv
<1>1. /\ dlq # <<>> /\ dlq' = Tail(dlq) /\ first \in Entry /\ dpc[d] = "idle"
  BY DEF Pop, TypeOK
<1>2. \/ End(j) /\ UNCHANGED <<dpc, hand>>
      \/ /\ first.dlq_attempts + 1 <= MaxDlqAttempts
         /\ Put(d, "post", entry) /\ UNCHANGED endVars
  BY DEF Pop
<1>3. ListApart' /\ Listed' = Listed \ {j} /\ j \in Listed
  BY <1>0, <1>1, Popped
<1>4. SendersApart' /\ Sending' = Sending /\ calls' = calls
  BY <1>0, SendersSame DEF Pop, senderVars
<1>5. j \notin Sending /\ j \notin Working /\ j \notin ended /\ j \notin lost
  BY <1>0, <1>3 DEF KindsApart
<1>6. CASE End(j) /\ UNCHANGED <<dpc, hand>>
  <2>1. WorkersApart' /\ Working' = Working
    BY <1>0, <1>6, WorkersSame
  <2>2. ended' = ended \cup {j} /\ lost' = lost
    BY <1>6 DEF End
  <2>3. KindsApart' /\ AllPlaced'
    BY <1>0, <1>3, <1>4, <1>5, <2>1, <2>2 DEF KindsApart, AllPlaced
  <2>4. QED
    BY <1>3, <1>4, <2>1, <2>3 DEF PlaceInv
<1>7. CASE /\ first.dlq_attempts + 1 <= MaxDlqAttempts
           /\ Put(d, "post", entry) /\ UNCHANGED endVars
  <2>1. first.dlq_attempts + 1 \in 0 .. MaxDlqAttempts
    BY <1>1, <1>7, LimitsAssumption DEF Entry
  <2>2. entry \in Entry /\ entry.job = j
    BY <1>1, <2>1 DEF Entry
  <2> HIDE DEF entry
  <2>3. WorkersApart' /\ Working' = Working \cup {j}
    BY <1>0, <1>1, <1>5, <1>7, <2>2, TakenUp
  <2>4. ended' = ended /\ lost' = lost
    BY <1>7 DEF endVars
  <2>5. KindsApart' /\ AllPlaced'
    BY <1>0, <1>3, <1>4, <1>5, <2>3, <2>4 DEF KindsApart, AllPlaced
  <2>6. QED
    BY <1>3, <1>4, <2>3, <2>5 DEF PlaceInv
<1>8. QED
  BY <1>2, <1>6, <1>7

LEMMA WorkerPlaces ==
  ASSUME TypeOK, PlaceInv, NEW d \in DlqWorkers,
         RetrySend(d) \/ ReEnqueue(d) \/ DlqCrash(d)
  PROVE  PlaceInv'
<1> DEFINE j == hand[d].job
<1>0. /\ SendersApart /\ ListApart /\ WorkersApart /\ KindsApart /\ AllPlaced
      /\ dpc[d] # "idle" /\ hand[d] \in Entry
  BY DEF PlaceInv, RetrySend, ReEnqueue, DlqCrash, TypeOK
<1>1. SendersApart' /\ Sending' = Sending /\ calls' = calls
  BY <1>0, SendersSame DEF RetrySend, ReEnqueue, DlqCrash, senderVars
<1>2. CASE Put(d, "push", hand[d]) /\ Posted(j) /\ UNCHANGED dlq
  <2>1. WorkersApart' /\ Working' = Working
    BY <1>0, <1>2, KeptInHand
  <2>2. ListApart' /\ Listed' = Listed
    BY <1>0, <1>2, ListSame
  <2>3. KindsApart' /\ AllPlaced'
    BY <1>0, <1>1, <1>2, <2>1, <2>2 DEF KindsApart, AllPlaced, Posted
  <2>4. QED
    BY <1>1, <2>1, <2>2, <2>3 DEF PlaceInv
<1>3. CASE /\ Put(d, "idle", None)
           /\ \/ dlq' = Append(dlq, hand[d]) /\ UNCHANGED endVars
              \/ (End(j) \/ Lose(j)) /\ UNCHANGED dlq
  <2>1. WorkersApart' /\ Working' = Working \ {j} /\ j \in Working
    BY <1>0, <1>3, PutDown
  <2>2. j \notin Listed /\ j \notin Sending /\ j \notin ended /\ j \notin lost
    BY <1>0, <2>1 DEF KindsApart
  <2>3. CASE dlq' = Append(dlq, hand[d]) /\ UNCHANGED endVars
    <3>1. ListApart' /\ Listed' = Listed \cup {j}
      BY <1>0, <2>2, <2>3, Appended
    <3>2. ended' = ended /\ lost' = lost
      BY <2>3 DEF endVars
    <3>3. KindsApart' /\ AllPlaced'
      BY <1>0, <1>1, <2>1, <2>2, <3>1, <3>2 DEF KindsApart, AllPlaced
    <3>4. QED
      BY <1>1, <2>1, <3>1, <3>3 DEF PlaceInv
  <2>4. CASE (End(j) \/ Lose(j)) /\ UNCHANGED dlq
    <3>1. ListApart' /\ Listed' = Listed
      BY <1>0, <2>4, ListSame
    <3>2. \/ ended' = ended \cup {j} /\ lost' = lost
          \/ ended' = ended /\ lost' = lost \cup {j}
      BY <2>4 DEF End, Lose
    <3>3. KindsApart' /\ AllPlaced'
      BY <1>0, <1>1, <2>1, <2>2, <3>1, <3>2 DEF KindsApart, AllPlaced
    <3>4. QED
      BY <1>1, <2>1, <3>1, <3>3 DEF PlaceInv
  <2>5. QED
    BY <1>3, <2>3, <2>4
<1>4. \/ Put(d, "push", hand[d]) /\ Posted(j) /\ UNCHANGED dlq
      \/ /\ Put(d, "idle", None)
         /\ \/ dlq' = Append(dlq, hand[d]) /\ UNCHANGED endVars
            \/ (End(j) \/ Lose(j)) /\ UNCHANGED dlq
  BY DEF RetrySend, ReEnqueue, DlqCrash
<1>5. QED
  BY <1>2, <1>3, <1>4

LEMMA PlaceInvNext == TypeOK /\ PlaceInv /\ [Next]_vars => PlaceInv'
<1>1. ASSUME PlaceInv, UNCHANGED <<spc, job, dlq, dpc, hand, ended, lost, calls>>
      PROVE  PlaceInv'
  <2>1. /\ SendersApart' /\ ListApart' /\ WorkersApart'
        /\ Sending' = Sending /\ Listed' = Listed /\ Working' = Working
    BY <1>1, SendersSame, ListSame, WorkersSame DEF PlaceInv
  <2>2. KindsApart' /\ AllPlaced'
    BY <1>1, <2>1 DEF PlaceInv, KindsApart, AllPlaced
  <2>3. QED
    BY <2>1, <2>2 DEF PlaceInv
<1>2. ASSUME Tick \/ UNCHANGED vars
      PROVE  UNCHANGED <<spc, job, dlq, dpc, hand, ended, lost, calls>>
  BY <1>2 DEF Tick, vars, senderVars, dlqVars, endVars
<1>3. QED
  BY <1>1, <1>2, SendPlaces, CallPlaces, PopPlaces, WorkerPlaces DEF Next, DlqNext

LEMMA PlaceInvInit == Init => PlaceInv
<1>. SUFFICES ASSUME Init PROVE PlaceInv
  OBVIOUS
<1>1. Calling = {} /\ Busy = {} /\ DOMAIN dlq = {}
  BY DEF Init, Calling, Busy
<1>2. Sending = {} /\ Listed = {} /\ Working = {}
  BY <1>1 DEF Sending, Listed, Working
<1>3. SendersApart /\ ListApart /\ WorkersApart
  BY <1>1 DEF Init, SendersApart, ListApart, WorkersApart
<1>4. KindsApart /\ AllPlaced
  BY <1>2 DEF Init, KindsApart, AllPlaced
<1>5. QED
  BY <1>3, <1>4 DEF PlaceInv

-----------------------------------------------------------------------------
(* One place for each job.                                                 *)

SendersOf(j) == {s \in Senders : job[s] = j}
PositionsOf(j) == {i \in DOMAIN dlq : dlq[i].job = j}
WorkersOf(j) == {d \in DlqWorkers : dpc[d] # "idle" /\ hand[d].job = j}
EndsOf(j) == {e \in {"ended", "lost"} : j \in (IF e = "ended" THEN ended ELSE lost)}

LEMMA KindsOf ==
  ASSUME TypeOK, PlaceInv, NEW j \in Jobs
  PROVE  /\ j \in Sending => \E s : SendersOf(j) = {s}
         /\ j \notin Sending => SendersOf(j) = {}
         /\ j \in Listed => \E i : PositionsOf(j) = {i}
         /\ j \notin Listed => PositionsOf(j) = {}
         /\ j \in Working => \E d : WorkersOf(j) = {d}
         /\ j \notin Working => WorkersOf(j) = {}
         /\ j \in ended \cup lost => \E e : EndsOf(j) = {e}
         /\ j \notin ended \cup lost => EndsOf(j) = {}
<1>1. /\ j \in Sending => \E s : SendersOf(j) = {s}
      /\ j \notin Sending => SendersOf(j) = {}
  <2>1. j # None
    BY ChatsAssumption DEF Jobs
  <2>2. SendersOf(j) = {s \in Calling : job[s] = j}
    BY <2>1 DEF SendersOf, Calling, PlaceInv, SendersApart
  <2>3. \A s, x \in Calling : job[s] = job[x] => s = x
    BY DEF PlaceInv, SendersApart
  <2>4. ASSUME NEW s \in Calling, job[s] = j PROVE SendersOf(j) = {s}
    BY <2>2, <2>3, <2>4
  <2>5. QED
    BY <2>2, <2>4 DEF Sending
<1>2. /\ j \in Listed => \E i : PositionsOf(j) = {i}
      /\ j \notin Listed => PositionsOf(j) = {}
  <2>1. ASSUME NEW i \in DOMAIN dlq, dlq[i].job = j PROVE PositionsOf(j) = {i}
    BY <2>1 DEF PositionsOf, PlaceInv, ListApart
  <2>2. QED
    BY <2>1 DEF Listed, PositionsOf
<1>3. /\ j \in Working => \E d : WorkersOf(j) = {d}
      /\ j \notin Working => WorkersOf(j) = {}
  <2>1. ASSUME NEW d \in Busy, hand[d].job = j PROVE WorkersOf(j) = {d}
    BY <2>1 DEF WorkersOf, Busy, PlaceInv, WorkersApart
  <2>2. QED
    BY <2>1 DEF Working, WorkersOf, Busy
<1>4. /\ j \in ended \cup lost => \E e : EndsOf(j) = {e}
      /\ j \notin ended \cup lost => EndsOf(j) = {}
  <2>1. ~ (j \in ended /\ j \in lost)
    BY DEF PlaceInv, KindsApart
  <2>2. j \in ended => EndsOf(j) = {"ended"}
    BY <2>1 DEF EndsOf
  <2>3. j \in lost => EndsOf(j) = {"lost"}
    BY <2>1 DEF EndsOf
  <2>4. j \notin ended \cup lost => EndsOf(j) = {}
    BY DEF EndsOf
  <2>5. QED
    BY <2>2, <2>3, <2>4
<1>5. QED
  BY <1>1, <1>2, <1>3, <1>4

LEMMA PlacesOf ==
  ASSUME TypeOK, PlaceInv, NEW j \in Jobs
  PROVE  Cardinality(Places(j)) = IF j <= calls THEN 1 ELSE 0
<1>1. Places(j) = {"send"} \X SendersOf(j) \cup {"list"} \X PositionsOf(j)
                  \cup {"worker"} \X WorkersOf(j) \cup {"end"} \X EndsOf(j)
  BY DEF Places, SendersOf, PositionsOf, WorkersOf, EndsOf
<1>2. (j \in Sending \/ j \in Listed \/ j \in Working \/ j \in ended \cup lost) <=> j <= calls
  <2>1. j \in 1 .. calls <=> j <= calls
    BY LimitsAssumption DEF TypeOK, Jobs
  <2>2. QED
    BY <2>1 DEF PlaceInv, AllPlaced
<1>3. ASSUME NEW x PROVE Cardinality({x}) = 1
  BY FS_Singleton
<1>4. CASE j \in Sending
  <2>1. PICK s : SendersOf(j) = {s}
    BY <1>4, KindsOf
  <2>2. PositionsOf(j) = {} /\ WorkersOf(j) = {} /\ EndsOf(j) = {}
    BY <1>4, KindsOf DEF PlaceInv, KindsApart
  <2>3. Places(j) = {<<"send", s>>}
    BY <1>1, <2>1, <2>2
  <2>4. QED
    BY <1>2, <1>3, <1>4, <2>3
<1>5. CASE j \in Listed
  <2>1. PICK i : PositionsOf(j) = {i}
    BY <1>5, KindsOf
  <2>2. SendersOf(j) = {} /\ WorkersOf(j) = {} /\ EndsOf(j) = {}
    BY <1>5, KindsOf DEF PlaceInv, KindsApart
  <2>3. Places(j) = {<<"list", i>>}
    BY <1>1, <2>1, <2>2
  <2>4. QED
    BY <1>2, <1>3, <1>5, <2>3
<1>6. CASE j \in Working
  <2>1. PICK d : WorkersOf(j) = {d}
    BY <1>6, KindsOf
  <2>2. SendersOf(j) = {} /\ PositionsOf(j) = {} /\ EndsOf(j) = {}
    BY <1>6, KindsOf DEF PlaceInv, KindsApart
  <2>3. Places(j) = {<<"worker", d>>}
    BY <1>1, <2>1, <2>2
  <2>4. QED
    BY <1>2, <1>3, <1>6, <2>3
<1>7. CASE j \in ended \cup lost
  <2>1. PICK e : EndsOf(j) = {e}
    BY <1>7, KindsOf
  <2>2. SendersOf(j) = {} /\ PositionsOf(j) = {} /\ WorkersOf(j) = {}
    BY <1>7, KindsOf DEF PlaceInv, KindsApart
  <2>3. Places(j) = {<<"end", e>>}
    BY <1>1, <2>1, <2>2
  <2>4. QED
    BY <1>2, <1>3, <1>7, <2>3
<1>8. CASE ~ (j \in Sending \/ j \in Listed \/ j \in Working \/ j \in ended \cup lost)
  <2>1. Places(j) = {}
    BY <1>1, <1>8, KindsOf
  <2>2. QED
    BY <1>2, <1>8, <2>1, FS_EmptySet
<1>9. QED
  BY <1>4, <1>5, <1>6, <1>7, <1>8

\* With Redis a job is lost only by a fault.
LostInv == IsFiniteSet(lost) /\ (redis => Cardinality(lost) <= faults)

LEMMA LostInvNext == TypeOK /\ LostInv /\ [Next]_vars => LostInv'
<1>. SUFFICES ASSUME TypeOK, LostInv, [Next]_vars PROVE LostInv'
  OBVIOUS
<1>0. faults \in Nat
  BY LimitsAssumption DEF TypeOK
<1>R. redis' = redis
  BY DEF Next, Tick, Send, SenderNext, CheckRateLimit, FailOpen, DoSend, Wake, EnqueueDlq,
      SenderCrash, DlqNext, Pop, RetrySend, ReEnqueue, DlqCrash, vars, keyVars
<1>1. CASE lost' = lost /\ (faults' = faults \/ faults' = faults + 1)
  <2>1. Cardinality(lost) \in Nat
    BY FS_CardinalityType DEF LostInv
  <2>2. redis' => Cardinality(lost') <= faults'
    BY <1>0, <1>R, <1>1, <2>1 DEF LostInv
  <2>3. QED
    BY <1>1, <2>2 DEF LostInv
<1>2. ASSUME NEW j, lost' = lost \cup {j}, redis => faults' = faults + 1
      PROVE  LostInv'
  <2>1. IsFiniteSet(lost)
    BY DEF LostInv
  <2>2. Cardinality(lost) \in Nat
    BY <2>1, FS_CardinalityType
  <2>3. /\ IsFiniteSet(lost \cup {j})
        /\ Cardinality(lost \cup {j}) = IF j \in lost THEN Cardinality(lost) ELSE Cardinality(lost) + 1
    BY <2>1, FS_AddElement
  <2>4. ASSUME redis PROVE Cardinality(lost') <= faults'
    <3>1. Cardinality(lost) <= faults /\ faults' = faults + 1
      BY <1>2, <2>4 DEF LostInv
    <3>2. QED
      BY <1>0, <1>2, <2>2, <2>3, <3>1
  <2>5. QED
    BY <1>R, <1>2, <2>3, <2>4 DEF LostInv
<1>3. CASE Tick \/ UNCHANGED vars \/ \E s \in Senders, c \in Chats : Send(s, c)
  BY <1>1, <1>3 DEF Tick, Send, endVars, vars
<1>4. ASSUME NEW s \in Senders, SenderNext(s) \/ SenderCrash(s)
      PROVE  LostInv'
  <2>1. CASE CheckRateLimit(s) \/ FailOpen(s) \/ DoSend(s) \/ Wake(s)
    BY <1>1, <2>1 DEF CheckRateLimit, FailOpen, DoSend, Wake, End, Posted, Fault, endVars
  <2>2. CASE EnqueueDlq(s)
    BY <1>1, <1>2, <2>2 DEF EnqueueDlq, Lose, Fault, endVars
  <2>3. CASE SenderCrash(s)
    BY <1>2, <2>3 DEF SenderCrash, Lose, Fault
  <2>4. QED
    BY <1>4, <2>1, <2>2, <2>3 DEF SenderNext
<1>5. ASSUME NEW d \in DlqWorkers, DlqNext(d) \/ DlqCrash(d)
      PROVE  LostInv'
  <2>1. CASE Pop(d) \/ RetrySend(d)
    BY <1>1, <2>1 DEF Pop, RetrySend, End, Posted, endVars
  <2>2. CASE ReEnqueue(d)
    BY <1>1, <1>2, <2>2 DEF ReEnqueue, Lose, Fault, endVars
  <2>3. CASE DlqCrash(d)
    BY <1>2, <2>3 DEF DlqCrash, Lose, Fault
  <2>4. QED
    BY <1>5, <2>1, <2>2, <2>3 DEF DlqNext
<1>6. QED
  BY <1>3, <1>4, <1>5 DEF Next

\* For any number of messages, threads and workers, wherever they die: a message handed to
\* send is in one place, a call, the list, a worker or one of its ends, and with Redis only
\* faults lose one (telegram_sender.py:49-98, dlq_worker.py).
THEOREM SenderJobsAccounted == Spec => []JobsAccounted
<1>1. TypeOK /\ PlaceInv /\ LostInv => JobsAccounted
  BY PlacesOf DEF JobsAccounted, LostInv
<1>2. Init => LostInv
  BY FS_EmptySet DEF Init, LostInv
<1>3. QED
  BY <1>1, <1>2, InitTypes, NextTypes, PlaceInvInit, PlaceInvNext, LostInvNext, PTL DEF Spec

-----------------------------------------------------------------------------
(* The tries of a job.                                                     *)

\* A call has posted, and asked the rate limit, at most once for each attempt.
CallTriesAt(s) ==
  /\ spc[s] # "idle" =>
       /\ attempt[s] >= 1
       /\ posts[job[s]] <= IF spc[s] \in {"check", "post"} THEN attempt[s] - 1 ELSE attempt[s]
       /\ checks[s] <= IF spc[s] = "check" THEN attempt[s] - 1 ELSE attempt[s]
  /\ spc[s] = "idle" => checks[s] = 0

CallTries == \A s \in Senders : CallTriesAt(s)

\* What is in the list has been posted by its call, and once for each time it was popped.
ListTries == \A i \in DOMAIN dlq : posts[dlq[i].job] <= MaxRetries + 1 + dlq[i].dlq_attempts

WorkTriesAt(d) ==
  dpc[d] # "idle" =>
    posts[hand[d].job] <= MaxRetries + hand[d].dlq_attempts + IF dpc[d] = "post" THEN 0 ELSE 1

WorkTries == \A d \in DlqWorkers : WorkTriesAt(d)

\* What is at its end, or has not been handed over, has no posts.
RestTries == \A j \in Jobs : j > calls \/ j \in ended \cup lost => posts[j] = 0

TriesInv == CallTries /\ ListTries /\ WorkTries /\ RestTries

LEMMA TriesInvBounds ==
  ASSUME TypeOK, PlaceInv, TriesInv
  PROVE  TriesBounded
<1>0. /\ MaxRetries \in Nat /\ MaxDlqAttempts \in Nat /\ calls \in Nat
  BY LimitsAssumption DEF TypeOK
<1>1. ASSUME NEW s \in Senders PROVE checks[s] <= MaxRetries + 1
  <2>1. attempt[s] \in 0 .. MaxRetries + 1 /\ checks[s] \in Nat
    BY DEF TypeOK
  <2>2. CallTriesAt(s)
    BY DEF TriesInv, CallTries
  <2>3. CASE spc[s] = "idle"
    BY <1>0, <2>1, <2>2, <2>3 DEF CallTriesAt
  <2>4. CASE spc[s] # "idle"
    <3>1. checks[s] <= IF spc[s] = "check" THEN attempt[s] - 1 ELSE attempt[s]
      BY <2>2, <2>4 DEF CallTriesAt
    <3>2. QED
      BY <1>0, <2>1, <3>1
  <2>5. QED
    BY <2>3, <2>4
<1>2. ASSUME NEW j \in Jobs PROVE posts[j] <= MaxRetries + 1 + MaxDlqAttempts
  <2>0. posts[j] \in Nat /\ j \in Nat /\ j >= 1
    <3>1. posts[j] \in Nat
      BY DEF TypeOK
    <3>2. j \in Nat /\ j >= 1
      BY LimitsAssumption DEF Jobs
    <3>3. QED
      BY <3>1, <3>2
  <2>1. CASE j > calls \/ j \in ended \cup lost
    BY <1>0, <2>1 DEF TriesInv, RestTries
  <2>2. ASSUME NEW s \in Senders, spc[s] # "idle", job[s] = j
        PROVE  posts[j] <= MaxRetries + 1 + MaxDlqAttempts
    <3>1. attempt[s] \in 0 .. MaxRetries + 1
      BY DEF TypeOK
    <3>2. posts[j] <= attempt[s]
      BY <2>0, <2>2, <3>1, <1>0 DEF TriesInv, CallTries, CallTriesAt
    <3>3. QED
      BY <1>0, <2>0, <3>1, <3>2
  <2>3. ASSUME NEW i \in DOMAIN dlq, dlq[i].job = j
        PROVE  posts[j] <= MaxRetries + 1 + MaxDlqAttempts
    <3>1. dlq[i] \in Entry
      BY DEF TypeOK
    <3>2. dlq[i].dlq_attempts \in 0 .. MaxDlqAttempts
      BY <3>1 DEF Entry
    <3>3. posts[j] <= MaxRetries + 1 + dlq[i].dlq_attempts
      BY <2>3 DEF TriesInv, ListTries
    <3>4. QED
      BY <1>0, <2>0, <3>2, <3>3
  <2>4. ASSUME NEW d \in DlqWorkers, dpc[d] # "idle", hand[d].job = j
        PROVE  posts[j] <= MaxRetries + 1 + MaxDlqAttempts
    <3>1. hand[d] \in Entry
      BY <2>4 DEF TypeOK
    <3>2. hand[d].dlq_attempts \in 0 .. MaxDlqAttempts
      BY <3>1 DEF Entry
    <3>3. posts[j] <= MaxRetries + hand[d].dlq_attempts + IF dpc[d] = "post" THEN 0 ELSE 1
      BY <2>4 DEF TriesInv, WorkTries, WorkTriesAt
    <3>4. QED
      BY <1>0, <2>0, <3>2, <3>3
  <2>5. \/ j > calls \/ j \in ended \cup lost
        \/ j \in Sending \/ j \in Listed \/ j \in Working
    BY <1>0, <2>0 DEF PlaceInv, AllPlaced, Jobs
  <2>6. QED
    BY <2>1, <2>2, <2>3, <2>4, <2>5 DEF Sending, Calling, Listed, Working, Busy
<1>3. QED
  BY <1>1, <1>2 DEF TriesBounded

\* A step that is about job j leaves what is said of the others.
Touches(j) ==
  /\ \A x \in Jobs : x # j => posts'[x] = posts[x]
  /\ calls' = calls
  /\ ended' \cup lost' \subseteq ended \cup lost \cup {j}

LEMMA RestStays ==
  ASSUME TypeOK, TriesInv, NEW j \in Jobs, Touches(j),
         j \in ended' \cup lost' => posts'[j] = 0, j <= calls
  PROVE  RestTries'
<1>1. ASSUME NEW x \in Jobs, x > calls' \/ x \in ended' \cup lost'
      PROVE  posts'[x] = 0
  <2>1. CASE x = j
    <3>1. ~ x > calls'
      BY <2>1, LimitsAssumption DEF Touches, TypeOK, Jobs
    <3>2. QED
      BY <1>1, <2>1, <3>1
  <2>2. CASE x # j
    BY <1>1, <2>2 DEF Touches, TriesInv, RestTries
  <2>3. QED
    BY <2>1, <2>2
<1>2. QED
  BY <1>1 DEF RestTries

LEMMA ListStays ==
  ASSUME TypeOK, TriesInv, NEW j \in Jobs, Touches(j), j \notin Listed, dlq' = dlq
  PROVE  ListTries'
<1>1. ASSUME NEW i \in DOMAIN dlq
      PROVE  posts'[dlq[i].job] = posts[dlq[i].job]
  <2>1. dlq[i] \in Entry
    BY DEF TypeOK
  <2>2. dlq[i].job \in Jobs /\ dlq[i].job # j
    BY <2>1 DEF Entry, Listed
  <2>3. QED
    BY <2>2 DEF Touches
<1>2. QED
  BY <1>1 DEF TriesInv, ListTries

LEMMA ListGrows ==
  ASSUME TypeOK, TriesInv, NEW entry \in Entry, dlq' = Append(dlq, entry), posts' = posts,
         posts[entry.job] <= MaxRetries + 1 + entry.dlq_attempts
  PROVE  ListTries'
<1> DEFINE n == Len(dlq)
<1>1. n \in Nat /\ DOMAIN dlq = 1 .. n
  BY DEF TypeOK
<1>2. /\ DOMAIN dlq' = 1 .. n + 1 /\ dlq'[n + 1] = entry
      /\ \A i \in 1 .. n : dlq'[i] = dlq[i]
  BY DEF TypeOK
<1> HIDE DEF n
<1>3. 1 .. n + 1 = (1 .. n) \cup {n + 1}
  BY <1>1
<1>4. QED
  BY <1>1, <1>2, <1>3 DEF TriesInv, ListTries

LEMMA CallStaysAt ==
  ASSUME TypeOK, NEW x \in Senders, CallTriesAt(x),
         spc'[x] = spc[x], job'[x] = job[x], attempt'[x] = attempt[x], checks'[x] = checks[x],
         spc[x] # "idle" => posts'[job[x]] = posts[job[x]]
  PROVE  CallTriesAt(x)'
BY DEF CallTriesAt

LEMMA WorkStaysAt ==
  ASSUME TypeOK, NEW x \in DlqWorkers, WorkTriesAt(x),
         dpc'[x] = dpc[x], hand'[x] = hand[x],
         dpc[x] # "idle" => posts'[hand[x].job] = posts[hand[x].job]
  PROVE  WorkTriesAt(x)'
BY DEF WorkTriesAt

\* What a step of a call does to its own numbers.
LEMMA CallTriesOwn ==
  ASSUME TypeOK, NEW s \in Senders, CallTriesAt(s), SenderNext(s) \/ SenderCrash(s)
  PROVE  /\ CallTriesAt(s)'
         /\ Touches(job[s])
         /\ job[s] \in ended' \cup lost' => posts'[job[s]] = 0 \/ UNCHANGED <<ended, lost, posts>>
                                            \/ job[s] \in ended \cup lost
         /\ spc[s] = "push" => posts[job[s]] <= MaxRetries + 1
<1>0. /\ spc[s] # "idle" /\ job[s] \in Jobs /\ attempt[s] \in 0 .. MaxRetries + 1
      /\ MaxRetries \in Nat
  BY SenderTypes, JobOfCall
<1>1. /\ spc \in [Senders -> SenderStep] /\ posts \in [Jobs -> Nat] /\ posts[job[s]] \in Nat
      /\ checks \in [Senders -> Nat] /\ checks[s] \in Nat
      /\ attempt \in [Senders -> 0 .. MaxRetries + 1] /\ attempt[s] \in Nat
      /\ job \in [Senders -> Jobs \cup {None}]
  BY <1>0 DEF TypeOK
<1>2. /\ attempt[s] >= 1
      /\ posts[job[s]] <= IF spc[s] \in {"check", "post"} THEN attempt[s] - 1 ELSE attempt[s]
      /\ checks[s] <= IF spc[s] = "check" THEN attempt[s] - 1 ELSE attempt[s]
  BY <1>0 DEF CallTriesAt
<1>3. spc[s] = "push" => posts[job[s]] <= MaxRetries + 1
  BY <1>0, <1>1, <1>2
<1>4. ASSUME Return(s) PROVE CallTriesAt(s)'
  <2>1. spc'[s] = "idle" /\ checks'[s] = 0
    BY <1>1, <1>4 DEF Return
  <2>2. QED
    BY <2>1 DEF CallTriesAt
<1>5. ASSUME End(job[s]) \/ Lose(job[s]), calls' = calls
      PROVE  Touches(job[s]) /\ posts'[job[s]] = 0
  BY <1>0, <1>1, <1>5 DEF End, Lose, Touches
<1>6. ASSUME UNCHANGED endVars, calls' = calls PROVE Touches(job[s]) /\ posts' = posts
  BY <1>6 DEF endVars, Touches
<1>7. CASE CheckRateLimit(s)
  <2>1. /\ checks'[s] = checks[s] + 1 /\ attempt'[s] = attempt[s] /\ job' = job
        /\ spc'[s] \in {"post", "asleep"} /\ spc[s] = "check"
        /\ UNCHANGED endVars /\ calls' = calls
    BY <1>1, <1>7 DEF CheckRateLimit, Sleep
  <2>2. CallTriesAt(s)'
    BY <1>1, <1>2, <1>6, <2>1 DEF CallTriesAt
  <2>3. QED
    BY <1>3, <1>6, <2>1, <2>2 DEF endVars
<1>8. CASE FailOpen(s)
  <2>1. /\ checks'[s] = checks[s] + 1 /\ attempt'[s] = attempt[s] /\ job' = job
        /\ spc'[s] = "post" /\ spc[s] = "check"
        /\ UNCHANGED endVars /\ calls' = calls
    BY <1>1, <1>8 DEF FailOpen
  <2>2. CallTriesAt(s)'
    BY <1>1, <1>2, <1>6, <2>1 DEF CallTriesAt
  <2>3. QED
    BY <1>3, <1>6, <2>1, <2>2 DEF endVars
<1>9. CASE DoSend(s)
  <2>0. calls' = calls /\ spc[s] = "post"
    BY <1>9 DEF DoSend
  <2>1. CASE End(job[s]) /\ Return(s)
    BY <1>3, <1>4, <1>5, <2>0, <2>1
  <2>2. CASE /\ Posted(job[s]) /\ spc'[s] \in {"push", "asleep"}
             /\ UNCHANGED <<job, attempt, checks>>
    <3>1. posts'[job[s]] = posts[job[s]] + 1 /\ \A x \in Jobs : x # job[s] => posts'[x] = posts[x]
      BY <1>0, <1>1, <2>2 DEF Posted
    <3>2. CallTriesAt(s)'
      BY <1>1, <1>2, <2>0, <2>2, <3>1 DEF CallTriesAt
    <3>3. Touches(job[s]) /\ UNCHANGED <<ended, lost>>
      BY <2>0, <2>2, <3>1 DEF Touches, Posted
    <3>4. QED
      BY <1>3, <3>2, <3>3
  <2>3. QED
    BY <1>1, <1>9, <2>1, <2>2 DEF DoSend, Sleep
<1>10. CASE Wake(s)
  <2>1. /\ checks' = checks /\ job' = job /\ spc[s] = "asleep"
        /\ \/ spc'[s] = "check" /\ attempt'[s] = attempt[s] + 1
           \/ spc'[s] = "push" /\ attempt'[s] = attempt[s]
        /\ UNCHANGED endVars /\ calls' = calls
    BY <1>1, <1>10 DEF Wake
  <2>2. CallTriesAt(s)'
    BY <1>1, <1>2, <1>6, <2>1 DEF CallTriesAt
  <2>3. QED
    BY <1>3, <1>6, <2>1, <2>2 DEF endVars
<1>11. CASE EnqueueDlq(s) \/ SenderCrash(s)
  <2>1. /\ Return(s) /\ calls' = calls
        /\ UNCHANGED endVars \/ Lose(job[s])
    BY <1>11 DEF EnqueueDlq, SenderCrash
  <2>2. QED
    BY <1>3, <1>4, <1>5, <1>6, <2>1 DEF endVars
<1>12. QED
  BY <1>7, <1>8, <1>9, <1>10, <1>11 DEF SenderNext

LEMMA CallInvTries ==
  ASSUME TypeOK, PlaceInv, TriesInv, NEW s \in Senders, SenderNext(s) \/ SenderCrash(s)
  PROVE  TriesInv'
<1> DEFINE j == job[s]
<1>0. /\ spc[s] # "idle" /\ j \in Jobs /\ j \in 1 .. calls
      /\ CallTriesAt(s) /\ j \in Sending
  BY SenderTypes, JobOfCall DEF TriesInv, CallTries, Sending, Calling
<1>1. /\ CallTriesAt(s)' /\ Touches(j)
      /\ j \in ended' \cup lost' => posts'[j] = 0 \/ UNCHANGED <<ended, lost, posts>>
                                      \/ j \in ended \cup lost
      /\ spc[s] = "push" => posts[j] <= MaxRetries + 1
  BY <1>0, CallTriesOwn
<1>2. j \notin Listed /\ j \notin Working /\ j \notin ended \cup lost
  BY <1>0 DEF PlaceInv, KindsApart
<1>3. RestTries'
  BY <1>0, <1>1, <1>2, RestStays DEF TypeOK
<1>4. /\ UNCHANGED <<dpc, hand>>
      /\ \/ dlq' = dlq
         \/ /\ dlq' = Append(dlq, [job |-> j, dlq_attempts |-> 0])
            /\ posts' = posts /\ spc[s] = "push"
  BY DEF SenderNext, CheckRateLimit, FailOpen, DoSend, Wake, EnqueueDlq, SenderCrash, dlqVars,
         endVars
<1>5. ListTries'
  <2>1. CASE dlq' = dlq
    BY <1>0, <1>1, <1>2, <2>1, ListStays
  <2>2. CASE /\ dlq' = Append(dlq, [job |-> j, dlq_attempts |-> 0])
             /\ posts' = posts /\ spc[s] = "push"
    <3> DEFINE entry == [job |-> j, dlq_attempts |-> 0]
    <3>1. entry \in Entry /\ entry.job = j /\ entry.dlq_attempts = 0
      BY <1>0, LimitsAssumption DEF Entry
    <3> HIDE DEF entry
    <3>2. posts[entry.job] <= MaxRetries + 1 + entry.dlq_attempts
      BY <1>1, <2>2, <3>1, LimitsAssumption
    <3>3. dlq' = Append(dlq, entry)
      BY <2>2 DEF entry
    <3>4. QED
      BY <2>2, <3>1, <3>2, <3>3, ListGrows
  <2>3. QED
    BY <1>4, <2>1, <2>2
<1>6. ASSUME NEW x \in Senders, x # s PROVE CallTriesAt(x)'
  <2>1. /\ spc'[x] = spc[x] /\ job'[x] = job[x]
    <3>1. /\ spc \in [Senders -> SenderStep] /\ job \in [Senders -> Jobs \cup {None}]
      BY DEF TypeOK
    <3>2. GoesOn(s) \/ Return(s)
      BY CallPlaces
    <3>3. QED
      BY <1>6, <3>1, <3>2 DEF GoesOn, Return
  <2>2. attempt'[x] = attempt[x] /\ checks'[x] = checks[x]
    BY <1>6 DEF SenderNext, CheckRateLimit, FailOpen, DoSend, Wake, EnqueueDlq, SenderCrash,
                Return, TypeOK
  <2>3. spc[x] # "idle" => job[x] \in Jobs /\ job[x] # j
    BY <1>0, <1>6, JobOfCall DEF PlaceInv, SendersApart, Calling
  <2>4. QED
    BY <1>1, <2>1, <2>2, <2>3, CallStaysAt DEF TriesInv, CallTries, Touches
<1>7. ASSUME NEW d \in DlqWorkers PROVE WorkTriesAt(d)'
  <2>1. dpc[d] # "idle" => hand[d] \in Entry
    BY DEF TypeOK
  <2>2. dpc[d] # "idle" => hand[d].job \in Jobs /\ hand[d].job # j
    BY <1>2, <2>1 DEF Entry, Working, Busy
  <2>3. QED
    BY <1>1, <1>4, <2>2, WorkStaysAt DEF TriesInv, WorkTries, Touches
<1>8. QED
  BY <1>1, <1>3, <1>5, <1>6, <1>7 DEF TriesInv, CallTries, WorkTries

LEMMA SendTries ==
  ASSUME TypeOK, PlaceInv, TriesInv, NEW s \in Senders, NEW c \in Chats, Send(s, c)
  PROVE  TriesInv'
<1>0. /\ calls \in Nat /\ calls + 1 \in Jobs /\ calls' = calls + 1
      /\ posts' = posts /\ UNCHANGED <<ended, lost, dlq, dpc, hand, checks>>
      /\ spc[s] = "idle"
  BY LimitsAssumption DEF TypeOK, Send, Jobs, endVars, dlqVars
<1>1. posts[calls + 1] = 0
  BY <1>0 DEF TriesInv, RestTries
<1>2. CallTriesAt(s)'
  <2>1. spc'[s] = "check" /\ job'[s] = calls + 1 /\ attempt'[s] = 1
    BY DEF TypeOK, Send
  <2>2. checks'[s] = 0
    BY <1>0 DEF TriesInv, CallTries, CallTriesAt
  <2>3. QED
    BY <1>0, <1>1, <2>1, <2>2 DEF CallTriesAt
<1>3. ASSUME NEW x \in Senders, x # s PROVE CallTriesAt(x)'
  <2>1. spc'[x] = spc[x] /\ job'[x] = job[x] /\ attempt'[x] = attempt[x]
    BY <1>3 DEF TypeOK, Send
  <2>2. QED
    BY <1>0, <2>1, CallStaysAt DEF TriesInv, CallTries
<1>4. ListTries' /\ WorkTries'
  BY <1>0 DEF TriesInv, ListTries, WorkTries, WorkTriesAt
<1>5. RestTries'
  <2>1. ASSUME NEW j \in Jobs, j > calls + 1 PROVE j > calls
    BY <1>0, <2>1, LimitsAssumption DEF Jobs
  <2>2. QED
    BY <1>0, <2>1 DEF TriesInv, RestTries
<1>6. QED
  BY <1>2, <1>3, <1>4, <1>5 DEF TriesInv, CallTries

\* A step of a worker about job j leaves the calls alone.
LEMMA CallsUntouched ==
  ASSUME TypeOK, PlaceInv, TriesInv, NEW j \in Jobs, j \notin Sending, Touches(j),
         UNCHANGED senderVars
  PROVE  CallTries'
<1>1. ASSUME NEW x \in Senders PROVE CallTriesAt(x)'
  <2>1. spc[x] # "idle" => job[x] \in Jobs /\ job[x] # j
    BY JobOfCall DEF Sending, Calling
  <2>2. QED
    BY <2>1, CallStaysAt DEF TriesInv, CallTries, Touches, senderVars
<1>2. QED
  BY <1>1 DEF CallTries

LEMMA OtherWorkers ==
  ASSUME TypeOK, PlaceInv, TriesInv, NEW j \in Jobs, Touches(j),
         NEW d \in DlqWorkers, NEW x \in DlqWorkers, x # d,
         dpc'[x] = dpc[x], hand'[x] = hand[x],
         dpc[x] # "idle" => hand[x].job # j
  PROVE  WorkTriesAt(x)'
<1>1. dpc[x] # "idle" => hand[x] \in Entry
  BY DEF TypeOK
<1>2. dpc[x] # "idle" => hand[x].job \in Jobs
  BY <1>1 DEF Entry
<1>3. QED
  BY <1>2, WorkStaysAt DEF TriesInv, WorkTries, Touches

LEMMA PopTries ==
  ASSUME TypeOK, PlaceInv, TriesInv, NEW d \in DlqWorkers, Pop(d)
  PROVE  TriesInv'
<1> DEFINE first == Head(dlq)
           j == Head(dlq).job
           entry == [Head(dlq) EXCEPT !.dlq_attempts = Head(dlq).dlq_attempts + 1]
<1>1. /\ dlq # <<>> /\ dlq' = Tail(dlq) /\ first \in Entry /\ dpc[d] = "idle"
      /\ first = dlq[1] /\ 1 \in DOMAIN dlq
  BY DEF Pop, TypeOK
<1>2. j \in Jobs /\ first.dlq_attempts \in Nat /\ MaxRetries \in Nat /\ posts[j] \in Nat
  BY <1>1, LimitsAssumption DEF Entry, TypeOK
<1>3. posts[j] <= MaxRetries + 1 + first.dlq_attempts
  BY <1>1 DEF TriesInv, ListTries
<1>4. /\ Listed' = Listed \ {j} /\ j \in Listed
      /\ \A i \in DOMAIN dlq' : i + 1 \in DOMAIN dlq /\ dlq'[i] = dlq[i + 1]
  BY <1>1, Popped DEF PlaceInv
<1>5. j \notin Sending /\ j \notin Working /\ j \notin ended \cup lost /\ j \in 1 .. calls
  BY <1>4 DEF PlaceInv, KindsApart, AllPlaced
<1>6. j <= calls
  BY <1>2, <1>5, LimitsAssumption DEF TypeOK
<1>7. \/ End(j) /\ UNCHANGED <<dpc, hand>>
      \/ Put(d, "post", entry) /\ UNCHANGED endVars
  BY DEF Pop
<1>8. Touches(j) /\ (j \in ended' \cup lost' => posts'[j] = 0)
  <2>1. calls' = calls
    BY DEF Pop, senderVars
  <2>2. CASE End(j)
    BY <1>2, <2>1, <2>2 DEF End, Touches, TypeOK
  <2>3. CASE UNCHANGED endVars
    BY <1>5, <2>1, <2>3 DEF endVars, Touches
  <2>4. QED
    BY <1>7, <2>2, <2>3
<1>9. RestTries'
  BY <1>2, <1>6, <1>8, RestStays
<1>10. CallTries'
  BY <1>2, <1>5, <1>8, CallsUntouched DEF Pop
<1>11. ListTries'
  <2>1. ASSUME NEW i \in DOMAIN dlq'
        PROVE  posts'[dlq'[i].job] <= MaxRetries + 1 + dlq'[i].dlq_attempts
    <3>1. i + 1 \in DOMAIN dlq /\ dlq'[i] = dlq[i + 1]
      BY <1>4
    <3>2. dlq'[i].job \in Listed'
      BY DEF Listed
    <3>3. dlq[i + 1] \in Entry
      BY <3>1 DEF TypeOK
    <3>4. dlq[i + 1].job \in Jobs /\ dlq[i + 1].job # j
      BY <1>4, <3>1, <3>2, <3>3 DEF Entry
    <3>5. posts'[dlq[i + 1].job] = posts[dlq[i + 1].job]
      BY <1>8, <3>4 DEF Touches
    <3>6. QED
      BY <3>1, <3>5 DEF TriesInv, ListTries
  <2>2. QED
    BY <2>1 DEF ListTries
<1>12. \A x \in DlqWorkers : dpc[x] # "idle" => hand[x].job # j
  BY <1>5 DEF Working, Busy
<1>13. ASSUME NEW x \in DlqWorkers PROVE WorkTriesAt(x)'
  <2>1. CASE x # d \/ UNCHANGED <<dpc, hand>>
    <3>1. dpc'[x] = dpc[x] /\ hand'[x] = hand[x]
      BY <1>7, <2>1 DEF Put, TypeOK
    <3>2. CASE dpc[x] = "idle"
      BY <3>1, <3>2 DEF WorkTriesAt
    <3>3. CASE dpc[x] # "idle"
      <4>1. x # d
        BY <1>1, <3>3
      <4>2. QED
        BY <1>2, <1>8, <1>12, <3>1, <4>1, OtherWorkers
    <3>4. QED
      BY <3>2, <3>3
  <2>2. CASE x = d /\ Put(d, "post", entry) /\ UNCHANGED endVars
    <3>1. dpc'[d] = "post" /\ hand'[d] = entry /\ posts' = posts
      BY <2>2 DEF Put, TypeOK, endVars
    <3>2. entry.job = j /\ entry.dlq_attempts = first.dlq_attempts + 1
      BY <1>1 DEF Entry
    <3> HIDE DEF entry
    <3>3. posts[j] <= MaxRetries + (first.dlq_attempts + 1)
      BY <1>2, <1>3
    <3>4. posts'[hand'[d].job] <= MaxRetries + hand'[d].dlq_attempts + 0
      BY <1>2, <3>1, <3>2, <3>3
    <3>5. QED
      BY <2>2, <3>1, <3>4 DEF WorkTriesAt
  <2>3. QED
    BY <1>7, <2>1, <2>2
<1>14. QED
  BY <1>9, <1>10, <1>11, <1>13 DEF TriesInv, WorkTries

LEMMA WorkerTries ==
  ASSUME TypeOK, PlaceInv, TriesInv, NEW d \in DlqWorkers,
         RetrySend(d) \/ ReEnqueue(d) \/ DlqCrash(d)
  PROVE  TriesInv'
<1> DEFINE j == hand[d].job
<1>0. dpc[d] # "idle" /\ hand[d] \in Entry
  BY DEF RetrySend, ReEnqueue, DlqCrash, TypeOK
<1>1. j \in Jobs /\ hand[d].dlq_attempts \in Nat /\ MaxRetries \in Nat /\ posts[j] \in Nat
  BY <1>0, LimitsAssumption DEF Entry, TypeOK
<1>2. j \in Working
  BY <1>0 DEF Working, Busy
<1>3. j \notin Sending /\ j \notin Listed /\ j \notin ended \cup lost /\ j \in 1 .. calls
  BY <1>2 DEF PlaceInv, KindsApart, AllPlaced
<1>4. j <= calls
  BY <1>1, <1>3, LimitsAssumption DEF TypeOK
<1>5. posts[j] <= MaxRetries + hand[d].dlq_attempts + IF dpc[d] = "post" THEN 0 ELSE 1
  BY <1>0 DEF TriesInv, WorkTries, WorkTriesAt
<1>6. UNCHANGED senderVars
  BY DEF RetrySend, ReEnqueue, DlqCrash
<1>7. \/ /\ Put(d, "push", hand[d]) /\ Posted(j) /\ dlq' = dlq /\ dpc[d] = "post"
      \/ /\ Put(d, "idle", None)
         /\ \/ dlq' = Append(dlq, hand[d]) /\ UNCHANGED endVars
            \/ (End(j) \/ Lose(j)) /\ dlq' = dlq
  BY DEF RetrySend, ReEnqueue, DlqCrash
<1>8. Touches(j) /\ (j \in ended' \cup lost' => posts'[j] = 0)
  <2>1. calls' = calls
    BY <1>6 DEF senderVars
  <2>2. CASE End(j) \/ Lose(j)
    BY <1>1, <2>1, <2>2 DEF End, Lose, Touches, TypeOK
  <2>3. CASE UNCHANGED endVars \/ Posted(j)
    BY <1>3, <2>1, <2>3 DEF endVars, Posted, Touches, TypeOK
  <2>4. QED
    BY <1>7, <2>2, <2>3
<1>9. RestTries' /\ CallTries'
  BY <1>1, <1>3, <1>4, <1>6, <1>8, RestStays, CallsUntouched
<1>10. ListTries'
  <2>1. CASE dlq' = dlq
    BY <1>1, <1>3, <1>8, <2>1, ListStays
  <2>2. CASE dlq' = Append(dlq, hand[d]) /\ UNCHANGED endVars
    <3>1. posts[j] <= MaxRetries + 1 + hand[d].dlq_attempts
      BY <1>1, <1>5
    <3>2. posts' = posts
      BY <2>2 DEF endVars
    <3>3. QED
      BY <1>0, <2>2, <3>1, <3>2, ListGrows
  <2>3. QED
    BY <1>7, <2>1, <2>2
<1>11. ASSUME NEW x \in DlqWorkers PROVE WorkTriesAt(x)'
  <2>1. CASE x # d
    <3>1. dpc'[x] = dpc[x] /\ hand'[x] = hand[x]
      BY <1>7, <2>1 DEF Put, TypeOK
    <3>2. dpc[x] # "idle" => hand[x].job # j
      BY <1>0, <2>1 DEF PlaceInv, WorkersApart, Busy
    <3>3. QED
      BY <1>1, <1>8, <2>1, <3>1, <3>2, OtherWorkers
  <2>2. CASE x = d /\ Put(d, "idle", None)
    <3>1. dpc'[d] = "idle"
      BY <2>2 DEF Put, TypeOK
    <3>2. QED
      BY <2>2, <3>1 DEF WorkTriesAt
  <2>3. CASE x = d /\ Put(d, "push", hand[d]) /\ Posted(j) /\ dpc[d] = "post"
    <3>1. dpc'[d] = "push" /\ hand'[d] = hand[d] /\ posts'[j] = posts[j] + 1
      BY <1>1, <2>3 DEF Put, Posted, TypeOK
    <3>2. posts'[j] <= MaxRetries + hand[d].dlq_attempts + 1
      BY <1>1, <1>5, <2>3, <3>1
    <3>3. QED
      BY <2>3, <3>1, <3>2 DEF WorkTriesAt
  <2>4. QED
    BY <1>7, <2>1, <2>2, <2>3
<1>12. QED
  BY <1>9, <1>10, <1>11 DEF TriesInv, WorkTries

LEMMA TriesInvNext == TypeOK /\ PlaceInv /\ TriesInv /\ [Next]_vars => TriesInv'
<1>1. ASSUME TriesInv, UNCHANGED <<spc, job, attempt, checks, dlq, dpc, hand, posts, calls,
                                  ended, lost>>
      PROVE  TriesInv'
  BY <1>1 DEF TriesInv, CallTries, CallTriesAt, ListTries, WorkTries, WorkTriesAt, RestTries
<1>2. ASSUME Tick \/ UNCHANGED vars
      PROVE  UNCHANGED <<spc, job, attempt, checks, dlq, dpc, hand, posts, calls, ended, lost>>
  BY <1>2 DEF Tick, vars, senderVars, dlqVars, endVars
<1>3. QED
  BY <1>1, <1>2, SendTries, CallInvTries, PopTries, WorkerTries DEF Next, DlqNext

\* However contended the limit is, which rejected checks prolong for everyone: a call asks it
\* once for each of its attempts, and a message is posted once for each of them and once for
\* each time it is popped, because nothing else has it meanwhile.
THEOREM SenderTriesBounded == Spec => []TriesBounded
<1>1. Init => TriesInv
  BY DEF Init, TriesInv, CallTries, CallTriesAt, ListTries, WorkTries, WorkTriesAt, RestTries
<1>2. QED
  BY <1>1, InitTypes, NextTypes, PlaceInvInit, PlaceInvNext, TriesInvNext, TriesInvBounds, PTL
  DEF Spec

=============================================================================
