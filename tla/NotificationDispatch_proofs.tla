--------------------- MODULE NotificationDispatch_proofs ---------------------
(***************************************************************************)
(* Proofs about NotificationDispatch, for any number of users, producers,  *)
(* rows, and any cap and windows.                                          *)
(***************************************************************************)
EXTENDS NotificationDispatch, TLAPS, FiniteSetTheorems, SequenceTheorems

-----------------------------------------------------------------------------
(* Operators.                                                              *)

LEMMA ChannelsType ==
  ASSUME NEW u \in Users
  PROVE  ChannelsToSend(u) \in Seq(Channels)
<1> DEFINE Keep(ch) == IF ch \in Expand(Effective[u]) /\ Usable(u, ch) THEN <<ch>> ELSE <<>>
<1>1. /\ Keep("telegram") \in Seq(Channels)
      /\ Keep("email") \in Seq(Channels)
      /\ Keep("whatsapp") \in Seq(Channels)
  <2>1. \A ch \in Channels : <<ch>> \in Seq(Channels)
    OBVIOUS
  <2>2. \A ch \in Channels : Keep(ch) \in Seq(Channels)
    BY <2>1, EmptySeq
  <2>3. QED
    BY <2>2 DEF Channels
<1> HIDE DEF Keep
<1>2. Keep("telegram") \o Keep("email") \in Seq(Channels)
  BY <1>1, ConcatProperties
<1>3. Keep("telegram") \o Keep("email") \o Keep("whatsapp") \in Seq(Channels)
  BY <1>1, <1>2, ConcatProperties
<1>4. QED
  BY <1>3 DEF ChannelsToSend, Keep

LEMMA GrowsByOne ==
  ASSUME NEW S, NEW T, NEW x, IsFiniteSet(S), T \subseteq S \cup {x}
  PROVE  /\ IsFiniteSet(T) /\ Cardinality(T) \in Nat /\ Cardinality(S) \in Nat
         /\ Cardinality(T) <= Cardinality(S) + 1
<1> DEFINE U == S \cup {x}
<1>1. /\ IsFiniteSet(U)
      /\ Cardinality(U) = IF x \in S THEN Cardinality(S) ELSE Cardinality(S) + 1
  BY FS_AddElement
<1>2. T \in SUBSET U
  OBVIOUS
<1> HIDE DEF U
<1>3. IsFiniteSet(T) /\ Cardinality(T) <= Cardinality(U)
  BY <1>1, <1>2, FS_Subset
<1>4. Cardinality(S) \in Nat /\ Cardinality(T) \in Nat
  BY <1>3, FS_CardinalityType
<1>5. QED
  BY <1>1, <1>3, <1>4

LEMMA ShrinksByOne ==
  ASSUME NEW S, NEW T, NEW x \in S, IsFiniteSet(S), T \subseteq S \ {x}
  PROVE  /\ IsFiniteSet(T) /\ Cardinality(T) \in Nat /\ Cardinality(S) \in Nat
         /\ Cardinality(T) <= Cardinality(S) - 1
BY FS_RemoveElement, FS_Subset, FS_CardinalityType

LEMMA NoLarger ==
  ASSUME NEW S, NEW T, IsFiniteSet(S), T \subseteq S
  PROVE  /\ IsFiniteSet(T) /\ Cardinality(T) \in Nat /\ Cardinality(S) \in Nat
         /\ Cardinality(T) <= Cardinality(S)
BY FS_Subset, FS_CardinalityType

\* Days are numbered, and time does not go back to an earlier one.
LEMMA DayType == \A t \in Nat : Day(t) \in Nat
BY ClockAssumption DEF Day

LEMMA DayMonotonic == \A s, t \in Nat : s <= t => Day(s) <= Day(t)
BY ClockAssumption DEF Day

-----------------------------------------------------------------------------
(* Type correctness.                                                       *)

\* A call under way has arguments and a channel to serve; it has a key only once that
\* was checked, and a row only once that was written.
CallOK ==
  \A p \in Producers :
    /\ pc[p] # "idle" => req[p] \in Request /\ left[p] # <<>>
    /\ pc[p] \in {"idle", "cap", "dedup"} => keyDay[p] = NoKey
    /\ IF pc[p] = "queue" THEN logId[p] \in Ids ELSE logId[p] = None

\* Rows are in the table before anything is known of them.
RowsWritten ==
  \A n \in Ids :
    /\ status[n] = "none" <=> info[n] = None
    /\ status[n] = "none" => n \notin entered \cup failed
    /\ status[n] = "failed" => n \in failed

\* The rows that calls have written are in the table.
HeldWritten ==
  \A p \in Producers : pc[p] = "queue" => status[logId[p]] # "none"

TypeInv == TypeOK /\ CallOK /\ RowsWritten /\ HeldWritten

LEMMA InitTypeInv == Init => TypeInv
BY DEF Init, TypeInv, TypeOK, CallOK, RowsWritten, HeldWritten, LogStatus, Step

\* What a call does to itself when it has done with a channel.
LEMMA NextChannelType ==
  ASSUME TypeInv, NEW p \in Producers, pc[p] # "idle", NextChannel(p)
  PROVE  /\ pc' \in [Producers -> Step]
         /\ req' \in [Producers -> Request \cup {None}]
         /\ left' \in [Producers -> Seq(Channels)]
         /\ keyDay' \in [Producers -> Nat \cup {NoKey}]
         /\ logId' \in [Producers -> Ids \cup {None}]
         /\ CallOK'
         /\ pc'[p] \in {"idle", "cap"}
         /\ (\A n \in Ids : status'[n] = "none" => status[n] = "none") => HeldWritten'
<1>1. left[p] \in Seq(Channels) /\ left[p] # <<>>
  BY DEF TypeInv, TypeOK, CallOK
<1>2. Tail(left[p]) \in Seq(Channels)
  BY <1>1, HeadTailProperties
<1>3. /\ pc' \in [Producers -> Step]
      /\ req' \in [Producers -> Request \cup {None}]
      /\ left' \in [Producers -> Seq(Channels)]
      /\ keyDay' \in [Producers -> Nat \cup {NoKey}]
      /\ logId' \in [Producers -> Ids \cup {None}]
      /\ pc'[p] \in {"idle", "cap"}
  BY <1>2 DEF NextChannel, TypeInv, TypeOK, Step
<1>4. CallOK'
  BY <1>2 DEF NextChannel, TypeInv, TypeOK, CallOK
<1>5. ASSUME \A n \in Ids : status'[n] = "none" => status[n] = "none"
      PROVE  HeldWritten'
  <2>1. \A q \in Producers : pc'[q] = "queue" => pc[q] = "queue" /\ logId'[q] = logId[q]
    BY DEF NextChannel, TypeInv, TypeOK
  <2>2. QED
    BY <1>5, <2>1 DEF TypeInv, CallOK, HeldWritten
<1>6. QED
  BY <1>3, <1>4, <1>5

LEMMA CallType ==
  ASSUME TypeInv, NEW p \in Producers, Call(p)
  PROVE  TypeInv'
<1>1. PICK r \in Request :
        /\ ChannelsToSend(r.user) # <<>>
        /\ req' = [req EXCEPT ![p] = r]
        /\ left' = [left EXCEPT ![p] = ChannelsToSend(r.user)]
  BY DEF Call
<1>2. ChannelsToSend(r.user) \in Seq(Channels)
  BY ChannelsType DEF Request
<1>3. pc[p] = "idle" /\ pc' = [pc EXCEPT ![p] = "cap"] /\ calls' = calls + 1
      /\ UNCHANGED <<logVars, contact, clock, keyDay, logId, faults>>
  BY DEF Call, GoTo
<1>4. CallOK'
  BY <1>1, <1>3 DEF TypeInv, TypeOK, CallOK
<1>5. QED
  BY <1>1, <1>2, <1>3, <1>4
  DEF TypeInv, TypeOK, RowsWritten, HeldWritten, logVars, Step

LEMMA CapCheckType ==
  ASSUME TypeInv, NEW p \in Producers, CapCheck(p)
  PROVE  TypeInv'
<1>1. pc[p] = "cap" /\ UNCHANGED <<logVars, contact, clock, calls>>
  BY DEF CapCheck
<1>2. ASSUME GoTo(p, "dedup"), UNCHANGED <<req, left, keyDay, logId>>, faults' \in Nat
      PROVE  TypeInv'
  BY <1>1, <1>2
  DEF GoTo, TypeInv, TypeOK, CallOK, RowsWritten, HeldWritten, logVars, Step
<1>3. ASSUME NextChannel(p), UNCHANGED faults
      PROVE  TypeInv'
  BY <1>1, <1>3, NextChannelType
  DEF TypeInv, TypeOK, RowsWritten, HeldWritten, logVars
<1>4. QED
  BY <1>2, <1>3 DEF CapCheck, Fault, TypeInv, TypeOK

LEMMA DedupCheckType ==
  ASSUME TypeInv, NEW p \in Producers, DedupCheck(p)
  PROVE  TypeInv'
<1>1. pc[p] = "dedup" /\ UNCHANGED <<logVars, contact, clock, calls>>
  BY DEF DedupCheck
<1>2. ASSUME GoTo(p, "log"), UNCHANGED <<req, left, logId>>, faults' \in Nat,
             keyDay' \in {keyDay, [keyDay EXCEPT ![p] = Day(clock)]}
      PROVE  TypeInv'
  <2>1. Day(clock) \in Nat
    BY DayType DEF TypeInv, TypeOK
  <2>2. keyDay' \in [Producers -> Nat \cup {NoKey}]
    BY <1>2, <2>1 DEF TypeInv, TypeOK
  <2>3. \A q \in Producers : q # p => keyDay'[q] = keyDay[q]
    BY <1>2 DEF TypeInv, TypeOK
  <2>4. QED
    BY <1>1, <1>2, <2>2, <2>3
    DEF GoTo, TypeInv, TypeOK, CallOK, RowsWritten, HeldWritten, logVars, Step
<1>3. ASSUME NextChannel(p), UNCHANGED faults
      PROVE  TypeInv'
  BY <1>1, <1>3, NextChannelType
  DEF TypeInv, TypeOK, RowsWritten, HeldWritten, logVars
<1>4. QED
  BY <1>2, <1>3 DEF DedupCheck, Fault, TypeInv, TypeOK

LEMMA WriteLogType ==
  ASSUME TypeInv, NEW p \in Producers, WriteLog(p)
  PROVE  TypeInv'
<1>1. pc[p] = "log" /\ UNCHANGED <<inQueue, entered, failed, contact, clock, calls>>
  BY DEF WriteLog
<1>2. ASSUME NEW n \in Ids,
             create_notification_log(n, req[p], Head(left[p]), keyDay[p]),
             logId' = [logId EXCEPT ![p] = n],
             GoTo(p, "queue"), UNCHANGED <<req, left, keyDay, faults>>
      PROVE  TypeInv'
  <2>1. req[p] \in Request /\ Head(left[p]) \in Channels
    BY <1>1, HeadTailProperties DEF TypeInv, TypeOK, CallOK
  <2> DEFINE row == [user |-> req[p].user, case |-> req[p].case,
                     trigger |-> req[p].trigger, channel |-> Head(left[p]),
                     sentAt |-> clock, keyDay |-> keyDay[p]]
  <2>2. row \in LogRow
    BY <2>1 DEF TypeInv, TypeOK, Request, LogRow
  <2>3. row # None
    BY <2>2, NoneAssumption
  <2>4. /\ status[n] = "none"
        /\ status' = [status EXCEPT ![n] = "queued"]
        /\ info' = [info EXCEPT ![n] = row]
    BY <1>2 DEF create_notification_log
  <2> HIDE DEF row
  <2>5. status' \in [Ids -> LogStatus] /\ info' \in [Ids -> LogRow \cup {None}]
    BY <2>2, <2>4 DEF TypeInv, TypeOK, LogStatus
  <2>6. RowsWritten'
    BY <1>1, <2>3, <2>4 DEF TypeInv, TypeOK, RowsWritten
  <2>7. CallOK' /\ HeldWritten'
    BY <1>1, <1>2, <2>4, IdsAssumption DEF GoTo, TypeInv, TypeOK, CallOK, HeldWritten
  <2>8. QED
    BY <1>1, <1>2, <2>5, <2>6, <2>7 DEF GoTo, TypeInv, TypeOK, Step
<1>3. ASSUME Fault, NextChannel(p), UNCHANGED <<status, info>>
      PROVE  TypeInv'
  BY <1>1, <1>3, NextChannelType
  DEF Fault, TypeInv, TypeOK, RowsWritten, HeldWritten
<1>4. QED
  BY <1>1, <1>2, <1>3 DEF WriteLog

LEMMA WriteQueueType ==
  ASSUME TypeInv, NEW p \in Producers, WriteQueue(p)
  PROVE  TypeInv'
<1>1. /\ pc[p] = "queue" /\ NextChannel(p)
      /\ UNCHANGED <<info, contact, clock, calls>>
  BY DEF WriteQueue
<1>2. logId[p] \in Ids /\ status[logId[p]] # "none"
  BY <1>1 DEF TypeInv, CallOK, HeldWritten
<1>3. \/ insert_queue_row(logId[p]) /\ UNCHANGED <<status, failed, faults>>
      \/ /\ status' = [status EXCEPT ![logId[p]] = "failed"]
         /\ failed' = failed \cup {logId[p]}
         /\ UNCHANGED <<inQueue, entered>> /\ faults' = faults + 1
      \/ UNCHANGED <<inQueue, entered, status, failed>> /\ faults' = faults + 1
  BY DEF WriteQueue, Fault
<1>4. /\ status' \in [Ids -> LogStatus] /\ inQueue' \subseteq Ids
      /\ entered' \subseteq Ids /\ failed' \subseteq Ids /\ faults' \in Nat
  <2>1. "failed" \in LogStatus
    BY DEF LogStatus
  <2>2. status' \in [Ids -> LogStatus]
    BY <1>2, <1>3, <2>1 DEF TypeInv, TypeOK
  <2>3. QED
    BY <1>2, <1>3, <2>2 DEF insert_queue_row, TypeInv, TypeOK
<1>5. \A n \in Ids : status'[n] = "none" <=> status[n] = "none"
  BY <1>2, <1>3 DEF TypeInv, TypeOK
<1>6. RowsWritten'
  BY <1>1, <1>2, <1>3, <1>5 DEF insert_queue_row, TypeInv, TypeOK, RowsWritten
<1>7. HeldWritten' /\ CallOK'
  BY <1>1, <1>5, NextChannelType DEF TypeInv, TypeOK, CallOK, HeldWritten
<1>8. QED
  BY <1>1, <1>4, <1>6, <1>7, NextChannelType DEF TypeInv, TypeOK

LEMMA CrashType ==
  ASSUME TypeInv, NEW p \in Producers, ProducerCrash(p)
  PROVE  TypeInv'
BY EmptySeq
DEF ProducerCrash, Fault, GoTo, TypeInv, TypeOK, CallOK, RowsWritten, HeldWritten, logVars, Step

LEMMA EnvironmentType ==
  ASSUME TypeInv, Environment
  PROVE  TypeInv'
<1> USE DEF TypeInv, TypeOK, CallOK, RowsWritten, HeldWritten
<1>1. CASE Tick
  BY <1>1 DEF Tick, logVars, dispatchVars
<1>2. ASSUME NEW n \in Ids, Report(n) PROVE TypeInv'
  BY <1>2 DEF Report, dispatchVars, LogStatus
<1>3. ASSUME NEW n \in Ids, Leave(n) PROVE TypeInv'
  BY <1>3 DEF Leave, dispatchVars
<1>4. ASSUME NEW u \in Users, ContactChange(u) PROVE TypeInv'
  BY <1>4 DEF ContactChange, logVars, dispatchVars
<1>5. QED
  BY <1>1, <1>2, <1>3, <1>4 DEF Environment

LEMMA NextTypeInv == TypeInv /\ [Next]_vars => TypeInv'
<1> SUFFICES ASSUME TypeInv, [Next]_vars PROVE TypeInv'
  OBVIOUS
<1>1. ASSUME NEW p \in Producers, Produce(p) PROVE TypeInv'
  BY <1>1, CallType, CapCheckType, DedupCheckType, WriteLogType, WriteQueueType,
     CrashType DEF Produce
<1>2. CASE UNCHANGED vars
  BY <1>2
  DEF vars, logVars, dispatchVars, TypeInv, TypeOK, CallOK, RowsWritten, HeldWritten
<1>3. QED
  BY <1>1, <1>2, EnvironmentType DEF Next

LEMMA TypeInvHolds == Spec => []TypeInv
BY InitTypeInv, NextTypeInv, PTL DEF Spec

\* Rows and the state of every call keep their types, whatever producers, the worker
\* and the users do, and whatever fails: a call has channels left to serve while it
\* runs, and the row it queues is one it has written.
THEOREM DispatchTypeCorrect == Spec => []TypeOK
<1>1. TypeInv => TypeOK
  BY DEF TypeInv
<1>2. QED
  BY <1>1, TypeInvHolds, PTL

-----------------------------------------------------------------------------
(* The cap.                                                                *)

\* Calls that may write a row of this user and channel without another check of the cap.
Past(u, ch) ==
  {p \in Producers : /\ pc[p] \in {"dedup", "log"}
                     /\ req[p].user = u
                     /\ Head(left[p]) = ch}

\* A check that lets a call through has counted less than the cap.  Rows and calls past the
\* check together are then less than cap and producers: a row takes the place of the
\* call that writes it, and only another check, or a fault, adds a call.
CapAt(u, ch) ==
  Cardinality(NeverFailedToday(u, ch)) + Cardinality(Past(u, ch))
    <= Cap + Cardinality(Producers) - 1 + faults

CapInv == \A u \in Users, ch \in Channels : CapAt(u, ch)

LEMMA CapSetsFinite ==
  ASSUME NEW u, NEW ch
  PROVE  /\ IsFiniteSet(Counted(u, ch)) /\ Cardinality(Counted(u, ch)) \in Nat
         /\ IsFiniteSet(NeverFailedToday(u, ch)) /\ Cardinality(NeverFailedToday(u, ch)) \in Nat
         /\ Cardinality(NeverFailedToday(u, ch)) <= Cardinality(Counted(u, ch))
         /\ IsFiniteSet(Past(u, ch)) /\ Cardinality(Past(u, ch)) \in Nat
         /\ Cardinality(Past(u, ch)) <= Cardinality(Producers)
         /\ Cardinality(Producers) \in Nat \ {0}
<1>1. Counted(u, ch) \subseteq Ids /\ Past(u, ch) \subseteq Producers
  BY DEF Counted, Past
<1>2. NeverFailedToday(u, ch) \subseteq Counted(u, ch)
  BY DEF NeverFailedToday
<1>3. IsFiniteSet(Counted(u, ch)) /\ IsFiniteSet(Past(u, ch))
  BY <1>1, FS_Subset, IdsAssumption, ProducersAssumption
<1>4. Cardinality(Producers) # 0
  BY FS_EmptySet, ProducersAssumption
<1>5. QED
  BY <1>1, <1>2, <1>3, <1>4, NoLarger, FS_CardinalityType, IdsAssumption, ProducersAssumption

LEMMA InitCapInv == Init => CapInv
<1> SUFFICES ASSUME Init, NEW u \in Users, NEW ch \in Channels PROVE CapAt(u, ch)
  BY DEF CapInv
<1>1. NeverFailedToday(u, ch) = {}
  BY DEF Init, NeverFailedToday, Counted
<1>2. Cardinality(NeverFailedToday(u, ch)) = 0
  BY <1>1, FS_EmptySet
<1>3. QED
  BY <1>2, CapSetsFinite, CapAssumption DEF CapAt, Init

\* What neither writes a row nor passes the check keeps the invariant.
LEMMA CapShrinks ==
  ASSUME TypeInv, NEW u \in Users, NEW ch \in Channels, CapAt(u, ch),
         NeverFailedToday(u, ch)' \subseteq NeverFailedToday(u, ch),
         Past(u, ch)' \subseteq Past(u, ch),
         faults' \in {faults, faults + 1}
  PROVE  CapAt(u, ch)'
<1>1. /\ Cardinality(NeverFailedToday(u, ch)') \in Nat
      /\ Cardinality(NeverFailedToday(u, ch)') <= Cardinality(NeverFailedToday(u, ch))
      /\ Cardinality(Past(u, ch)') \in Nat
      /\ Cardinality(Past(u, ch)') <= Cardinality(Past(u, ch))
  BY CapSetsFinite, NoLarger
<1>2. QED
  BY <1>1, CapSetsFinite, CapAssumption DEF CapAt, TypeInv, TypeOK

\* The rows that count change only with these four.
LEMMA SameRowsCount ==
  ASSUME NEW u, NEW ch, UNCHANGED <<info, status, failed, clock>>
  PROVE  NeverFailedToday(u, ch)' = NeverFailedToday(u, ch)
BY DEF NeverFailedToday, Counted

\* A call that goes to its next channel is before the check.
LEMMA NextChannelPast ==
  ASSUME TypeInv, NEW p \in Producers, pc[p] # "idle", NextChannel(p), NEW u, NEW ch
  PROVE  Past(u, ch)' \subseteq Past(u, ch) \ {p}
<1>1. pc'[p] \in {"idle", "cap"}
  BY NextChannelType
<1>2. \A q \in Producers : q # p => /\ pc'[q] = pc[q] /\ req'[q] = req[q]
                                    /\ left'[q] = left[q]
  BY DEF NextChannel, TypeInv, TypeOK
<1>3. QED
  BY <1>1, <1>2 DEF Past

LEMMA CapCheckCap ==
  ASSUME TypeInv, NEW u \in Users, NEW ch \in Channels, CapAt(u, ch),
         NEW p \in Producers, CapCheck(p)
  PROVE  CapAt(u, ch)'
<1>1. pc[p] = "cap" /\ NeverFailedToday(u, ch)' = NeverFailedToday(u, ch)
  BY SameRowsCount DEF CapCheck, logVars
<1>2. ASSUME GoTo(p, "dedup"), UNCHANGED <<req, left>>
      PROVE  /\ Past(u, ch)' \subseteq Past(u, ch) \cup {p}
             /\ ~ (req[p].user = u /\ Head(left[p]) = ch) => Past(u, ch)' \subseteq Past(u, ch)
  BY <1>1, <1>2 DEF GoTo, Past, TypeInv, TypeOK
<1>3. CASE GoTo(p, "dedup") /\ UNCHANGED <<req, left, faults>>
           /\ check_daily_cap(req[p].user, Head(left[p]))
  <2>1. CASE req[p].user = u /\ Head(left[p]) = ch
    <3>1. Cardinality(Counted(u, ch)) < Cap
      BY <1>3, <2>1 DEF check_daily_cap
    <3>2. Past(u, ch)' \subseteq Producers
      BY DEF Past
    <3>3. Cardinality(Past(u, ch)') \in Nat /\ Cardinality(Past(u, ch)') <= Cardinality(Producers)
      BY <3>2, NoLarger, ProducersAssumption
    <3>4. QED
      BY <1>1, <1>3, <3>1, <3>3, CapSetsFinite, CapAssumption DEF CapAt, TypeInv, TypeOK
  <2>2. CASE ~ (req[p].user = u /\ Head(left[p]) = ch)
    BY <1>1, <1>2, <1>3, <2>2, CapShrinks
  <2>3. QED
    BY <2>1, <2>2
<1>4. CASE NextChannel(p) /\ UNCHANGED faults
  BY <1>1, <1>4, NextChannelPast, CapShrinks
<1>5. CASE Fault /\ GoTo(p, "dedup") /\ UNCHANGED <<req, left>>
  <2>1. Past(u, ch)' \subseteq Past(u, ch) \cup {p} /\ IsFiniteSet(Past(u, ch))
    BY <1>2, <1>5, CapSetsFinite
  <2>2. Cardinality(Past(u, ch)') \in Nat
        /\ Cardinality(Past(u, ch)') <= Cardinality(Past(u, ch)) + 1
    BY <2>1, GrowsByOne
  <2>3. faults' = faults + 1
    BY <1>5 DEF Fault
  <2>4. QED
    BY <1>1, <2>2, <2>3, CapSetsFinite, CapAssumption DEF CapAt, TypeInv, TypeOK
<1>6. QED
  BY <1>3, <1>4, <1>5 DEF CapCheck

LEMMA WriteLogCap ==
  ASSUME TypeInv, NEW u \in Users, NEW ch \in Channels, CapAt(u, ch),
         NEW p \in Producers, WriteLog(p)
  PROVE  CapAt(u, ch)'
<1>1. pc[p] = "log" /\ UNCHANGED <<failed, clock>>
  BY DEF WriteLog
<1>2. ASSUME NEW n \in Ids,
             create_notification_log(n, req[p], Head(left[p]), keyDay[p]),
             GoTo(p, "queue"), UNCHANGED <<req, left, faults>>
      PROVE  CapAt(u, ch)'
  <2>1. \A m \in Ids \ {n} : info'[m] = info[m] /\ status'[m] = status[m]
    BY <1>2 DEF create_notification_log, TypeInv, TypeOK
  <2>2. info'[n].user = req[p].user /\ info'[n].channel = Head(left[p])
    BY <1>2 DEF create_notification_log, TypeInv, TypeOK
  <2>3. NeverFailedToday(u, ch)' \subseteq NeverFailedToday(u, ch) \cup {n}
    BY <1>1, <2>1 DEF NeverFailedToday, Counted
  <2>4. Past(u, ch)' \subseteq Past(u, ch) \ {p}
    BY <1>2 DEF GoTo, Past, TypeInv, TypeOK
  <2>5. CASE req[p].user = u /\ Head(left[p]) = ch
    <3>1. p \in Past(u, ch)
      BY <1>1, <2>5 DEF Past
    <3>2. /\ Cardinality(NeverFailedToday(u, ch)') \in Nat
          /\ Cardinality(NeverFailedToday(u, ch)') <= Cardinality(NeverFailedToday(u, ch)) + 1
      BY <2>3, CapSetsFinite, GrowsByOne
    <3>3. /\ Cardinality(Past(u, ch)') \in Nat
          /\ Cardinality(Past(u, ch)') <= Cardinality(Past(u, ch)) - 1
      BY <2>4, <3>1, CapSetsFinite, ShrinksByOne
    <3>4. QED
      BY <1>2, <3>2, <3>3, CapSetsFinite, CapAssumption DEF CapAt, TypeInv, TypeOK
  <2>6. CASE ~ (req[p].user = u /\ Head(left[p]) = ch)
    <3>1. NeverFailedToday(u, ch)' \subseteq NeverFailedToday(u, ch)
      BY <1>1, <2>1, <2>2, <2>6 DEF NeverFailedToday, Counted
    <3>2. QED
      BY <1>2, <2>4, <3>1, CapShrinks
  <2>7. QED
    BY <2>5, <2>6
<1>3. ASSUME Fault, NextChannel(p), UNCHANGED <<status, info>>
      PROVE  CapAt(u, ch)'
  BY <1>1, <1>3, SameRowsCount, NextChannelPast, CapShrinks DEF Fault
<1>4. QED
  BY <1>2, <1>3 DEF WriteLog

LEMMA EnvironmentCap ==
  ASSUME TypeInv, NEW u \in Users, NEW ch \in Channels, CapAt(u, ch), Environment
  PROVE  CapAt(u, ch)'
<1>1. UNCHANGED <<info, faults, pc, req, left>>
  BY DEF Environment, Tick, Report, Leave, ContactChange, logVars, dispatchVars
<1>2. Past(u, ch)' \subseteq Past(u, ch)
  BY <1>1 DEF Past
<1>3. NeverFailedToday(u, ch)' \subseteq NeverFailedToday(u, ch)
  <2>1. CASE Tick
    <3>1. clock \in Nat /\ clock' = clock + 1 /\ UNCHANGED <<info, status, failed>>
      BY <2>1 DEF Tick, logVars, TypeInv, TypeOK
    <3>2. Day(clock) \in Nat /\ Day(clock') \in Nat /\ Day(clock') >= Day(clock)
      BY <3>1, DayType, DayMonotonic
    <3>3. \A n \in Ids : info[n] # None => Day(info[n].sentAt) \in Nat
      BY DayType DEF TypeInv, TypeOK, LogRow
    <3>4. QED
      BY <3>1, <3>2, <3>3 DEF NeverFailedToday, Counted
  <2>2. ASSUME NEW n \in Ids, Report(n)
        PROVE  NeverFailedToday(u, ch)' \subseteq NeverFailedToday(u, ch)
    <3>1. UNCHANGED clock /\ failed \subseteq failed'
      BY <2>2 DEF Report
    <3>2. \A m \in Ids : status[m] = "failed" => status'[m] = "failed" \/ m \in failed'
      BY <3>1 DEF TypeInv, RowsWritten
    <3>3. QED
      BY <1>1, <3>1, <3>2 DEF NeverFailedToday, Counted
  <2>3. CASE UNCHANGED <<status, failed, clock>>
    BY <1>1, <2>3, SameRowsCount
  <2>4. QED
    BY <2>1, <2>2, <2>3 DEF Environment, Leave, ContactChange, logVars
<1>4. QED
  BY <1>1, <1>2, <1>3, CapShrinks

LEMMA NextCapInv == TypeInv /\ CapInv /\ [Next]_vars => CapInv'
<1> SUFFICES ASSUME TypeInv, CapInv, [Next]_vars, NEW u \in Users, NEW ch \in Channels
             PROVE  CapAt(u, ch)'
  BY DEF CapInv
<1>1. CapAt(u, ch)
  BY DEF CapInv
<1>2. ASSUME NEW p \in Producers, Call(p) \/ DedupCheck(p) \/ WriteQueue(p) \/ ProducerCrash(p)
      PROVE  CapAt(u, ch)'
  <2>1. faults' \in {faults, faults + 1}
    BY <1>2 DEF Call, DedupCheck, WriteQueue, ProducerCrash, Fault
  <2>2. Past(u, ch)' \subseteq Past(u, ch)
    <3>1. CASE NextChannel(p) /\ pc[p] # "idle"
      BY <3>1, NextChannelPast
    <3>2. CASE pc'[p] \in {"idle", "cap"} /\ \A q \in Producers \ {p} :
                 pc'[q] = pc[q] /\ req'[q] = req[q] /\ left'[q] = left[q]
      BY <3>2 DEF Past
    <3>3. CASE pc[p] = "dedup" /\ GoTo(p, "log") /\ UNCHANGED <<req, left>>
      BY <3>3 DEF GoTo, Past, TypeInv, TypeOK
    <3>4. CASE Call(p) \/ ProducerCrash(p)
      BY <3>2, <3>4 DEF Call, ProducerCrash, GoTo, TypeInv, TypeOK
    <3>5. QED
      BY <1>2, <3>1, <3>3, <3>4 DEF DedupCheck, WriteQueue
  <2>3. NeverFailedToday(u, ch)' \subseteq NeverFailedToday(u, ch)
    <3>1. CASE UNCHANGED <<info, status, failed, clock>>
      BY <3>1, SameRowsCount
    <3>2. CASE WriteQueue(p)
      <4>1. UNCHANGED <<info, clock>> /\ failed \subseteq failed'
        BY <3>2 DEF WriteQueue
      <4>2. \A n \in Ids : status'[n] # "failed" => status[n] # "failed"
        BY <3>2 DEF WriteQueue, TypeInv, TypeOK
      <4>3. QED
        BY <4>1, <4>2 DEF NeverFailedToday, Counted
    <3>3. QED
      BY <1>2, <3>1, <3>2 DEF Call, DedupCheck, ProducerCrash, logVars
  <2>4. QED
    BY <1>1, <2>1, <2>2, <2>3, CapShrinks
<1>3. CASE UNCHANGED vars
  <2>1. Past(u, ch)' = Past(u, ch) /\ faults' = faults
    BY <1>3 DEF vars, dispatchVars, Past
  <2>2. NeverFailedToday(u, ch)' = NeverFailedToday(u, ch)
    BY <1>3, SameRowsCount DEF vars, logVars
  <2>3. QED
    BY <1>1, <2>1, <2>2 DEF CapAt
<1>4. QED
  BY <1>1, <1>2, <1>3, CapCheckCap, WriteLogCap, EnvironmentCap DEF Next, Produce

\* The daily cap of a user on a channel is overshot by at most one row for each other
\* producer, and one for each failed check: the check and the insert it guards
\* (notification_dispatch.py:220-252) are two transactions.
THEOREM CapIsOvershotByProducers == Spec => []CapOvershootBounded
<1>1. TypeInv /\ CapInv => CapOvershootBounded
  <2> SUFFICES ASSUME TypeInv, CapInv, NEW u \in Users, NEW ch \in Channels
               PROVE  Cardinality(NeverFailedToday(u, ch))
                        <= Cap + Cardinality(Producers) - 1 + faults
    BY DEF CapOvershootBounded
  <2>1. CapAt(u, ch)
    BY DEF CapInv
  <2>2. QED
    BY <2>1, CapSetsFinite, CapAssumption DEF CapAt, TypeInv, TypeOK
<1>2. QED
  BY <1>1, TypeInvHolds, InitCapInv, NextCapInv, PTL DEF Spec

-----------------------------------------------------------------------------
(* Deduplication.                                                          *)

\* Rows that a check for r on the day d would find now.
Recent(r, d) ==
  {n \in Ids : SameKey(n, r, d) /\ info[n].sentAt >= clock - Window[r.trigger]}

\* Calls that have made that check and will write a row with its key.
Pending(r, d) ==
  {p \in Producers : /\ pc[p] = "log" /\ keyDay[p] = d
                     /\ req[p].user = r.user
                     /\ req[p].case = r.case
                     /\ req[p].trigger = r.trigger}

\* A check passes when there are no such rows, so that each of them stands for another
\* call that had passed it.
DedupAt(r, d) ==
  Cardinality(Recent(r, d)) + Cardinality(Pending(r, d)) <= Cardinality(Producers)

DedupInv == \A r \in Request, d \in Nat : DedupAt(r, d)

\* The rows of the property, and that no row is of the future.
Near(n) ==
  {m \in Ids : /\ SameKey(m, info[n], info[n].keyDay)
               /\ info[m].sentAt \in (info[n].sentAt - Window[info[n].trigger]) .. info[n].sentAt}

NearInv ==
  \A n \in Ids : info[n] # None /\ info[n].keyDay # NoKey =>
    Cardinality(Near(n)) <= Cardinality(Producers)

SentInTime == \A n \in Ids : info[n] # None => info[n].sentAt <= clock

LEMMA DedupSetsFinite ==
  ASSUME NEW r, NEW d
  PROVE  /\ IsFiniteSet(Recent(r, d)) /\ Cardinality(Recent(r, d)) \in Nat
         /\ IsFiniteSet(Pending(r, d)) /\ Cardinality(Pending(r, d)) \in Nat
         /\ Cardinality(Pending(r, d)) <= Cardinality(Producers)
         /\ Cardinality(Producers) \in Nat
<1>1. Recent(r, d) \subseteq Ids /\ Pending(r, d) \subseteq Producers
  BY DEF Recent, Pending
<1>2. QED
  BY <1>1, NoLarger, IdsAssumption, ProducersAssumption

LEMMA DedupShrinks ==
  ASSUME NEW r, NEW d, DedupAt(r, d),
         Recent(r, d)' \subseteq Recent(r, d), Pending(r, d)' \subseteq Pending(r, d)
  PROVE  DedupAt(r, d)'
<1>1. /\ Cardinality(Recent(r, d)') \in Nat
      /\ Cardinality(Recent(r, d)') <= Cardinality(Recent(r, d))
      /\ Cardinality(Pending(r, d)') \in Nat
      /\ Cardinality(Pending(r, d)') <= Cardinality(Pending(r, d))
  BY DedupSetsFinite, NoLarger
<1>2. QED
  BY <1>1, DedupSetsFinite DEF DedupAt

LEMMA InitDedup == Init => DedupInv /\ NearInv /\ SentInTime
<1> SUFFICES ASSUME Init PROVE DedupInv /\ NearInv /\ SentInTime
  OBVIOUS
<1>1. ASSUME NEW r \in Request, NEW d \in Nat PROVE DedupAt(r, d)
  <2>1. Recent(r, d) = {}
    BY DEF Init, Recent, SameKey
  <2>2. Cardinality(Recent(r, d)) = 0
    BY <2>1, FS_EmptySet
  <2>3. QED
    BY <2>2, DedupSetsFinite DEF DedupAt
<1>2. QED
  BY <1>1 DEF Init, DedupInv, NearInv, SentInTime

LEMMA NextChannelPending ==
  ASSUME TypeInv, NEW p \in Producers, pc[p] # "idle", NextChannel(p), NEW r, NEW d
  PROVE  Pending(r, d)' \subseteq Pending(r, d)
<1>1. pc'[p] \in {"idle", "cap"}
  BY NextChannelType
<1>2. \A q \in Producers : q # p => /\ pc'[q] = pc[q] /\ req'[q] = req[q]
                                    /\ keyDay'[q] = keyDay[q]
  BY DEF NextChannel, TypeInv, TypeOK
<1>3. QED
  BY <1>1, <1>2 DEF Pending

LEMMA DedupCheckDedup ==
  ASSUME TypeInv, NEW r \in Request, NEW d \in Nat, DedupAt(r, d),
         NEW p \in Producers, DedupCheck(p)
  PROVE  DedupAt(r, d)'
<1>1. pc[p] = "dedup" /\ keyDay[p] = NoKey /\ UNCHANGED <<info, clock>>
  BY DEF DedupCheck, logVars, TypeInv, CallOK
<1>2. Recent(r, d)' = Recent(r, d)
  BY <1>1 DEF Recent, SameKey
<1>3. CASE NextChannel(p)
  BY <1>1, <1>2, <1>3, NextChannelPending, DedupShrinks
<1>4. CASE GoTo(p, "log") /\ UNCHANGED <<req, keyDay>>
  <2>1. Pending(r, d)' \subseteq Pending(r, d)
    BY <1>1, <1>4 DEF GoTo, Pending, TypeInv, TypeOK, NoKey
  <2>2. QED
    BY <1>2, <2>1, DedupShrinks
<1>5. CASE GoTo(p, "log") /\ keyDay' = [keyDay EXCEPT ![p] = Day(clock)] /\ UNCHANGED req
           /\ check_dedup(req[p], Day(clock), Window[req[p].trigger])
  <2>1. CASE /\ d = Day(clock) /\ req[p].user = r.user
             /\ req[p].case = r.case /\ req[p].trigger = r.trigger
    <3>1. Recent(r, d) = {}
      BY <1>5, <2>1 DEF check_dedup, Recent, SameKey
    <3>2. Cardinality(Recent(r, d)') = 0
      BY <1>2, <3>1, FS_EmptySet
    <3>3. Pending(r, d)' \subseteq Producers
      BY DEF Pending
    <3>4. Cardinality(Pending(r, d)') \in Nat /\ Cardinality(Pending(r, d)') <= Cardinality(Producers)
      BY <3>3, NoLarger, ProducersAssumption
    <3>5. QED
      BY <3>2, <3>4 DEF DedupAt
  <2>2. CASE ~ (/\ d = Day(clock) /\ req[p].user = r.user
                /\ req[p].case = r.case /\ req[p].trigger = r.trigger)
    <3>1. Pending(r, d)' \subseteq Pending(r, d)
      BY <1>1, <1>5, <2>2 DEF GoTo, Pending, TypeInv, TypeOK
    <3>2. QED
      BY <1>2, <3>1, DedupShrinks
  <2>3. QED
    BY <2>1, <2>2
<1>6. QED
  BY <1>3, <1>4, <1>5 DEF DedupCheck

LEMMA WriteLogDedup ==
  ASSUME TypeInv, NEW r \in Request, NEW d \in Nat, DedupAt(r, d),
         NEW p \in Producers, WriteLog(p)
  PROVE  DedupAt(r, d)'
<1>1. pc[p] = "log" /\ UNCHANGED clock
  BY DEF WriteLog
<1>2. ASSUME NEW n \in Ids,
             create_notification_log(n, req[p], Head(left[p]), keyDay[p]),
             GoTo(p, "queue"), UNCHANGED <<req, keyDay>>
      PROVE  DedupAt(r, d)'
  <2>1. \A m \in Ids \ {n} : info'[m] = info[m]
    BY <1>2 DEF create_notification_log, TypeInv, TypeOK
  <2>2. /\ info'[n].user = req[p].user /\ info'[n].case = req[p].case
        /\ info'[n].trigger = req[p].trigger /\ info'[n].keyDay = keyDay[p]
    BY <1>2 DEF create_notification_log, TypeInv, TypeOK
  <2>3. Recent(r, d)' \subseteq Recent(r, d) \cup {n} /\ IsFiniteSet(Recent(r, d))
    BY <1>1, <2>1, DedupSetsFinite DEF Recent, SameKey
  <2>4. Pending(r, d)' \subseteq Pending(r, d) \ {p} /\ IsFiniteSet(Pending(r, d))
    BY <1>2, DedupSetsFinite DEF GoTo, Pending, TypeInv, TypeOK
  <2>5. CASE p \in Pending(r, d)
    <3>1. /\ Cardinality(Recent(r, d)') \in Nat
          /\ Cardinality(Recent(r, d)') <= Cardinality(Recent(r, d)) + 1
      BY <2>3, GrowsByOne
    <3>2. /\ Cardinality(Pending(r, d)') \in Nat
          /\ Cardinality(Pending(r, d)') <= Cardinality(Pending(r, d)) - 1
      BY <2>4, <2>5, ShrinksByOne
    <3>3. QED
      BY <3>1, <3>2, DedupSetsFinite DEF DedupAt
  <2>6. CASE p \notin Pending(r, d)
    <3>1. Recent(r, d)' \subseteq Recent(r, d)
      BY <1>1, <2>1, <2>2, <2>6 DEF Recent, SameKey, Pending
    <3>2. QED
      BY <2>4, <3>1, DedupShrinks
  <2>7. QED
    BY <2>5, <2>6
<1>3. ASSUME NextChannel(p), UNCHANGED info
      PROVE  DedupAt(r, d)'
  <2>1. Recent(r, d)' = Recent(r, d)
    BY <1>1, <1>3 DEF Recent, SameKey
  <2>2. QED
    BY <1>1, <1>3, <2>1, NextChannelPending, DedupShrinks
<1>4. QED
  BY <1>2, <1>3 DEF WriteLog

LEMMA NextDedupInv == TypeInv /\ DedupInv /\ [Next]_vars => DedupInv'
<1> SUFFICES ASSUME TypeInv, DedupInv, [Next]_vars, NEW r \in Request, NEW d \in Nat
             PROVE  DedupAt(r, d)'
  BY DEF DedupInv
<1>1. DedupAt(r, d)
  BY DEF DedupInv
<1>2. ASSUME NEW p \in Producers,
             Call(p) \/ CapCheck(p) \/ WriteQueue(p) \/ ProducerCrash(p)
      PROVE  DedupAt(r, d)'
  <2>1. (UNCHANGED <<info, clock>> /\ pc[p] # "log") \/ ProducerCrash(p)
    BY <1>2 DEF Call, CapCheck, WriteQueue, ProducerCrash, logVars
  <2>2. Recent(r, d)' \subseteq Recent(r, d)
    BY <1>2 DEF Call, CapCheck, WriteQueue, ProducerCrash, logVars, Recent, SameKey
  <2>3. Pending(r, d)' \subseteq Pending(r, d)
    <3>1. CASE NextChannel(p) /\ pc[p] # "idle"
      BY <3>1, NextChannelPending
    <3>2. CASE Call(p) \/ ProducerCrash(p) \/ (pc[p] = "cap" /\ GoTo(p, "dedup")
               /\ UNCHANGED <<req, keyDay>>)
      <4>1. /\ pc'[p] # "log"
            /\ \A q \in Producers \ {p} :
                 pc'[q] = pc[q] /\ req'[q] = req[q] /\ keyDay'[q] = keyDay[q]
        BY <3>2 DEF Call, ProducerCrash, GoTo, TypeInv, TypeOK
      <4>2. QED
        BY <4>1 DEF Pending
    <3>3. QED
      BY <1>2, <3>1, <3>2 DEF CapCheck, WriteQueue
  <2>4. QED
    BY <1>1, <2>2, <2>3, DedupShrinks
<1>3. ASSUME Environment \/ UNCHANGED vars PROVE DedupAt(r, d)'
  <2>1. UNCHANGED <<info, pc, req, keyDay>> /\ clock' \in {clock, clock + 1}
    BY <1>3 DEF Environment, Tick, Report, Leave, ContactChange, vars, logVars, dispatchVars
  <2>2. Pending(r, d)' \subseteq Pending(r, d)
    BY <2>1 DEF Pending
  <2>3. \A n \in Ids : info[n] # None => info[n].sentAt \in Nat
    BY DEF TypeInv, TypeOK, LogRow
  <2>4. Window[r.trigger] \in Nat
    BY WindowAssumption DEF Request
  <2>5. Recent(r, d)' \subseteq Recent(r, d)
    BY <2>1, <2>3, <2>4 DEF Recent, SameKey, TypeInv, TypeOK
  <2>6. QED
    BY <1>1, <2>2, <2>5, DedupShrinks
<1>4. QED
  BY <1>1, <1>2, <1>3, DedupCheckDedup, WriteLogDedup DEF Next, Produce

\* Only WriteLog changes the rows' columns.
LEMMA InfoChanges ==
  ASSUME TypeInv, [Next]_vars
  PROVE  \/ UNCHANGED info /\ clock' \in {clock, clock + 1}
         \/ /\ UNCHANGED clock
            /\ \E n \in Ids : /\ \A m \in Ids \ {n} : info'[m] = info[m]
                             /\ info'[n] # None /\ info'[n].sentAt = clock
<1>1. ASSUME NEW p \in Producers, WriteLog(p)
      PROVE  \/ UNCHANGED <<info, clock>>
             \/ /\ UNCHANGED clock
                /\ \E n \in Ids : /\ \A m \in Ids \ {n} : info'[m] = info[m]
                                 /\ info'[n] # None /\ info'[n].sentAt = clock
  <2>1. UNCHANGED clock
    BY <1>1 DEF WriteLog
  <2>2. ASSUME NEW n \in Ids,
               create_notification_log(n, req[p], Head(left[p]), keyDay[p])
        PROVE  /\ \A m \in Ids \ {n} : info'[m] = info[m]
               /\ info'[n] # None /\ info'[n].sentAt = clock
    <3>1. TypeInv'
      BY NextTypeInv
    <3>2. status'[n] = "queued" /\ info'[n] = [info EXCEPT ![n] =
            [user |-> req[p].user, case |-> req[p].case, trigger |-> req[p].trigger,
             channel |-> Head(left[p]), sentAt |-> clock, keyDay |-> keyDay[p]]][n]
      BY <2>2 DEF create_notification_log, TypeInv, TypeOK
    <3>3. info'[n] # None
      BY <3>1, <3>2 DEF TypeInv, RowsWritten
    <3>4. QED
      BY <2>2, <3>3 DEF create_notification_log, TypeInv, TypeOK
  <2>3. QED
    BY <1>1, <2>1, <2>2 DEF WriteLog
<1>2. ASSUME NEW p \in Producers, Call(p) \/ CapCheck(p) \/ DedupCheck(p) \/ WriteQueue(p)
                                   \/ ProducerCrash(p)
      PROVE  UNCHANGED <<info, clock>>
  BY <1>2 DEF Call, CapCheck, DedupCheck, WriteQueue, ProducerCrash, logVars
<1>3. ASSUME Environment \/ UNCHANGED vars
      PROVE  UNCHANGED info /\ clock' \in {clock, clock + 1}
  BY <1>3 DEF Environment, Tick, Report, Leave, ContactChange, vars, logVars
<1>4. QED
  BY <1>1, <1>2, <1>3 DEF Next, Produce

LEMMA NextSentInTime == TypeInv /\ SentInTime /\ [Next]_vars => SentInTime'
<1> SUFFICES ASSUME TypeInv, SentInTime, [Next]_vars PROVE SentInTime'
  OBVIOUS
<1>1. clock \in Nat /\ \A n \in Ids : info[n] # None => info[n].sentAt \in Nat
  BY DEF TypeInv, TypeOK, LogRow
<1>2. QED
  BY <1>1, InfoChanges DEF SentInTime

LEMMA NextNearInv ==
  TypeInv /\ DedupInv' /\ SentInTime /\ NearInv /\ [Next]_vars => NearInv'
<1> SUFFICES ASSUME TypeInv, DedupInv', SentInTime, NearInv, [Next]_vars,
                    NEW n \in Ids, info'[n] # None, info'[n].keyDay # NoKey
             PROVE  Cardinality(Near(n)') <= Cardinality(Producers)
  BY DEF NearInv
<1>1. TypeInv'
  BY NextTypeInv
<1>2. info'[n] \in LogRow
  BY <1>1 DEF TypeInv, TypeOK
<1>3. CASE UNCHANGED info
  <2>1. Near(n)' = Near(n)
    BY <1>3 DEF Near, SameKey
  <2>2. QED
    BY <1>3, <2>1 DEF NearInv
<1>4. ASSUME UNCHANGED clock, NEW new \in Ids, \A m \in Ids \ {new} : info'[m] = info[m],
             info'[new] # None, info'[new].sentAt = clock
      PROVE  Cardinality(Near(n)') <= Cardinality(Producers)
  <2>1. clock \in Nat /\ info'[n].sentAt \in Nat /\ Window[info'[n].trigger] \in Nat
    BY <1>2, WindowAssumption DEF LogRow, TypeInv, TypeOK
  <2>2. CASE info'[n].sentAt = clock
    <3>1. PICK r \in Request, d \in Nat :
            /\ r.user = info'[n].user /\ r.case = info'[n].case
            /\ r.trigger = info'[n].trigger /\ d = info'[n].keyDay
      <4> DEFINE s == [user |-> info'[n].user, case |-> info'[n].case,
                       trigger |-> info'[n].trigger]
      <4>1. s \in Request /\ info'[n].keyDay \in Nat
        BY <1>2 DEF Request, LogRow
      <4>2. QED
        BY <4>1
    <3>2. Near(n)' \subseteq Recent(r, d)'
      BY <1>4, <2>1, <2>2, <3>1 DEF Near, Recent, SameKey
    <3>3. Cardinality(Recent(r, d)') + Cardinality(Pending(r, d)') <= Cardinality(Producers)
      BY <3>1 DEF DedupInv, DedupAt
    <3>4. Recent(r, d)' \subseteq Ids /\ Pending(r, d)' \subseteq Producers
      BY DEF Recent, Pending
    <3>5. IsFiniteSet(Recent(r, d)') /\ Cardinality(Pending(r, d)') \in Nat
      BY <3>4, NoLarger, IdsAssumption, ProducersAssumption
    <3>6. /\ Cardinality(Near(n)') \in Nat /\ Cardinality(Recent(r, d)') \in Nat
          /\ Cardinality(Near(n)') <= Cardinality(Recent(r, d)')
      BY <3>2, <3>5, NoLarger
    <3>7. QED
      BY <3>3, <3>5, <3>6, FS_CardinalityType, ProducersAssumption
  <2>3. CASE info'[n].sentAt # clock
    <3>1. n # new /\ info'[n] = info[n] /\ info[n].sentAt < clock
      BY <1>4, <2>1, <2>3 DEF SentInTime
    <3>2. Near(n)' \subseteq Near(n)
      BY <1>4, <2>1, <3>1 DEF Near, SameKey
    <3>3. Near(n) \subseteq Ids
      BY DEF Near
    <3>4. /\ Cardinality(Near(n)') \in Nat /\ Cardinality(Near(n)) \in Nat
          /\ Cardinality(Near(n)') <= Cardinality(Near(n))
      BY <3>2, <3>3, NoLarger, IdsAssumption
    <3>5. QED
      BY <3>1, <3>4, FS_CardinalityType, ProducersAssumption DEF NearInv
  <2>4. QED
    BY <2>2, <2>3
<1>5. QED
  BY <1>3, <1>4, InfoChanges

\* Within the window of a row there are no more rows with its key than producers: each
\* is by a call that had made its check before the others wrote theirs
\* (notification_dispatch.py:231-252, notification_alchemy.check_dedup).
THEOREM DuplicatesAreByProducers == Spec => []DedupOvershootBounded
<1>1. NearInv => DedupOvershootBounded
  BY DEF NearInv, Near, DedupOvershootBounded
<1>2. QED
  BY <1>1, TypeInvHolds, InitDedup, NextDedupInv, NextSentInTime, NextNearInv, PTL DEF Spec

-----------------------------------------------------------------------------
(* Rows that never reach the queue.                                        *)

LEMMA OrphansFinite == IsFiniteSet(Orphans) /\ Cardinality(Orphans) \in Nat
<1>1. Orphans \subseteq Ids
  BY DEF Orphans
<1>2. QED
  BY <1>1, NoLarger, IdsAssumption

\* A row has a call that will queue it, is queued, or was marked failed; only a fault takes
\* the call away from it.
LEMMA OrphansGrow ==
  ASSUME TypeInv, [Next]_vars
  PROVE  \/ Orphans' \subseteq Orphans /\ faults' \in {faults, faults + 1}
         \/ (\E n \in Ids : Orphans' \subseteq Orphans \cup {n}) /\ faults' = faults + 1
<1>1. ASSUME NEW p \in Producers, ProducerCrash(p)
      PROVE  (\E n \in Ids : Orphans' \subseteq Orphans \cup {n}) \/ Orphans' \subseteq Orphans
  <2>1. UNCHANGED logVars /\ logId' = [logId EXCEPT ![p] = None]
    BY <1>1 DEF ProducerCrash
  <2>2. Orphans' \subseteq Orphans \cup {logId[p]}
    BY <2>1 DEF Orphans, logVars, TypeInv, TypeOK
  <2>3. logId[p] \notin Ids => Orphans' \subseteq Orphans
    BY <2>2 DEF Orphans
  <2>4. QED
    BY <2>2, <2>3
<1>2. ASSUME NEW p \in Producers, WriteQueue(p)
      PROVE  \/ Orphans' \subseteq Orphans /\ faults' \in {faults, faults + 1}
             \/ (\E n \in Ids : Orphans' \subseteq Orphans \cup {n}) /\ faults' = faults + 1
  <2>1. /\ logId[p] \in Ids /\ status[logId[p]] # "none"
        /\ logId' = [logId EXCEPT ![p] = None]
    BY <1>2 DEF WriteQueue, NextChannel, TypeInv, CallOK, HeldWritten
  <2>2. \A n \in Ids : status'[n] # "none" <=> status[n] # "none"
    BY <1>2, <2>1 DEF WriteQueue, TypeInv, TypeOK
  <2>3. entered \subseteq entered' /\ failed \subseteq failed'
    BY <1>2 DEF WriteQueue, insert_queue_row
  <2>4. Orphans' \subseteq Orphans \cup {logId[p]}
    BY <2>1, <2>2, <2>3 DEF Orphans, TypeInv, TypeOK
  <2>5. CASE logId[p] \in entered' \cup failed'
    BY <1>2, <2>4, <2>5 DEF WriteQueue, Fault, Orphans
  <2>6. CASE logId[p] \notin entered' \cup failed'
    BY <1>2, <2>1, <2>4, <2>6 DEF WriteQueue, Fault, insert_queue_row
  <2>7. QED
    BY <2>5, <2>6
<1>3. ASSUME NEW p \in Producers, WriteLog(p)
      PROVE  Orphans' \subseteq Orphans
  <2>1. logId[p] = None /\ UNCHANGED <<entered, failed>>
    BY <1>3 DEF WriteLog, TypeInv, CallOK
  <2>2. ASSUME NEW n \in Ids, status' = [status EXCEPT ![n] = "queued"],
               logId' = [logId EXCEPT ![p] = n]
        PROVE  Orphans' \subseteq Orphans
    BY <2>1, <2>2, IdsAssumption DEF Orphans, TypeInv, TypeOK
  <2>3. CASE NextChannel(p) /\ UNCHANGED status
    BY <2>1, <2>3, IdsAssumption DEF NextChannel, Orphans, TypeInv, TypeOK
  <2>4. QED
    BY <1>3, <2>2, <2>3 DEF WriteLog, create_notification_log
<1>4. ASSUME NEW p \in Producers, Call(p) \/ CapCheck(p) \/ DedupCheck(p)
      PROVE  Orphans' \subseteq Orphans
  <2>1. UNCHANGED logVars /\ logId' \in {logId, [logId EXCEPT ![p] = None]} /\ logId[p] = None
    BY <1>4 DEF Call, CapCheck, DedupCheck, NextChannel, TypeInv, CallOK
  <2>2. QED
    BY <2>1, IdsAssumption DEF Orphans, logVars, TypeInv, TypeOK
<1>5. ASSUME Environment \/ UNCHANGED vars
      PROVE  Orphans' \subseteq Orphans
  <2>1. UNCHANGED <<entered, logId>> /\ failed \subseteq failed'
    BY <1>5 DEF Environment, Tick, Report, Leave, ContactChange, vars, logVars, dispatchVars
  <2>2. \A n \in Ids : status[n] = "none" => status'[n] = "none"
    <3>1. ASSUME NEW n \in Ids, Report(n)
          PROVE  \A m \in Ids : status[m] = "none" => status'[m] = "none"
      <4>1. PICK s \in {"sent", "delivered", "failed", "read"} :
              /\ s = "read" => status[n] # "none"
              /\ s # "read" => n \in entered
              /\ status' = [status EXCEPT ![n] = s]
        BY <3>1 DEF Report
      <4>2. status[n] # "none"
        BY <4>1 DEF TypeInv, RowsWritten
      <4>3. QED
        BY <4>1, <4>2 DEF TypeInv, TypeOK
    <3>2. UNCHANGED status \/ \E n \in Ids : Report(n)
      BY <1>5 DEF Environment, Tick, Leave, ContactChange, vars, logVars
    <3>3. QED
      BY <3>1, <3>2
  <2>3. QED
    BY <2>1, <2>2 DEF Orphans
<1>6. ASSUME NEW p \in Producers, Produce(p)
      PROVE  faults' \in {faults, faults + 1} /\ (ProducerCrash(p) => faults' = faults + 1)
  BY <1>6 DEF Produce, Call, CapCheck, DedupCheck, WriteLog, WriteQueue, ProducerCrash, Fault
<1>7. Environment \/ UNCHANGED vars => UNCHANGED faults
  BY DEF Environment, Tick, Report, Leave, ContactChange, vars
<1>8. QED
  BY <1>1, <1>2, <1>3, <1>4, <1>5, <1>6, <1>7 DEF Next, Produce

LEMMA NextOrphans == TypeInv /\ OrphansAccounted /\ [Next]_vars => OrphansAccounted'
<1> SUFFICES ASSUME TypeInv, OrphansAccounted, [Next]_vars PROVE OrphansAccounted'
  OBVIOUS
<1>1. faults \in Nat /\ IsFiniteSet(Orphans)
  BY OrphansFinite DEF TypeInv, TypeOK
<1>2. CASE Orphans' \subseteq Orphans /\ faults' \in {faults, faults + 1}
  <2>1. /\ Cardinality(Orphans') \in Nat /\ Cardinality(Orphans) \in Nat
        /\ Cardinality(Orphans') <= Cardinality(Orphans)
    BY <1>1, <1>2, NoLarger
  <2>2. QED
    BY <1>1, <1>2, <2>1 DEF OrphansAccounted
<1>3. ASSUME NEW n \in Ids, Orphans' \subseteq Orphans \cup {n}, faults' = faults + 1
      PROVE  OrphansAccounted'
  <2>1. /\ Cardinality(Orphans') \in Nat /\ Cardinality(Orphans) \in Nat
        /\ Cardinality(Orphans') <= Cardinality(Orphans) + 1
    BY <1>1, <1>3, GrowsByOne
  <2>2. QED
    BY <1>1, <1>3, <2>1 DEF OrphansAccounted
<1>4. QED
  BY <1>2, <1>3, OrphansGrow

\* A row of the log that never reaches the queue is marked failed, but for one row for
\* each fault (notification_dispatch.py:256-275).
THEOREM OrphansArePaidFor == Spec => []OrphansAccounted
<1>1. Init => OrphansAccounted
  <2>1. Init => Orphans = {} /\ faults = 0
    BY DEF Init, Orphans
  <2>2. QED
    BY <2>1, FS_EmptySet DEF OrphansAccounted
<1>2. QED
  BY <1>1, TypeInvHolds, NextOrphans, PTL DEF Spec

=============================================================================
