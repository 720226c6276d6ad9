----------------------- MODULE ChangeDetector_proofs -----------------------
(***************************************************************************)
(* Proofs about ChangeDetector: the history of the board is whole, what a  *)
(* poll stores and returns is what the board shows, and field_state with   *)
(* the traces of changes that it knows implements FieldHistory.            *)
(***************************************************************************)
EXTENDS ChangeDetector, TLAPS, FiniteSetTheorems, WellFoundedInduction

-----------------------------------------------------------------------------
(* Cardinalities.                                                          *)

LEMMA GrowsByOne ==
  ASSUME NEW S, NEW T, NEW x, IsFiniteSet(S), T \subseteq S \cup {x}
  PROVE  /\ Cardinality(T) \in Nat /\ Cardinality(S) \in Nat
         /\ Cardinality(T) <= Cardinality(S) + 1
<1> DEFINE U == S \cup {x}
<1>1. /\ IsFiniteSet(U)
      /\ Cardinality(U) = IF x \in S THEN Cardinality(S) ELSE Cardinality(S) + 1
  BY FS_AddElement
<1>2. T \in SUBSET U
  OBVIOUS
<1> HIDE DEF U
<1>3. IsFiniteSet(T) /\ Cardinality(T) <= Cardinality(U)
  BY <1>1, <1>2, FS_Subset
<1>4. Cardinality(S) \in Nat /\ Cardinality(T) \in Nat
  BY <1>3, FS_CardinalityType
<1>5. QED
  BY <1>1, <1>3, <1>4

LEMMA ShrinksByOne ==
  ASSUME NEW S, NEW T, NEW x \in S, IsFiniteSet(S), T \subseteq S \ {x}
  PROVE  /\ Cardinality(T) \in Nat /\ Cardinality(S) \in Nat
         /\ Cardinality(T) <= Cardinality(S) - 1
BY FS_RemoveElement, FS_Subset, FS_CardinalityType

LEMMA NoLarger ==
  ASSUME NEW S, NEW T, IsFiniteSet(S), T \subseteq S
  PROVE  /\ Cardinality(T) \in Nat /\ Cardinality(S) \in Nat
         /\ Cardinality(T) <= Cardinality(S)
BY FS_Subset, FS_CardinalityType

-----------------------------------------------------------------------------
(* Induction on numbers.                                                   *)

\* A set that has 0 and every successor has every number: of those it does not have there
\* would be a least one, as the relation "less than" is well-founded.
LEMMA Induction ==
  ASSUME NEW S \in SUBSET Nat, 0 \in S, \A n \in S : n + 1 \in S
  PROVE  S = Nat
<1> DEFINE Less == {ss \in Nat \X Nat : ss[1] < ss[2]}
           T == Nat \ S
<1>1. IsWellFoundedOn(Less, Nat)
  BY NatLessThanWellFounded DEF OpToRel
<1>2. SUFFICES ASSUME T # {} PROVE FALSE
  OBVIOUS
<1> HIDE DEF Less
<1>3. PICK x \in T : \A y \in T : ~ (<<y, x>> \in Less)
  BY <1>1, <1>2, WFMin
<1>4. x \in Nat /\ x # 0 /\ x - 1 \in Nat
  OBVIOUS
<1>5. x - 1 \notin T
  <2>1. <<x - 1, x>> \in Less
    BY <1>4, SMT DEF Less
  <2>2. QED
    BY <1>3, <2>1
<1>6. (x - 1) + 1 \in S
  BY <1>4, <1>5
<1>7. QED
  BY <1>4, <1>6

-----------------------------------------------------------------------------
(* The invariant.                                                          *)

Texts == Cells \cup {"0", "1"}

DetTypes ==
  /\ current \in [BoardCourts -> Rows \cup {None}]
  /\ field \in [Keys -> State \cup {None}] /\ before \in [Keys -> State \cup {None}]
  /\ traces \in [Keys -> Seq(Trace)]
  /\ observed \in Nat /\ observed <= MaxPolls /\ halted \in Nat
  /\ snap \in Snapshots
  /\ todo \subseteq Keys /\ unstored \subseteq DOMAIN snap
  /\ hand \in Keys \cup {NoKey}
  /\ \A ch \in changes : ch.key \in Keys /\ ch.trace \in Trace
  /\ last \in {"none", "returned", "stopped"}

\* Between polls nothing is left to do; inside one, fields of stored rows are.
Agenda ==
  /\ ~ polling => todo = {} /\ unstored = {} /\ hand = NoKey
  /\ \A k \in todo : k[2] = Present \/ k[1] \in DOMAIN snap \ unstored

\* The key whose trace is inserted: its last trace is of the change that is at hand.
HandInv ==
  hand # NoKey =>
    /\ hand \in todo /\ field[hand] # None
    /\ ~ Same(field[hand].value, Shown(hand))
    /\ Len(traces[hand]) > 0
    /\ traces[hand][Len(traces[hand])] = OldTrace(hand)
    /\ \A i \in 1 .. Len(traces[hand]) - 1 : traces[hand][i].end < observed

\* What is still to be compared in this poll is as it was before.
Pending(k) == k \in todo \/ (k[1] \in unstored /\ k[2] # Present)

Fresh(k) ==
  Pending(k) =>
    /\ field[k] = before[k]
    /\ field[k] # None => field[k].start < observed
    /\ k # hand => /\ Len(traces[k]) < observed
                   /\ \A i \in 1 .. Len(traces[k]) : traces[k][i].end < observed

Chain(k) ==
  /\ field[k] = None => Len(traces[k]) = 0
  /\ field[k] # None => field[k].start <= observed
  /\ Len(traces[k]) <= observed
  /\ \A i \in 1 .. Len(traces[k]) : traces[k][i].end <= observed /\ traces[k][i].start <= field[k].start
  /\ \A i \in 1 .. Len(traces[k]) - 1 : Follows(traces[k][i], traces[k][i + 1])
  /\ Len(traces[k]) > 0 =>
       LET t == traces[k][Len(traces[k])]
       IN  \/ field[k].start = t.end /\ field[k].value = t.new
           \/ field[k].start = t.start /\ field[k].value = t.old

\* False traces are those at hand and those left at hand by polls that stopped.
FalseInv ==
  /\ IsFiniteSet(FalseTraces)
  /\ hand = NoKey => Cardinality(FalseTraces) <= halted
  /\ Cardinality(FalseTraces) <= halted + 1

\* The keys a poll compares, up to now.
Due(k) ==
  IF k[2] = Present THEN k[1] \in DOMAIN snap \cup known_courts
  ELSE /\ k[1] \in DOMAIN snap \ unstored
       /\ k[2] \in DOMAIN snap[k[1]] \/ field[k] # None

Done(k) == field[k] # None /\ Same(field[k].value, Shown(k)) /\ field[k].seen = observed

InPoll == polling \/ last = "returned"

Compared == InPoll => \A k \in Keys : Due(k) => k \in todo \/ Done(k)

Stored == InPoll => \A c \in DOMAIN snap \ unstored : current[c] = snap[c]

Orphans ==
  \A c \in BoardCourts :
    field[<<c, Present>>] # None /\ field[<<c, Present>>].value = "1" /\ c \notin known_courts =>
      halted > 0 \/ c \in unstored

Changed(k) == before[k] # None /\ field[k].value # before[k].value

ChangeOf(k) ==
  [key |-> k, trace |-> [old |-> before[k].value, new |-> field[k].value,
                         start |-> before[k].start, end |-> observed]]

Listed == InPoll => changes = {ChangeOf(k) : k \in {k \in Keys : Changed(k)}}

DetInv ==
  /\ DetTypes /\ polling \in BOOLEAN /\ Agenda /\ HandInv
  /\ \A k \in Keys : Fresh(k) /\ Chain(k)
  /\ FalseInv /\ Compared /\ Stored /\ Orphans /\ Listed

-----------------------------------------------------------------------------
(* Facts about keys, rows and cells.                                       *)

LEMMA KeysAre ==
  /\ \A k \in Keys : /\ k = <<k[1], k[2]>> /\ k[1] \in BoardCourts
                     /\ k[2] \in Fields \cup {Present} /\ k # NoKey
  /\ \A c \in BoardCourts, f \in Fields \cup {Present} :
       <<c, f>> \in Keys /\ <<c, f>>[1] = c /\ <<c, f>>[2] = f
  /\ NoKey \notin Keys
BY CourtsAssumption DEF Keys, NoKey

LEMMA CellsAre ==
  /\ "0" \notin Cells /\ "1" \notin Cells /\ ~ Same("0", "1") /\ ~ Same("1", "0")
  /\ \A v : Same(v, v)
BY CellsAssumption DEF Cells, Same

LEMMA SnapshotIs ==
  ASSUME NEW s \in Snapshots
  PROVE  /\ DOMAIN s \subseteq BoardCourts
         /\ \A c \in DOMAIN s : s[c] \in Rows /\ s[c] # None /\ DOMAIN s[c] \subseteq Fields
<1>1. DOMAIN s \subseteq BoardCourts /\ \A c \in DOMAIN s : s[c] \in Rows
  BY DEF Snapshots
<1>2. QED
  BY <1>1, RowsAssumption

LEMMA ShownIs ==
  ASSUME snap \in Snapshots, NEW k \in Keys, k[2] = Present \/ k[1] \in DOMAIN snap
  PROVE  Shown(k) \in Texts
<1>1. CASE k[2] = Present
  BY <1>1 DEF Shown, Texts
<1>2. CASE k[2] # Present /\ k[1] \in DOMAIN snap
  <2>1. snap[k[1]] \in Rows
    BY <1>2, SnapshotIs
  <2>2. \A f \in DOMAIN snap[k[1]] : snap[k[1]][f] \in Cells
    BY <2>1, RowsAssumption
  <2>3. QED
    BY <1>2, <2>2 DEF Shown, Texts, Cells
<1>3. QED
  BY <1>1, <1>2

LEMMA DetInvInit == DetectorInit => DetInv
<1> SUFFICES ASSUME DetectorInit PROVE DetInv
  OBVIOUS
<1> USE DEF DetectorInit
<1>1. NoSnapshot \in Snapshots /\ DOMAIN NoSnapshot = {}
  BY DEF NoSnapshot, Snapshots
<1>2. DetTypes
  BY <1>1, DetectorBoundsAssumption DEF DetTypes
<1>3. Agenda /\ HandInv
  BY DEF Agenda, HandInv
<1>4. ASSUME NEW k \in Keys PROVE Fresh(k) /\ Chain(k)
  BY DEF Fresh, Pending, Chain
<1>5. FalseInv
  <2>1. FalseTraces = {}
    BY DEF FalseTraces
  <2>2. QED
    BY <2>1, FS_EmptySet DEF FalseInv
<1>6. Compared /\ Stored /\ Listed /\ Orphans
  <2>1. ~ InPoll
    BY DEF InPoll
  <2>2. Orphans
    BY KeysAre DEF Orphans
  <2>3. QED
    BY <2>1, <2>2 DEF Compared, Stored, Listed
<1>7. QED
  BY <1>2, <1>3, <1>4, <1>5, <1>6 DEF DetInv

-----------------------------------------------------------------------------
(* Steps that leave fields and traces as they are.                         *)

\* With fields and traces a chain stays whole, also when time goes on.
LEMMA ChainsStay ==
  ASSUME DetTypes, \A k \in Keys : Chain(k), UNCHANGED <<field, traces>>,
         observed' \in Nat, observed <= observed'
  PROVE  \A k \in Keys : Chain(k)'
<1> SUFFICES ASSUME NEW k \in Keys PROVE Chain(k)'
  OBVIOUS
<1>1. Chain(k) /\ traces[k] \in Seq(Trace) /\ observed \in Nat /\ (field[k] # None => field[k] \in State)
  BY DEF DetTypes
<1> DEFINE ts == traces[k]
           n == Len(ts)
<1>2. n \in Nat /\ \A i \in 1 .. n : ts[i] \in Trace
  BY <1>1
<1>3. \A i \in 1 .. n : ts[i].end \in Nat
  BY <1>2 DEF Trace
<1>4. field[k] # None => field[k].start \in Nat
  BY <1>1 DEF State
<1> HIDE DEF n
<1>5. QED
  BY <1>1, <1>2, <1>3, <1>4 DEF Chain, Follows, n

LEMMA DetBegin == DetInv /\ Begin => DetInv'
<1> SUFFICES ASSUME DetInv, Begin PROVE DetInv'
  OBVIOUS
<1>1. /\ ~ polling /\ polling' /\ observed < MaxPolls /\ observed' = observed + 1
      /\ snap' \in Snapshots
      /\ todo' = (DOMAIN snap' \cup known_courts) \X {Present}
      /\ unstored' = DOMAIN snap' /\ changes' = {} /\ before' = field
      /\ UNCHANGED <<current, field, traces, hand, last, halted>>
  BY DEF Begin
<1>2. DetTypes /\ Agenda /\ \A k \in Keys : Chain(k)
  BY DEF DetInv
<1>3. todo = {} /\ unstored = {} /\ hand = NoKey
  BY <1>1, <1>2 DEF Agenda
<1>4. observed \in Nat /\ observed' \in Nat /\ MaxPolls \in Nat /\ observed' <= MaxPolls /\ observed < observed'
  BY <1>1, <1>2, DetectorBoundsAssumption DEF DetTypes
<1>5. \A k \in todo' : k \in Keys /\ k[2] = Present
  <2>1. DOMAIN snap' \cup known_courts \subseteq BoardCourts
    BY <1>1, SnapshotIs DEF known_courts
  <2>2. QED
    BY <1>1, <2>1, KeysAre
<1>6. DetTypes'
  BY <1>1, <1>2, <1>4, <1>5 DEF DetTypes
<1>7. Agenda' /\ HandInv'
  BY <1>1, <1>3, <1>5 DEF Agenda, HandInv
<1>8. ASSUME NEW k \in Keys PROVE Fresh(k)'
  <2>1. Chain(k) /\ traces[k] \in Seq(Trace) /\ (field[k] # None => field[k] \in State)
    BY <1>2 DEF DetTypes
  <2> DEFINE ts == traces[k]
             n == Len(ts)
  <2>5. n \in Nat /\ \A i \in 1 .. n : ts[i] \in Trace
    BY <2>1
  <2>2. n \in Nat /\ \A i \in 1 .. n : ts[i].end \in Nat
    BY <2>5 DEF Trace
  <2>3. field[k] # None => field[k].start \in Nat
    BY <2>1 DEF State
  <2> HIDE DEF n
  <2>4. QED
    BY <1>1, <1>4, <2>1, <2>2, <2>3 DEF Fresh, Chain, n
<1>9. \A k \in Keys : Chain(k)'
  BY <1>1, <1>2, <1>4, ChainsStay
<1>10. FalseInv'
  <2>1. FalseTraces' = FalseTraces
    BY <1>1 DEF FalseTraces, Confirmed
  <2>2. FalseInv
    BY DEF DetInv
  <2>3. QED
    BY <1>1, <2>1, <2>2 DEF FalseInv
<1>11. Compared'
  <2>1. SUFFICES ASSUME NEW k \in Keys, Due(k)' PROVE k \in todo'
    BY DEF Compared
  <2>2. k[2] = Present /\ k[1] \in DOMAIN snap' \cup known_courts
    BY <1>1, <2>1 DEF Due, known_courts
  <2>3. QED
    BY <1>1, <2>2, KeysAre
<1>12. Stored'
  BY <1>1 DEF Stored
<1>13. Orphans'
  BY <1>1, <1>3 DEF DetInv, Orphans, known_courts
<1>14. Listed'
  <2>1. \A k \in Keys : ~ Changed(k)'
    BY <1>1 DEF Changed
  <2>2. QED
    BY <1>1, <2>1 DEF Listed
<1>15. QED
  BY <1>1, <1>6, <1>7, <1>8, <1>9, <1>10, <1>11, <1>12, <1>13, <1>14 DEF DetInv

LEMMA DetStoreRow == DetInv /\ (\E c \in BoardCourts : StoreRow(c)) => DetInv'
<1> SUFFICES ASSUME DetInv, NEW c \in BoardCourts, StoreRow(c) PROVE DetInv'
  OBVIOUS
<1>1. /\ hand = NoKey /\ c \in unstored /\ todo = {}
      /\ current' = [current EXCEPT ![c] = snap[c]]
      /\ unstored' = unstored \ {c}
      /\ todo' = {c} \X (DOMAIN snap[c] \cup list_field_names(c))
      /\ UNCHANGED <<field, traces, observed, polling, snap, hand, changes, last, halted, before>>
  BY DEF StoreRow
<1>2. DetTypes /\ Agenda /\ \A k \in Keys : Fresh(k) /\ Chain(k)
  BY DEF DetInv
<1>3. /\ c \in DOMAIN snap /\ snap[c] \in Rows /\ snap[c] # None
      /\ DOMAIN snap[c] \cup list_field_names(c) \subseteq Fields
  BY <1>1, <1>2, SnapshotIs DEF DetTypes, list_field_names
<1>4. \A k \in todo' : /\ k \in Keys /\ k[1] = c /\ k[2] \in Fields /\ k[2] # Present
                       /\ k[1] \in DOMAIN snap \ unstored'
  <2>1. \A k \in todo' : k[1] = c /\ k[2] \in Fields /\ k \in Keys
    BY <1>1, <1>3, KeysAre
  <2>2. QED
    BY <1>1, <1>3, <2>1, FieldsAssumption
<1>5. DetTypes'
  BY <1>1, <1>2, <1>3, <1>4 DEF DetTypes
<1>6. Agenda' /\ HandInv'
  <2>1. polling
    BY <1>1, <1>2 DEF Agenda
  <2>2. QED
    BY <1>1, <1>4, <2>1 DEF Agenda, HandInv
<1>7. ASSUME NEW k \in Keys PROVE Fresh(k)'
  <2>1. Pending(k)' => Pending(k)
    BY <1>1, <1>4 DEF Pending
  <2>2. QED
    BY <1>1, <1>2, <2>1 DEF Fresh
<1>8. \A k \in Keys : Chain(k)'
  <2>1. observed \in Nat
    BY <1>2 DEF DetTypes
  <2>2. QED
    BY <1>1, <1>2, <2>1, ChainsStay
<1>9. FalseInv'
  <2>1. FalseTraces' = FalseTraces
    BY <1>1 DEF FalseTraces, Confirmed
  <2>2. FalseInv
    BY DEF DetInv
  <2>3. QED
    BY <1>1, <2>1, <2>2 DEF FalseInv
<1>10. known_courts' = known_courts \cup {c}
  BY <1>1, <1>2, <1>3 DEF DetTypes, known_courts
<1>11. Compared'
  <2>1. SUFFICES ASSUME NEW k \in Keys, InPoll, Due(k)' PROVE k \in todo' \/ Done(k)'
    BY <1>1 DEF Compared, InPoll
  <2>2. Done(k)' <=> Done(k)
    BY <1>1 DEF Done, Shown
  <2>3. CASE Due(k)
    BY <1>1, <2>1, <2>2, <2>3 DEF DetInv, Compared
  <2>4. CASE ~ Due(k)
    <3>1. k[1] = c /\ k[2] # Present /\ (k[2] \in DOMAIN snap[c] \/ field[k] # None)
      BY <1>1, <1>3, <1>10, <2>1, <2>4 DEF Due
    <3>2. k = <<c, k[2]>> /\ k[2] \in Fields
      BY <3>1, KeysAre
    <3>3. k[2] \in DOMAIN snap[c] \cup list_field_names(c)
      BY <3>1, <3>2 DEF list_field_names
    <3>4. QED
      BY <1>1, <3>2, <3>3
  <2>5. QED
    BY <2>3, <2>4
<1>12. Stored'
  <2>1. \A d \in BoardCourts : current'[d] = IF d = c THEN snap[c] ELSE current[d]
    BY <1>1, <1>2 DEF DetTypes
  <2>2. DOMAIN snap \subseteq BoardCourts
    BY <1>2, SnapshotIs DEF DetTypes
  <2>3. QED
    BY <1>1, <2>1, <2>2 DEF DetInv, Stored, InPoll
<1>13. Orphans'
  BY <1>1, <1>10 DEF DetInv, Orphans
<1>14. Listed'
  BY <1>1 DEF DetInv, Listed, InPoll, ChangeOf, Changed
<1>15. QED
  BY <1>1, <1>5, <1>6, <1>7, <1>8, <1>9, <1>11, <1>12, <1>13, <1>14 DEF DetInv

LEMMA DetReturn == DetInv /\ Return => DetInv'
<1> SUFFICES ASSUME DetInv, Return PROVE DetInv'
  OBVIOUS
<1>1. /\ polling /\ hand = NoKey /\ todo = {} /\ unstored = {} /\ polling' = FALSE /\ last' = "returned"
      /\ UNCHANGED <<current, field, traces, observed, snap, todo, unstored, hand, changes, halted, before>>
  BY DEF Return
<1>2. DetTypes' /\ Agenda' /\ HandInv'
  BY <1>1 DEF DetInv, DetTypes, Agenda, HandInv
<1>3. \A k \in Keys : Fresh(k)' /\ Chain(k)'
  <2>1. observed \in Nat /\ DetTypes /\ \A k \in Keys : Chain(k)
    BY DEF DetInv, DetTypes
  <2>2. \A k \in Keys : Chain(k)'
    BY <1>1, <2>1, ChainsStay
  <2>3. QED
    BY <1>1, <2>2 DEF Fresh, Pending
<1>4. FalseInv'
  BY <1>1 DEF DetInv, FalseInv, FalseTraces, Confirmed
<1>5. Compared'
  <2>1. InPoll
    BY <1>1 DEF InPoll
  <2>2. \A k \in Keys : (Due(k)' <=> Due(k)) /\ (Done(k)' <=> Done(k))
    BY <1>1 DEF Due, Done, Shown, known_courts
  <2>3. QED
    BY <1>1, <2>1, <2>2 DEF DetInv, Compared
<1>6. Stored' /\ Orphans'
  BY <1>1 DEF DetInv, Stored, Orphans, InPoll, known_courts
<1>7. Listed'
  <2>1. InPoll
    BY <1>1 DEF InPoll
  <2>2. changes = {ChangeOf(k) : k \in {k \in Keys : Changed(k)}}
    BY <2>1 DEF DetInv, Listed
  <2>3. QED
    BY <1>1, <2>2 DEF Listed, ChangeOf, Changed
<1>8. QED
  BY <1>1, <1>2, <1>3, <1>4, <1>5, <1>6, <1>7 DEF DetInv

LEMMA DetStop == DetInv /\ Stop => DetInv'
<1> SUFFICES ASSUME DetInv, Stop PROVE DetInv'
  OBVIOUS
<1>1. /\ polling /\ halted' = halted + 1 /\ polling' = FALSE /\ last' = "stopped"
      /\ todo' = {} /\ unstored' = {} /\ hand' = NoKey /\ changes' = {}
      /\ UNCHANGED <<current, field, traces, observed, snap, before>>
  BY DEF Stop
<1>2. observed \in Nat /\ halted \in Nat /\ DetTypes /\ \A k \in Keys : Chain(k)
  BY DEF DetInv, DetTypes
<1>3. DetTypes' /\ Agenda' /\ HandInv'
  BY <1>1, <1>2 DEF DetTypes, Agenda, HandInv
<1>4. \A k \in Keys : Fresh(k)' /\ Chain(k)'
  <2>1. \A k \in Keys : Chain(k)'
    BY <1>1, <1>2, ChainsStay
  <2>2. QED
    BY <1>1, <2>1 DEF Fresh, Pending
<1>5. FalseInv'
  <2>1. FalseTraces' = FalseTraces
    BY <1>1 DEF FalseTraces, Confirmed
  <2>2. FalseInv /\ Cardinality(FalseTraces) \in Nat
    BY FS_CardinalityType DEF DetInv, FalseInv
  <2>3. QED
    BY <1>1, <1>2, <2>1, <2>2 DEF FalseInv
<1>6. ~ InPoll'
  BY <1>1 DEF InPoll
<1>7. Compared' /\ Stored' /\ Listed'
  BY <1>6 DEF Compared, Stored, Listed
<1>8. Orphans'
  <2>1. halted' > 0
    BY <1>1, <1>2
  <2>2. QED
    BY <2>1 DEF Orphans
<1>9. QED
  BY <1>1, <1>3, <1>4, <1>5, <1>7, <1>8 DEF DetInv

LEMMA DetSame == DetInv /\ UNCHANGED detectorVars => DetInv'
<1> SUFFICES ASSUME DetInv, UNCHANGED detectorVars PROVE DetInv'
  OBVIOUS
<1> USE DEF detectorVars, snapshotVars
<1>1. DetTypes' /\ Agenda' /\ HandInv' /\ polling' \in BOOLEAN
  BY DEF DetInv, DetTypes, Agenda, HandInv, Shown, OldTrace
<1>2. \A k \in Keys : Fresh(k)' /\ Chain(k)'
  BY DEF DetInv, Fresh, Pending, Chain, Follows
<1>3. FalseInv'
  BY DEF DetInv, FalseInv, FalseTraces, Confirmed
<1>4. Compared' /\ Stored' /\ Orphans'
  BY DEF DetInv, Compared, Stored, Orphans, InPoll, Due, Done, Shown, known_courts
<1>5. Listed'
  BY DEF DetInv, Listed, InPoll, ChangeOf, Changed
<1>6. QED
  BY <1>1, <1>2, <1>3, <1>4, <1>5 DEF DetInv

-----------------------------------------------------------------------------
(* Steps that compare one key.                                             *)

\* A key in todo is one of Keys, of which the board shows a text.
LEMMA TodoIs ==
  ASSUME DetInv, NEW y \in todo
  PROVE  /\ y \in Keys /\ Shown(y) \in Texts /\ polling /\ Pending(y)
         /\ observed \in Nat /\ observed <= MaxPolls
         /\ field[y] # None => field[y] \in State
         /\ field[y] = before[y]
         /\ traces[y] \in Seq(Trace)
<1>1. y \in Keys /\ traces[y] \in Seq(Trace) /\ (field[y] # None => field[y] \in State)
  BY DEF DetInv, DetTypes
<1>2. Shown(y) \in Texts
  <2>1. y[2] = Present \/ y[1] \in DOMAIN snap
    BY DEF DetInv, Agenda
  <2>2. QED
    BY <1>1, <2>1, ShownIs DEF DetInv, DetTypes
<1>3. polling
  BY DEF DetInv, Agenda
<1>4. Pending(y) /\ field[y] = before[y]
  BY <1>1 DEF DetInv, Fresh, Pending
<1>5. QED
  BY <1>1, <1>2, <1>3, <1>4 DEF DetInv, DetTypes

\* What every comparison does: the key is done, whatever the state that is stored for it.
LEMMA OneCompared ==
  ASSUME DetInv, NEW y \in todo, NEW s \in State,
         s.seen = observed, Same(s.value, Shown(y)),
         field' = [field EXCEPT ![y] = s], todo' = todo \ {y}, hand = NoKey \/ hand = y, hand' = NoKey,
         UNCHANGED <<current, traces, observed, polling, snap, unstored, last, halted, before>>
  PROVE  /\ Agenda' /\ HandInv' /\ Compared' /\ Stored' /\ Orphans'
         /\ \A k \in Keys : Fresh(k)'
         /\ \A k \in Keys : field'[k] = IF k = y THEN s ELSE field[k]
<1>1. y \in Keys /\ polling
  BY TodoIs
<1>2. \A k \in Keys : field'[k] = IF k = y THEN s ELSE field[k]
  BY <1>1 DEF DetInv, DetTypes
<1>3. Agenda' /\ HandInv' /\ Stored'
  BY <1>1 DEF DetInv, Agenda, HandInv, Stored, InPoll
<1>4. s # None
  BY StateAssumption
<1>5. Compared'
  <2>1. SUFFICES ASSUME NEW k \in Keys, Due(k)' PROVE k \in todo' \/ Done(k)'
    BY DEF Compared
  <2>2. CASE k = y
    BY <1>2, <1>4, <2>2 DEF Done, Shown
  <2>3. CASE k # y
    <3>1. field'[k] = field[k]
      BY <1>2, <2>3
    <3>2. Due(k) /\ (Done(k) => Done(k)')
      BY <2>1, <3>1 DEF Due, Done, Shown, known_courts
    <3>3. k \in todo \/ Done(k)
      BY <1>1, <3>2 DEF DetInv, Compared, InPoll
    <3>4. QED
      BY <2>3, <3>2, <3>3
  <2>4. QED
    BY <2>2, <2>3
<1>6. Orphans'
  <2>1. SUFFICES ASSUME NEW c \in BoardCourts, c \notin known_courts,
                        field'[<<c, Present>>] # None, field'[<<c, Present>>].value = "1"
                 PROVE  halted > 0 \/ c \in unstored
    BY DEF Orphans, known_courts
  <2>2. <<c, Present>> \in Keys /\ <<c, Present>>[1] = c /\ <<c, Present>>[2] = Present
    BY KeysAre
  <2>3. CASE <<c, Present>> = y
    <3>1. Same("1", Shown(y))
      BY <1>2, <2>1, <2>2, <2>3
    <3>2. c \in DOMAIN snap
      BY <2>2, <2>3, <3>1, CellsAre DEF Shown
    <3>3. CASE c \notin unstored
      <4>1. current[c] = snap[c]
        BY <1>1, <3>2, <3>3 DEF DetInv, Stored, InPoll
      <4>2. snap[c] # None
        BY <3>2, SnapshotIs DEF DetInv, DetTypes
      <4>3. QED
        BY <2>1, <4>1, <4>2 DEF known_courts
    <3>4. QED
      BY <3>3
  <2>4. CASE <<c, Present>> # y
    BY <1>2, <2>1, <2>2, <2>4 DEF DetInv, Orphans
  <2>5. QED
    BY <2>3, <2>4
<1>7. ASSUME NEW k \in Keys PROVE Fresh(k)'
  <2>1. CASE k = y
    <3>1. ~ Pending(y)'
      <4>1. y[2] # Present => y[1] \notin unstored
        BY DEF DetInv, Agenda
      <4>2. QED
        BY <4>1 DEF Pending
    <3>2. QED
      BY <2>1, <3>1 DEF Fresh
  <2>2. CASE k # y
    <3>1. field'[k] = field[k] /\ (Pending(k)' => Pending(k))
      BY <1>2, <2>2 DEF Pending
    <3>2. Fresh(k) /\ k # hand
      BY <2>2, KeysAre DEF DetInv
    <3>3. QED
      BY <3>1, <3>2 DEF Fresh
  <2>3. QED
    BY <2>1, <2>2
<1>8. QED
  BY <1>2, <1>3, <1>5, <1>6, <1>7

\* A chain depends on the start and the value of the key's state only.
LEMMA ChainSame ==
  ASSUME NEW k, Chain(k), traces'[k] = traces[k], observed' = observed,
         field'[k] = None <=> field[k] = None,
         field'[k].start = field[k].start, field'[k].value = field[k].value
  PROVE  Chain(k)'
BY DEF Chain, Follows

LEMMA FalseSame ==
  ASSUME DetInv, UNCHANGED <<traces, halted>>, (hand' = NoKey <=> hand = NoKey),
         \A k \in Keys : Len(traces[k]) > 0 => field'[k].start = field[k].start
  PROVE  FalseInv'
<1>1. FalseTraces' = FalseTraces
  <2>1. ASSUME NEW k \in Keys, NEW i \in 1 .. MaxPolls, i \in DOMAIN traces[k]
        PROVE  Confirmed(k, traces[k][i])' <=> Confirmed(k, traces[k][i])
    <3>1. Len(traces[k]) > 0
      BY <2>1 DEF DetInv, DetTypes
    <3>2. QED
      BY <3>1 DEF Confirmed
  <2>2. FalseTraces' = {x \in Keys \X (1 .. MaxPolls) :
                          x[2] \in DOMAIN traces[x[1]] /\ ~ Confirmed(x[1], traces[x[1]][x[2]])'}
    BY DEF FalseTraces
  <2>3. \A x \in Keys \X (1 .. MaxPolls) : x[1] \in Keys /\ x[2] \in 1 .. MaxPolls
    OBVIOUS
  <2>4. QED
    BY <2>1, <2>2, <2>3 DEF FalseTraces
<1>2. QED
  BY <1>1 DEF DetInv, FalseInv

\* The changes stay the same when no value of a key that had one before does.
LEMMA ListedSame ==
  ASSUME DetInv, UNCHANGED <<before, observed, changes, polling, last>>,
         \A k \in Keys : before[k] # None => field'[k].value = field[k].value
  PROVE  Listed'
<1>1. SUFFICES ASSUME InPoll PROVE changes = {ChangeOf(k) : k \in {k \in Keys : Changed(k)}}'
  BY DEF Listed, InPoll
<1>2. \A k \in Keys : (Changed(k)' <=> Changed(k)) /\ (Changed(k) => ChangeOf(k)' = ChangeOf(k))
  BY DEF Changed, ChangeOf
<1>3. changes = {ChangeOf(k) : k \in {k \in Keys : Changed(k)}}
  BY <1>1 DEF DetInv, Listed
<1>4. QED
  BY <1>2, <1>3

LEMMA DetFirstSeen == DetInv /\ (\E k \in Keys : FirstSeen(k)) => DetInv'
<1> SUFFICES ASSUME DetInv, NEW y \in Keys, FirstSeen(y) PROVE DetInv'
  OBVIOUS
<1> DEFINE s == [value |-> Shown(y), start |-> observed, seen |-> observed]
<1>1. /\ hand = NoKey /\ y \in todo /\ field[y] = None
      /\ field' = [field EXCEPT ![y] = s] /\ todo' = todo \ {y}
      /\ UNCHANGED <<current, traces, observed, polling, snap, unstored, hand, changes,
                     last, halted, before>>
  BY DEF FirstSeen, upsert_field_state
<1>2. /\ Shown(y) \in Texts /\ observed \in Nat /\ before[y] = None /\ traces[y] \in Seq(Trace)
  BY <1>1, TodoIs
<1>3. s \in State
  BY <1>2 DEF State, Texts
<1>4. s.value = Shown(y) /\ s.start = observed /\ s.seen = observed /\ Same(s.value, Shown(y))
  BY CellsAre
<1> HIDE DEF s
<1>5. /\ Agenda' /\ HandInv' /\ Compared' /\ Stored' /\ Orphans'
      /\ \A k \in Keys : Fresh(k)'
      /\ \A k \in Keys : field'[k] = IF k = y THEN s ELSE field[k]
  BY <1>1, <1>3, <1>4, OneCompared
<1>6. s # None /\ Len(traces[y]) = 0 /\ Chain(y)
  BY <1>1, <1>3, StateAssumption DEF DetInv, Chain
<1>7. ASSUME NEW k \in Keys PROVE Chain(k)'
  <2>1. CASE k = y
    BY <1>1, <1>2, <1>4, <1>5, <1>6, <2>1 DEF Chain
  <2>2. CASE k # y
    BY <1>1, <1>5, <2>2, ChainSame DEF DetInv
  <2>3. QED
    BY <2>1, <2>2
<1>8. FalseInv'
  BY <1>1, <1>5, <1>6, FalseSame
<1>9. Listed'
  BY <1>1, <1>2, <1>5, ListedSame
<1>10. DetTypes'
  BY <1>1, <1>3 DEF DetInv, DetTypes
<1>11. QED
  BY <1>1, <1>5, <1>7, <1>8, <1>9, <1>10 DEF DetInv

LEMMA DetSeenAgain == DetInv /\ (\E k \in Keys : SeenAgain(k)) => DetInv'
<1> SUFFICES ASSUME DetInv, NEW y \in Keys, SeenAgain(y) PROVE DetInv'
  OBVIOUS
<1> DEFINE s == [field[y] EXCEPT !.seen = observed]
<1>1. /\ hand = NoKey /\ y \in todo /\ field[y] # None /\ Same(field[y].value, Shown(y))
      /\ field' = [field EXCEPT ![y] = s] /\ todo' = todo \ {y}
      /\ UNCHANGED <<current, traces, observed, polling, snap, unstored, hand, changes,
                     last, halted, before>>
  BY DEF SeenAgain
<1>2. field[y] \in State /\ observed \in Nat
  BY <1>1, TodoIs
<1>3. s \in State /\ s.seen = observed /\ s.value = field[y].value /\ s.start = field[y].start
  BY <1>2 DEF State
<1> HIDE DEF s
<1>4. Same(s.value, Shown(y)) /\ s # None
  BY <1>1, <1>3, StateAssumption
<1>5. /\ Agenda' /\ HandInv' /\ Compared' /\ Stored' /\ Orphans'
      /\ \A k \in Keys : Fresh(k)'
      /\ \A k \in Keys : field'[k] = IF k = y THEN s ELSE field[k]
  BY <1>1, <1>3, <1>4, OneCompared
<1>6. \A k \in Keys : /\ field'[k] = None <=> field[k] = None
                     /\ field'[k].start = field[k].start /\ field'[k].value = field[k].value
  BY <1>1, <1>3, <1>4, <1>5
<1>7. ASSUME NEW k \in Keys PROVE Chain(k)'
  <2>1. Chain(k) /\ traces'[k] = traces[k]
    BY <1>1 DEF DetInv
  <2>2. QED
    BY <1>1, <1>6, <2>1, ChainSame
<1>8. FalseInv'
  BY <1>1, <1>6, FalseSame
<1>9. Listed'
  BY <1>1, <1>6, ListedSame
<1>10. DetTypes'
  BY <1>1, <1>3 DEF DetInv, DetTypes
<1>11. QED
  BY <1>1, <1>5, <1>7, <1>8, <1>9, <1>10 DEF DetInv

LEMMA DetInsertTrace == DetInv /\ (\E k \in Keys : InsertTrace(k)) => DetInv'
<1> SUFFICES ASSUME DetInv, NEW y \in Keys, InsertTrace(y) PROVE DetInv'
  OBVIOUS
<1> DEFINE t == OldTrace(y)
           ts == traces[y]
           n == Len(ts)
<1>1. /\ hand = NoKey /\ y \in todo /\ field[y] # None /\ ~ Same(field[y].value, Shown(y))
      /\ traces' = [traces EXCEPT ![y] = Append(ts, t)] /\ hand' = y
      /\ UNCHANGED <<current, field, observed, polling, snap, todo, unstored, changes,
                     last, halted, before>>
  BY DEF InsertTrace
<1>2. /\ field[y] \in State /\ observed \in Nat /\ observed <= MaxPolls /\ Shown(y) \in Texts
      /\ ts \in Seq(Trace) /\ polling /\ Pending(y) /\ y # NoKey
  BY <1>1, TodoIs, KeysAre
<1>3. t \in Trace /\ t.old = field[y].value /\ t.new = Shown(y) /\ t.start = field[y].start /\ t.end = observed
  BY <1>2 DEF OldTrace, State, Trace, Texts
<1>4. /\ n \in Nat /\ n < observed /\ field[y].start < observed /\ field[y].start \in Nat
      /\ \A i \in 1 .. n : ts[i].end < observed
  BY <1>1, <1>2, KeysAre DEF DetInv, Fresh, State
<1> HIDE DEF t
<1> DEFINE us == Append(ts, t)
<1>5. us \in Seq(Trace) /\ Len(us) = n + 1 /\ us[n + 1] = t /\ \A i \in 1 .. n : us[i] = ts[i]
  BY <1>2, <1>3
<1>6. \A k \in Keys : traces'[k] = IF k = y THEN us ELSE traces[k]
  BY <1>1 DEF DetInv, DetTypes
<1> HIDE DEF us
<1>7. DetTypes'
  <2>1. traces' \in [Keys -> Seq(Trace)]
    BY <1>1, <1>5 DEF DetInv, DetTypes, us
  <2>2. QED
    BY <1>1, <2>1 DEF DetInv, DetTypes
<1>8. Agenda' /\ HandInv'
  <2>1. OldTrace(y)' = t
    BY <1>1 DEF OldTrace, Shown, t
  <2>2. Shown(y)' = Shown(y)
    BY <1>1 DEF Shown
  <2>3. traces'[y] = us
    BY <1>6
  <2>6. \A i \in 1 .. Len(us) - 1 : us[i].end < observed
    BY <1>4, <1>5
  <2>4. HandInv'
    BY <1>1, <1>4, <1>5, <2>1, <2>2, <2>3, <2>6 DEF HandInv
  <2>5. QED
    BY <1>1, <1>2, <2>4 DEF DetInv, Agenda
<1>9. ASSUME NEW k \in Keys PROVE Fresh(k)'
  <2>1. Pending(k)' => Pending(k)
    BY <1>1 DEF Pending
  <2>2. Fresh(k) /\ k # NoKey
    BY KeysAre DEF DetInv
  <2>3. CASE k = y
    BY <1>1, <2>1, <2>2, <2>3 DEF Fresh
  <2>4. CASE k # y
    BY <1>1, <1>6, <2>1, <2>2, <2>4 DEF Fresh
  <2>5. QED
    BY <2>3, <2>4
<1>10. ASSUME NEW k \in Keys PROVE Chain(k)'
  <2>1. CASE k # y
    <3>1. Chain(k) /\ traces'[k] = traces[k]
      BY <1>6, <2>1 DEF DetInv
    <3>2. QED
      BY <1>1, <3>1, ChainSame
  <2>2. CASE k = y
    <3>1. Chain(y) /\ traces'[y] = us
      BY <1>6 DEF DetInv
    <3>2. Len(us) <= observed /\ Len(us) # 0
      BY <1>2, <1>4, <1>5
    <3>3. \A i \in 1 .. n : /\ ts[i].end < observed /\ ts[i].end \in Nat /\ ts[i].start <= field[y].start
      <4>1. \A i \in 1 .. n : ts[i] \in Trace
        BY <1>2
      <4>2. QED
        BY <1>4, <3>1, <4>1 DEF Chain, Trace
    <3>4. \A i \in 1 .. n + 1 : us[i].end <= observed /\ us[i].start <= field[y].start
      <4>1. SUFFICES ASSUME NEW i \in 1 .. n + 1 PROVE us[i].end <= observed /\ us[i].start <= field[y].start
        OBVIOUS
      <4>2. CASE i \in 1 .. n
        BY <1>2, <1>5, <3>3, <4>2
      <4>3. CASE i = n + 1
        BY <1>2, <1>3, <1>4, <1>5, <4>3
      <4>4. QED
        BY <1>4, <4>2, <4>3
    <3>5. n > 0 => Follows(ts[n], t)
      <4>1. SUFFICES ASSUME n > 0 PROVE Follows(ts[n], t)
        OBVIOUS
      <4>2. \/ field[y].start = ts[n].end /\ field[y].value = ts[n].new
            \/ field[y].start = ts[n].start /\ field[y].value = ts[n].old
        BY <3>1, <4>1 DEF Chain
      <4>3. ts[n].end < observed
        BY <1>4, <4>1
      <4>4. ts[n].end \in Nat
        BY <1>4, <3>3, <4>1
      <4>5. QED
        BY <1>2, <1>3, <4>2, <4>3, <4>4 DEF Follows
    <3>6. \A i \in 1 .. n : Follows(us[i], us[i + 1])
      <4>1. SUFFICES ASSUME NEW i \in 1 .. n PROVE Follows(us[i], us[i + 1])
        OBVIOUS
      <4>2. CASE i = n
        BY <1>4, <1>5, <3>5, <4>2
      <4>3. CASE i # n
        <5>1. i \in 1 .. n - 1 /\ i + 1 \in 1 .. n
          BY <1>4, <4>3
        <5>2. Follows(ts[i], ts[i + 1])
          BY <3>1, <5>1 DEF Chain
        <5>3. QED
          BY <1>5, <5>1, <5>2
      <4>4. QED
        BY <4>2, <4>3
    <3>7. Len(us) - 1 = n /\ us[Len(us)] = t
      BY <1>4, <1>5
    <3> HIDE DEF n
    <3>8. QED
      BY <1>1, <1>2, <1>3, <1>4, <1>5, <2>2, <3>1, <3>2, <3>4, <3>6, <3>7 DEF Chain, Follows
  <2>3. QED
    BY <2>1, <2>2
<1>11. FalseInv'
  <2> DEFINE x == <<y, n + 1>>
  <2>1. \A z \in FalseTraces' : z \in FalseTraces \/ z = x
    <3>1. SUFFICES ASSUME NEW z \in FalseTraces', z # x PROVE z \in FalseTraces
      OBVIOUS
    <3>2. PICK k \in Keys, i \in 1 .. MaxPolls : z = <<k, i>>
      BY <3>1 DEF FalseTraces
    <3>3. i \in DOMAIN traces'[k] /\ ~ Confirmed(k, traces[k][i])'
      BY <3>1, <3>2 DEF FalseTraces
    <3>4. i \in DOMAIN traces[k] /\ traces'[k][i] = traces[k][i]
      <4>1. CASE k = y
        <5>1. i \in 1 .. n + 1 /\ i # n + 1
          BY <1>5, <1>6, <3>1, <3>2, <3>3, <4>1
        <5>2. i \in 1 .. n
          BY <1>4, <5>1
        <5>3. QED
          BY <1>2, <1>5, <1>6, <4>1, <5>2
      <4>2. CASE k # y
        BY <1>6, <3>3, <4>2
      <4>3. QED
        BY <4>1, <4>2
    <3>5. ~ Confirmed(k, traces[k][i])
      <4>1. \A j \in DOMAIN traces[k] : j \in DOMAIN traces'[k] /\ traces'[k][j] = traces[k][j]
        <5>1. CASE k = y
          <6>1. DOMAIN us = 1 .. n + 1 /\ DOMAIN ts = 1 .. n
            BY <1>2, <1>5
          <6>2. QED
            BY <1>4, <1>5, <1>6, <5>1, <6>1
        <5>2. CASE k # y
          BY <1>6, <5>2
        <5>3. QED
          BY <5>1, <5>2
      <4>2. QED
        BY <1>1, <3>3, <3>4, <4>1 DEF Confirmed
    <3>6. QED
      BY <3>2, <3>4, <3>5 DEF FalseTraces
  <2>2. FalseTraces' \subseteq FalseTraces \cup {x}
    BY <2>1
  <2>3. IsFiniteSet(FalseTraces) /\ Cardinality(FalseTraces) <= halted /\ halted \in Nat
    BY <1>1 DEF DetInv, FalseInv, DetTypes
  <2> DEFINE F == FalseTraces
             G == FalseTraces'
  <2> HIDE DEF x, F, G
  <2>4. Cardinality(G) \in Nat /\ Cardinality(F) \in Nat /\ Cardinality(G) <= Cardinality(F) + 1
    BY <2>2, <2>3, GrowsByOne DEF F, G
  <2>5. IsFiniteSet(G)
    <3>1. IsFiniteSet(F \cup {x}) /\ G \subseteq F \cup {x}
      BY <2>2, <2>3, FS_AddElement DEF F, G
    <3>2. QED
      BY <3>1, FS_Subset
  <2>6. Cardinality(G) <= halted + 1
    BY <2>3, <2>4 DEF F
  <2>7. QED
    BY <1>1, <1>2, <2>5, <2>6 DEF FalseInv, G
<1>12. Compared' /\ Stored' /\ Orphans' /\ Listed'
  <2>1. Compared' /\ Stored' /\ Orphans'
    BY <1>1 DEF DetInv, Compared, Stored, Orphans, InPoll, Due, Done, Shown, known_courts
  <2>2. QED
    BY <1>1, <2>1, ListedSame
<1>13. QED
  BY <1>1, <1>7, <1>8, <1>9, <1>10, <1>11, <1>12 DEF DetInv

LEMMA DetUpdateState == DetInv /\ UpdateState => DetInv'
<1> SUFFICES ASSUME DetInv, UpdateState PROVE DetInv'
  OBVIOUS
<1>0. PICK y : y = hand
  OBVIOUS
<1> DEFINE s == [value |-> Shown(y), start |-> observed, seen |-> observed]
           ts == traces[y]
           n == Len(ts)
<1>1. /\ hand # NoKey /\ hand' = NoKey
      /\ changes' = changes \cup {[key |-> y, trace |-> OldTrace(y)]}
      /\ field' = [field EXCEPT ![y] = s] /\ todo' = todo \ {y}
      /\ UNCHANGED <<current, traces, observed, polling, snap, unstored, last, halted, before>>
  BY <1>0 DEF UpdateState, upsert_field_state
<1>2. /\ y \in todo /\ field[y] # None /\ ~ Same(field[y].value, Shown(y))
      /\ n > 0 /\ ts[n] = OldTrace(y)
  BY <1>0, <1>1 DEF DetInv, HandInv
<1>3. /\ y \in Keys /\ field[y] \in State /\ field[y] = before[y] /\ ts \in Seq(Trace)
      /\ observed \in Nat /\ observed <= MaxPolls /\ Shown(y) \in Texts /\ Pending(y) /\ polling
  BY <1>2, TodoIs
<1>4. /\ s \in State /\ s.value = Shown(y) /\ s.start = observed /\ s.seen = observed
      /\ Same(s.value, Shown(y)) /\ s # None
  BY <1>3, CellsAre, StateAssumption DEF State, Texts
<1>5. /\ n \in Nat /\ ts[n] \in Trace
      /\ ts[n].old = field[y].value /\ ts[n].new = Shown(y)
      /\ ts[n].start = field[y].start /\ ts[n].end = observed
  BY <1>2, <1>3 DEF OldTrace
<1>6. /\ Chain(y) /\ field[y].start < observed /\ field[y].start \in Nat /\ n <= observed
  BY <1>2, <1>3 DEF DetInv, Chain, Fresh, State
<1> HIDE DEF s
<1>7. /\ Agenda' /\ HandInv' /\ Compared' /\ Stored' /\ Orphans'
      /\ \A k \in Keys : Fresh(k)'
      /\ \A k \in Keys : field'[k] = IF k = y THEN s ELSE field[k]
  BY <1>0, <1>1, <1>2, <1>4, OneCompared
<1>8. ASSUME NEW k \in Keys PROVE Chain(k)'
  <2>1. CASE k # y
    <3>1. Chain(k) /\ traces'[k] = traces[k] /\ field'[k] = field[k]
      BY <1>1, <1>7, <2>1 DEF DetInv
    <3>2. QED
      BY <1>1, <3>1, ChainSame
  <2>2. CASE k = y
    <3>1. \A i \in 1 .. n : ts[i].end <= observed /\ ts[i].start <= observed
      <4>1. SUFFICES ASSUME NEW i \in 1 .. n PROVE ts[i].end <= observed /\ ts[i].start <= observed
        OBVIOUS
      <4>2. ts[i] \in Trace /\ ts[i].end <= observed /\ ts[i].start <= field[y].start
        BY <1>3, <1>6 DEF Chain
      <4>3. ts[i].start \in Nat
        BY <4>2 DEF Trace
      <4>4. QED
        BY <1>3, <1>6, <4>2, <4>3
    <3>2. field'[y] = s /\ traces'[y] = ts
      BY <1>1, <1>3, <1>7
    <3>3. \A i \in 1 .. n - 1 : Follows(ts[i], ts[i + 1])
      BY <1>6 DEF Chain
    <3> HIDE DEF n
    <3>4. QED
      BY <1>1, <1>3, <1>4, <1>5, <1>6, <2>2, <3>1, <3>2, <3>3 DEF Chain, Follows, n
  <2>3. QED
    BY <2>1, <2>2
<1>9. FalseInv'
  <2> DEFINE x == <<y, n>>
             F == FalseTraces
             G == FalseTraces'
  <2>1. \A i \in 1 .. n : ts[i] \in Trace /\ ts[i].start <= field[y].start
    BY <1>3, <1>6 DEF Chain
  <2>2. \A i \in 1 .. n : ts[i].start # observed
    <3>1. SUFFICES ASSUME NEW i \in 1 .. n, ts[i].start = observed PROVE FALSE
      OBVIOUS
    <3>2. QED
      BY <1>3, <1>6, <2>1, <3>1
  <2>3. ~ Confirmed(y, ts[n])
    <3>1. DOMAIN ts = 1 .. n
      BY <1>3
    <3>2. QED
      BY <1>3, <1>5, <1>6, <2>2, <3>1 DEF Confirmed
  <2>4. x \in F
    <3>1. n \in 1 .. MaxPolls /\ n \in DOMAIN ts
      BY <1>2, <1>3, <1>5, <1>6, DetectorBoundsAssumption
    <3>2. QED
      BY <1>3, <2>3, <3>1 DEF FalseTraces
  <2>5. \A z \in FalseTraces' : z \in FalseTraces /\ z # x
    <3>1. SUFFICES ASSUME NEW z \in FalseTraces' PROVE z \in FalseTraces /\ z # x
      OBVIOUS
    <3>2. PICK k \in Keys, i \in 1 .. MaxPolls : z = <<k, i>>
      BY <3>1 DEF FalseTraces
    <3>3. i \in DOMAIN traces[k] /\ ~ Confirmed(k, traces[k][i])'
      BY <1>1, <3>1, <3>2 DEF FalseTraces
    <3>4. CASE k # y
      <4>1. ~ Confirmed(k, traces[k][i])
        BY <1>1, <1>7, <3>3, <3>4 DEF Confirmed
      <4>2. QED
        BY <3>2, <3>3, <3>4, <4>1 DEF FalseTraces
    <3>5. CASE k = y
      <4>1. field'[y].start = observed
        BY <1>3, <1>4, <1>7
      <4>2. ts[i].end # observed /\ \A j \in DOMAIN ts : ts[j].start # ts[i].end
        BY <1>1, <3>3, <3>5, <4>1 DEF Confirmed
      <4>3. i # n
        BY <1>5, <4>2
      <4>4. ts[n].start # ts[i].end
        BY <1>2, <1>3, <1>5, <4>2
      <4>5. ~ Confirmed(y, ts[i])
        BY <1>5, <4>2, <4>4 DEF Confirmed
      <4>6. QED
        BY <3>2, <3>3, <3>5, <4>3, <4>5 DEF FalseTraces
    <3>6. QED
      BY <3>4, <3>5
  <2>6. G \subseteq F \ {x}
    BY <2>5
  <2>7. IsFiniteSet(F) /\ Cardinality(F) <= halted + 1 /\ halted \in Nat
    BY DEF DetInv, FalseInv, DetTypes
  <2> HIDE DEF x, F, G
  <2>8. Cardinality(G) \in Nat /\ Cardinality(F) \in Nat /\ Cardinality(G) <= Cardinality(F) - 1
    BY <2>4, <2>6, <2>7, ShrinksByOne
  <2>9. IsFiniteSet(G)
    BY <2>6, <2>7, FS_Subset
  <2>10. Cardinality(G) <= halted
    BY <2>7, <2>8
  <2>11. QED
    BY <1>1, <2>7, <2>8, <2>9, <2>10 DEF FalseInv, G
<1>10. Listed'
  <2>1. SUFFICES ASSUME InPoll PROVE changes' = {ChangeOf(k) : k \in {k \in Keys : Changed(k)}}'
    BY <1>1 DEF Listed, InPoll
  <2> DEFINE e == [key |-> y, trace |-> OldTrace(y)]
  <2>2. changes = {ChangeOf(k) : k \in {k \in Keys : Changed(k)}}
    BY <2>1 DEF DetInv, Listed
  <2>3. \A k \in Keys : k # y => (Changed(k)' <=> Changed(k)) /\ ChangeOf(k)' = ChangeOf(k)
    BY <1>1, <1>7 DEF Changed, ChangeOf
  <2>4. ~ Changed(y)
    BY <1>3 DEF Changed
  <2>5. Changed(y)' /\ ChangeOf(y)' = e
    <3>1. field'[y] = s /\ before'[y] = field[y]
      BY <1>1, <1>3, <1>7
    <3>2. s.value # field[y].value
      BY <1>2, <1>4, CellsAre
    <3>3. QED
      BY <1>1, <1>2, <1>4, <3>1, <3>2 DEF Changed, ChangeOf, OldTrace
  <2>6. changes' = changes \cup {e}
    BY <1>1
  <2> HIDE DEF e
  <2>7. {ChangeOf(k) : k \in {k \in Keys : Changed(k)}}' = changes \cup {e}
    <3> DEFINE A == {k \in Keys : Changed(k)}
               B == {k \in Keys : Changed(k)'}
    <3>1. B = A \cup {y}
      BY <1>3, <2>3, <2>4, <2>5
    <3>2. \A k \in A : ChangeOf(k)' = ChangeOf(k)
      BY <2>3, <2>4
    <3>3. {ChangeOf(k) : k \in {k \in Keys : Changed(k)}}' = {ChangeOf(k)' : k \in B}
      OBVIOUS
    <3> HIDE DEF A, B
    <3>4. changes = {ChangeOf(k) : k \in A}
      BY <2>2 DEF A
    <3>5. {ChangeOf(k)' : k \in B} = {ChangeOf(k) : k \in A} \cup {e}
      BY <2>5, <3>1, <3>2
    <3>6. QED
      BY <3>3, <3>4, <3>5
  <2>8. QED
    BY <2>6, <2>7
<1>11. DetTypes'
  <2>1. \A ch \in changes' : ch.key \in Keys /\ ch.trace \in Trace
    BY <1>1, <1>2, <1>3, <1>5 DEF DetInv, DetTypes
  <2>2. field' \in [Keys -> State \cup {None}] /\ todo' \subseteq Keys
    BY <1>1, <1>4 DEF DetInv, DetTypes
  <2>3. QED
    BY <1>1, <2>1, <2>2 DEF DetInv, DetTypes
<1>12. QED
  BY <1>1, <1>7, <1>8, <1>9, <1>10, <1>11 DEF DetInv

-----------------------------------------------------------------------------
(* What the invariant says of the board and its history.                   *)

LEMMA DetInvNext == DetInv /\ [DetectorNext]_detectorVars => DetInv'
BY DetBegin, DetStoreRow, DetFirstSeen, DetSeenAgain, DetInsertTrace, DetUpdateState, DetReturn,
   DetStop, DetSame DEF DetectorNext

LEMMA DetInvTypes == DetInv => DetectorTypeOK
BY DEF DetInv, DetTypes, HandInv, DetectorTypeOK

LEMMA DetInvTraces == DetInv => TracesKept
<1> SUFFICES ASSUME DetInv PROVE TracesKept
  OBVIOUS
<1>1. ASSUME NEW k \in Keys
      PROVE  LET ts == traces[k]
                 n == Len(ts)
             IN  /\ \A i \in 1 .. n - 1 : Follows(ts[i], ts[i + 1])
                 /\ n > 0 => Follows(ts[n], [start |-> field[k].start, old |-> field[k].value,
                                             end |-> observed + 1])
  <2> DEFINE ts == traces[k]
             n == Len(ts)
  <2>1. Chain(k) /\ ts \in Seq(Trace) /\ observed \in Nat
    BY DEF DetInv, DetTypes
  <2>2. ASSUME n > 0
        PROVE  Follows(ts[n], [start |-> field[k].start, old |-> field[k].value, end |-> observed + 1])
    <3>1. n \in Nat /\ n \in 1 .. n
      BY <2>1, <2>2
    <3>2. ts[n] \in Trace
      BY <2>1, <3>1
    <3>3. ts[n].end \in Nat /\ ts[n].end <= observed
      BY <2>1, <3>1, <3>2 DEF Trace, Chain
    <3>4. \/ field[k].start = ts[n].end /\ field[k].value = ts[n].new
          \/ field[k].start = ts[n].start /\ field[k].value = ts[n].old
      BY <2>1, <2>2 DEF Chain
    <3>5. QED
      BY <2>1, <3>3, <3>4 DEF Follows
  <2>3. \A i \in 1 .. n - 1 : Follows(ts[i], ts[i + 1])
    BY <2>1 DEF Chain
  <2>4. QED
    BY <2>2, <2>3
<1>2. TraceChain
  BY <1>1 DEF TraceChain
<1>3. FalseTracesBounded
  <2>1. /\ hand = NoKey => Cardinality(FalseTraces) <= halted
        /\ Cardinality(FalseTraces) <= halted + 1 /\ halted \in Nat
    BY DEF DetInv, FalseInv, DetTypes
  <2>2. QED
    BY <2>1 DEF FalseTracesBounded
<1>4. QED
  BY <1>2, <1>3 DEF TracesKept

LEMMA DetInvBoard == DetInv => StateFollowsBoard /\ ChangesComplete
<1> SUFFICES ASSUME DetInv, ~ polling, last = "returned"
             PROVE  StateFollowsBoard /\ ChangesComplete
  BY DEF StateFollowsBoard, ChangesComplete
<1>1. InPoll /\ todo = {} /\ unstored = {} /\ snap \in Snapshots
  BY DEF DetInv, DetTypes, Agenda, InPoll
<1>2. \A k \in Keys : Due(k) => Done(k)
  BY <1>1 DEF DetInv, Compared
<1>3. \A c \in DOMAIN snap : c \in BoardCourts /\ current[c] = snap[c] /\ DOMAIN snap[c] \subseteq Fields
  BY <1>1, SnapshotIs DEF DetInv, Stored
<1>4. ASSUME NEW c \in DOMAIN snap, NEW f \in Fields \cup {Present},
             f \in DOMAIN snap[c] \cup {Present} \/ field[<<c, f>>] # None
      PROVE  Done(<<c, f>>)
  <2>1. <<c, f>> \in Keys /\ <<c, f>>[1] = c /\ <<c, f>>[2] = f
    BY <1>3, KeysAre
  <2>2. Due(<<c, f>>)
    BY <1>1, <1>4, <2>1 DEF Due
  <2>3. QED
    BY <1>2, <2>1, <2>2
<1>5. ASSUME NEW c \in BoardCourts \ DOMAIN snap,
             field[<<c, Present>>] # None, field[<<c, Present>>].value = "1"
      PROVE  c \notin known_courts /\ halted > 0
  <2>1. <<c, Present>> \in Keys /\ <<c, Present>>[1] = c /\ <<c, Present>>[2] = Present
    BY KeysAre
  <2>2. ~ Done(<<c, Present>>)
    BY <1>5, <2>1, CellsAre DEF Done, Shown
  <2>3. c \notin known_courts
    BY <1>2, <2>1, <2>2 DEF Due
  <2>4. QED
    BY <1>1, <1>5, <2>3 DEF DetInv, Orphans
<1>6. StateFollowsBoard
  <2>1. ASSUME NEW c \in DOMAIN snap
        PROVE  /\ current[c] = snap[c]
               /\ \A f \in DOMAIN snap[c] \cup {Present} : field[<<c, f>>] # None
               /\ \A f \in {f \in Fields \cup {Present} : field[<<c, f>>] # None} :
                    /\ Same(field[<<c, f>>].value, Shown(<<c, f>>))
                    /\ field[<<c, f>>].seen = observed
    <3>1. \A f \in DOMAIN snap[c] \cup {Present} : f \in Fields \cup {Present}
      BY <1>3
    <3>2. \A f \in DOMAIN snap[c] \cup {Present} : field[<<c, f>>] # None
      BY <1>4, <3>1 DEF Done
    <3>3. \A f \in Fields \cup {Present} : field[<<c, f>>] # None => Done(<<c, f>>)
      BY <1>4
    <3>4. QED
      BY <1>3, <3>2, <3>3 DEF Done
  <2>2. QED
    BY <1>5, <2>1 DEF StateFollowsBoard
<1>7. ChangesComplete
  BY <1>1 DEF DetInv, Listed, ChangesComplete, ChangeOf, Changed
<1>8. QED
  BY <1>6, <1>7

\* For any courts, fields, rows and polls, wherever polls stop: the traces of a field are a
\* chain up to its state, and false by no more than polls have stopped; a poll that returned
\* has stored what the board shows, and returns what is new in it.
THEOREM DetectorCorrect ==
  DetectorSpec => [](DetectorTypeOK /\ TracesKept /\ StateFollowsBoard /\ ChangesComplete)
<1>1. DetInv => DetectorTypeOK /\ TracesKept /\ StateFollowsBoard /\ ChangesComplete
  BY DetInvTypes, DetInvTraces, DetInvBoard
<1>2. QED
  BY <1>1, DetInvInit, DetInvNext, PTL DEF DetectorSpec

-----------------------------------------------------------------------------
(* field_state and the confirmed traces implement FieldHistory.            *)

\* Elements of a sequence at given positions, one more element at a time.
Upto(s, C, f) ==
  f = [i \in 0 .. Len(s) |->
         IF i = 0 THEN <<>> ELSE IF i \in C THEN Append(f[i - 1], s[i]) ELSE f[i - 1]]

LEMMA AtPositionsIs ==
  ASSUME NEW s, Len(s) \in Nat, NEW C
  PROVE  \E f : Upto(s, C, f) /\ AtPositions(s, C) = f[Len(s)]
<1> DEFINE L == Len(s)
           Step(g, i) == IF i = 0 THEN <<>> ELSE IF i \in C THEN Append(g[i - 1], s[i]) ELSE g[i - 1]
           upto == CHOOSE g : g = [i \in 0 .. L |-> Step(g, i)]
           S == {m \in Nat : \E g : g = [n \in 0 .. m |-> Step(g, n)]}
<1>1. AtPositions(s, C) = upto[L]
  BY DEF AtPositions
<1>2. 0 \in S
  <2> DEFINE g == [n \in 0 .. 0 |-> <<>>]
  <2>1. g = [n \in 0 .. 0 |-> Step(g, n)]
    OBVIOUS
  <2>2. QED
    BY <2>1
<1>3. ASSUME NEW m \in S PROVE m + 1 \in S
  <2>1. m \in Nat /\ m + 1 \in Nat
    OBVIOUS
  <2>2. PICK g : g = [n \in 0 .. m |-> Step(g, n)]
    OBVIOUS
  <2> DEFINE h == [n \in 0 .. m + 1 |-> IF n \in 0 .. m THEN g[n] ELSE Step(g, n)]
  <2>3. \A n \in 0 .. m : g[n] = Step(g, n) /\ h[n] = g[n]
    <3> HIDE DEF Step
    <3>1. \A n \in 0 .. m : g[n] = Step(g, n)
      BY <2>2
    <3>2. \A n \in 0 .. m : n \in 0 .. m + 1
      BY <2>1
    <3>3. QED
      BY <3>1, <3>2
  <2>4. ASSUME NEW n \in 0 .. m + 1 PROVE h[n] = Step(h, n)
    <3>1. n # 0 => h[n - 1] = g[n - 1]
      BY <2>1, <2>3
    <3>2. Step(h, n) = Step(g, n)
      BY <3>1
    <3>3. h[n] = Step(g, n)
      BY <2>1, <2>3
    <3>4. QED
      BY <3>2, <3>3
  <2>5. h = [n \in 0 .. m + 1 |-> h[n]]
    OBVIOUS
  <2> HIDE DEF h
  <2>6. h = [n \in 0 .. m + 1 |-> Step(h, n)]
    BY <2>4, <2>5
  <2>7. QED
    BY <2>1, <2>6
<1>4. S = Nat
  <2> HIDE DEF S
  <2>1. S \in SUBSET Nat
    BY DEF S
  <2>2. QED
    BY <1>2, <1>3, <2>1, Induction
<1>5. \E g : g = [i \in 0 .. L |-> Step(g, i)]
  BY <1>4
<1>6. upto = [i \in 0 .. L |-> Step(upto, i)]
  BY <1>5
<1> HIDE DEF upto
<1>7. QED
  BY <1>1, <1>6 DEF Upto

\* What is at the positions of the first m elements depends on these elements only.
LEMMA UptoSame ==
  ASSUME NEW s, NEW t, NEW C, NEW D, NEW f, NEW g, Upto(s, C, f), Upto(t, D, g),
         Len(s) \in Nat, Len(t) \in Nat, NEW m \in Nat, m <= Len(s), m <= Len(t),
         \A i \in 1 .. m : s[i] = t[i] /\ (i \in C <=> i \in D)
  PROVE  f[m] = g[m]
<1> DEFINE S == {n \in Nat : n <= m => f[n] = g[n]}
<1>1. 0 \in S
  BY DEF Upto
<1>2. ASSUME NEW n \in S PROVE n + 1 \in S
  <2>1. SUFFICES ASSUME n + 1 <= m PROVE f[n + 1] = g[n + 1]
    OBVIOUS
  <2>2. n \in Nat /\ f[n] = g[n] /\ n + 1 \in 1 .. m /\ n + 1 \in 0 .. Len(s) /\ n + 1 \in 0 .. Len(t)
        /\ n + 1 # 0 /\ (n + 1) - 1 = n
    BY <2>1
  <2>3. f[n + 1] = IF n + 1 \in C THEN Append(f[n], s[n + 1]) ELSE f[n]
    BY <2>2 DEF Upto
  <2>4. g[n + 1] = IF n + 1 \in D THEN Append(g[n], t[n + 1]) ELSE g[n]
    BY <2>2 DEF Upto
  <2>5. QED
    BY <2>2, <2>3, <2>4
<1>3. S = Nat
  <2> HIDE DEF S
  <2>1. S \in SUBSET Nat
    BY DEF S
  <2>2. QED
    BY <1>1, <1>2, <2>1, Induction
<1>4. QED
  BY <1>3

LEMMA AtSamePositions ==
  ASSUME NEW s, Len(s) \in Nat, NEW C, NEW D, \A i \in 1 .. Len(s) : i \in C <=> i \in D
  PROVE  AtPositions(s, C) = AtPositions(s, D)
<1>1. PICK f : Upto(s, C, f) /\ AtPositions(s, C) = f[Len(s)]
  BY AtPositionsIs
<1>2. PICK g : Upto(s, D, g) /\ AtPositions(s, D) = g[Len(s)]
  BY AtPositionsIs
<1>3. f[Len(s)] = g[Len(s)]
  BY <1>1, <1>2, UptoSame
<1>4. QED
  BY <1>1, <1>2, <1>3

\* A sequence that is longer by one, the last position of which is not, or is, in D.
LEMMA AtOneMore ==
  ASSUME NEW s, NEW t, NEW n \in Nat, Len(s) = n, Len(t) = n + 1, NEW C, NEW D,
         \A i \in 1 .. n : s[i] = t[i] /\ (i \in C <=> i \in D)
  PROVE  AtPositions(t, D) = IF n + 1 \in D THEN Append(AtPositions(s, C), t[n + 1])
                             ELSE AtPositions(s, C)
<1>1. PICK f : Upto(s, C, f) /\ AtPositions(s, C) = f[n]
  BY AtPositionsIs
<1>2. PICK g : Upto(t, D, g) /\ AtPositions(t, D) = g[n + 1]
  <2>1. Len(t) \in Nat
    OBVIOUS
  <2>2. QED
    BY <2>1, AtPositionsIs
<1>3. f[n] = g[n]
  <2>1. n <= Len(s) /\ n <= Len(t) /\ Len(s) \in Nat /\ Len(t) \in Nat
    OBVIOUS
  <2>2. \A i \in 1 .. n : s[i] = t[i] /\ (i \in C <=> i \in D)
    OBVIOUS
  <2>3. Upto(s, C, f) /\ Upto(t, D, g)
    BY <1>1, <1>2
  <2>4. QED
    BY <2>1, <2>2, <2>3, UptoSame, SMTT(20)
<1>4. g[n + 1] = IF n + 1 \in D THEN Append(g[n], t[n + 1]) ELSE g[n]
  <2>1. n + 1 \in 0 .. Len(t) /\ n + 1 # 0 /\ (n + 1) - 1 = n
    OBVIOUS
  <2>2. QED
    BY <1>2, <2>1 DEF Upto
<1>5. QED
  BY <1>1, <1>2, <1>3, <1>4

\* The same sequence, with sets that differ at the last position only.
LEMMA AtLast ==
  ASSUME NEW t, NEW n \in Nat, n > 0, Len(t) = n, NEW C, NEW D, n \notin C, n \in D,
         \A i \in 1 .. n - 1 : i \in C <=> i \in D
  PROVE  AtPositions(t, D) = Append(AtPositions(t, C), t[n])
<1>1. PICK f : Upto(t, C, f) /\ AtPositions(t, C) = f[n]
  BY AtPositionsIs
<1>2. PICK g : Upto(t, D, g) /\ AtPositions(t, D) = g[n]
  BY AtPositionsIs
<1>3. f[n - 1] = g[n - 1]
  <2>1. n - 1 \in Nat /\ n - 1 <= Len(t)
    OBVIOUS
  <2>2. \A i \in 1 .. n - 1 : t[i] = t[i] /\ (i \in C <=> i \in D)
    OBVIOUS
  <2>3. QED
    BY <1>1, <1>2, <2>1, <2>2, UptoSame
<1>4. n \in 0 .. Len(t) /\ n # 0
  OBVIOUS
<1>5. f[n] = f[n - 1] /\ g[n] = Append(g[n - 1], t[n])
  BY <1>1, <1>2, <1>4 DEF Upto
<1>6. QED
  BY <1>1, <1>2, <1>3, <1>5

EndedOf(k) == AtPositions(traces[k], ConfirmedAt(k))

NowOf(k) == IF field[k] = None THEN None ELSE [value |-> field[k].value, start |-> field[k].start]

LEMMA HistoryStarts == DetectorInit => History!Init
<1> SUFFICES ASSUME DetectorInit PROVE History!Init
  OBVIOUS
<1>1. \A k \in Keys : EndedOf(k) = <<>>
  <2>1. ASSUME NEW k \in Keys PROVE EndedOf(k) = <<>>
    <3>1. traces[k] = <<>> /\ Len(traces[k]) = 0
      BY DEF DetectorInit
    <3>2. PICK f : Upto(traces[k], ConfirmedAt(k), f) /\ EndedOf(k) = f[0]
      BY <3>1, AtPositionsIs DEF EndedOf
    <3>3. QED
      BY <3>1, <3>2 DEF Upto
  <2>2. QED
    BY <2>1
<1>2. \A k \in Keys : NowOf(k) = None
  BY DEF DetectorInit, NowOf
<1>3. QED
  BY <1>1, <1>2 DEF DetectorInit, History!Init, EndedOf, NowOf

\* Nothing is to be seen of a step that changes neither values nor confirmed traces.
LEMMA HistorySame ==
  ASSUME observed' = observed, \A k \in Keys : NowOf(k)' = NowOf(k) /\ EndedOf(k)' = EndedOf(k)
  PROVE  UNCHANGED History!vars
BY DEF History!vars, NowOf, EndedOf

LEMMA EndedSame ==
  ASSUME DetInv, NEW k \in Keys, traces'[k] = traces[k],
         Len(traces[k]) > 0 => field'[k].start = field[k].start
  PROVE  EndedOf(k)' = EndedOf(k)
<1> DEFINE n == Len(traces[k])
<1>1. n \in Nat /\ DOMAIN traces[k] = 1 .. n
  BY DEF DetInv, DetTypes
<1>2. \A i \in 1 .. n : Confirmed(k, traces[k][i])' <=> Confirmed(k, traces[k][i])
  <2>1. SUFFICES ASSUME NEW i \in 1 .. n PROVE Confirmed(k, traces[k][i])' <=> Confirmed(k, traces[k][i])
    OBVIOUS
  <2>2. n > 0
    BY <1>1
  <2>3. QED
    BY <2>2 DEF Confirmed
<1>3. ConfirmedAt(k)' = ConfirmedAt(k)
  BY <1>1, <1>2 DEF ConfirmedAt
<1>4. QED
  BY <1>3 DEF EndedOf

LEMMA HistoryInsert ==
  DetInv /\ (\E k \in Keys : InsertTrace(k)) => UNCHANGED History!vars
<1> SUFFICES ASSUME DetInv, NEW y \in Keys, InsertTrace(y) PROVE UNCHANGED History!vars
  OBVIOUS
<1> DEFINE t == OldTrace(y)
           ts == traces[y]
           n == Len(ts)
           us == Append(ts, t)
<1>1. /\ hand = NoKey /\ y \in todo /\ field[y] # None
      /\ traces' = [traces EXCEPT ![y] = us] /\ UNCHANGED <<field, observed>>
  BY DEF InsertTrace
<1>2. /\ field[y] \in State /\ observed \in Nat /\ ts \in Seq(Trace) /\ Pending(y) /\ y # NoKey
      /\ Shown(y) \in Texts
  BY <1>1, TodoIs, KeysAre
<1>3. t \in Trace /\ t.start = field[y].start /\ t.end = observed
  BY <1>2 DEF OldTrace, State, Trace, Texts
<1>4. field[y].start < observed /\ field[y].start \in Nat /\ Chain(y)
  BY <1>1, <1>2 DEF DetInv, Fresh, State
<1> HIDE DEF t
<1>5. n \in Nat /\ Len(us) = n + 1 /\ us[n + 1] = t /\ \A i \in 1 .. n : us[i] = ts[i]
  BY <1>2, <1>3
<1>6. DOMAIN ts = 1 .. n /\ DOMAIN us = 1 .. n + 1
  BY <1>2, <1>3, <1>5
<1> HIDE DEF us
<1>7. \A k \in Keys : traces'[k] = IF k = y THEN us ELSE traces[k]
  BY <1>1 DEF DetInv, DetTypes
<1>8. \A i \in 1 .. n : ts[i] \in Trace /\ ts[i].start <= field[y].start /\ ts[i].start \in Nat
  <2>1. \A i \in 1 .. n : ts[i] \in Trace
    BY <1>2
  <2>2. \A i \in 1 .. n : ts[i].start \in Nat
    BY <2>1 DEF Trace
  <2>3. QED
    BY <1>4, <2>1, <2>2 DEF Chain
<1>9. \A i \in 1 .. n : i \in ConfirmedAt(y) <=> i \in ConfirmedAt(y)'
  <2>1. SUFFICES ASSUME NEW i \in 1 .. n PROVE i \in ConfirmedAt(y) <=> i \in ConfirmedAt(y)'
    OBVIOUS
  <2>2. i \in 1 .. n + 1 /\ \A j : j \in 1 .. n + 1 <=> j \in 1 .. n \/ j = n + 1
    BY <1>5
  <2>3. traces'[y] = us /\ us[i] = ts[i]
    BY <1>5, <1>7
  <2>4. (\E j \in 1 .. n + 1 : us[j].start = ts[i].end)
          <=> (\E j \in 1 .. n : ts[j].start = ts[i].end) \/ field[y].start = ts[i].end
    BY <1>3, <1>5, <2>2
  <2>5. Confirmed(y, traces[y][i])' <=> Confirmed(y, ts[i])
    BY <1>1, <1>6, <2>3, <2>4 DEF Confirmed
  <2>6. QED
    BY <1>6, <2>2, <2>3, <2>5 DEF ConfirmedAt
<1>10. n + 1 \notin ConfirmedAt(y)'
  <2>1. \A j \in 1 .. n + 1 : us[j].start # observed
    <3>1. SUFFICES ASSUME NEW j \in 1 .. n + 1 PROVE us[j].start # observed
      OBVIOUS
    <3>2. CASE j = n + 1
      BY <1>2, <1>3, <1>4, <1>5, <3>2
    <3>3. CASE j \in 1 .. n
      BY <1>2, <1>4, <1>5, <1>8, <3>3
    <3>4. QED
      BY <1>5, <3>2, <3>3
  <2>2. traces'[y] = us /\ field'[y] = field[y] /\ field[y].start # observed
    BY <1>1, <1>2, <1>4, <1>7
  <2> DEFINE C(x) == \/ field[y].start = x.end \/ \E j \in DOMAIN us : us[j].start = x.end
  <2>3. ~ C(t)
    BY <1>3, <1>6, <2>1, <2>2
  <2>4. ConfirmedAt(y)' = {i \in DOMAIN us : C(us[i])}
    BY <2>2 DEF ConfirmedAt, Confirmed
  <2> HIDE DEF C
  <2>5. QED
    BY <1>5, <2>3, <2>4
<1>11. EndedOf(y)' = EndedOf(y)
  <2> DEFINE C == ConfirmedAt(y)
             D == ConfirmedAt(y)'
  <2>1. EndedOf(y)' = AtPositions(us, D)
    BY <1>7 DEF EndedOf
  <2>2. n + 1 \notin D /\ \A i \in 1 .. n : ts[i] = us[i] /\ (i \in C <=> i \in D)
    BY <1>5, <1>9, <1>10
  <2> HIDE DEF C, D, n
  <2>3. n \in Nat /\ Len(ts) = n /\ Len(us) = n + 1
    BY <1>5 DEF n
  <2>4. AtPositions(us, D) = AtPositions(ts, C)
    BY <2>2, <2>3, AtOneMore
  <2>5. QED
    BY <2>1, <2>4 DEF EndedOf, C
<1>12. \A k \in Keys : NowOf(k)' = NowOf(k) /\ EndedOf(k)' = EndedOf(k)
  <2>1. SUFFICES ASSUME NEW k \in Keys PROVE NowOf(k)' = NowOf(k) /\ EndedOf(k)' = EndedOf(k)
    OBVIOUS
  <2>2. k # y => EndedOf(k)' = EndedOf(k)
    BY <1>1, <1>7, EndedSame
  <2>3. QED
    BY <1>1, <1>11, <2>2 DEF NowOf
<1>13. QED
  BY <1>1, <1>12, HistorySame
LEMMA HistoryUpdate ==
  DetInv /\ UpdateState => \E k \in Keys, v \in Texts : History!Change(k, v)
<1> SUFFICES ASSUME DetInv, UpdateState PROVE \E k \in Keys, v \in Texts : History!Change(k, v)
  OBVIOUS
<1>0. PICK y : y = hand
  OBVIOUS
<1> DEFINE s == [value |-> Shown(y), start |-> observed, seen |-> observed]
           ts == traces[y]
           n == Len(ts)
<1>1. /\ hand # NoKey /\ field' = [field EXCEPT ![y] = s] /\ UNCHANGED <<traces, observed>>
  BY <1>0 DEF UpdateState, upsert_field_state
<1>2. /\ y \in todo /\ field[y] # None /\ ~ Same(field[y].value, Shown(y))
      /\ n > 0 /\ ts[n] = OldTrace(y) /\ \A i \in 1 .. n - 1 : ts[i].end < observed
  BY <1>0, <1>1 DEF DetInv, HandInv
<1>3. /\ y \in Keys /\ field[y] \in State /\ ts \in Seq(Trace) /\ observed \in Nat
      /\ Shown(y) \in Texts /\ Pending(y) /\ Chain(y)
  <2>1. y \in Keys /\ field[y] \in State /\ ts \in Seq(Trace) /\ observed \in Nat
        /\ Shown(y) \in Texts /\ Pending(y)
    BY <1>2, TodoIs
  <2>2. QED
    BY <2>1 DEF DetInv
<1>4. field[y].start < observed /\ field[y].start \in Nat
  BY <1>2, <1>3 DEF DetInv, Fresh, State
<1>5. s \in State /\ s.value = Shown(y) /\ s.start = observed /\ s # None
  BY <1>3, StateAssumption DEF State, Texts
<1> HIDE DEF s
<1>6. \A k \in Keys : field'[k] = IF k = y THEN s ELSE field[k]
  BY <1>1 DEF DetInv, DetTypes
<1>7. n \in Nat /\ n - 1 \in Nat /\ DOMAIN ts = 1 .. n /\ n \in 1 .. n /\ n \in 1 .. (n - 1) + 1 /\ (n - 1) + 1 = n
  BY <1>2, <1>3
<1>8. ts[n].start = field[y].start /\ ts[n].end = observed
  BY <1>2 DEF OldTrace
<1>9. \A i \in 1 .. n : ts[i].start \in Nat /\ ts[i].end \in Nat /\ ts[i].start <= field[y].start
  <2>1. \A i \in 1 .. n : ts[i] \in Trace
    BY <1>3
  <2>2. QED
    BY <1>3, <2>1 DEF Chain, Trace
<1>10. \A i \in 1 .. n : ts[i].start # observed
  <2>1. SUFFICES ASSUME NEW i \in 1 .. n, ts[i].start = observed PROVE FALSE
    OBVIOUS
  <2>2. QED
    BY <1>3, <1>4, <1>9, <2>1
<1> DEFINE C == ConfirmedAt(y)
           D == ConfirmedAt(y)'
           B(i) == field[y].start = ts[i].end \/ \E j \in 1 .. n : ts[j].start = ts[i].end
           A(i) == observed = ts[i].end \/ \E j \in 1 .. n : ts[j].start = ts[i].end
<1>11. C = {i \in 1 .. n : B(i)} /\ D = {i \in 1 .. n : A(i)}
  <2>1. field'[y].start = observed
    BY <1>3, <1>5, <1>6
  <2>2. C = {i \in 1 .. n : B(i)}
    BY <1>7 DEF ConfirmedAt, Confirmed
  <2>3. D = {i \in 1 .. n : A(i)}
    BY <1>1, <1>7, <2>1 DEF ConfirmedAt, Confirmed
  <2>4. QED
    BY <2>2, <2>3
<1>12. ~ B(n) /\ A(n)
  BY <1>4, <1>8, <1>10
<1>13. \A i \in 1 .. n - 1 : B(i) <=> A(i)
  <2>1. SUFFICES ASSUME NEW i \in 1 .. n - 1 PROVE B(i) <=> A(i)
    OBVIOUS
  <2>2. ts[i].end < observed /\ i \in 1 .. n /\ ts[i].end \in Nat
    BY <1>2, <1>7, <1>9
  <2>3. observed # ts[i].end
    BY <1>3, <2>2
  <2>4. field[y].start = ts[i].end => \E j \in 1 .. n : ts[j].start = ts[i].end
    BY <1>7, <1>8
  <2>5. QED
    BY <2>3, <2>4
<1> HIDE DEF B, A
<1>14. n \notin C /\ n \in D /\ \A i \in 1 .. n - 1 : i \in C <=> i \in D
  <2>1. \A i \in 1 .. n - 1 : i \in 1 .. n
    BY <1>7
  <2>2. QED
    BY <1>7, <1>11, <1>12, <1>13, <2>1
<1>15. EndedOf(y)' = Append(EndedOf(y), ts[n])
  <2>1. EndedOf(y) = AtPositions(ts, C) /\ EndedOf(y)' = AtPositions(ts, D)
    BY <1>1 DEF EndedOf
  <2> HIDE DEF C, D
  <2>2. n > 0 /\ n \in Nat /\ n \notin C /\ n \in D /\ \A i \in 1 .. n - 1 : i \in C <=> i \in D
    BY <1>2, <1>7, <1>14
  <2>3. AtPositions(ts, D) = Append(AtPositions(ts, C), ts[n])
    BY <2>2, AtLast
  <2>4. QED
    BY <2>1, <2>3
<1>16. \A k \in Keys : k # y => NowOf(k)' = NowOf(k) /\ EndedOf(k)' = EndedOf(k)
  <2>1. SUFFICES ASSUME NEW k \in Keys, k # y PROVE NowOf(k)' = NowOf(k) /\ EndedOf(k)' = EndedOf(k)
    OBVIOUS
  <2>2. field'[k] = field[k]
    BY <1>6, <2>1
  <2>3. EndedOf(k)' = EndedOf(k)
    BY <1>1, <2>2, EndedSame
  <2>4. QED
    BY <2>2, <2>3 DEF NowOf
<1>17. /\ NowOf(y) = [value |-> field[y].value, start |-> field[y].start]
       /\ NowOf(y) # None /\ NowOf(y)' = [value |-> Shown(y), start |-> observed]
  <2>1. [value |-> field[y].value, start |-> field[y].start] # None
    BY <1>3, StateAssumption DEF State
  <2>2. field'[y] = s
    BY <1>3, <1>6
  <2>3. QED
    BY <1>2, <1>5, <2>1, <2>2 DEF NowOf
<1>18. ts[n] = [old |-> NowOf(y).value, new |-> Shown(y), start |-> NowOf(y).start, end |-> observed]
  BY <1>2, <1>17 DEF OldTrace
<1> DEFINE now == [k \in Keys |-> NowOf(k)]
           ended == [k \in Keys |-> EndedOf(k)]
<1>19. now' = [now EXCEPT ![y] = [value |-> Shown(y), start |-> observed]]
  BY <1>3, <1>16, <1>17
<1>20. ended' = [ended EXCEPT ![y] = Append(ended[y],
                   [old |-> now[y].value, new |-> Shown(y), start |-> now[y].start, end |-> observed])]
  BY <1>3, <1>15, <1>16, <1>18
<1>21. now[y] # None /\ now[y].start < observed /\ ~ Same(now[y].value, Shown(y))
  BY <1>2, <1>3, <1>4, <1>17
<1>22. PICK v : v = Shown(y)
  OBVIOUS
<1>23. History!Change(y, v)
  BY <1>1, <1>19, <1>20, <1>21, <1>22 DEF History!Change, NowOf, EndedOf
<1>24. QED
  BY <1>3, <1>22, <1>23

LEMMA HistoryFirst ==
  DetInv /\ (\E k \in Keys : FirstSeen(k)) => \E k \in Keys, v \in Texts : History!Start(k, v)
<1> SUFFICES ASSUME DetInv, NEW y \in Keys, FirstSeen(y)
             PROVE  \E k \in Keys, v \in Texts : History!Start(k, v)
  OBVIOUS
<1> DEFINE s == [value |-> Shown(y), start |-> observed, seen |-> observed]
<1>1. /\ y \in todo /\ field[y] = None /\ field' = [field EXCEPT ![y] = s]
      /\ UNCHANGED <<traces, observed>>
  BY DEF FirstSeen, upsert_field_state
<1>2. Shown(y) \in Texts /\ observed \in Nat /\ Len(traces[y]) = 0
  BY <1>1, TodoIs DEF DetInv, Chain
<1>3. s \in State /\ s # None /\ s.value = Shown(y) /\ s.start = observed
  BY <1>2, StateAssumption DEF State, Texts
<1> HIDE DEF s
<1>4. \A k \in Keys : field'[k] = IF k = y THEN s ELSE field[k]
  BY <1>1 DEF DetInv, DetTypes
<1>5. \A k \in Keys : EndedOf(k)' = EndedOf(k)
  BY <1>1, <1>2, <1>4, EndedSame
<1>6. \A k \in Keys : NowOf(k)' = IF k = y THEN [value |-> Shown(y), start |-> observed] ELSE NowOf(k)
  BY <1>3, <1>4 DEF NowOf
<1>7. PICK v : v = Shown(y)
  OBVIOUS
<1>8. History!Start(y, v)
  BY <1>1, <1>5, <1>6, <1>7 DEF History!Start, NowOf, EndedOf
<1>9. QED
  BY <1>2, <1>7, <1>8

LEMMA HistoryAgain ==
  DetInv /\ (\E k \in Keys : SeenAgain(k)) => UNCHANGED History!vars
<1> SUFFICES ASSUME DetInv, NEW y \in Keys, SeenAgain(y) PROVE UNCHANGED History!vars
  OBVIOUS
<1> DEFINE s == [field[y] EXCEPT !.seen = observed]
<1>1. /\ y \in todo /\ field[y] # None /\ field' = [field EXCEPT ![y] = s]
      /\ UNCHANGED <<traces, observed>>
  BY DEF SeenAgain
<1>2. field[y] \in State /\ observed \in Nat
  BY <1>1, TodoIs
<1>3. s \in State /\ s # None /\ s.value = field[y].value /\ s.start = field[y].start
  BY <1>2, StateAssumption DEF State
<1> HIDE DEF s
<1>4. \A k \in Keys : field'[k] = IF k = y THEN s ELSE field[k]
  BY <1>1 DEF DetInv, DetTypes
<1>5. \A k \in Keys : EndedOf(k)' = EndedOf(k) /\ NowOf(k)' = NowOf(k)
  <2>1. \A k \in Keys : EndedOf(k)' = EndedOf(k)
    BY <1>1, <1>3, <1>4, EndedSame
  <2>2. \A k \in Keys : NowOf(k)' = NowOf(k)
    BY <1>1, <1>3, <1>4 DEF NowOf
  <2>3. QED
    BY <2>1, <2>2
<1>6. QED
  BY <1>1, <1>5, HistorySame

\* Steps that leave fields and traces alone.
LEMMA HistoryStill ==
  ASSUME DetInv, UNCHANGED <<field, traces>>
  PROVE  /\ observed' = observed => UNCHANGED History!vars
         /\ observed' = observed + 1 => History!Pass
<1>1. \A k \in Keys : EndedOf(k)' = EndedOf(k) /\ NowOf(k)' = NowOf(k)
  BY EndedSame DEF NowOf
<1>2. QED
  BY <1>1, HistorySame DEF History!Pass, NowOf, EndedOf

LEMMA HistorySteps ==
  DetInv /\ [DetectorNext]_detectorVars => [History!Next]_(History!vars)
<1> SUFFICES ASSUME DetInv, [DetectorNext]_detectorVars PROVE [History!Next]_(History!vars)
  OBVIOUS
<1>1. CASE Begin
  <2>1. UNCHANGED <<field, traces>> /\ observed' = observed + 1
    BY <1>1 DEF Begin
  <2>2. QED
    BY <2>1, HistoryStill DEF History!Next
<1>2. CASE (\E c \in BoardCourts : StoreRow(c)) \/ Return \/ Stop \/ UNCHANGED detectorVars
  <2>1. UNCHANGED <<field, traces, observed>>
    BY <1>2 DEF StoreRow, Return, Stop, detectorVars
  <2>2. QED
    BY <2>1, HistoryStill
<1>3. CASE UpdateState
  BY <1>3, HistoryUpdate DEF History!Next, Texts
<1>4. CASE \E k \in Keys : FirstSeen(k)
  BY <1>4, HistoryFirst DEF History!Next, Texts
<1>5. CASE (\E k \in Keys : SeenAgain(k)) \/ \E k \in Keys : InsertTrace(k)
  BY <1>5, HistoryAgain, HistoryInsert
<1>6. QED
  BY <1>1, <1>2, <1>3, <1>4, <1>5 DEF DetectorNext

\* However polls stop half-way: what field_state and the traces of the changes it knows show
\* is a history in which every field has had one value after the other, without gaps.
THEOREM DetectorImplementsHistory == DetectorSpec => ImplementsFieldHistory
<1>1. QED
  BY DetInvInit, DetInvNext, HistoryStarts, HistorySteps, PTL
  DEF DetectorSpec, ImplementsFieldHistory, History!Spec

=============================================================================
