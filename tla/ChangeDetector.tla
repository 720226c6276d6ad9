--------------------------- MODULE ChangeDetector ---------------------------
(***************************************************************************)
(* monitor/change_detector.py: apply_snapshot(), the poll loop's comparison *)
(* of what the display board shows with field_state, and the repository    *)
(* calls it makes (events_alchemy.py).                                     *)
(*                                                                         *)
(* One thread polls. Each call commits by itself, and a poll can stop      *)
(* between any two of them: the process dies, or a call raises and main()  *)
(* goes on to the next poll.  What was committed stays, the list of        *)
(* changes is lost.                                                        *)
(*                                                                         *)
(* The key fields, which are ignored, are not modelled; presence is one    *)
(* more field, Present, with the values "0" and "1".                       *)
(***************************************************************************)
EXTENDS Integers, Sequences, FiniteSets

CONSTANTS
  BoardCourts, \* court ids
  Fields,     \* column names of the board
  Values,     \* texts a cell may show
  Blank,      \* the empty text
  None,
  Rows,       \* rows the board may show: functions from some Fields to cells
  MaxPolls,   \* bound on the number of polls
  MaxHalted   \* bound on polls that stop half-way

Present == "__present__"

Cells == Values \cup {Blank, None}

Keys == BoardCourts \X (Fields \cup {Present})

ASSUME CourtsAssumption ==
  IsFiniteSet(BoardCourts) /\ IsFiniteSet(Fields) /\ None \notin BoardCourts
ASSUME FieldsAssumption == Present \notin Fields
ASSUME CellsAssumption ==
  /\ Blank # None
  /\ Blank \notin Values \cup {"0", "1"}
  /\ None \notin Values \cup {"0", "1"}
  /\ {"0", "1"} \cap Values = {}
ASSUME RowsAssumption ==
  /\ None \notin Rows
  /\ \A row \in Rows : /\ DOMAIN row \subseteq Fields
                       /\ row \in [DOMAIN row -> Cells]
ASSUME DetectorBoundsAssumption == MaxPolls \in Nat /\ MaxHalted \in Nat

VARIABLES
  current,    \* current_state: the last row of each court, None = never seen
  field,      \* field_state of each key: value, start and last seen time
  traces,     \* event_traces of each key, in the order they were inserted
  observed,   \* observed_time of the poll
  polling,    \* TRUE inside apply_snapshot
  snap,       \* snapshot_by_court
  todo,       \* keys still to be compared, of this phase or this court
  unstored,   \* courts of the snapshot whose row is still to be stored
  hand,       \* key whose trace is inserted and whose state is not yet
  changes,    \* the list apply_snapshot builds
  last,       \* how the last poll ended
  halted,     \* polls that stopped half-way
  before      \* history: field when the poll began

snapshotVars == <<polling, snap, todo, unstored, hand, changes, last, before>>
detectorVars == <<current, field, traces, observed, halted, snapshotVars>>

NoKey == <<None, None>>

State == [value : Cells \cup {"0", "1"}, start : Nat, seen : Nat]

ASSUME StateAssumption ==
  None \notin State \cup [value : Cells \cup {"0", "1"}, start : Nat]

Trace == [old : Cells \cup {"0", "1"}, new : Cells \cup {"0", "1"},
          start : Nat, end : Nat]

Snapshots == UNION {[C -> Rows] : C \in SUBSET BoardCourts}

DetectorTypeOK ==
  /\ current \in [BoardCourts -> Rows \cup {None}]
  /\ field \in [Keys -> State \cup {None}]
  /\ traces \in [Keys -> Seq(Trace)]
  /\ observed \in Nat
  /\ polling \in BOOLEAN
  /\ snap \in Snapshots
  /\ todo \subseteq Keys
  /\ unstored \subseteq DOMAIN snap
  /\ hand \in Keys \cup {NoKey}
  /\ hand # NoKey => hand \in todo
  /\ \A ch \in changes : ch.key \in Keys /\ ch.trace \in Trace
  /\ last \in {"none", "returned", "stopped"}
  /\ halted \in Nat
  /\ before \in [Keys -> State \cup {None}]

NoSnapshot == [c \in {} |-> None]

DetectorInit ==
  /\ current = [c \in BoardCourts |-> None]
  /\ field = [k \in Keys |-> None]
  /\ traces = [k \in Keys |-> <<>>]
  /\ observed = 0
  /\ polling = FALSE
  /\ snap = NoSnapshot
  /\ todo = {}
  /\ unstored = {}
  /\ hand = NoKey
  /\ changes = {}
  /\ last = "none"
  /\ halted = 0
  /\ before = field

-----------------------------------------------------------------------------
(* Pure parts.                                                             *)

\* _values_equal: an empty text counts as none.
Same(a, b) == a = b \/ {a, b} = {Blank, None}

\* Courts that have a current_state row.
known_courts == {c \in BoardCourts : current[c] # None}

\* Mutant: only the columns of the row at hand are compared.
list_field_names_nothing(c) == {}

list_field_names(c) == {f \in Fields : field[<<c, f>>] # None}

\* What the snapshot says of a key: a column the row lacks is none.
Shown(k) ==
  LET c == k[1]
      f == k[2]
  IN  IF f = Present THEN IF c \in DOMAIN snap THEN "1" ELSE "0"
      ELSE IF f \in DOMAIN snap[c] THEN snap[c][f] ELSE None

-----------------------------------------------------------------------------
(* The poll.                                                               *)

\* The scrape returns, apply_snapshot begins with the presence of all courts.
Begin ==
  /\ ~ polling
  /\ observed < MaxPolls
  /\ observed' = observed + 1
  /\ snap' \in Snapshots
  /\ todo' = (DOMAIN snap' \cup known_courts) \X {Present}
  /\ unstored' = DOMAIN snap'
  /\ polling' = TRUE
  /\ changes' = {}
  /\ before' = field
  /\ UNCHANGED <<current, field, traces, hand, last, halted>>

\* upsert_current_state; then the fields of that court are compared.
StoreRow(c) ==
  /\ hand = NoKey
  /\ c \in unstored
  /\ todo = {}
  /\ current' = [current EXCEPT ![c] = snap[c]]
  /\ unstored' = unstored \ {c}
  /\ todo' = {c} \X (DOMAIN snap[c] \cup list_field_names(c))
  /\ UNCHANGED <<field, traces, observed, polling, snap, hand, changes, last,
                 halted, before>>

\* Mutant: an existing row keeps its start_time.
upsert_field_state_value(k, v) ==
  field' = [field EXCEPT ![k] =
              [value |-> v, start |-> IF @ = None THEN observed ELSE @.start,
               seen |-> observed]]

upsert_field_state(k, v) ==
  field' = [field EXCEPT ![k] = [value |-> v, start |-> observed, seen |-> observed]]

\* First value of a key: no trace.
FirstSeen(k) ==
  /\ hand = NoKey
  /\ k \in todo
  /\ field[k] = None
  /\ upsert_field_state(k, Shown(k))
  /\ todo' = todo \ {k}
  /\ UNCHANGED <<current, traces, observed, polling, snap, unstored, hand, changes,
                 last, halted, before>>

\* touch_field_state: the stored value stays as it is.
SeenAgain(k) ==
  /\ hand = NoKey
  /\ k \in todo
  /\ field[k] # None
  /\ Same(field[k].value, Shown(k))
  /\ field' = [field EXCEPT ![k].seen = observed]
  /\ todo' = todo \ {k}
  /\ UNCHANGED <<current, traces, observed, polling, snap, unstored, hand, changes,
                 last, halted, before>>

OldTrace(k) ==
  [old |-> field[k].value, new |-> Shown(k), start |-> field[k].start,
   end |-> observed]

\* insert_event_trace ...
InsertTrace(k) ==
  /\ hand = NoKey
  /\ k \in todo
  /\ field[k] # None
  /\ ~ Same(field[k].value, Shown(k))
  /\ traces' = [traces EXCEPT ![k] = Append(@, OldTrace(k))]
  /\ hand' = k
  /\ UNCHANGED <<current, field, observed, polling, snap, todo, unstored, changes,
                 last, halted, before>>

\* Mutant: no state is stored for a cell that became empty.
UpdateStateUnlessEmpty ==
  /\ hand # NoKey
  /\ changes' = changes \cup {[key |-> hand, trace |-> OldTrace(hand)]}
  /\ IF Shown(hand) \in {None, Blank} THEN UNCHANGED field
       ELSE upsert_field_state(hand, Shown(hand))
  /\ todo' = todo \ {hand}
  /\ hand' = NoKey
  /\ UNCHANGED <<current, traces, observed, polling, snap, unstored, last, halted,
                 before>>

\* ... then upsert_field_state, and the change is on the list.
UpdateState ==
  /\ hand # NoKey
  /\ changes' = changes \cup {[key |-> hand, trace |-> OldTrace(hand)]}
  /\ upsert_field_state(hand, Shown(hand))
  /\ todo' = todo \ {hand}
  /\ hand' = NoKey
  /\ UNCHANGED <<current, traces, observed, polling, snap, unstored, last, halted,
                 before>>

Return ==
  /\ polling
  /\ hand = NoKey
  /\ todo = {}
  /\ unstored = {}
  /\ polling' = FALSE
  /\ last' = "returned"
  /\ UNCHANGED <<current, field, traces, observed, snap, todo, unstored, hand,
                 changes, halted, before>>

\* A call raises, or the process stops and is started again.
Stop ==
  /\ polling
  /\ halted < MaxHalted
  /\ halted' = halted + 1
  /\ polling' = FALSE
  /\ last' = "stopped"
  /\ todo' = {}
  /\ unstored' = {}
  /\ hand' = NoKey
  /\ changes' = {}
  /\ UNCHANGED <<current, field, traces, observed, snap, before>>

DetectorNext ==
  \/ Begin
  \/ \E c \in BoardCourts : StoreRow(c)
  \/ \E k \in Keys : FirstSeen(k) \/ SeenAgain(k) \/ InsertTrace(k)
  \/ UpdateState
  \/ Return
  \/ Stop

DetectorSpec == DetectorInit /\ [][DetectorNext]_detectorVars

-----------------------------------------------------------------------------
(* Properties.                                                             *)

\* t is the record of a value that did end, not of an attempt that stopped
\* before the new value was stored.
Confirmed(k, t) ==
  \/ field[k].start = t.end
  \/ \E i \in DOMAIN traces[k] : traces[k][i].start = t.end

\* Trace t follows s: it begins where s ended, or it is the second attempt to
\* record the end of the same value.
Follows(s, t) ==
  \/ t.start = s.end /\ t.old = s.new
  \/ t.start = s.start /\ t.old = s.old /\ t.end > s.end

\* However polls stop half-way: the traces of a key form a chain without gaps
\* or overlaps up to the value in field_state, repeated attempts aside.
TraceChain ==
  \A k \in Keys :
    LET ts == traces[k]
        n == Len(ts)
    IN  /\ \A i \in 1 .. n - 1 : Follows(ts[i], ts[i + 1])
        /\ n > 0 => Follows(ts[n], [start |-> field[k].start, old |-> field[k].value,
                                    end |-> observed + 1])

\* Keys and positions of traces of changes that field_state does not know.
FalseTraces ==
  {x \in Keys \X (1 .. MaxPolls) :
     x[2] \in DOMAIN traces[x[1]] /\ ~ Confirmed(x[1], traces[x[1]][x[2]])}

\* A trace of a change that field_state does not know, a false entry in the
\* court's history, takes a poll that stopped: at most one for each.
FalseTracesBounded ==
  Cardinality(FalseTraces) <= halted + IF hand = NoKey THEN 0 ELSE 1

\* The history of the board is whole, and false by no more than polls have stopped
\* (apply_snapshot inserts the trace, and then updates the state).
TracesKept == TraceChain /\ FalseTracesBounded

\* A poll that returned has compared everything: what is stored of a court on the
\* board is what it shows, also of columns it no longer has; a court that left is
\* absent, unless a poll stopped between storing its presence and its row.
StateFollowsBoard ==
  ~ polling /\ last = "returned" =>
    /\ \A c \in DOMAIN snap :
         /\ current[c] = snap[c]
         /\ \A f \in DOMAIN snap[c] \cup {Present} : field[<<c, f>>] # None
         /\ \A f \in {f \in Fields \cup {Present} : field[<<c, f>>] # None} :
              /\ Same(field[<<c, f>>].value, Shown(<<c, f>>))
              /\ field[<<c, f>>].seen = observed
    /\ \A c \in BoardCourts \ DOMAIN snap :
         field[<<c, Present>>] # None /\ field[<<c, Present>>].value = "1" =>
           c \notin known_courts /\ halted > 0

\* The list a poll returns, from which adjournments are announced, has exactly
\* the keys whose stored value differs from what it was when the poll began.
ChangesComplete ==
  ~ polling /\ last = "returned" =>
    changes = {[key |-> k,
                trace |-> [old |-> before[k].value, new |-> field[k].value,
                           start |-> before[k].start, end |-> observed]] :
                 k \in {k \in Keys : /\ before[k] # None
                                     /\ field[k].value # before[k].value}}

\* The elements of a sequence at the positions in C, in their order.
AtPositions(s, C) ==
  LET upto[i \in 0 .. Len(s)] ==
        IF i = 0 THEN <<>>
        ELSE IF i \in C THEN Append(upto[i - 1], s[i]) ELSE upto[i - 1]
  IN  upto[Len(s)]

ConfirmedAt(k) == {i \in DOMAIN traces[k] : Confirmed(k, traces[k][i])}

\* field_state and the confirmed traces implement FieldHistory.
History ==
  INSTANCE FieldHistory
    WITH now <- [k \in Keys |-> IF field[k] = None THEN None
                                ELSE [value |-> field[k].value,
                                      start |-> field[k].start]],
         ended <- [k \in Keys |-> AtPositions(traces[k], ConfirmedAt(k))],
         Cells <- Cells \cup {"0", "1"},
         clock <- observed

ImplementsFieldHistory == History!Spec

=============================================================================
