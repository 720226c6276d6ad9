---------------------------- MODULE FieldHistory ----------------------------
(***************************************************************************)
(* What the change detector promises of one table of fields: each field    *)
(* has had one value after the other, every value from the moment the      *)
(* previous one ended, and the values that ended are all on record.        *)
(***************************************************************************)
EXTENDS Integers, Sequences

CONSTANTS
  Keys,     \* the fields of all courts
  Cells,    \* the values a field may have
  None,     \* not known yet
  Same(_, _)   \* values that do not count as a change

VARIABLES
  now,      \* value of each key and since when, or None
  ended,    \* of each key, the values it had before, in order
  clock

vars == <<now, ended, clock>>

Init ==
  /\ now = [k \in Keys |-> None]
  /\ ended = [k \in Keys |-> <<>>]
  /\ clock = 0

Pass ==
  /\ clock' = clock + 1
  /\ UNCHANGED <<now, ended>>

Start(k, v) ==
  /\ now[k] = None
  /\ now' = [now EXCEPT ![k] = [value |-> v, start |-> clock]]
  /\ UNCHANGED <<ended, clock>>

Change(k, v) ==
  /\ now[k] # None
  /\ now[k].start < clock
  /\ ~ Same(now[k].value, v)
  /\ ended' = [ended EXCEPT ![k] =
                 Append(@, [old |-> now[k].value, new |-> v,
                            start |-> now[k].start, end |-> clock])]
  /\ now' = [now EXCEPT ![k] = [value |-> v, start |-> clock]]
  /\ UNCHANGED clock

Next == Pass \/ \E k \in Keys, v \in Cells : Start(k, v) \/ Change(k, v)

Spec == Init /\ [][Next]_vars

=============================================================================
