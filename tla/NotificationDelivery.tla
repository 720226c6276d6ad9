------------------------ MODULE NotificationDelivery ------------------------
(***************************************************************************)
(* What the notification queue promises, without workers, locks and        *)
(* batches: each notification submitted is pending until it is done, which *)
(* takes a success, or dropped, which takes MaxAttempts failures.          *)
(***************************************************************************)
EXTENDS Integers

CONSTANTS
  Ids,          \* notifications
  MaxAttempts   \* failures after which one is dropped

VARIABLES
  outcome,      \* of each notification, "absent" before it is submitted
  failures,     \* failed attempts of each
  succeeded     \* notifications an attempt succeeded for

vars == <<outcome, failures, succeeded>>

Init ==
  /\ outcome = [n \in Ids |-> "absent"]
  /\ failures = [n \in Ids |-> 0]
  /\ succeeded = {}

Submit(n) ==
  /\ outcome[n] = "absent"
  /\ outcome' = [outcome EXCEPT ![n] = "pending"]
  /\ UNCHANGED <<failures, succeeded>>

\* Success is recorded apart from completion: an attempt may succeed and the
\* notification be tried again, even after it is over.
Succeed(n) ==
  /\ outcome[n] # "absent"
  /\ succeeded' = succeeded \cup {n}
  /\ UNCHANGED <<outcome, failures>>

Complete(n) ==
  /\ outcome[n] = "pending"
  /\ n \in succeeded
  /\ outcome' = [outcome EXCEPT ![n] = "done"]
  /\ UNCHANGED <<failures, succeeded>>

Fail(n) ==
  /\ outcome[n] = "pending"
  /\ failures' = [failures EXCEPT ![n] = @ + 1]
  /\ outcome' = IF failures[n] + 1 = MaxAttempts
                  THEN [outcome EXCEPT ![n] = "dropped"]
                  ELSE outcome
  /\ UNCHANGED succeeded

Next == \E n \in Ids : Submit(n) \/ Succeed(n) \/ Complete(n) \/ Fail(n)

Spec == Init /\ [][Next]_vars

=============================================================================
