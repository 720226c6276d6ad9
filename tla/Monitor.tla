------------------------------- MODULE Monitor -------------------------------
(***************************************************************************)
(* Threads of monitor/run_monitor, side by side: the poll loop, what a     *)
(* poll does (the detection of changes, serial alerts of tracked cases),   *)
(* the scrapes of video links, and the nightly refresh of histories; and   *)
(* two services for scrapers that no thread calls, the guard and matches.  *)
(*                                                                         *)
(* They share no state: the loop knows of a poll whether it succeeded, and *)
(* a row of tracked_cases is to each of them what its columns are that it  *)
(* reads, written by users in actions of its own.  A step of one is no     *)
(* step of another, and no property relates two of them, so a behaviour in *)
(* which all of them run satisfies what the behaviours do in which one     *)
(* runs: part is the one.                                                  *)
(***************************************************************************)
EXTENDS PollLoop, ChangeDetector, SerialAlerts, VcScheduler, CaseHistory,
        ScraperGuard, Matching

VARIABLE part

Parts ==
  {"polls", "detector", "alerts", "vc", "history", "guard", "reconciliation", "links"}

Init ==
  /\ part \in Parts
  /\ PollLoopInit /\ DetectorInit /\ AlertsInit /\ VcInit
  /\ HistoryInit /\ GuardInit /\ MatchingInit
  \* Where the parts that do not run have a choice, they begin in one way only.
  /\ part # "alerts" => board = CHOOSE b \in BoardSerials : TRUE
  /\ part # "history" => \A u \in Followers : followed[u] = "no"
  /\ part # "reconciliation" => boards = CHOOSE b \in SnapshotLists : TRUE

Next ==
  \/ part = "polls" /\ PollLoopNext
     /\ UNCHANGED <<part, detectorVars, alertVars, vcVars, historyVars,
                    guardVars, matchingVars>>
  \/ part = "detector" /\ DetectorNext
     /\ UNCHANGED <<part, pollLoopVars, alertVars, vcVars, historyVars,
                    guardVars, matchingVars>>
  \/ part = "alerts" /\ AlertsNext
     /\ UNCHANGED <<part, pollLoopVars, detectorVars, vcVars, historyVars,
                    guardVars, matchingVars>>
  \/ part = "vc" /\ VcNext
     /\ UNCHANGED <<part, pollLoopVars, detectorVars, alertVars, historyVars,
                    guardVars, matchingVars>>
  \/ part = "history" /\ HistoryNext
     /\ UNCHANGED <<part, pollLoopVars, detectorVars, alertVars, vcVars,
                    guardVars, matchingVars>>
  \/ part = "guard" /\ GuardNext
     /\ UNCHANGED <<part, pollLoopVars, detectorVars, alertVars, vcVars,
                    historyVars, matchingVars>>
  \/ part = "reconciliation" /\ ReconciliationNext
     /\ UNCHANGED <<part, pollLoopVars, detectorVars, alertVars, vcVars,
                    historyVars, guardVars>>
  \/ part = "links" /\ LinksNext
     /\ UNCHANGED <<part, pollLoopVars, detectorVars, alertVars, vcVars,
                    historyVars, guardVars>>

vars == <<part, pollLoopVars, detectorVars, alertVars, vcVars,
          historyVars, guardVars, matchingVars>>

Spec == Init /\ [][Next]_vars

\* Every part keeps its types; the others stay as they were at the beginning.
TypeOK ==
  /\ part \in Parts
  /\ part = "polls" => PollLoopTypeOK
  /\ part = "detector" => DetectorTypeOK
  /\ part = "alerts" => AlertsTypeOK
  /\ part = "vc" => VcTypeOK
  /\ part = "history" => HistoryTypeOK
  /\ part = "guard" => GuardTypeOK
  /\ part \in {"reconciliation", "links"} => MatchingTypeOK

\* A poll that returned has stored what the board shows, and returns what is new in it
\* (apply_snapshot, whatever earlier polls left undone).
BoardRecorded == StateFollowsBoard /\ ChangesComplete

=============================================================================
