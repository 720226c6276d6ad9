------------------------------ MODULE Matching ------------------------------
(***************************************************************************)
(* Matches with a confidence: services/reconciliation, which finds the     *)
(* snapshot of the board for an entry of a cause list, and                 *)
(* services/vc_mapper, which finds the video link of a hearing.  Three     *)
(* fields that agree are HIGH, two MEDIUM, fewer LOW.                      *)
(*                                                                         *)
(* Only tests call either, and no storage has the methods they call: a row *)
(* is written or the call raises, which both swallow.  A batch may be run  *)
(* again, after it ended or was stopped, with what the board shows then.   *)
(* A link is requested while an administrator stores and verifies it.      *)
(***************************************************************************)
EXTENDS Integers, Sequences, FiniteSets

CONSTANTS
  CaseEntries,     \* the entries of the cause list, a sequence
  SnapshotLists,   \* the sequences of snapshots that a batch may be given
  Missing,         \* the value of a field that is absent
  LinkRequests,
  LinkHearing,     \* what they ask for: court_id, bench_id and hearing_date
  LinkPlaces,      \* the same three fields of the rows that may be stored
  StaleDays,       \* _STALE_DAYS
  NoLink,
  MaxBatches, MaxLinkDays, MaxLinkEdits, MaxMatchFaults   \* bounds

\* The fields of which score_confidence compares each.
LinkFields == {"court_id", "bench_id", "hearing_date"}

ASSUME MatchingAssumption ==
  /\ {StaleDays, MaxBatches, MaxLinkDays, MaxLinkEdits, MaxMatchFaults} \subseteq Nat
  /\ Len(CaseEntries) \in Nat
  /\ \A b \in SnapshotLists : Len(b) \in Nat /\ DOMAIN b = 1 .. Len(b)
  /\ \A p \in LinkPlaces \cup {LinkHearing} : p = [f \in LinkFields |-> p[f]]

VARIABLES
  boards,       \* the snapshots of this batch
  position,     \* how many entries it has done
  matched,      \* the snapshot it returns for each entry, 0 for none
  result_rows,  \* how many rows of reconciliation_results each entry has
  batches,
  link,         \* the row of vc_links for the court and bench, or NoLink
  asked,        \* what each request does next
  link_read,    \* the row it has read
  delivered,    \* what it answers with: "link", "nothing", or "none" before that
  delivery_log, \* the same of the row it writes to the delivery log
  link_day, edits, matchFaults,
  unwritten,    \* history: rows that were not written, for each entry
  passes,       \* history: batches that found a match, for each entry
  overtaken     \* history: requests since whose reading the link or the day is another

batchVars == <<boards, position, matched, result_rows, batches, unwritten, passes>>
linkVars == <<link, asked, link_read, delivered, delivery_log, link_day, edits, overtaken>>
matchingVars == <<batchVars, linkVars, matchFaults>>

Indices == 1 .. Len(CaseEntries)

LinkRow == [place : LinkPlaces, verified : BOOLEAN, at : Nat]

Graded(n) == IF n >= 3 THEN "HIGH" ELSE IF n = 2 THEN "MEDIUM" ELSE "LOW"

\* reconciliation.score: fields that both have and that are equal.
score(entry, snapshot) ==
  Graded(Cardinality({f \in DOMAIN entry : entry[f] # Missing /\ entry[f] = snapshot[f]}))

\* The loop of run_reconciliation_batch over the first n snapshots: it ends at the first
\* HIGH match, and any MEDIUM one takes the place of the one before.
best(entry) ==
  LET after[n \in 0 .. Len(boards)] ==
        IF n = 0 THEN 0
        ELSE IF after[n - 1] # 0 /\ score(entry, boards[after[n - 1]]) = "HIGH"
             THEN after[n - 1]
        ELSE IF score(entry, boards[n]) \in {"HIGH", "MEDIUM"} THEN n
        ELSE after[n - 1]
  IN after[Len(boards)]

\* vc_mapper.score_confidence: a court or bench that both lack agrees; without a date a link
\* is MEDIUM at most.
score_confidence(row) ==
  Graded(Cardinality({f \in LinkFields : /\ row.place[f] = LinkHearing[f]
                                         /\ f = "hearing_date" => row.place[f] # Missing}))

is_stale(row) == ~ row.verified \/ link_day - row.at > StaleDays

MatchFault == matchFaults < MaxMatchFaults /\ matchFaults' = matchFaults + 1

MatchingInit ==
  /\ boards \in SnapshotLists
  /\ position = 0
  /\ matched = [i \in Indices |-> 0]
  /\ result_rows = [i \in Indices |-> 0]
  /\ batches = 1
  /\ link = NoLink
  /\ asked = [r \in LinkRequests |-> "idle"]
  /\ link_read = [r \in LinkRequests |-> NoLink]
  /\ delivered = [r \in LinkRequests |-> "none"]
  /\ delivery_log = [r \in LinkRequests |-> "none"]
  /\ link_day = 0 /\ edits = 0 /\ matchFaults = 0
  /\ unwritten = [i \in Indices |-> 0]
  /\ passes = [i \in Indices |-> 0]
  /\ overtaken = {}

MatchingTypeOK ==
  /\ boards \in SnapshotLists
  /\ position \in 0 .. Len(CaseEntries)
  /\ matched \in [Indices -> 0 .. Len(boards)]
  /\ {result_rows, unwritten, passes} \subseteq [Indices -> Nat]
  /\ {batches, link_day, edits, matchFaults} \subseteq Nat
  /\ link \in LinkRow \cup {NoLink}
  /\ asked \in [LinkRequests -> {"idle", "score", "alert", "log"}]
  /\ link_read \in [LinkRequests -> LinkRow \cup {NoLink}]
  /\ {delivered, delivery_log} \subseteq [LinkRequests -> {"none", "nothing", "link"}]
  /\ overtaken \subseteq LinkRequests

-----------------------------------------------------------------------------
(* reconciliation                                                          *)

\* reconcile_entry for the next entry when it has a match: what is returned does not
\* depend on whether the row was written.
reconcile_entry ==
  /\ position < Len(CaseEntries)
  /\ position' = position + 1
  /\ LET i == position + 1
         found == best(CaseEntries[i])
     IN /\ matched' = [matched EXCEPT ![i] = found]
        /\ passes' = IF found = 0 THEN passes ELSE [passes EXCEPT ![i] = @ + 1]
        /\ \/ /\ result_rows' = IF found = 0 THEN result_rows ELSE [result_rows EXCEPT ![i] = @ + 1]
              /\ UNCHANGED <<unwritten, matchFaults>>
           \/ /\ found # 0 /\ MatchFault
              /\ unwritten' = [unwritten EXCEPT ![i] = @ + 1]
              /\ UNCHANGED result_rows
  /\ UNCHANGED <<boards, batches, linkVars>>

\* Another batch, after this one has ended or was stopped.
run_reconciliation_batch ==
  /\ batches < MaxBatches
  /\ \/ position = Len(CaseEntries) /\ UNCHANGED matchFaults
     \/ position < Len(CaseEntries) /\ MatchFault
  /\ batches' = batches + 1
  /\ boards' \in SnapshotLists
  /\ position' = 0
  /\ matched' = [i \in Indices |-> 0]
  /\ UNCHANGED <<result_rows, unwritten, passes, linkVars>>

-----------------------------------------------------------------------------
(* vc_mapper                                                               *)

\* resolve_vc_link: the row is read; that it cannot be is the same as that there is none.
ReadLink(r) ==
  /\ asked[r] = "idle"
  /\ \/ link_read' = [link_read EXCEPT ![r] = link] /\ UNCHANGED matchFaults
     \/ MatchFault /\ link_read' = [link_read EXCEPT ![r] = NoLink]
  /\ asked' = [asked EXCEPT ![r] = "score"]
  /\ delivered' = [delivered EXCEPT ![r] = "none"]
  /\ delivery_log' = [delivery_log EXCEPT ![r] = "none"]
  /\ overtaken' = overtaken \ {r}
  /\ UNCHANGED <<batchVars, link, link_day, edits>>

\* What there is to answer with, by the row as it was read.
Merits(r) == link_read[r] # NoLink /\ score_confidence(link_read[r]) = "HIGH" /\ ~ is_stale(link_read[r])

\* Mutant: a link is sent though it is stale.
ScoreOnly(r) ==
  /\ asked[r] = "score"
  /\ delivered' = [delivered EXCEPT ![r] =
       IF link_read[r] # NoLink /\ score_confidence(link_read[r]) = "HIGH" THEN "link" ELSE "nothing"]
  /\ asked' = [asked EXCEPT ![r] =
       IF link_read[r] # NoLink /\ is_stale(link_read[r]) THEN "alert" ELSE "log"]
  /\ UNCHANGED <<batchVars, link, link_read, delivery_log, link_day, edits, matchFaults, overtaken>>

\* resolve_vc_link: confidence and age decide on the link; a stale one is told.
Score(r) ==
  /\ asked[r] = "score"
  /\ delivered' = [delivered EXCEPT ![r] = IF Merits(r) THEN "link" ELSE "nothing"]
  /\ asked' = [asked EXCEPT ![r] =
       IF link_read[r] # NoLink /\ is_stale(link_read[r]) THEN "alert" ELSE "log"]
  /\ UNCHANGED <<batchVars, link, link_read, delivery_log, link_day, edits, matchFaults, overtaken>>

\* _fire_stale_alert, which cannot fail and takes as long as its messages are tried.
fire_stale_alert(r) ==
  /\ asked[r] = "alert"
  /\ asked' = [asked EXCEPT ![r] = "log"]
  /\ UNCHANGED <<batchVars, link, link_read, delivered, delivery_log, link_day, edits, matchFaults, overtaken>>

\* _log_delivery, and the answer.
log_delivery(r) ==
  /\ asked[r] = "log"
  /\ asked' = [asked EXCEPT ![r] = "idle"]
  /\ \/ delivery_log' = [delivery_log EXCEPT ![r] = delivered[r]] /\ UNCHANGED matchFaults
     \/ MatchFault /\ UNCHANGED delivery_log
  /\ UNCHANGED <<batchVars, link, link_read, delivered, link_day, edits, overtaken>>

\* An administrator stores the link, verified as of link_day or not, or removes it.
EditLink ==
  /\ edits < MaxLinkEdits
  /\ edits' = edits + 1
  /\ link' \in [place : LinkPlaces, verified : BOOLEAN, at : {link_day}] \cup {NoLink}
  /\ overtaken' = LinkRequests
  /\ UNCHANGED <<batchVars, asked, link_read, delivered, delivery_log, link_day, matchFaults>>

LinkDay ==
  /\ link_day < MaxLinkDays
  /\ link_day' = link_day + 1
  /\ overtaken' = LinkRequests
  /\ UNCHANGED <<batchVars, link, asked, link_read, delivered, delivery_log, edits, matchFaults>>

ReconciliationNext == reconcile_entry \/ run_reconciliation_batch

LinksNext ==
  \/ \E r \in LinkRequests : ReadLink(r) \/ Score(r) \/ fire_stale_alert(r) \/ log_delivery(r)
  \/ EditLink \/ LinkDay

\* They have no state in common.
MatchingNext == ReconciliationNext \/ LinksNext

MatchingSpec == MatchingInit /\ [][MatchingNext]_matchingVars

-----------------------------------------------------------------------------

\* An entry is given a snapshot that no other one matches better, and none only when all
\* are LOW, whatever their order (run_reconciliation_batch).
BestIsGiven ==
  \A i \in 1 .. position :
    LET found(grade) == \E n \in DOMAIN boards : score(CaseEntries[i], boards[n]) = grade
        given == IF matched[i] = 0 THEN "LOW" ELSE score(CaseEntries[i], boards[matched[i]])
    IN /\ found("HIGH") => given = "HIGH"
       /\ found("MEDIUM") => given # "LOW"

\* Rows are one for each batch that found a match, but for those that failed: a batch run
\* again doubles the rows of what it did before (there is no key on entry and snapshot).
RowsAccounted == \A i \in Indices : result_rows[i] + unwritten[i] = passes[i]

\* A link is answered only when it is the hearing's, verified, and so within the last days,
\* as it is stored now, unless that has changed since the request read it
\* (vc_mapper.py:157-194); the log says what was answered or nothing.
LinksMerited ==
  \A r \in LinkRequests :
    /\ delivered[r] = "link" =>
         \/ r \in overtaken
         \/ /\ link # NoLink /\ link.place = LinkHearing
            /\ link.verified /\ link_day <= link.at + StaleDays
    /\ delivery_log[r] \in {"none", delivered[r]}

MatchingKept == BestIsGiven /\ RowsAccounted /\ LinksMerited

=============================================================================
