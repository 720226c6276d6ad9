------------------------------ MODULE MCMonitor ------------------------------
(* Monitor with small constants. *)
EXTENDS Monitor, TLC

CONSTANTS m1, m2, f1, v1

\* Polls: from a Friday's opening to its close and after, a Saturday, and a Monday.
PollAt(day, hour, m) == day * MinutesPerDay + hour * 60 + m

MCInstants ==
  <<PollAt(4, 9, 30), PollAt(4, 9, 45), PollAt(4, 17, 45), PollAt(4, 18, 0), PollAt(4, 18, 30),
    PollAt(5, 10, 0), PollAt(7, 9, 20), PollAt(7, 9, 45), PollAt(7, 10, 0)>>

\* The board: every row, that lacks columns or not.
MCRows == UNION {[F -> Cells] : F \in SUBSET Fields}

\* Video links: a morning, an afternoon, midnight and the next morning.
VcAt(day, hour) == [day |-> day, hour |-> hour]
MCVcInstants == <<VcAt(0, 7), VcAt(0, 14), VcAt(1, 0), VcAt(1, 9)>>

\* Histories: a date of a hearing; another date and two orders at once.
MCContents == {[hearing |-> 1, orders |-> 0], [hearing |-> 2, orders |-> 2]}

\* Matching: one entry has its three fields, another one only its court; snapshots that
\* match the former HIGH and MEDIUM; a link of the hearing and one without a date.
Of(c, k, d) == [court_id |-> c, case_number |-> k, hearing_date |-> d]

MCCaseEntries == <<Of(1, 1, 1), Of(1, 2, Missing)>>
MCSnapshotLists ==
  UNION {[1 .. n -> {Of(1, 1, 1), Of(1, 1, Missing), Of(1, 2, 1), Of(2, 3, 2)}] : n \in 0 .. 2}

LinkOf(c, b, d) == [court_id |-> c, bench_id |-> b, hearing_date |-> d]

MCLinkHearing == LinkOf(1, 1, 1)
MCLinkPlaces == {LinkOf(1, 1, 1), LinkOf(1, 1, Missing)}

\* What no part tells apart: two courts of the board, and two users.
MCSymmetry == Permutations({m1, m2})

=============================================================================
