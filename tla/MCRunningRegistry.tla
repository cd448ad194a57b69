-------------------------- MODULE MCRunningRegistry --------------------------
(* Small registers for TLC to explore exhaustively. *)
EXTENDS RunningRegistry, TLC

CONSTANTS m1, m2, p1, p2, r1, r2

TwoMachines   == {m1, m2}
OneProject    == {p1}
TwoProjects   == {p1, p2}
TwoRequests   == {r1, r2}

\* Requests may be exchanged; machines and projects may not, Idle names one of each.
Exchangeable == Permutations(TwoRequests)
=============================================================================
