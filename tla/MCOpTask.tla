------------------------------ MODULE MCOpTask ------------------------------
(* Two tasks for TLC to explore exhaustively. *)
EXTENDS OpTask

CONSTANTS t1, t2, i1

TwoTasks == {t1, t2}
OneInstance == {i1}
\* One that looks three times and has a version, one that looks twice and has none.
TwoKinds == {"upgrade", "restart"}
\* All, or neither machine nor project: they were deleted.
TwoFindings == {Found, {}}
=============================================================================
