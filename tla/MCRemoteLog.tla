---------------------------- MODULE MCRemoteLog ----------------------------
(* Two threads for TLC to explore exhaustively. *)
EXTENDS RemoteLog, TLC

CONSTANTS w1, w2

TwoWriters == {w1, w2}
Symmetry == Permutations(TwoWriters)
\* The shortest that can break off, and another.
TwoLengths == {1, 2}
=============================================================================
