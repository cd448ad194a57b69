--------------------------- MODULE MCProxyMachine ---------------------------
(* A small instance of ProxyMachine. *)
EXTENDS ProxyMachine, TLC

CONSTANTS t1, t2
TwoTasks == {t1, t2}
TaskSymmetry == Permutations(TwoTasks)
=============================================================================
