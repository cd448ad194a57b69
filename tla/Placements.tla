----------------------------- MODULE Placements -----------------------------
(***************************************************************************)
(* What the register promises of its instances, as if every request were   *)
(* served alone and every search saw what is: a project is placed once on  *)
(* a machine, and goes only when it is placed nowhere.  Instances that     *)
(* were moved, or that the index misses, are not counted; machines go when *)
(* they like.                                                              *)
(***************************************************************************)
EXTENDS Naturals

CONSTANTS Machines, Projects, MaxPlaced

VARIABLES
    known,      \* the projects there are
    placed,     \* the instances that count: number, machine, project
    numbered    \* instances placed so far

placeVars == <<known, placed, numbered>>

\* A new instance is placed where its project has none yet.  Of a project that is gone there may
\* be any number: whoever adds one looked the project up before.
Place(m, p) ==
    /\ numbered < MaxPlaced
    /\ p \in known => \A x \in placed : <<x.m, x.p>> # <<m, p>>
    /\ numbered' = numbered + 1
    /\ placed' = placed \union {[i |-> numbered + 1, m |-> m, p |-> p]}
    /\ UNCHANGED known

\* An instance is deleted, or counts no longer.
Remove(x) ==
    /\ x \in placed
    /\ placed' = placed \ {x}
    /\ UNCHANGED <<known, numbered>>

DropProject(p) ==
    /\ p \in known
    /\ \A x \in placed : x.p # p
    /\ known' = known \ {p}
    /\ UNCHANGED <<placed, numbered>>

PlaceInit == known = Projects /\ placed = {} /\ numbered = 0

PlaceNext ==
    \/ \E m \in Machines, p \in Projects : Place(m, p)
    \/ \E x \in placed : Remove(x)
    \/ \E p \in Projects : DropProject(p)

PlaceSpec == PlaceInit /\ [][PlaceNext]_placeVars
=============================================================================
