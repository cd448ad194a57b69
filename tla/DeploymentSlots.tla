--------------------------- MODULE DeploymentSlots ---------------------------
(***************************************************************************)
(* What DockerMachine promises of the containers of a project, apart from  *)
(* how: each project has a current container, the one before it (cname-old)*)
(* and the one a rollback set aside (cname-bak).  Only the current one     *)
(* runs; a container changes place, or goes, only while it does not run.   *)
(***************************************************************************)
EXTENDS Naturals

CONSTANTS Projects, MaxContainers

Places     == {"current", "old", "bak"}
Containers == 1..MaxContainers
Nothing    == 0

VARIABLES
    holder,     \* the container in each place of each project, or Nothing
    running     \* the containers that run

slotVars == <<holder, running>>

\* An empty place of the project takes a container that was in none.
New(p, c) ==
    /\ holder[<<p, "current">>] = Nothing
    /\ \A n \in Projects \X Places : holder[n] # c
    /\ holder' = [holder EXCEPT ![<<p, "current">>] = c]
    /\ UNCHANGED running

\* A container that does not run goes from one place of its project to another: the
\* current one makes room, the old one comes back.  Operations that meet in their waits
\* also make moves neither makes alone, a container set aside as bak becoming old.
Move(p, from, to) ==
    /\ from # to
    /\ holder[<<p, from>>] \notin running \union {Nothing}
    /\ holder[<<p, to>>] = Nothing
    /\ holder' = [holder EXCEPT ![<<p, to>>] = holder[<<p, from>>], ![<<p, from>>] = Nothing]
    /\ UNCHANGED running

Run(p) ==
    /\ holder[<<p, "current">>] # Nothing
    /\ running' = running \union {holder[<<p, "current">>]}
    /\ UNCHANGED holder

End(c) ==
    /\ c \in running
    /\ running' = running \ {c}
    /\ UNCHANGED holder

\* A container that does not run is dropped.
Drop(n) ==
    /\ holder[n] \notin running \union {Nothing}
    /\ holder' = [holder EXCEPT ![n] = Nothing]
    /\ UNCHANGED running

SlotInit ==
    /\ holder \in [Projects \X Places -> Containers \union {Nothing}]
    /\ \A m, n \in Projects \X Places : holder[m] = holder[n] /\ holder[m] # Nothing => m = n
    /\ running = {holder[<<p, "current">>] : p \in Projects} \ {Nothing}

SlotNext ==
    \/ \E p \in Projects, c \in Containers : New(p, c)
    \/ \E p \in Projects, from, to \in Places : Move(p, from, to)
    \/ \E p \in Projects : Run(p)
    \/ \E c \in Containers : End(c)
    \/ \E n \in Projects \X Places : Drop(n)

SlotSpec == SlotInit /\ [][SlotNext]_slotVars
=============================================================================
