--------------------------- MODULE RunningRegistry ---------------------------
(***************************************************************************)
(* The register of running instances (ProjectServiceImpl, SimpleRunning):  *)
(* each instance places a project on a machine.  Requests of the console   *)
(* (HomeMethods) add, move and delete instances and delete machines and    *)
(* projects, each on a thread of its own.  The checks search an index that *)
(* is written after a new instance, and still later after a move, which    *)
(* may fail, and keeps its entry of a deleted one.  addRunning and         *)
(* delete(Project) hold the monitor of the service; delete(Machine),       *)
(* delete(Running) and the moves do not.  The service may stop at any      *)
(* point; what the persister has not written is lost.                      *)
(***************************************************************************)
EXTENDS Naturals, FiniteSets

CONSTANTS
    Machines, Projects,     \* the machines and projects there are at first
    Requests,               \* threads serving requests
    Kinds,                  \* requests made
    MaxAsked,               \* bound: requests, so instances added, in one behaviour
    MaxStops,               \* bound: stops of the service
    Nobody                  \* the monitor is free

AllKinds == {"add", "move", "delete", "deleteMachine", "deleteProject"}

ASSUME RegistryAssumption ==
    /\ Machines # {} /\ Projects # {}
    /\ Kinds \subseteq AllKinds
    /\ MaxAsked \in Nat /\ MaxStops \in Nat
    /\ Nobody \notin Requests

VARIABLES
    machines, projects,     \* those the persisters hold
    stored,                 \* ids of the instances the persister holds
    place,                  \* machine and project of each instance
    written,                \* those the persister has written
    entry,                  \* keywords of each instance in the index, {} for none
    dirty,                  \* changed instances, to be written and indexed again
    moved,                  \* history: the instances an update has moved
    missed,                 \* history: those whose last indexing has failed
    added,                  \* instances added so far
    monitor,                \* request holding the service's monitor
    request,                \* what each thread is doing
    asked,                  \* requests made so far
    stops                   \* stops of the service so far

registry == <<machines, projects, stored, place, written, entry, dirty, moved, missed, added>>
vars == <<registry, monitor, request, asked, stops>>

Instances == 1..MaxAsked
NewId == 0                  \* the request is not about an instance yet
Places == [m: Machines, p: Projects]

Points == {"idle", "check", "create", "index", "search", "remove",
           "containers", "setMachine", "setProject"}
OfInstance == {"index", "containers", "setMachine", "setProject"}
Request == {q \in [pc: Points, kind: AllKinds, m: Machines, p: Projects,
                   i: Instances \union {NewId}] : q.pc \in OfInstance => q.i # NewId}

Idle == [pc |-> "idle", kind |-> "add", m |-> CHOOSE m \in Machines : TRUE,
         p |-> CHOOSE p \in Projects : TRUE, i |-> NewId]

-----------------------------------------------------------------------------
(* Steps of a request *)

Become(r, q) == request' = [request EXCEPT ![r] = q]
Goto(r, l) == Become(r, [request[r] EXCEPT !.pc = l])
Done(r) == Become(r, Idle)

\* An instance whose project is gone shows to nobody: its rights are those of the
\* project, none without one.
Visible(i) == i \in stored /\ place[i].p \in projects

\* Its id is known from a page, which searches the index, or from an addition that has
\* succeeded.
Shown(i) == Visible(i) /\ entry[i] # {}

\* What a search of the index for k leads to.
Hits(k) == {i \in stored : k \in entry[i]}

Keywords(i) == {place[i].m, place[i].p}

-----------------------------------------------------------------------------
(* Requests: the machine, the project and the instance are looked up first *)

AskAdd(r) ==
    \E m \in machines, p \in projects :
      Become(r, [Idle EXCEPT !.pc = "check", !.kind = "add", !.m = m, !.p = p])

\* An update names a machine, a project or both.
AskMove(r) ==
    \E i \in Instances, m \in machines, p \in projects, l \in {"setMachine", "setProject"} :
      /\ Shown(i)
      /\ Become(r, [pc |-> l, kind |-> "move", m |-> m, p |-> p, i |-> i])

AskDelete(r) ==
    \E i \in Instances :
      /\ Shown(i)
      /\ Become(r, [Idle EXCEPT !.pc = "containers", !.kind = "delete", !.i = i])

AskDeleteMachine(r) ==
    \E m \in machines :
      Become(r, [Idle EXCEPT !.pc = "search", !.kind = "deleteMachine", !.m = m])

AskDeleteProject(r) ==
    \E p \in projects :
      Become(r, [Idle EXCEPT !.pc = "search", !.kind = "deleteProject", !.p = p])

Ask(r) ==
    /\ request[r].pc = "idle" /\ asked < MaxAsked
    /\ \/ "add" \in Kinds           /\ AskAdd(r)
       \/ "move" \in Kinds          /\ AskMove(r)
       \/ "delete" \in Kinds        /\ AskDelete(r)
       \/ "deleteMachine" \in Kinds /\ AskDeleteMachine(r)
       \/ "deleteProject" \in Kinds /\ AskDeleteProject(r)
    /\ asked' = asked + 1
    /\ UNCHANGED <<registry, monitor, stops>>

-----------------------------------------------------------------------------
(* addRunning *)

\* An instance of the project on the machine refuses it; so does, with a null pointer,
\* an instance on the machine whose project is gone.
Refused(r) == \E i \in Hits(request[r].m) : place[i].p = request[r].p \/ place[i].p \notin projects

\* Slip: addRunning is not synchronized.
CheckUnsynchronized(r) ==
    /\ request[r].pc = "check"
    /\ Done(r) \/ (~Refused(r) /\ Goto(r, "create"))
    /\ UNCHANGED <<registry, monitor, asked, stops>>

\* The search may fail, too.
Check(r) ==
    /\ request[r].pc = "check"
    /\ monitor = Nobody
    /\ \/ Done(r) /\ UNCHANGED monitor
       \/ ~Refused(r) /\ Goto(r, "create") /\ monitor' = r
    /\ UNCHANGED <<registry, asked, stops>>

\* Slip: the id given is not counted.
CreateUncounted(r) ==
    /\ request[r].pc = "create"
    /\ added < MaxAsked
    /\ stored' = stored \union {added + 1}
    /\ place' = [place EXCEPT ![added + 1] = [m |-> request[r].m, p |-> request[r].p]]
    /\ written' = [written EXCEPT ![added + 1] = place'[added + 1]]
    /\ Become(r, [request[r] EXCEPT !.pc = "index", !.i = added + 1])
    /\ UNCHANGED <<machines, projects, entry, dirty, moved, missed, added, monitor, asked, stops>>

\* The constructor of SimpleRunning stores the instance...
Create(r) ==
    /\ request[r].pc = "create"
    /\ added < MaxAsked
    /\ added' = added + 1
    /\ stored' = stored \union {added + 1}
    /\ place' = [place EXCEPT ![added + 1] = [m |-> request[r].m, p |-> request[r].p]]
    /\ written' = [written EXCEPT ![added + 1] = place'[added + 1]]
    /\ Become(r, [request[r] EXCEPT !.pc = "index", !.i = added + 1])
    /\ UNCHANGED <<machines, projects, entry, dirty, moved, missed, monitor, asked, stops>>

\* Slip: the constructor leaves the index alone, as the moves do.
IndexForgotten(r) ==
    /\ request[r].pc = "index"
    /\ monitor' = Nobody
    /\ Done(r)
    /\ UNCHANGED <<machines, projects, stored, place, written, entry, dirty, moved, missed, added, asked, stops>>

\* ... and indexes it, which fails with a null pointer when its project is gone, and may when a
\* look-up of its groups or the searcher fails.  The instance stays.
Index(r) ==
    LET i == request[r].i IN
    /\ request[r].pc = "index"
    /\ \/ /\ place[i].p \in projects
          /\ entry' = [entry EXCEPT ![i] = Keywords(i)] /\ UNCHANGED missed
       \/ missed' = missed \union {i} /\ UNCHANGED entry
    /\ monitor' = Nobody
    /\ Done(r)
    /\ UNCHANGED <<machines, projects, stored, place, written, dirty, moved, added, asked, stops>>

-----------------------------------------------------------------------------
(* delete(Machine), delete(Project), delete(Running) *)

\* An instance found refuses the deletion; or the search fails.
SearchMachine(r) ==
    /\ request[r].pc = "search" /\ request[r].kind = "deleteMachine"
    /\ Done(r) \/ (Hits(request[r].m) = {} /\ Goto(r, "remove"))
    /\ UNCHANGED <<registry, monitor, asked, stops>>

RemoveMachine(r) ==
    /\ request[r].pc = "remove" /\ request[r].kind = "deleteMachine"
    /\ machines' = machines \ {request[r].m}
    /\ Done(r)
    /\ UNCHANGED <<projects, stored, place, written, entry, dirty, moved, missed, added, monitor, asked, stops>>

\* Slip: delete(Project) is not synchronized, as delete(Machine) is not.
SearchProjectUnsynchronized(r) ==
    /\ request[r].pc = "search" /\ request[r].kind = "deleteProject"
    /\ Done(r) \/ (Hits(request[r].p) = {} /\ Goto(r, "remove"))
    /\ UNCHANGED <<registry, monitor, asked, stops>>

SearchProject(r) ==
    /\ request[r].pc = "search" /\ request[r].kind = "deleteProject"
    /\ monitor = Nobody
    /\ \/ Done(r) /\ UNCHANGED monitor
       \/ Hits(request[r].p) = {} /\ Goto(r, "remove") /\ monitor' = r
    /\ UNCHANGED <<registry, asked, stops>>

RemoveProject(r) ==
    /\ request[r].pc = "remove" /\ request[r].kind = "deleteProject"
    /\ projects' = projects \ {request[r].p}
    /\ monitor' = Nobody
    /\ Done(r)
    /\ UNCHANGED <<machines, stored, place, written, entry, dirty, moved, missed, added, asked, stops>>

\* The containers are removed first, which may take minutes (DockerMachine's remove);
\* without a project nobody has the right, and nothing is done.
RemoveContainers(r) ==
    /\ request[r].pc = "containers"
    /\ IF place[request[r].i].p \in projects THEN Goto(r, "remove") ELSE Done(r)
    /\ UNCHANGED <<registry, monitor, asked, stops>>

RemoveInstance(r) ==
    /\ request[r].pc = "remove" /\ request[r].kind = "delete"
    /\ stored' = stored \ {request[r].i}
    /\ Done(r)
    /\ UNCHANGED <<machines, projects, place, written, entry, dirty, moved, missed, added, monitor, asked, stops>>

-----------------------------------------------------------------------------
(* update *)

\* Slip: a new machine does not ask for a new entry in the index.
SetMachineUnindexed(r) ==
    /\ request[r].pc = "setMachine"
    /\ place' = [place EXCEPT ![request[r].i].m = request[r].m]
    /\ moved' = moved \union {request[r].i}
    /\ Goto(r, "setProject") \/ Done(r)
    /\ UNCHANGED <<machines, projects, stored, written, entry, dirty, missed, added, monitor, asked, stops>>

SetMachine(r) ==
    /\ request[r].pc = "setMachine"
    /\ place' = [place EXCEPT ![request[r].i].m = request[r].m]
    /\ dirty' = dirty \union {request[r].i}
    /\ moved' = moved \union {request[r].i}
    /\ Goto(r, "setProject") \/ Done(r)
    /\ UNCHANGED <<machines, projects, stored, written, entry, missed, added, monitor, asked, stops>>

SetProject(r) ==
    /\ request[r].pc = "setProject"
    /\ place' = [place EXCEPT ![request[r].i].p = request[r].p]
    /\ dirty' = dirty \union {request[r].i}
    /\ moved' = moved \union {request[r].i}
    /\ Done(r)
    /\ UNCHANGED <<machines, projects, stored, written, entry, missed, added, monitor, asked, stops>>

\* The persister writes a changed instance, and indexes it again, which may fail as above.
Flush(i) ==
    /\ i \in dirty
    /\ dirty' = dirty \ {i}
    /\ written' = [written EXCEPT ![i] = place[i]]
    /\ \/ /\ Visible(i)
          /\ entry' = [entry EXCEPT ![i] = Keywords(i)] /\ missed' = missed \ {i}
       \/ missed' = missed \union {i} /\ UNCHANGED entry
    /\ UNCHANGED <<machines, projects, stored, place, moved, added, monitor, request, asked, stops>>

-----------------------------------------------------------------------------
\* The service stops and starts again, with what the persister has written and the index.
Stop ==
    /\ stops < MaxStops
    /\ stops' = stops + 1
    /\ place' = written /\ dirty' = {}
    /\ missed' = missed \union {request[r].i : r \in {s \in Requests : request[s].pc = "index"}}
    /\ monitor' = Nobody
    /\ request' = [r \in Requests |-> Idle]
    /\ UNCHANGED <<machines, projects, stored, written, entry, moved, added, asked>>

-----------------------------------------------------------------------------
Init ==
    /\ machines = Machines /\ projects = Projects
    /\ stored = {} /\ dirty = {} /\ moved = {} /\ missed = {} /\ added = 0
    /\ place = [i \in Instances |-> [m |-> Idle.m, p |-> Idle.p]]
    /\ written = place
    /\ entry = [i \in Instances |-> {}]
    /\ monitor = Nobody
    /\ request = [r \in Requests |-> Idle]
    /\ asked = 0 /\ stops = 0

Step(r) ==
    \/ Check(r) \/ Create(r) \/ Index(r) \/ SearchMachine(r) \/ RemoveMachine(r)
    \/ SearchProject(r) \/ RemoveProject(r) \/ RemoveContainers(r) \/ RemoveInstance(r)
    \/ SetMachine(r) \/ SetProject(r)

\* Nothing is being done and the index is written: the console may stay silent.
Quiet ==
    /\ dirty = {} /\ \A r \in Requests : request[r].pc = "idle"
    /\ UNCHANGED vars

Next ==
    \/ \E r \in Requests : Ask(r) \/ Step(r)
    \/ \E i \in Instances : Flush(i)
    \/ Stop
    \/ Quiet

Spec == Init /\ [][Next]_vars

-----------------------------------------------------------------------------
(* Properties *)

\* Every variable has its type; the instances stored are among those added.
TypeOK ==
    /\ machines \subseteq Machines /\ projects \subseteq Projects
    /\ stored \subseteq 1..added /\ added \in 0..MaxAsked
    /\ place \in [Instances -> Places] /\ written \in [Instances -> Places]
    /\ entry \in [Instances -> SUBSET (Machines \union Projects)]
    /\ dirty \subseteq Instances /\ moved \subseteq Instances /\ missed \subseteq Instances
    /\ monitor \in Requests \union {Nobody}
    /\ request \in [Requests -> Request]
    /\ asked \in 0..MaxAsked /\ stops \in 0..MaxStops

\* The instances that are where they were added, and did not fail to be indexed there.
Counted == stored \ (moved \union missed)

\* "no two equal instances on one machine" (ProjectServiceImpl.java:219): of a project
\* that exists, a machine has one instance at most that was not moved, nor missed by the index.
NoAddedTwin ==
    \A i, j \in Counted : place[i] = place[j] /\ place[i].p \in projects => i = j

\* A project is removed only when no instance of it is left but those that were moved or that the
\* index misses: none is added between the search and the removal.
ProjectKept ==
    [][\A p \in projects \ projects' : \A i \in Counted : place[i].p # p]_vars

\* An instance whose last indexing has not failed, and that was not moved since, is found by a
\* search for its machine or its project, as the checks of an addition and of the deletions
\* need, also when the service has stopped before a move was written.
FoundWhereItIs ==
    \A i \in stored \ (dirty \union missed) :
      (\A r \in Requests : request[r].pc = "index" => request[r].i # i)
      => i \in Hits(place[i].m) /\ i \in Hits(place[i].p)

\* The instances the register can count on, where they are: a refinement mapping to Placements.
Placement(i) == [i |-> i, m |-> place[i].m, p |-> place[i].p]
PlacedNow == {Placement(i) : i \in Counted}

Abs == INSTANCE Placements
         WITH MaxPlaced <- MaxAsked, known <- projects, placed <- PlacedNow, numbered <- added

\* Additions, moves and deletions, which check first and change later, each take effect at one
\* step as if it had been served alone: what a check found holds when it does.
ImplementsPlacements == Abs!PlaceSpec

\* "running instances exist, the machine cannot be deleted" (ProjectServiceImpl.java:92),
\* and the same of the project (:167).
InstancesPlaced == \A i \in stored : place[i].m \in machines /\ place[i].p \in projects
=============================================================================
