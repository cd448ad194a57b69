------------------------------- MODULE Docker -------------------------------
(***************************************************************************)
(* The docker daemon of one machine, as devops/project/impl/DockerMachine  *)
(* reaches it through util/docker/DockerClient: a table of containers, the *)
(* images built for the projects, and the calls the client makes.  The     *)
(* daemon itself is not part of the repository; every call is atomic in    *)
(* it, and a stop or a removal takes effect some time after the answer.    *)
(***************************************************************************)
EXTENDS Naturals, Sequences

CONSTANTS
    Projects,       \* project names, the base of every container name
    NameContains,   \* {<<n, m>>}: the container name m contains the name n
    MaxVersion,     \* versions are 1..MaxVersion, the newest the highest
    MaxContainers,  \* bound: containers created in one behaviour
    Earlier         \* containers earlier operations left: a sequence of names

Versions == 1..MaxVersion
Ids      == 1..MaxContainers    \* container ids, in the order of creation
NoId     == 0                   \* "no container": Java's null or an empty list

Slots == {"current", "old", "bak"}      \* cname, cname-old, cname-bak
Names == Projects \X Slots
Images == Projects \X Versions

\* The name and the image of an id no container has.
NoName  == CHOOSE n \in Names : TRUE
NoImage == CHOOSE m \in Images : TRUE

ContainerStates == {"none", "created", "running", "stopping", "exited", "removing"}

ASSUME DockerAssumption ==
    /\ Projects # {}
    /\ MaxVersion \in Nat \ {0}
    /\ MaxContainers \in Nat
    /\ Earlier \in Seq(Names)
    /\ Len(Earlier) <= MaxContainers
    /\ \A i, j \in 1..Len(Earlier) : Earlier[i] = Earlier[j] => i = j
    /\ NameContains \subseteq Names \X Names
    /\ \A p \in Projects, s, u \in Slots :
         << <<p, s>>, <<p, u>> >> \in NameContains <=> s \in {"current", u}

VARIABLES
    st,         \* state of each container
    name,       \* its name
    image,      \* the image it was created from
    created,    \* containers created so far
    images      \* images present on the machine

dockerVars == <<st, name, image, created, images>>

-----------------------------------------------------------------------------
(* What the daemon reports *)

\* A call that names a container by id finds it.
Exists(i) == st[i] \notin {"none", "removing"}

\* State.Running of an inspect: a container that is being stopped still runs.
IsRunning(i) == st[i] \in {"running", "stopping"}

\* Containers listed under exactly the name n: ps followed by filter().
Named(n) == {i \in Ids : st[i] # "none" /\ name[i] = n}

\* Slip: the name to filter by is left out.
FilterAcceptsAll(n, m) == n[2] \in {"current", m[2]}

\* The daemon's own name filter is a substring match: web-old is in web-old-api, too.
FilterAccepts(n, m) == <<n, m>> \in NameContains

Matching(n) == {i \in Ids : st[i] # "none" /\ FilterAccepts(n, name[i])}

\* ps with limit 1: the container created last among those the filter lets through.
Newest(S) == {i \in S : \A j \in S : j <= i}

NameFree(n) == Named(n) = {}

ImageInUse(m) == \E i \in Ids : st[i] # "none" /\ image[i] = m

-----------------------------------------------------------------------------
(* Calls: the effect of a call the daemon accepts *)

\* An exited container stays as it is (answer 304), a running one begins to stop.
StopContainer(i) ==
    /\ Exists(i)
    /\ st' = [st EXCEPT ![i] = IF IsRunning(i) THEN "stopping" ELSE @]
    /\ UNCHANGED <<name, image, created, images>>

\* Starting a container that runs already answers 304, which the client rejects.
CanStart(i) == Exists(i) /\ ~IsRunning(i)

StartContainer(i) ==
    /\ CanStart(i)
    /\ st' = [st EXCEPT ![i] = "running"]
    /\ UNCHANGED <<name, image, created, images>>

RestartContainer(i) ==
    /\ Exists(i)
    /\ st' = [st EXCEPT ![i] = "running"]
    /\ UNCHANGED <<name, image, created, images>>

\* The client never sends its v, force and link arguments: without force the
\* daemon refuses to remove a container that runs.
CanRemove(i) == Exists(i) /\ ~IsRunning(i)

RemoveContainer(i) ==
    /\ CanRemove(i)
    /\ st' = [st EXCEPT ![i] = "removing"]
    /\ UNCHANGED <<name, image, created, images>>

\* A name in use is refused, the container's own name included.
CanRename(i, n) == Exists(i) /\ NameFree(n)

RenameContainer(i, n) ==
    /\ CanRename(i, n)
    /\ name' = [name EXCEPT ![i] = n]
    /\ UNCHANGED <<st, image, created, images>>

CanCreate(n, m) == NameFree(n) /\ m \in images

CreateContainer(n, m) ==
    /\ CanCreate(n, m)
    /\ created < MaxContainers
    /\ created' = created + 1
    /\ st'    = [st    EXCEPT ![created + 1] = "created"]
    /\ name'  = [name  EXCEPT ![created + 1] = n]
    /\ image' = [image EXCEPT ![created + 1] = m]
    /\ UNCHANGED images

BuildImage(m) ==
    /\ images' = images \union {m}
    /\ UNCHANGED <<st, name, image, created>>

\* Without force an image some container was created from is kept.
DeleteImage(m) ==
    /\ m \in images /\ ~ImageInUse(m)
    /\ images' = images \ {m}
    /\ UNCHANGED <<st, name, image, created>>

-----------------------------------------------------------------------------
(* Steps of the daemon on its own *)

Exit(i) ==
    /\ st[i] = "stopping"
    /\ st' = [st EXCEPT ![i] = "exited"]
    /\ UNCHANGED <<name, image, created, images>>

Vanish(i) ==
    /\ st[i] = "removing"
    /\ st'    = [st    EXCEPT ![i] = "none"]
    /\ name'  = [name  EXCEPT ![i] = NoName]
    /\ image' = [image EXCEPT ![i] = NoImage]
    /\ UNCHANGED <<created, images>>

-----------------------------------------------------------------------------
(* The machine as it is found: what earlier operations left, all of it of  *)
(* version 1, with the current containers running.                         *)
DockerInit ==
    LET found == 1..Len(Earlier) IN
    /\ st = [i \in Ids |-> IF i \notin found THEN "none"
                          ELSE IF Earlier[i][2] = "current" THEN "running" ELSE "exited"]
    /\ name = [i \in Ids |-> IF i \in found THEN Earlier[i] ELSE NoName]
    /\ image = [i \in Ids |-> IF i \in found THEN <<Earlier[i][1], 1>> ELSE NoImage]
    /\ created = Len(Earlier)
    /\ images = {<<Earlier[i][1], 1>> : i \in found}

DockerTypeOK ==
    /\ st \in [Ids -> ContainerStates]
    /\ name \in [Ids -> Names]
    /\ image \in [Ids -> Images]
    /\ created \in 0..MaxContainers
    /\ images \subseteq Images
=============================================================================
