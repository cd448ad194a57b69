---------------------------- MODULE DockerMachine ----------------------------
(***************************************************************************)
(* Operations on the containers of one machine (DockerMachine.java), each  *)
(* run by a task of its own (SimpleOpTask).  upgrade and rollback are      *)
(* synchronized: they hold the machine's monitor, except during the        *)
(* wait(1000) of their polling loops, which lets other operations in.      *)
(* restart, start, stop, build and remove do not hold it, and take it only *)
(* to wait.  A task stops at every call of the daemon.                     *)
(***************************************************************************)
EXTENDS Docker, FiniteSets

CONSTANTS
    Tasks,      \* threads an operation can run in at the same time
    Kinds,      \* operations asked for
    KillTime,   \* Envs.getKillTime: polls before a task gives up
    BakPolls,   \* polls for the removal of cname-bak
    KeepImages, \* maxHistory: images of a project the hourly clear keeps
    Faults,     \* TRUE: any call of the daemon may fail, done or not
    MaxOps,     \* bound: operations in one behaviour
    NoTask      \* the monitor is free

AllKinds == {"upgrade", "rollback", "restart", "start", "stop", "build", "remove"}

ASSUME MachineAssumption ==
    /\ Kinds \subseteq AllKinds
    /\ KillTime \in Nat /\ BakPolls \in Nat
    /\ KeepImages \in Nat /\ MaxOps \in Nat
    /\ Faults \in BOOLEAN
    /\ NoTask \notin Tasks

VARIABLES
    owner,      \* holder of the machine's monitor
    job,        \* what each task is doing
    ops         \* operations asked for so far

vars == <<dockerVars, owner, job, ops>>

Synchronized == {"upgrade", "rollback"}

\* "wait..." are the points inside wait(1000), with the monitor released.
Points == {"idle", "queued", "image", "clean", "purge", "cleared", "waitCleared",
           "find", "halt", "restart", "poll", "waitPoll", "retire", "create",
           "swap", "launch", "discard", "oldest"}
Waiting == {"waitCleared", "waitPoll"}

Job == [pc: Points, kind: AllKinds \union {"removeOld"}, proj: Projects,
        ver: Versions, cur: Ids \union {NoId}, old: Ids \union {NoId}, polls: Nat]

Idle == [pc |-> "idle", kind |-> "stop", proj |-> NoName[1], ver |-> 1,
         cur |-> NoId, old |-> NoId, polls |-> 0]

-----------------------------------------------------------------------------
(* Steps between two points of an operation *)

Become(t, j) == job' = [job EXCEPT ![t] = j]

Goto(t, l) == Become(t, [job[t] EXCEPT !.pc = l]) /\ UNCHANGED owner

Finish(t) ==
    /\ Become(t, Idle)
    /\ owner' = IF owner = t THEN NoTask ELSE owner

\* The call took effect but its answer was lost: a DockerException all the same.
Lost(t) == Faults /\ Finish(t)

\* Slip: the polls are not counted.
DozeUncounted(t, l, i) ==
    /\ Become(t, [job[t] EXCEPT !.pc = l, !.cur = i])
    /\ owner' = IF owner = t THEN NoTask ELSE owner

\* wait(1000): the monitor is released and taken again to go on.
Doze(t, l, i) ==
    /\ Become(t, [job[t] EXCEPT !.pc = l, !.cur = i, !.polls = @ - 1])
    /\ owner' = IF owner = t THEN NoTask ELSE owner

\* The loop over the containers found is over: what the operation does next.
Proceed(t) ==
    \/ job[t].kind = "upgrade"  /\ Goto(t, "create")
    \/ job[t].kind = "rollback" /\ Goto(t, "swap")
    \/ /\ job[t].kind = "remove"
       /\ Become(t, [job[t] EXCEPT !.kind = "removeOld", !.pc = "find"])
       /\ UNCHANGED owner
    \/ job[t].kind \in {"restart", "start", "stop", "removeOld"} /\ Finish(t)

-----------------------------------------------------------------------------
(* What an operation looks for *)

Own(t, slot) == <<job[t].proj, slot>>

\* upgrade looks for cname-old itself, rollback for the first match of cname-bak.
Backups(t) ==
    IF job[t].kind = "upgrade" THEN Named(Own(t, "old"))
                               ELSE Newest(Matching(Own(t, "bak")))

\* rollback takes the first match of cname, the others the container so named.
Found(t) ==
    IF job[t].kind = "rollback" THEN Newest(Matching(Own(t, "current")))
    ELSE IF job[t].kind = "removeOld" THEN Named(Own(t, "old"))
    ELSE Named(Own(t, "current"))

\* Where the container that is replaced goes.
RetireName(t) == Own(t, IF job[t].kind = "upgrade" THEN "old" ELSE "bak")

\* Slip: the container asked to stop is taken to have stopped.
SettledUnchecked(t) == TRUE

Settled(t) ==
    IF job[t].kind = "restart" THEN IsRunning(job[t].cur) ELSE ~IsRunning(job[t].cur)

-----------------------------------------------------------------------------
(* The operations *)

\* An operation is asked for: SimpleRunning creates the SimpleOpTask and the
\* executor queues it; nothing looks at the operations in progress.
Submit(t) ==
    /\ job[t].pc = "idle" /\ ops < MaxOps
    /\ \E k \in Kinds, p \in Projects, v \in Versions :
         /\ k \in {"upgrade", "build"} \/ v = 1
         /\ Become(t, [Idle EXCEPT !.pc = "queued", !.kind = k, !.proj = p, !.ver = v])
    /\ ops' = ops + 1
    /\ UNCHANGED <<dockerVars, owner>>

FirstPoint(k) ==
    IF k \in {"upgrade", "build"} THEN "image" ELSE IF k = "rollback" THEN "oldest" ELSE "find"

\* Slip: upgrade and rollback are not synchronized.
EnterUnsynchronized(t) ==
    /\ job[t].pc = "queued"
    /\ Goto(t, FirstPoint(job[t].kind))
    /\ UNCHANGED <<dockerVars, ops>>

\* The task runs.  upgrade and start give up on a machine out of memory.
Enter(t) ==
    /\ job[t].pc = "queued"
    /\ job[t].kind \in Synchronized => owner = NoTask
    /\ \/ /\ Become(t, [job[t] EXCEPT !.pc = FirstPoint(job[t].kind)])
          /\ owner' = IF job[t].kind \in Synchronized THEN t ELSE owner
       \/ job[t].kind \in {"upgrade", "start"} /\ Finish(t)
    /\ UNCHANGED <<dockerVars, ops>>

\* The image is inspected, and built when it is missing, labelled with another
\* revision or to be rebuilt.  A build that fails once the daemon has answered 200 says
\* so in its output alone, which goes to the log: the operation goes on all the same.
PrepareImage(t) ==
    /\ job[t].pc = "image"
    /\ BuildImage(<<job[t].proj, job[t].ver>>) \/ (Faults /\ UNCHANGED dockerVars)
    /\ IF job[t].kind = "upgrade" THEN Goto(t, "clean") ELSE Finish(t)
    /\ UNCHANGED ops

\* rollback: the container to go back to.
FindOldest(t) ==
    LET olds == Newest(Matching(Own(t, "old"))) IN
    /\ job[t].pc = "oldest"
    /\ \/ olds = {} /\ Finish(t)
       \/ /\ \E i \in olds : Become(t, [job[t] EXCEPT !.pc = "clean", !.old = i])
          /\ UNCHANGED owner
    /\ UNCHANGED <<dockerVars, ops>>

\* The backup of an earlier operation makes room.
Clean(t) ==
    LET polls == IF job[t].kind = "upgrade" THEN KillTime ELSE BakPolls IN
    /\ job[t].pc = "clean"
    /\ \/ /\ Backups(t) = {}
          /\ Become(t, [job[t] EXCEPT !.pc = "cleared", !.polls = polls])
       \/ \E i \in Backups(t) :
            Become(t, [job[t] EXCEPT !.pc = "purge", !.cur = i, !.polls = polls])
    /\ UNCHANGED <<dockerVars, owner, ops>>

Purge(t) ==
    /\ job[t].pc = "purge"
    /\ RemoveContainer(job[t].cur)
    /\ Goto(t, "cleared") \/ Lost(t)
    /\ UNCHANGED ops

\* Slip: the loop does not look at the count of its polls.
AwaitClearedUncounted(t) ==
    /\ job[t].pc = "cleared"
    /\ \/ /\ Backups(t) = {}
          /\ Become(t, [job[t] EXCEPT !.pc = "find", !.cur = NoId, !.polls = 0])
          /\ UNCHANGED owner
       \/ \E i \in Backups(t) : Doze(t, "waitCleared", i)
    /\ UNCHANGED <<dockerVars, ops>>

\* The list is read again until it is empty, a wait after each reading that is not.
AwaitCleared(t) ==
    /\ job[t].pc = "cleared"
    /\ \/ job[t].polls = 0 /\ job[t].cur # NoId /\ Finish(t)
       \/ /\ IF job[t].polls = 0 THEN job[t].cur = NoId ELSE Backups(t) = {}
          /\ Become(t, [job[t] EXCEPT !.pc = "find", !.cur = NoId, !.polls = 0])
          /\ UNCHANGED owner
       \/ job[t].polls > 0 /\ \E i \in Backups(t) : Doze(t, "waitCleared", i)
    /\ UNCHANGED <<dockerVars, ops>>

\* Slip: a task goes on after its wait without taking the monitor again.
WakeAtOnce(t) ==
    /\ job[t].pc \in Waiting
    /\ Goto(t, IF job[t].pc = "waitPoll" THEN "poll" ELSE "cleared")
    /\ UNCHANGED <<dockerVars, ops>>

Wake(t) ==
    /\ job[t].pc \in Waiting
    /\ owner = NoTask
    /\ owner' = IF job[t].kind \in Synchronized THEN t ELSE owner
    /\ Become(t, [job[t] EXCEPT !.pc = IF @ = "waitPoll" THEN "poll" ELSE "cleared"])
    /\ UNCHANGED <<dockerVars, ops>>

FirstCall(k) == IF k = "restart" THEN "restart" ELSE IF k = "start" THEN "launch" ELSE "halt"

\* The containers the operation works on: all its names lead to one at most.
Find(t) ==
    /\ job[t].pc = "find"
    /\ \/ Found(t) = {} /\ Proceed(t)
       \/ /\ \E i \in Found(t) :
               Become(t, [job[t] EXCEPT !.pc = FirstCall(job[t].kind), !.cur = i])
          /\ UNCHANGED owner
    /\ UNCHANGED <<dockerVars, ops>>

Halt(t) ==
    /\ job[t].pc = "halt"
    /\ StopContainer(job[t].cur)
    /\ \/ Become(t, [job[t] EXCEPT !.pc = "poll", !.polls = KillTime]) /\ UNCHANGED owner
       \/ Lost(t)
    /\ UNCHANGED ops

Restart(t) ==
    /\ job[t].pc = "restart"
    /\ RestartContainer(job[t].cur)
    /\ \/ Become(t, [job[t] EXCEPT !.pc = "poll", !.polls = KillTime]) /\ UNCHANGED owner
       \/ Lost(t)
    /\ UNCHANGED ops

\* Slip: out of polls, upgrade and rollback go on as if the container had stopped.
PollGoesOn(t) ==
    /\ job[t].pc = "poll"
    /\ \/ (job[t].polls = 0 \/ Settled(t)) /\ job[t].kind \in Synchronized /\ Goto(t, "retire")
       \/ (job[t].polls = 0 \/ Settled(t)) /\ job[t].kind \notin Synchronized /\ Proceed(t)
       \/ job[t].polls > 0 /\ ~Settled(t) /\ Doze(t, "waitPoll", job[t].cur)
    /\ UNCHANGED <<dockerVars, ops>>

\* The container is inspected until it has stopped (or runs, after a restart),
\* a wait after each time it has not.  Out of polls, upgrade and rollback give up
\* and the others go on with the next container.
Poll(t) ==
    /\ job[t].pc = "poll"
    /\ \/ job[t].polls = 0 /\ job[t].kind \in Synchronized /\ Finish(t)
       \/ job[t].polls = 0 /\ job[t].kind \notin Synchronized /\ Proceed(t)
       \/ /\ job[t].polls > 0 /\ st[job[t].cur] # "none"
          /\ \/ ~Settled(t) /\ Doze(t, "waitPoll", job[t].cur)
             \/ Settled(t) /\ job[t].kind \in Synchronized /\ Goto(t, "retire")
             \/ Settled(t) /\ job[t].kind \in {"remove", "removeOld"} /\ Goto(t, "discard")
             \/ Settled(t) /\ job[t].kind \in {"restart", "stop"} /\ Proceed(t)
    /\ UNCHANGED <<dockerVars, ops>>

\* The stopped container becomes the backup: cname-old of an upgrade, cname-bak of
\* a rollback.  (An upgrade's "old" is only kept for the properties.)
Retire(t) ==
    /\ job[t].pc = "retire"
    /\ RenameContainer(job[t].cur, RetireName(t))
    /\ \/ /\ Become(t, IF job[t].kind = "upgrade"
                          THEN [job[t] EXCEPT !.pc = "create", !.old = job[t].cur]
                          ELSE [job[t] EXCEPT !.pc = "swap"])
          /\ UNCHANGED owner
       \/ Lost(t)
    /\ UNCHANGED ops

Create(t) ==
    /\ job[t].pc = "create"
    /\ CreateContainer(Own(t, "current"), <<job[t].proj, job[t].ver>>)
    /\ \/ Become(t, [job[t] EXCEPT !.pc = "launch", !.cur = created + 1]) /\ UNCHANGED owner
       \/ Lost(t)
    /\ UNCHANGED ops

\* rollback: the container found first takes the project's name again.
Swap(t) ==
    /\ job[t].pc = "swap"
    /\ RenameContainer(job[t].old, Own(t, "current"))
    /\ \/ Become(t, [job[t] EXCEPT !.pc = "launch", !.cur = job[t].old]) /\ UNCHANGED owner
       \/ Lost(t)
    /\ UNCHANGED ops

Launch(t) ==
    /\ job[t].pc = "launch"
    /\ StartContainer(job[t].cur)
    /\ Finish(t)
    /\ UNCHANGED ops

Discard(t) ==
    /\ job[t].pc = "discard"
    /\ RemoveContainer(job[t].cur)
    /\ Proceed(t) \/ Lost(t)
    /\ UNCHANGED ops

\* The daemon accepts the call the task is about to make.
Accepted(t) ==
    CASE job[t].pc \in {"halt", "restart"}  -> Exists(job[t].cur)
      [] job[t].pc = "poll"                 -> st[job[t].cur] # "none"
      [] job[t].pc \in {"purge", "discard"} -> CanRemove(job[t].cur)
      [] job[t].pc = "retire"               -> CanRename(job[t].cur, RetireName(t))
      [] job[t].pc = "create"               -> CanCreate(Own(t, "current"), <<job[t].proj, job[t].ver>>)
      [] job[t].pc = "swap"                 -> CanRename(job[t].old, Own(t, "current"))
      [] job[t].pc = "launch"               -> CanStart(job[t].cur)
      [] OTHER                              -> TRUE

\* A DockerException, for a call refused or one that got nowhere: it is logged and
\* the operation ends, whatever it has done so far.
CallFails(t) ==
    /\ job[t].pc \notin {"idle", "queued"} \union Waiting
    /\ job[t].pc \in {"cleared", "poll"} => job[t].polls > 0
    /\ Faults \/ ~Accepted(t)
    /\ Finish(t)
    /\ UNCHANGED <<dockerVars, ops>>

\* The hourly clear: images of a project beyond the newest KeepImages versions, one
\* at a time, outside the monitor.
ClearImages(p) ==
    /\ \E v \in Versions :
         /\ Cardinality({w \in Versions : w > v /\ <<p, w>> \in images}) >= KeepImages
         /\ DeleteImage(<<p, v>>)
    /\ UNCHANGED <<owner, job, ops>>

-----------------------------------------------------------------------------
Init ==
    /\ DockerInit
    /\ owner = NoTask
    /\ job = [t \in Tasks |-> Idle]
    /\ ops = 0

Step(t) ==
    \/ Enter(t) \/ PrepareImage(t) \/ FindOldest(t) \/ Clean(t) \/ Purge(t)
    \/ AwaitCleared(t) \/ Wake(t) \/ Find(t) \/ Halt(t) \/ Restart(t) \/ Poll(t)
    \/ Retire(t) \/ Create(t) \/ Swap(t) \/ Launch(t) \/ Discard(t) \/ CallFails(t)

Daemon ==
    \/ \E i \in Ids : (Exit(i) \/ Vanish(i)) /\ UNCHANGED <<owner, job, ops>>
    \/ \E p \in Projects : ClearImages(p)

\* Every operation asked for has ended and no more are asked for.
Quiet ==
    /\ ops = MaxOps /\ \A t \in Tasks : job[t].pc = "idle"
    /\ UNCHANGED vars

Next == (\E t \in Tasks : Submit(t) \/ Step(t)) \/ Daemon \/ Quiet

Spec == Init /\ [][Next]_vars

\* A task that can go on does: the executor runs it, its calls return, and the
\* monitor is handed over.
FairSpec == Spec /\ \A t \in Tasks : WF_vars(Step(t))

-----------------------------------------------------------------------------
(* Properties *)

\* Every variable has its type.
TypeOK ==
    /\ DockerTypeOK
    /\ owner \in Tasks \union {NoTask}
    /\ job \in [Tasks -> Job]
    /\ ops \in 0..MaxOps

\* Points at which a synchronized operation holds the monitor.
InMonitor(t) ==
    /\ job[t].kind \in Synchronized
    /\ job[t].pc \notin {"idle", "queued"} \union Waiting

\* upgrade and rollback exclude each other, but for their waits.
Exclusive == \A t \in Tasks : InMonitor(t) => owner = t

\* A machine never runs two containers of one project: an operation starts a
\* container only when the one it replaces has stopped, whatever other upgrades,
\* rollbacks and stops did during its waits and whichever of its calls failed.
SingleInstance ==
    \A i, j \in Ids : IsRunning(i) /\ IsRunning(j) /\ name[i][1] = name[j][1] => i = j

\* When an upgrade starts the new container, the one it found is kept, stopped, as
\* cname-old for a rollback.
BackupKept ==
    \A t \in Tasks :
      job[t].kind = "upgrade" /\ job[t].pc \in {"create", "launch"} /\ job[t].old # NoId =>
        /\ name[job[t].old] = Own(t, "old")
        /\ Exists(job[t].old) /\ ~IsRunning(job[t].old)

\* No operation removes or renames a container while it runs.
RunningUntouched ==
    [][\A i \in Ids : IsRunning(i) => name'[i] = name[i] /\ st'[i] \notin {"removing", "none"}]_vars

\* Every operation asked for ends, however its calls go.
EveryOperationEnds == \A t \in Tasks : job[t].pc = "queued" ~> job[t].pc = "idle"

\* How many steps an operation has still to make at most.  A poll takes two, a wait and a look;
\* a remove goes through the containers twice.
Ahead(j) ==
    LET again == IF j.kind = "remove" THEN 4 + 2 * KillTime ELSE 0 IN
    CASE j.pc = "idle"                     -> 0
      [] j.pc = "launch"                   -> again + 1
      [] j.pc \in {"create", "swap"}        -> again + 2
      [] j.pc \in {"retire", "discard"}     -> again + 3
      [] j.pc = "poll"                     -> again + 4 + 2 * j.polls
      [] j.pc = "waitPoll"                 -> again + 5 + 2 * j.polls
      [] j.pc \in {"halt", "restart"}       -> again + 5 + 2 * KillTime
      [] j.pc = "find"                     -> again + 6 + 2 * KillTime
      [] j.pc = "cleared"                  -> again + 7 + 2 * KillTime + 2 * j.polls
      [] j.pc \in {"waitCleared", "purge"}  -> again + 8 + 2 * KillTime + 2 * j.polls
      [] j.pc = "clean"                    -> again + 9 + 4 * KillTime + 2 * BakPolls
      [] j.pc \in {"image", "oldest"}       -> again + 10 + 4 * KillTime + 2 * BakPolls
      [] OTHER                             -> again + 11 + 4 * KillTime + 2 * BakPolls

\* Every step of an operation brings it nearer to its end, and nothing else moves it: it comes
\* to its end in a number of steps that the waits bound, however often others come between.
EveryStepCounts ==
    [][\A t \in Tasks :
         /\ Step(t) => Ahead(job'[t]) < Ahead(job[t])
         /\ job[t].pc # "idle" /\ ~Step(t) => job'[t] = job[t]]_vars

\* The containers of the machine by place: a refinement mapping to DeploymentSlots.
HolderOf == [n \in Names |-> IF NameFree(n) THEN NoId ELSE CHOOSE i \in Named(n) : TRUE]
RunningNow == {i \in Ids : IsRunning(i)}

Abs == INSTANCE DeploymentSlots WITH holder <- HolderOf, running <- RunningNow

\* Every operation, step by step, does to the places of the containers what
\* DeploymentSlots allows, or nothing.
ImplementsSlots == Abs!SlotSpec

\* A container carries names of the project whose image it runs, and no other.
NamedForItsImage == \A i \in Ids : st[i] # "none" => name[i][1] = image[i][1]

\* "no old container" (DockerMachine.java:407): a rollback of a project that has no
\* cname-old container ends there.
RollbackNeedsOwnOld ==
    [][\A t \in Tasks : job[t].pc = "oldest" /\ Named(Own(t, "old")) = {}
                        => job'[t].pc \in {"oldest", "idle"}]_vars

\* "force: kill the container first if it runs" (DockerClient.java:833): a removal
\* the daemon answers removes, whether or not the container runs.
ForceRemoves ==
    [][\A t \in Tasks : job[t].pc = "purge" /\ Exists(job[t].cur) /\ job'[t].pc # "purge"
                        => st'[job[t].cur] = "removing"]_vars
=============================================================================
