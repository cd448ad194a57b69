------------------------ MODULE DockerMachine_proofs ------------------------
(***************************************************************************)
(* Theorems about DockerMachine, for every machine, every set of projects  *)
(* and operations and every bound.                                         *)
(***************************************************************************)
EXTENDS DockerMachine, TLAPS

LEMMA NothingTypes == NoName \in Names /\ NoImage \in Images
  <1>1. PICK p \in Projects : TRUE
    BY DockerAssumption
  <1>2. <<p, "current">> \in Names
    BY DEF Names, Slots
  <1>3. <<p, 1>> \in Images
    BY DockerAssumption DEF Images, Versions
  <1>. QED
    BY <1>2, <1>3, Zenon DEF NoName, NoImage

LEMMA IdleIsJob == Idle \in Job
  <1>1. NoName \in Names
    BY NothingTypes
  <1>2. NoName[1] \in Projects
    BY <1>1 DEF Names
  <1>. QED
    BY <1>2, DockerAssumption DEF Idle, Job, Points, AllKinds, Versions, NoId

LEMMA PointNames ==
  /\ "idle" \in Points /\ "queued" \in Points /\ "image" \in Points /\ "clean" \in Points
  /\ "purge" \in Points /\ "cleared" \in Points /\ "waitCleared" \in Points
  /\ "find" \in Points /\ "halt" \in Points /\ "restart" \in Points /\ "poll" \in Points
  /\ "waitPoll" \in Points /\ "retire" \in Points /\ "create" \in Points
  /\ "swap" \in Points /\ "launch" \in Points /\ "discard" \in Points
  /\ "oldest" \in Points
  BY DEF Points

\* The ways a step changes the locals of an operation.
LEMMA JobTypes ==
  ASSUME NEW j \in Job, NEW l \in Points, NEW i \in Ids \union {NoId}, NEW n \in Nat
  PROVE  /\ [j EXCEPT !.pc = l] \in Job
         /\ [j EXCEPT !.pc = l, !.cur = i] \in Job
         /\ [j EXCEPT !.pc = l, !.old = i] \in Job
         /\ [j EXCEPT !.pc = l, !.polls = n] \in Job
         /\ [j EXCEPT !.pc = l, !.cur = i, !.polls = n] \in Job
         /\ [j EXCEPT !.kind = "removeOld", !.pc = l] \in Job
  BY DEF Job

LEMMA BecomeType ==
  ASSUME TypeOK, NEW t \in Tasks, NEW j \in Job, Become(t, j)
  PROVE  job' \in [Tasks -> Job]
  BY DEF TypeOK, Become

LEMMA FinishType ==
  ASSUME TypeOK, NEW t \in Tasks, Finish(t)
  PROVE  job' \in [Tasks -> Job] /\ owner' \in Tasks \union {NoTask}
  BY IdleIsJob, BecomeType DEF TypeOK, Finish

LEMMA GotoType ==
  ASSUME TypeOK, NEW t \in Tasks, NEW l \in Points, Goto(t, l)
  PROVE  job' \in [Tasks -> Job] /\ owner' \in Tasks \union {NoTask}
  <1>1. [job[t] EXCEPT !.pc = l] \in Job
    BY JobTypes DEF TypeOK, NoId
  <1>. QED
    BY <1>1, BecomeType DEF TypeOK, Goto

LEMMA DozeType ==
  ASSUME TypeOK, NEW t \in Tasks, NEW l \in Points, NEW i \in Ids \union {NoId},
         job[t].polls > 0, Doze(t, l, i)
  PROVE  job' \in [Tasks -> Job] /\ owner' \in Tasks \union {NoTask}
  <1>1. job[t] \in Job /\ job[t].polls - 1 \in Nat
    BY DEF TypeOK, Job
  <1>2. [job[t] EXCEPT !.pc = l, !.cur = i, !.polls = job[t].polls - 1] \in Job
    BY <1>1, JobTypes
  <1>. QED
    BY <1>2, BecomeType DEF TypeOK, Doze

LEMMA ProceedType ==
  ASSUME TypeOK, NEW t \in Tasks, Proceed(t)
  PROVE  job' \in [Tasks -> Job] /\ owner' \in Tasks \union {NoTask}
  <1>1. [job[t] EXCEPT !.kind = "removeOld", !.pc = "find"] \in Job
    BY JobTypes, PointNames DEF TypeOK, NoId
  <1>. QED
    BY <1>1, GotoType, FinishType, BecomeType, PointNames DEF TypeOK, Proceed

\* Every call, and every step of the daemon, leaves a well-formed table of containers.
LEMMA CallType ==
  ASSUME DockerTypeOK
  PROVE  /\ \A i : StopContainer(i) \/ StartContainer(i) \/ RestartContainer(i)
                   \/ RemoveContainer(i) \/ Exit(i) => DockerTypeOK'
         /\ \A i : Vanish(i) => DockerTypeOK'
         /\ \A i, n : n \in Names /\ RenameContainer(i, n) => DockerTypeOK'
         /\ \A n, m : n \in Names /\ m \in Images /\ CreateContainer(n, m) => DockerTypeOK'
         /\ \A m : m \in Images /\ BuildImage(m) => DockerTypeOK'
         /\ \A m : DeleteImage(m) => DockerTypeOK'
  <1>1. ASSUME NEW i, StopContainer(i) \/ StartContainer(i) \/ RestartContainer(i)
                     \/ RemoveContainer(i) \/ Exit(i)
        PROVE  DockerTypeOK'
    BY <1>1 DEF DockerTypeOK, StopContainer, StartContainer, RestartContainer, RemoveContainer,
                Exit, ContainerStates
  <1>2. ASSUME NEW i, Vanish(i) PROVE DockerTypeOK'
    <2>1. NoName \in Names /\ NoImage \in Images
      BY NothingTypes
    <2>. QED
      BY <1>2, <2>1 DEF DockerTypeOK, Vanish, ContainerStates
  <1>3. ASSUME NEW i, NEW n \in Names, RenameContainer(i, n) PROVE DockerTypeOK'
    BY <1>3 DEF DockerTypeOK, RenameContainer
  <1>4. ASSUME NEW n \in Names, NEW m \in Images, CreateContainer(n, m) PROVE DockerTypeOK'
    <2>1. created + 1 \in 0..MaxContainers
      BY <1>4, DockerAssumption DEF DockerTypeOK, CreateContainer
    <2>. QED
      BY <1>4, <2>1 DEF DockerTypeOK, CreateContainer, ContainerStates
  <1>5. ASSUME NEW m \in Images, BuildImage(m) PROVE DockerTypeOK'
    BY <1>5 DEF DockerTypeOK, BuildImage
  <1>6. ASSUME NEW m, DeleteImage(m) PROVE DockerTypeOK'
    BY <1>6 DEF DockerTypeOK, DeleteImage
  <1>. QED
    BY <1>1, <1>2, <1>3, <1>4, <1>5, <1>6

LEMMA OwnNames ==
  ASSUME TypeOK, NEW t \in Tasks
  PROVE  /\ \A s \in Slots : Own(t, s) \in Names
         /\ RetireName(t) \in Names
         /\ <<job[t].proj, job[t].ver>> \in Images
  BY DEF TypeOK, Job, Own, RetireName, Names, Slots, Images

LEMMA TypeInit == Init => TypeOK
  <1>. SUFFICES ASSUME Init PROVE TypeOK
    OBVIOUS
  <1>. USE DockerAssumption, NothingTypes DEF Init, DockerInit
  <1>1. \A i \in 1..Len(Earlier) : Earlier[i] \in Names /\ <<Earlier[i][1], 1>> \in Images
    BY DEF Names, Images, Versions
  <1>2. st \in [Ids -> ContainerStates]
    BY DEF ContainerStates
  <1>3. name \in [Ids -> Names] /\ image \in [Ids -> Images] /\ images \subseteq Images
    BY <1>1
  <1>4. created \in 0..MaxContainers
    OBVIOUS
  <1>5. job \in [Tasks -> Job]
    BY IdleIsJob
  <1>6. ops \in 0..MaxOps
    BY MachineAssumption
  <1>. QED
    BY <1>2, <1>3, <1>4, <1>5, <1>6 DEF TypeOK, DockerTypeOK

LEMMA TypeStep == TypeOK /\ [Next]_vars => TypeOK'
  <1>. SUFFICES ASSUME TypeOK, [Next]_vars PROVE TypeOK'
    OBVIOUS
  <1>. DEFINE TasksOK == job' \in [Tasks -> Job] /\ owner' \in Tasks \union {NoTask}
  <1>1. DockerTypeOK /\ ops \in 0..MaxOps /\ owner \in Tasks \union {NoTask}
        /\ job \in [Tasks -> Job]
    BY DEF TypeOK
  <1>2. ASSUME UNCHANGED dockerVars PROVE DockerTypeOK'
    BY <1>1, <1>2 DEF DockerTypeOK, dockerVars
  <1>3. SUFFICES DockerTypeOK' /\ TasksOK /\ ops' \in 0..MaxOps
    BY DEF TypeOK
  <1>4. ASSUME NEW t \in Tasks, Submit(t) PROVE DockerTypeOK' /\ TasksOK /\ ops' \in 0..MaxOps
    <2>1. PICK k \in Kinds, p \in Projects, v \in Versions :
            Become(t, [Idle EXCEPT !.pc = "queued", !.kind = k, !.proj = p, !.ver = v])
      BY <1>4 DEF Submit
    <2>2. [Idle EXCEPT !.pc = "queued", !.kind = k, !.proj = p, !.ver = v] \in Job
      BY IdleIsJob, MachineAssumption, PointNames DEF Job
    <2>3. ops' \in 0..MaxOps
      BY <1>1, <1>4, MachineAssumption DEF Submit
    <2>. QED
      BY <1>1, <1>2, <1>4, <2>1, <2>2, <2>3, BecomeType DEF Submit
  <1>5. ASSUME NEW t \in Tasks, Step(t) PROVE DockerTypeOK' /\ TasksOK /\ ops' \in 0..MaxOps
    <2>0. ops' = ops
      BY <1>5 DEF Step, Enter, PrepareImage, FindOldest, Clean, Purge, AwaitCleared, Wake, Find,
                  Halt, Restart, Poll, Retire, Create, Swap, Launch, Discard, CallFails
    <2>1. CASE Enter(t)
      <3>1. [job[t] EXCEPT !.pc = FirstPoint(job[t].kind)] \in Job
        BY <1>1, JobTypes, PointNames DEF FirstPoint, NoId
      <3>. QED
        BY <1>1, <1>2, <2>0, <2>1, <3>1, BecomeType, FinishType DEF Enter
    <2>2. CASE PrepareImage(t)
      BY <1>1, <1>2, <2>0, <2>2, CallType, OwnNames, PointNames, GotoType, FinishType
         DEF PrepareImage
    <2>3. CASE FindOldest(t)
      <3>1. \A i \in Ids : [job[t] EXCEPT !.pc = "clean", !.old = i] \in Job
        BY <1>1, JobTypes, PointNames
      <3>. QED
        BY <1>1, <1>2, <2>0, <2>3, <3>1, BecomeType, FinishType DEF FindOldest, Newest, Matching
    <2>4. CASE Clean(t)
      <3>1. \A n \in Nat : [job[t] EXCEPT !.pc = "cleared", !.polls = n] \in Job
        BY <1>1, JobTypes, PointNames DEF NoId
      <3>2. \A i \in Ids, n \in Nat : [job[t] EXCEPT !.pc = "purge", !.cur = i, !.polls = n] \in Job
        BY <1>1, JobTypes, PointNames
      <3>3. Backups(t) \subseteq Ids
        BY DEF Backups, Named, Newest, Matching
      <3>. QED
        BY <1>1, <1>2, <2>0, <2>4, <3>1, <3>2, <3>3, BecomeType, MachineAssumption DEF Clean
    <2>5. CASE Purge(t)
      BY <1>1, <2>0, <2>5, CallType, PointNames, GotoType, FinishType DEF Purge, Lost
    <2>6. CASE AwaitCleared(t)
      <3>1. [job[t] EXCEPT !.pc = "find", !.cur = NoId, !.polls = 0] \in Job
        BY <1>1, JobTypes, PointNames
      <3>2. Backups(t) \subseteq Ids
        BY DEF Backups, Named, Newest, Matching
      <3>3. TasksOK
        BY <1>1, <2>6, <3>1, <3>2, BecomeType, DozeType, FinishType, PointNames DEF AwaitCleared
      <3>. QED
        BY <1>2, <1>1, <2>0, <2>6, <3>3 DEF AwaitCleared
    <2>7. CASE Wake(t)
      <3>1. [job[t] EXCEPT !.pc = IF @ = "waitPoll" THEN "poll" ELSE "cleared"] \in Job
        BY <1>1, JobTypes, PointNames DEF NoId
      <3>. QED
        BY <1>1, <1>2, <2>0, <2>7, <3>1, BecomeType DEF Wake
    <2>8. CASE Find(t)
      <3>1. FirstCall(job[t].kind) \in Points
        BY PointNames DEF FirstCall
      <3>2. \A i \in Ids : [job[t] EXCEPT !.pc = FirstCall(job[t].kind), !.cur = i] \in Job
        BY <1>1, <3>1, JobTypes
      <3>3. Found(t) \subseteq Ids
        BY DEF Found, Named, Newest, Matching
      <3>. QED
        BY <1>1, <1>2, <2>0, <2>8, <3>2, <3>3, BecomeType, ProceedType DEF Find
    <2>9. CASE Halt(t) \/ Restart(t)
      <3>1. [job[t] EXCEPT !.pc = "poll", !.polls = KillTime] \in Job
        BY <1>1, JobTypes, PointNames, MachineAssumption DEF NoId
      <3>. QED
        BY <1>1, <2>0, <2>9, <3>1, CallType, BecomeType, FinishType DEF Halt, Restart, Lost
    <2>11. CASE Poll(t)
      <3>1. job[t].cur \in Ids \union {NoId}
        BY <1>1 DEF Job
      <3>2. TasksOK
        BY <2>11, <3>1, DozeType, FinishType, ProceedType, GotoType, PointNames DEF Poll
      <3>. QED
        BY <1>1, <1>2, <2>0, <2>11, <3>2 DEF Poll
    <2>12. CASE Retire(t)
      <3>1. job[t].cur \in Ids \union {NoId}
        BY <1>1 DEF Job
      <3>2. [job[t] EXCEPT !.pc = "create", !.old = job[t].cur] \in Job
        BY <1>1, <3>1, JobTypes, PointNames
      <3>3. [job[t] EXCEPT !.pc = "swap"] \in Job
        BY <1>1, JobTypes, PointNames DEF NoId
      <3>. QED
        BY <1>1, <2>0, <2>12, <3>2, <3>3, CallType, BecomeType, OwnNames, FinishType DEF Retire, Lost
    <2>13. CASE Create(t)
      <3>1. created + 1 \in Ids
        BY <1>1, <2>13, DockerAssumption DEF Create, CreateContainer, Ids, DockerTypeOK
      <3>2. [job[t] EXCEPT !.pc = "launch", !.cur = created + 1] \in Job
        BY <1>1, <3>1, JobTypes, PointNames
      <3>3. Own(t, "current") \in Names
        BY OwnNames DEF Slots
      <3>. QED
        BY <1>1, <2>0, <2>13, <3>2, <3>3, CallType, BecomeType, OwnNames, FinishType DEF Create, Lost
    <2>14. CASE Swap(t)
      <3>1. job[t].old \in Ids \union {NoId}
        BY <1>1 DEF Job
      <3>2. [job[t] EXCEPT !.pc = "launch", !.cur = job[t].old] \in Job
        BY <1>1, <3>1, JobTypes, PointNames
      <3>3. Own(t, "current") \in Names
        BY OwnNames DEF Slots
      <3>. QED
        BY <1>1, <2>0, <2>14, <3>2, <3>3, CallType, BecomeType, FinishType DEF Swap, Lost
    <2>15. CASE Launch(t)
      BY <1>1, <2>0, <2>15, CallType, FinishType DEF Launch
    <2>16. CASE Discard(t)
      BY <1>1, <2>0, <2>16, CallType, FinishType, ProceedType DEF Discard, Lost
    <2>17. CASE CallFails(t)
      BY <1>1, <1>2, <2>0, <2>17, FinishType DEF CallFails
    <2>. QED
      BY <1>5, <2>1, <2>2, <2>3, <2>4, <2>5, <2>6, <2>7, <2>8, <2>9, <2>11, <2>12,
         <2>13, <2>14, <2>15, <2>16, <2>17 DEF Step
  <1>6. ASSUME Daemon PROVE DockerTypeOK' /\ TasksOK /\ ops' \in 0..MaxOps
    BY <1>1, <1>6, CallType DEF Daemon, ClearImages
  <1>7. CASE UNCHANGED vars
    BY <1>1, <1>2, <1>7 DEF vars
  <1>. QED
    BY <1>4, <1>5, <1>6, <1>7 DEF Next, Quiet

\* Every variable keeps its type, for every machine and every operation.
THEOREM TypeCorrect == Spec => []TypeOK
  BY TypeInit, TypeStep, PTL DEF Spec

-----------------------------------------------------------------------------
(* The monitor *)

Inside(j) == j.kind \in Synchronized /\ j.pc \notin {"idle", "queued"} \union Waiting

\* The ways a step changes one job and the holder of the monitor.
LEMMA MonitorKept ==
  ASSUME TypeOK, Exclusive, NEW t \in Tasks, NEW j, Become(t, j), owner' = owner,
         Inside(j) => Inside(job[t])
  PROVE  Exclusive'
  BY DEF TypeOK, Exclusive, Become, Inside, InMonitor

LEMMA MonitorReleased ==
  ASSUME TypeOK, Exclusive, NEW t \in Tasks, NEW j, Become(t, j), ~Inside(j),
         owner' = IF owner = t THEN NoTask ELSE owner
  PROVE  Exclusive'
  BY DEF TypeOK, Exclusive, Become, Inside, InMonitor

LEMMA MonitorTaken ==
  ASSUME TypeOK, Exclusive, NEW t \in Tasks, NEW j, Become(t, j), owner = NoTask,
         owner' = IF j.kind \in Synchronized THEN t ELSE owner
  PROVE  Exclusive'
  BY MachineAssumption DEF TypeOK, Exclusive, Become, Inside, InMonitor

LEMMA FinishExclusive ==
  ASSUME TypeOK, Exclusive, NEW t \in Tasks, Finish(t)
  PROVE  Exclusive'
  BY MonitorReleased DEF Finish, Inside, Idle

LEMMA GotoExclusive ==
  ASSUME TypeOK, Exclusive, NEW t \in Tasks, NEW l, Goto(t, l),
         job[t].pc \notin {"idle", "queued"} \union Waiting
  PROVE  Exclusive'
  <1>1. [job[t] EXCEPT !.pc = l].kind = job[t].kind
    BY DEF TypeOK, Job
  <1>. QED
    BY <1>1, MonitorKept DEF Goto, Inside

LEMMA DozeExclusive ==
  ASSUME TypeOK, Exclusive, NEW t \in Tasks, NEW l \in Waiting, NEW i, Doze(t, l, i)
  PROVE  Exclusive'
  <1>1. [job[t] EXCEPT !.pc = l, !.cur = i, !.polls = job[t].polls - 1].pc = l
    BY DEF TypeOK, Job
  <1>. QED
    BY <1>1, MonitorReleased DEF Doze, Inside

LEMMA ProceedExclusive ==
  ASSUME TypeOK, Exclusive, NEW t \in Tasks, Proceed(t),
         job[t].pc \notin {"idle", "queued"} \union Waiting
  PROVE  Exclusive'
  <1>1. [job[t] EXCEPT !.kind = "removeOld", !.pc = "find"].kind = "removeOld"
    BY DEF TypeOK, Job
  <1>. QED
    BY <1>1, MonitorKept, GotoExclusive, FinishExclusive DEF Proceed, Inside, Synchronized

LEMMA ExclusiveStep == TypeOK /\ Exclusive /\ [Next]_vars => Exclusive'
  <1>. SUFFICES ASSUME TypeOK, Exclusive, [Next]_vars PROVE Exclusive'
    OBVIOUS
  <1>. USE DEF Inside
  <1>0. \A t \in Tasks : job[t] \in Job
    BY DEF TypeOK
  <1>1. ASSUME NEW t \in Tasks, Submit(t) PROVE Exclusive'
    <2>1. PICK k \in Kinds, p \in Projects, v \in Versions :
            Become(t, [Idle EXCEPT !.pc = "queued", !.kind = k, !.proj = p, !.ver = v])
      BY <1>1 DEF Submit
    <2>2. [Idle EXCEPT !.pc = "queued", !.kind = k, !.proj = p, !.ver = v].pc = "queued"
      BY DEF Idle
    <2>. QED
      BY <1>1, <2>1, <2>2, MonitorKept DEF Submit
  <1>2. ASSUME NEW t \in Tasks, Enter(t) PROVE Exclusive'
    <2>1. [job[t] EXCEPT !.pc = FirstPoint(job[t].kind)].kind = job[t].kind
      BY <1>0 DEF Job
    <2>. QED
      BY <1>2, <2>1, MonitorTaken, MonitorKept, FinishExclusive DEF Enter
  <1>3. ASSUME NEW t \in Tasks, Wake(t) PROVE Exclusive'
    <2>1. [job[t] EXCEPT !.pc = IF @ = "waitPoll" THEN "poll" ELSE "cleared"].kind = job[t].kind
      BY <1>0 DEF Job
    <2>. QED
      BY <1>3, <2>1, MonitorTaken DEF Wake
  <1>4. ASSUME NEW t \in Tasks,
               \/ PrepareImage(t) \/ FindOldest(t) \/ Clean(t) \/ Purge(t) \/ AwaitCleared(t)
               \/ Find(t) \/ Halt(t) \/ Restart(t) \/ Poll(t) \/ Retire(t) \/ Create(t)
               \/ Swap(t) \/ Launch(t) \/ Discard(t)
        PROVE  Exclusive'
    <2>0. job[t].pc \notin {"idle", "queued"} \union Waiting
      BY <1>4 DEF PrepareImage, FindOldest, Clean, Purge, AwaitCleared, Find, Halt, Restart,
                  Poll, Retire, Create, Swap, Launch, Discard, Waiting
    <2>1. /\ \A l : [job[t] EXCEPT !.pc = l].kind = job[t].kind
          /\ \A l, i : [job[t] EXCEPT !.pc = l, !.old = i].kind = job[t].kind
          /\ \A l, i : [job[t] EXCEPT !.pc = l, !.cur = i].kind = job[t].kind
          /\ \A l, n : [job[t] EXCEPT !.pc = l, !.polls = n].kind = job[t].kind
          /\ \A l, i, n : [job[t] EXCEPT !.pc = l, !.cur = i, !.polls = n].kind = job[t].kind
      BY <1>0 DEF Job
    <2>2. CASE PrepareImage(t)
      BY <2>0, <2>2, GotoExclusive, FinishExclusive DEF PrepareImage
    <2>3. CASE FindOldest(t)
      BY <2>0, <2>1, <2>3, MonitorKept, FinishExclusive DEF FindOldest
    <2>4. CASE Clean(t)
      <3>0. PICK n : n = IF job[t].kind = "upgrade" THEN KillTime ELSE BakPolls
        OBVIOUS
      <3>1. owner' = owner
        BY <2>4 DEF Clean
      <3>2. CASE Become(t, [job[t] EXCEPT !.pc = "cleared", !.polls = n])
        <4>1. [job[t] EXCEPT !.pc = "cleared", !.polls = n].kind = job[t].kind
          BY <1>0 DEF Job
        <4>. QED
          BY <2>0, <3>1, <3>2, <4>1, MonitorKept
      <3>3. ASSUME NEW i, Become(t, [job[t] EXCEPT !.pc = "purge", !.cur = i, !.polls = n])
            PROVE  Exclusive'
        <4>1. [job[t] EXCEPT !.pc = "purge", !.cur = i, !.polls = n].kind = job[t].kind
          BY <1>0 DEF Job
        <4>. QED
          BY <2>0, <3>1, <3>3, <4>1, MonitorKept
      <3>. QED
        BY <2>4, <3>0, <3>2, <3>3 DEF Clean
    <2>5. CASE Purge(t)
      BY <2>0, <2>5, GotoExclusive, FinishExclusive DEF Purge, Lost
    <2>6. CASE AwaitCleared(t)
      <3>1. [job[t] EXCEPT !.pc = "find", !.cur = NoId, !.polls = 0].kind = job[t].kind
        BY <1>0 DEF Job
      <3>2. ASSUME Become(t, [job[t] EXCEPT !.pc = "find", !.cur = NoId, !.polls = 0]),
                   owner' = owner
            PROVE  Exclusive'
        BY <2>0, <3>1, <3>2, MonitorKept
      <3>. QED
        BY <2>6, <3>2, DozeExclusive, FinishExclusive DEF AwaitCleared, Waiting
    <2>7. CASE Find(t)
      BY <2>0, <2>1, <2>7, MonitorKept, ProceedExclusive DEF Find
    <2>8. CASE Halt(t) \/ Restart(t)
      BY <2>0, <2>1, <2>8, MonitorKept, FinishExclusive DEF Halt, Restart, Lost
    <2>9. CASE Poll(t)
      BY <2>0, <2>9, DozeExclusive, GotoExclusive, ProceedExclusive, FinishExclusive
         DEF Poll, Waiting
    <2>10. CASE Retire(t)
      BY <2>0, <2>1, <2>10, MonitorKept, FinishExclusive DEF Retire, Lost
    <2>11. CASE Create(t)
      BY <2>0, <2>1, <2>11, MonitorKept, FinishExclusive DEF Create, Lost
    <2>12. CASE Swap(t)
      BY <2>0, <2>1, <2>12, MonitorKept, FinishExclusive DEF Swap, Lost
    <2>13. CASE Launch(t)
      BY <2>13, FinishExclusive DEF Launch
    <2>14. CASE Discard(t)
      BY <2>0, <2>14, ProceedExclusive, FinishExclusive DEF Discard, Lost
    <2>. QED
      BY <1>4, <2>2, <2>3, <2>4, <2>5, <2>6, <2>7, <2>8, <2>9, <2>10, <2>11, <2>12, <2>13, <2>14
  <1>5. ASSUME NEW t \in Tasks, CallFails(t) PROVE Exclusive'
    BY <1>5, FinishExclusive DEF CallFails
  <1>6. ASSUME UNCHANGED <<owner, job>> PROVE Exclusive'
    BY <1>6 DEF Exclusive, InMonitor
  <1>. QED
    BY <1>1, <1>2, <1>3, <1>4, <1>5, <1>6 DEF Next, Step, Daemon, ClearImages, Quiet, vars

\* upgrade and rollback exclude each other outside their waits, whatever else runs.
THEOREM MonitorExclusive == Spec => []Exclusive
  <1>1. Init => Exclusive
    BY DEF Init, Exclusive, InMonitor, Idle
  <1>. QED
    BY <1>1, TypeInit, TypeStep, ExclusiveStep, PTL DEF Spec

-----------------------------------------------------------------------------
(* One running container a project *)

\* Containers the daemon lists have names of their own.
NamesUnique ==
    \A i, j \in Ids : st[i] # "none" /\ st[j] # "none" /\ name[i] = name[j] => i = j

RunningIsCurrent == \A i \in Ids : IsRunning(i) => name[i][2] = "current"

\* What a task may rely on about the container it is about to rename or start.  It holds
\* the monitor there, so no other task is at a call that renames or starts one.
JobSound(t) ==
    /\ job[t].kind \notin {"start", "restart"} /\ job[t].pc # "restart"
    /\ job[t].pc = "retire" =>
         job[t].kind \in Synchronized /\ (job[t].cur \in Ids => ~IsRunning(job[t].cur))
    /\ job[t].pc = "create" => job[t].kind = "upgrade"
    /\ job[t].pc = "swap" => job[t].kind = "rollback"
    /\ job[t].pc = "launch" =>
         /\ job[t].kind \in Synchronized
         /\ job[t].cur \in Ids /\ st[job[t].cur] # "none" => name[job[t].cur] = Own(t, "current")

SlotInv ==
    /\ TypeOK /\ Exclusive
    /\ NamesUnique /\ RunningIsCurrent
    /\ \A t \in Tasks : JobSound(t)

\* A step that starts no container, names none and creates none.
Calm == \A i \in Ids : /\ IsRunning(i)' => IsRunning(i)
                       /\ st'[i] # "none" => st[i] # "none" /\ name'[i] = name[i]

LEMMA CalmCalls ==
  ASSUME DockerTypeOK
  PROVE  /\ \A i : StopContainer(i) \/ RemoveContainer(i) \/ Exit(i) \/ Vanish(i) => Calm
         /\ \A m : BuildImage(m) \/ DeleteImage(m) => Calm
         /\ UNCHANGED dockerVars => Calm
  <1>. USE DEF DockerTypeOK, Calm, IsRunning
  <1>1. ASSUME NEW i, StopContainer(i) PROVE Calm
    BY <1>1 DEF StopContainer, Exists
  <1>2. ASSUME NEW i, RemoveContainer(i) \/ Exit(i) PROVE Calm
    BY <1>2 DEF RemoveContainer, CanRemove, Exists, Exit
  <1>3. ASSUME NEW i, Vanish(i) PROVE Calm
    BY <1>3 DEF Vanish
  <1>4. ASSUME NEW m, BuildImage(m) \/ DeleteImage(m) PROVE Calm
    BY <1>4 DEF BuildImage, DeleteImage
  <1>5. ASSUME UNCHANGED dockerVars PROVE Calm
    BY <1>5 DEF dockerVars
  <1>. QED
    BY <1>1, <1>2, <1>3, <1>4, <1>5

LEMMA CalmTable ==
  ASSUME NamesUnique, RunningIsCurrent, DockerTypeOK, Calm
  PROVE  NamesUnique' /\ RunningIsCurrent'
  <1>1. NamesUnique'
    BY DEF NamesUnique, Calm
  <1>2. RunningIsCurrent'
    BY DEF RunningIsCurrent, Calm, IsRunning, DockerTypeOK
  <1>. QED
    BY <1>1, <1>2

LEMMA CalmOthers ==
  ASSUME SlotInv, Calm, NEW u \in Tasks, job'[u] = job[u]
  PROVE  JobSound(u)'
  <1>1. JobSound(u)
    BY DEF SlotInv
  <1>. QED
    BY <1>1 DEF JobSound, Calm, Own

\* At a call that renames, creates or starts, no other task is.
LEMMA AloneInMonitor ==
  ASSUME SlotInv, NEW t \in Tasks, job[t].pc \in {"retire", "create", "swap", "launch"},
         NEW u \in Tasks, u # t, job'[u] = job[u]
  PROVE  JobSound(u)'
  <1>1. JobSound(u) /\ JobSound(t)
    BY DEF SlotInv
  <1>2. InMonitor(t)
    BY <1>1 DEF JobSound, InMonitor, Synchronized, Waiting
  <1>3. ~InMonitor(u)
    BY <1>2 DEF SlotInv, Exclusive
  <1>4. job[u].pc \notin {"retire", "create", "swap", "launch"}
    BY <1>1, <1>3 DEF JobSound, InMonitor, Synchronized, Waiting
  <1>. QED
    BY <1>1, <1>4 DEF JobSound

\* Points at which a task relies on nothing.
Careless == {"idle", "queued", "image", "clean", "purge", "cleared", "waitCleared",
             "find", "halt", "poll", "waitPoll", "discard", "oldest"}

LEMMA CarelessSound ==
  ASSUME SlotInv, NEW t \in Tasks, NEW j, Become(t, j), j.pc \in Careless,
         j.kind \notin {"start", "restart"}
  PROVE  JobSound(t)'
  <1>1. job'[t] = j
    BY DEF SlotInv, TypeOK, Become
  <1>. QED
    BY <1>1 DEF JobSound, Careless

LEMMA FinishSound ==
  ASSUME SlotInv, NEW t \in Tasks, Finish(t)
  PROVE  JobSound(t)'
  BY CarelessSound DEF Finish, Idle, Careless

LEMMA GotoSound ==
  ASSUME SlotInv, NEW t \in Tasks, NEW l \in Careless, Goto(t, l)
  PROVE  JobSound(t)'
  <1>1. JobSound(t) /\ job[t] \in Job
    BY DEF SlotInv, TypeOK
  <1>2. [job[t] EXCEPT !.pc = l].pc = l /\ [job[t] EXCEPT !.pc = l].kind = job[t].kind
    BY <1>1 DEF Job
  <1>. QED
    BY <1>1, <1>2, CarelessSound DEF Goto, JobSound

LEMMA DozeSound ==
  ASSUME SlotInv, NEW t \in Tasks, NEW l \in Careless, NEW i, Doze(t, l, i)
  PROVE  JobSound(t)'
  <1>1. JobSound(t) /\ job[t] \in Job
    BY DEF SlotInv, TypeOK
  <1>2. [job[t] EXCEPT !.pc = l, !.cur = i, !.polls = job[t].polls - 1].pc = l
    BY <1>1 DEF Job
  <1>3. [job[t] EXCEPT !.pc = l, !.cur = i, !.polls = job[t].polls - 1].kind = job[t].kind
    BY <1>1 DEF Job
  <1>. QED
    BY <1>1, <1>2, <1>3, CarelessSound DEF Doze, JobSound

LEMMA ProceedSound ==
  ASSUME SlotInv, NEW t \in Tasks, Proceed(t)
  PROVE  JobSound(t)'
  <1>1. JobSound(t) /\ job[t] \in Job /\ job \in [Tasks -> Job]
    BY DEF SlotInv, TypeOK
  <1>2. CASE job[t].kind = "upgrade" /\ Goto(t, "create")
    BY <1>1, <1>2 DEF Goto, Become, JobSound, Job
  <1>3. CASE job[t].kind = "rollback" /\ Goto(t, "swap")
    BY <1>1, <1>3 DEF Goto, Become, JobSound, Job
  <1>4. CASE Become(t, [job[t] EXCEPT !.kind = "removeOld", !.pc = "find"])
    <2>1. [job[t] EXCEPT !.kind = "removeOld", !.pc = "find"].kind = "removeOld"
      BY <1>1 DEF Job
    <2>2. [job[t] EXCEPT !.kind = "removeOld", !.pc = "find"].pc = "find"
      BY <1>1 DEF Job
    <2>. QED
      BY <1>4, <2>1, <2>2, CarelessSound DEF Careless
  <1>. QED
    BY <1>2, <1>3, <1>4, FinishSound DEF Proceed

\* A step that does not touch the job of another task.
LEMMA OthersKept ==
  ASSUME SlotInv, NEW t \in Tasks, NEW j, Become(t, j), NEW u \in Tasks, u # t
  PROVE  job'[u] = job[u]
  BY DEF SlotInv, TypeOK, Become

LEMMA StepsOneJob ==
  ASSUME SlotInv, NEW t \in Tasks, Submit(t) \/ Step(t), NEW u \in Tasks, u # t
  PROVE  job'[u] = job[u]
  <1>1. \E j : Become(t, j)
    BY DEF Submit, Step, Enter, PrepareImage, FindOldest, Clean, Purge, AwaitCleared, Wake, Find,
           Halt, Restart, Poll, Retire, Create, Swap, Launch, Discard, CallFails,
           Goto, Finish, Lost, Doze, Proceed
  <1>. QED
    BY <1>1, OthersKept

\* Every step leaves its own task with what it may rely on next.
LEMMA OwnJobSound ==
  ASSUME SlotInv, Kinds \intersect {"start", "restart"} = {}, NEW t \in Tasks,
         Submit(t) \/ Step(t)
  PROVE  JobSound(t)'
  <1>0. JobSound(t) /\ job[t] \in Job /\ job \in [Tasks -> Job] /\ DockerTypeOK
    BY DEF SlotInv, TypeOK
  <1>. DEFINE k == job[t].kind
  <1>1. k \notin {"start", "restart"}
    BY <1>0 DEF JobSound
  <1>2. CASE Submit(t)
    <2>1. PICK k1 \in Kinds, p \in Projects, v \in Versions :
            Become(t, [Idle EXCEPT !.pc = "queued", !.kind = k1, !.proj = p, !.ver = v])
      BY <1>2 DEF Submit
    <2>2. [Idle EXCEPT !.pc = "queued", !.kind = k1, !.proj = p, !.ver = v].pc = "queued"
      BY DEF Idle
    <2>3. [Idle EXCEPT !.pc = "queued", !.kind = k1, !.proj = p, !.ver = v].kind = k1
      BY DEF Idle
    <2>. QED
      BY <2>1, <2>2, <2>3, CarelessSound DEF Careless
  <1>3. CASE Enter(t)
    <2>1. [job[t] EXCEPT !.pc = FirstPoint(k)].kind = k
      BY <1>0 DEF Job
    <2>2. [job[t] EXCEPT !.pc = FirstPoint(k)].pc \in Careless
      BY <1>0 DEF Job, FirstPoint, Careless
    <2>. QED
      BY <1>1, <1>3, <2>1, <2>2, CarelessSound, FinishSound DEF Enter
  <1>4. CASE PrepareImage(t) \/ Purge(t)
    BY <1>4, GotoSound, FinishSound DEF PrepareImage, Purge, Lost, Careless
  <1>5. CASE FindOldest(t)
    <2>1. ASSUME NEW i, Become(t, [job[t] EXCEPT !.pc = "clean", !.old = i]) PROVE JobSound(t)'
      <3>1. [job[t] EXCEPT !.pc = "clean", !.old = i].kind = k
        BY <1>0 DEF Job
      <3>2. [job[t] EXCEPT !.pc = "clean", !.old = i].pc = "clean"
        BY <1>0 DEF Job
      <3>. QED
        BY <1>1, <2>1, <3>1, <3>2, CarelessSound DEF Careless
    <2>. QED
      BY <1>5, <2>1, FinishSound DEF FindOldest
  <1>6. CASE Clean(t)
    <2>1. PICK n : n = IF k = "upgrade" THEN KillTime ELSE BakPolls
      OBVIOUS
    <2>2. CASE Become(t, [job[t] EXCEPT !.pc = "cleared", !.polls = n])
      <3>1. [job[t] EXCEPT !.pc = "cleared", !.polls = n].kind = k
        BY <1>0 DEF Job
      <3>2. [job[t] EXCEPT !.pc = "cleared", !.polls = n].pc = "cleared"
        BY <1>0 DEF Job
      <3>. QED
        BY <1>1, <2>2, <3>1, <3>2, CarelessSound DEF Careless
    <2>3. ASSUME NEW i, Become(t, [job[t] EXCEPT !.pc = "purge", !.cur = i, !.polls = n])
          PROVE  JobSound(t)'
      <3>1. [job[t] EXCEPT !.pc = "purge", !.cur = i, !.polls = n].kind = k
        BY <1>0 DEF Job
      <3>2. [job[t] EXCEPT !.pc = "purge", !.cur = i, !.polls = n].pc = "purge"
        BY <1>0 DEF Job
      <3>. QED
        BY <1>1, <2>3, <3>1, <3>2, CarelessSound DEF Careless
    <2>. QED
      BY <1>6, <2>1, <2>2, <2>3 DEF Clean
  <1>7. CASE AwaitCleared(t)
    <2>1. [job[t] EXCEPT !.pc = "find", !.cur = NoId, !.polls = 0].kind = k
      BY <1>0 DEF Job
    <2>2. [job[t] EXCEPT !.pc = "find", !.cur = NoId, !.polls = 0].pc = "find"
      BY <1>0 DEF Job
    <2>3. ASSUME Become(t, [job[t] EXCEPT !.pc = "find", !.cur = NoId, !.polls = 0])
          PROVE  JobSound(t)'
      BY <1>1, <2>1, <2>2, <2>3, CarelessSound DEF Careless
    <2>. QED
      BY <1>7, <2>3, DozeSound, FinishSound DEF AwaitCleared, Careless
  <1>8. CASE Wake(t)
    <2>1. [job[t] EXCEPT !.pc = IF @ = "waitPoll" THEN "poll" ELSE "cleared"].kind = k
      BY <1>0 DEF Job
    <2>2. [job[t] EXCEPT !.pc = IF @ = "waitPoll" THEN "poll" ELSE "cleared"].pc \in Careless
      BY <1>0 DEF Job, Careless
    <2>. QED
      BY <1>1, <1>8, <2>1, <2>2, CarelessSound DEF Wake
  <1>9. CASE Find(t)
    <2>1. ASSUME NEW i, Become(t, [job[t] EXCEPT !.pc = FirstCall(k), !.cur = i])
          PROVE  JobSound(t)'
      <3>1. [job[t] EXCEPT !.pc = FirstCall(k), !.cur = i].kind = k
        BY <1>0 DEF Job
      <3>2. [job[t] EXCEPT !.pc = FirstCall(k), !.cur = i].pc = "halt"
        BY <1>0, <1>1 DEF Job, FirstCall
      <3>. QED
        BY <1>1, <2>1, <3>1, <3>2, CarelessSound DEF Careless
    <2>. QED
      BY <1>9, <2>1, ProceedSound DEF Find
  <1>10. CASE Halt(t) \/ Restart(t)
    <2>1. [job[t] EXCEPT !.pc = "poll", !.polls = KillTime].kind = k
      BY <1>0 DEF Job
    <2>2. [job[t] EXCEPT !.pc = "poll", !.polls = KillTime].pc = "poll"
      BY <1>0 DEF Job
    <2>3. ASSUME Become(t, [job[t] EXCEPT !.pc = "poll", !.polls = KillTime]) PROVE JobSound(t)'
      BY <1>1, <2>1, <2>2, <2>3, CarelessSound DEF Careless
    <2>. QED
      BY <1>10, <2>3, FinishSound DEF Halt, Restart, Lost
  <1>11. CASE Poll(t)
    <2>1. ASSUME Settled(t), k \in Synchronized, Goto(t, "retire"), UNCHANGED dockerVars
          PROVE  JobSound(t)'
      <3>1. ~IsRunning(job[t].cur)
        BY <1>1, <2>1 DEF Settled
      <3>2. [job[t] EXCEPT !.pc = "retire"].pc = "retire"
        BY <1>0 DEF Job
      <3>3. [job[t] EXCEPT !.pc = "retire"].kind = k
        BY <1>0 DEF Job
      <3>4. [job[t] EXCEPT !.pc = "retire"].cur = job[t].cur
        BY <1>0 DEF Job
      <3>5. job'[t] = [job[t] EXCEPT !.pc = "retire"]
        BY <1>0, <2>1 DEF Goto, Become
      <3>6. st' = st
        BY <2>1 DEF dockerVars
      <3>. QED
        BY <1>1, <2>1, <3>1, <3>2, <3>3, <3>4, <3>5, <3>6 DEF JobSound, IsRunning
    <2>. QED
      BY <1>11, <2>1, GotoSound, DozeSound, ProceedSound, FinishSound DEF Poll, Careless
  <1>12. CASE Retire(t)
    <2>1. k \in Synchronized
      BY <1>0, <1>12 DEF Retire, JobSound
    <2>2. CASE k = "upgrade" /\ Become(t, [job[t] EXCEPT !.pc = "create", !.old = job[t].cur])
      <3>1. [job[t] EXCEPT !.pc = "create", !.old = job[t].cur].kind = k
        BY <1>0 DEF Job
      <3>2. [job[t] EXCEPT !.pc = "create", !.old = job[t].cur].pc = "create"
        BY <1>0 DEF Job
      <3>. QED
        BY <1>0, <2>2, <3>1, <3>2 DEF Become, JobSound
    <2>3. CASE k = "rollback" /\ Become(t, [job[t] EXCEPT !.pc = "swap"])
      <3>1. [job[t] EXCEPT !.pc = "swap"].kind = k /\ [job[t] EXCEPT !.pc = "swap"].pc = "swap"
        BY <1>0 DEF Job
      <3>. QED
        BY <1>0, <2>3, <3>1 DEF Become, JobSound
    <2>. QED
      BY <1>12, <2>1, <2>2, <2>3, FinishSound DEF Retire, Lost, Synchronized
  <1>13. CASE Create(t)
    <2>1. ASSUME Become(t, [job[t] EXCEPT !.pc = "launch", !.cur = created + 1])
          PROVE  JobSound(t)'
      <3>1. [job[t] EXCEPT !.pc = "launch", !.cur = created + 1].kind = k
        BY <1>0 DEF Job
      <3>2. [job[t] EXCEPT !.pc = "launch", !.cur = created + 1].pc = "launch"
        BY <1>0 DEF Job
      <3>3. [job[t] EXCEPT !.pc = "launch", !.cur = created + 1].cur = created + 1
        BY <1>0 DEF Job
      <3>4. [job[t] EXCEPT !.pc = "launch", !.cur = created + 1].proj = job[t].proj
        BY <1>0 DEF Job
      <3>5. k = "upgrade"
        BY <1>0, <1>13 DEF Create, JobSound
      <3>6. job'[t] = [job[t] EXCEPT !.pc = "launch", !.cur = created + 1]
        BY <1>0, <2>1 DEF Become
      <3>7. created + 1 \in Ids => name'[created + 1] = <<job[t].proj, "current">>
        BY <1>0, <1>13 DEF Create, CreateContainer, Own, DockerTypeOK
      <3>. QED
        BY <1>1, <3>1, <3>2, <3>3, <3>4, <3>5, <3>6, <3>7 DEF JobSound, Own, Synchronized
    <2>. QED
      BY <1>13, <2>1, FinishSound DEF Create, Lost
  <1>14. CASE Swap(t)
    <2>1. ASSUME Become(t, [job[t] EXCEPT !.pc = "launch", !.cur = job[t].old])
          PROVE  JobSound(t)'
      <3>1. [job[t] EXCEPT !.pc = "launch", !.cur = job[t].old].kind = k
        BY <1>0 DEF Job
      <3>2. [job[t] EXCEPT !.pc = "launch", !.cur = job[t].old].pc = "launch"
        BY <1>0 DEF Job
      <3>3. [job[t] EXCEPT !.pc = "launch", !.cur = job[t].old].cur = job[t].old
        BY <1>0 DEF Job
      <3>4. [job[t] EXCEPT !.pc = "launch", !.cur = job[t].old].proj = job[t].proj
        BY <1>0 DEF Job
      <3>5. k = "rollback"
        BY <1>0, <1>14 DEF Swap, JobSound
      <3>6. job'[t] = [job[t] EXCEPT !.pc = "launch", !.cur = job[t].old]
        BY <1>0, <2>1 DEF Become
      <3>7. job[t].old \in Ids => name'[job[t].old] = <<job[t].proj, "current">>
        BY <1>0, <1>14 DEF Swap, RenameContainer, Own, DockerTypeOK
      <3>. QED
        BY <1>1, <3>1, <3>2, <3>3, <3>4, <3>5, <3>6, <3>7 DEF JobSound, Own, Synchronized
    <2>. QED
      BY <1>14, <2>1, FinishSound DEF Swap, Lost
  <1>15. CASE Launch(t)
    BY <1>15, FinishSound DEF Launch
  <1>16. CASE Discard(t)
    BY <1>16, ProceedSound, FinishSound DEF Discard, Lost
  <1>17. CASE CallFails(t)
    BY <1>17, FinishSound DEF CallFails
  <1>. QED
    BY <1>2, <1>3, <1>4, <1>5, <1>6, <1>7, <1>8, <1>9, <1>10, <1>11, <1>12, <1>13,
       <1>14, <1>15, <1>16, <1>17 DEF Step

\* The table of containers after a call that renames, creates or starts.
LEMMA TableKept ==
  ASSUME SlotInv, NEW t \in Tasks, Retire(t) \/ Create(t) \/ Swap(t) \/ Launch(t)
  PROVE  NamesUnique' /\ RunningIsCurrent'
  <1>0. NamesUnique /\ RunningIsCurrent /\ DockerTypeOK /\ JobSound(t)
    BY DEF SlotInv, TypeOK
  <1>1. ASSUME NEW i, NEW n, RenameContainer(i, n) PROVE NamesUnique'
    <2>1. \A j \in Ids : st[j] # "none" => name[j] # n
      BY <1>1 DEF RenameContainer, CanRename, NameFree, Named
    <2>. QED
      BY <1>0, <1>1, <2>1 DEF NamesUnique, RenameContainer, DockerTypeOK
  <1>2. CASE Retire(t)
    <2>1. RenameContainer(job[t].cur, RetireName(t))
      BY <1>2 DEF Retire
    <2>2. job[t].cur \in Ids => ~IsRunning(job[t].cur)
      BY <1>0, <1>2 DEF Retire, JobSound
    <2>3. RunningIsCurrent'
      BY <1>0, <2>1, <2>2 DEF RunningIsCurrent, RenameContainer, IsRunning, DockerTypeOK
    <2>. QED
      BY <1>1, <2>1, <2>3
  <1>3. CASE Create(t)
    <2>1. CreateContainer(Own(t, "current"), <<job[t].proj, job[t].ver>>)
      BY <1>3 DEF Create
    <2>2. \A j \in Ids : st[j] # "none" => name[j] # Own(t, "current")
      BY <2>1 DEF CreateContainer, CanCreate, NameFree, Named
    <2>3. NamesUnique'
      BY <1>0, <2>1, <2>2 DEF NamesUnique, CreateContainer, DockerTypeOK
    <2>4. RunningIsCurrent'
      BY <1>0, <2>1 DEF RunningIsCurrent, CreateContainer, IsRunning, DockerTypeOK
    <2>. QED
      BY <2>3, <2>4
  <1>4. CASE Swap(t)
    <2>1. RenameContainer(job[t].old, Own(t, "current"))
      BY <1>4 DEF Swap
    <2>2. RunningIsCurrent'
      BY <1>0, <2>1 DEF RunningIsCurrent, RenameContainer, IsRunning, DockerTypeOK, Own
    <2>. QED
      BY <1>1, <2>1, <2>2
  <1>5. CASE Launch(t)
    <2>1. StartContainer(job[t].cur)
      BY <1>5 DEF Launch
    <2>2. job[t].cur \in Ids /\ st[job[t].cur] # "none" => name[job[t].cur][2] = "current"
      BY <1>0, <1>5 DEF Launch, JobSound, Own
    <2>3. st[job[t].cur] # "none"
      BY <2>1 DEF StartContainer, CanStart, Exists
    <2>4. NamesUnique'
      BY <1>0, <2>1, <2>3 DEF NamesUnique, StartContainer, DockerTypeOK
    <2>5. RunningIsCurrent'
      BY <1>0, <2>1, <2>2, <2>3 DEF RunningIsCurrent, StartContainer, IsRunning, DockerTypeOK
    <2>. QED
      BY <2>4, <2>5
  <1>. QED
    BY <1>2, <1>3, <1>4, <1>5

LEMMA SlotStep ==
  ASSUME SlotInv, Kinds \intersect {"start", "restart"} = {}, [Next]_vars
  PROVE  SlotInv'
  <1>0. DockerTypeOK /\ NamesUnique /\ RunningIsCurrent /\ \A t \in Tasks : JobSound(t)
    BY DEF SlotInv, TypeOK
  <1>. DEFINE Rest == NamesUnique' /\ RunningIsCurrent' /\ \A u \in Tasks : JobSound(u)'
  <1>1. TypeOK' /\ Exclusive'
    BY TypeStep, ExclusiveStep DEF SlotInv
  <1>2. ASSUME NEW t \in Tasks, Submit(t) \/ Step(t), Calm PROVE Rest
    BY <1>0, <1>2, CalmTable, CalmOthers, StepsOneJob, OwnJobSound
  <1>3. ASSUME NEW t \in Tasks, Retire(t) \/ Create(t) \/ Swap(t) \/ Launch(t) PROVE Rest
    <2>1. Step(t) /\ job[t].pc \in {"retire", "create", "swap", "launch"}
      BY <1>3 DEF Step, Retire, Create, Swap, Launch
    <2>. QED
      BY <1>3, <2>1, TableKept, AloneInMonitor, StepsOneJob, OwnJobSound
  <1>4. ASSUME NEW t \in Tasks, Submit(t) \/ Step(t),
               ~(Retire(t) \/ Create(t) \/ Swap(t) \/ Launch(t))
        PROVE  Calm
    <2>1. ~Restart(t)
      BY <1>0 DEF Restart, JobSound
    <2>2. CASE Submit(t) \/ Enter(t) \/ FindOldest(t) \/ Clean(t) \/ AwaitCleared(t) \/ Wake(t)
               \/ Find(t) \/ Poll(t) \/ CallFails(t)
      BY <1>0, <2>2, CalmCalls DEF Submit, Enter, FindOldest, Clean, AwaitCleared, Wake, Find,
                                   Poll, CallFails
    <2>3. CASE PrepareImage(t) \/ Purge(t) \/ Halt(t) \/ Discard(t)
      BY <1>0, <2>3, CalmCalls DEF PrepareImage, Purge, Halt, Discard
    <2>. QED
      BY <1>4, <2>1, <2>2, <2>3 DEF Step
  <1>5. ASSUME Calm, UNCHANGED job PROVE Rest
    BY <1>0, <1>5, CalmTable, CalmOthers
  <1>6. Daemon => Calm /\ UNCHANGED job
    BY <1>0, CalmCalls DEF Daemon, ClearImages
  <1>7. UNCHANGED vars => Calm /\ UNCHANGED job
    BY <1>0, CalmCalls DEF vars
  <1>8. Rest
    BY <1>2, <1>3, <1>4, <1>5, <1>6, <1>7 DEF Next, Quiet
  <1>. QED
    BY <1>1, <1>8 DEF SlotInv

LEMMA SlotStart == Init => SlotInv
  <1>. SUFFICES ASSUME Init PROVE SlotInv
    OBVIOUS
  <1>1. TypeOK
    BY TypeInit
  <1>2. Exclusive /\ \A t \in Tasks : JobSound(t)
    BY DEF Init, Exclusive, InMonitor, JobSound, Idle
  <1>3. NamesUnique /\ RunningIsCurrent
    BY DockerAssumption DEF Init, DockerInit, NamesUnique, RunningIsCurrent, IsRunning, Ids
  <1>. QED
    BY <1>1, <1>2, <1>3 DEF SlotInv

\* On a machine whose containers are only upgraded, rolled back, stopped, removed and
\* built, two containers of one project never run, whatever the names of the projects,
\* however the operations interleave and whichever of their calls fail.
THEOREM OneInstance ==
  ASSUME Kinds \intersect {"start", "restart"} = {}
  PROVE  Spec => []SingleInstance
  <1>1. SlotInv /\ [Next]_vars => SlotInv'
    BY SlotStep
  <1>2. SlotInv => SingleInstance
    <2>. SUFFICES ASSUME SlotInv, NEW i \in Ids, NEW j \in Ids, IsRunning(i), IsRunning(j),
                         name[i][1] = name[j][1]
                  PROVE  i = j
      BY DEF SingleInstance
    <2>1. name[i][2] = name[j][2]
      BY DEF SlotInv, RunningIsCurrent
    <2>2. name[i] = name[j]
      BY <2>1 DEF SlotInv, TypeOK, DockerTypeOK, Names
    <2>. QED
      BY <2>2 DEF SlotInv, NamesUnique, IsRunning
  <1>. QED
    BY <1>1, <1>2, SlotStart, PTL DEF Spec

-----------------------------------------------------------------------------
(* The backup of an upgrade *)

\* An upgrade that has retired a container is about to create or to launch the new one, and
\* the retired one stands by.  Nothing is discarded, and purges are made in the monitor.
KeepsBackup(t) ==
    /\ job[t].kind \notin {"remove", "removeOld"} /\ job[t].pc # "discard"
    /\ job[t].pc = "oldest" => job[t].kind = "rollback"
    /\ job[t].pc \in {"clean", "purge"} => job[t].kind \in Synchronized
    /\ job[t].kind = "upgrade" /\ job[t].old # NoId =>
         /\ job[t].pc \in {"create", "launch"}
         /\ name[job[t].old] = Own(t, "old")
         /\ Exists(job[t].old) /\ ~IsRunning(job[t].old)

BackupInv ==
    /\ SlotInv
    /\ \A i \in Ids : i > created => st[i] = "none"
    /\ \A t \in Tasks : KeepsBackup(t)

\* A step outside of the monitor leaves a container alone that has stopped.
LEMMA OutsideLeaves ==
  ASSUME BackupInv, NEW u \in Tasks, Submit(u) \/ Step(u), ~InMonitor(u),
         NEW i \in Ids, Exists(i), ~IsRunning(i)
  PROVE  st'[i] = st[i] /\ name'[i] = name[i]
<1>0. DockerTypeOK /\ JobSound(u) /\ KeepsBackup(u)
  BY DEF BackupInv, SlotInv, TypeOK
<1>1. CASE Submit(u) \/ Enter(u) \/ PrepareImage(u) \/ FindOldest(u) \/ Clean(u) \/ AwaitCleared(u)
           \/ Wake(u) \/ Find(u) \/ Poll(u) \/ CallFails(u)
  BY <1>1 DEF Submit, Enter, PrepareImage, FindOldest, Clean, AwaitCleared, Wake, Find, Poll, CallFails,
              BuildImage, dockerVars
<1>2. CASE Halt(u)
  BY <1>0, <1>2 DEF Halt, StopContainer, DockerTypeOK
<1>3. job[u].pc \notin {"purge", "restart", "retire", "create", "swap", "launch", "discard"}
  BY <1>0 DEF KeepsBackup, JobSound, InMonitor, Synchronized, Waiting
<1>. QED BY <1>1, <1>2, <1>3 DEF Step, Purge, Restart, Retire, Create, Swap, Launch, Discard

\* The backup of a task outlives the steps of the others.
LEMMA BackupOthers ==
  ASSUME BackupInv, NEW t \in Tasks, job'[t] = job[t],
         \A i \in Ids : InMonitor(t) /\ Exists(i) /\ ~IsRunning(i) => st'[i] = st[i] /\ name'[i] = name[i]
  PROVE  KeepsBackup(t)'
<1>1. KeepsBackup(t) /\ job[t] \in Job
  BY DEF BackupInv, SlotInv, TypeOK
<1>2. CASE job[t].kind = "upgrade" /\ job[t].old # NoId
  <2>. PICK i \in Ids : i = job[t].old
    BY <1>1, <1>2 DEF Job
  <2>1. InMonitor(t)
    BY <1>1, <1>2 DEF KeepsBackup, InMonitor, Synchronized, Waiting
  <2>2. st'[i] = st[i] /\ name'[i] = name[i]
    BY <1>1, <1>2, <2>1 DEF KeepsBackup
  <2>. QED BY <1>1, <2>2 DEF KeepsBackup, Exists, IsRunning, Own
<1>3. CASE ~(job[t].kind = "upgrade" /\ job[t].old # NoId)
  BY <1>1, <1>3 DEF KeepsBackup
<1>. QED BY <1>2, <1>3

\* The kind, the point and the old container of a job that goes on.
LEMMA JobGoes ==
  ASSUME NEW j \in Job, NEW l, NEW i, NEW n
  PROVE  /\ [j EXCEPT !.pc = l].kind = j.kind /\ [j EXCEPT !.pc = l].pc = l
         /\ [j EXCEPT !.pc = l].old = j.old
         /\ [j EXCEPT !.pc = l, !.cur = i].kind = j.kind /\ [j EXCEPT !.pc = l, !.cur = i].pc = l
         /\ [j EXCEPT !.pc = l, !.cur = i].old = j.old
         /\ [j EXCEPT !.pc = l, !.old = i].kind = j.kind /\ [j EXCEPT !.pc = l, !.old = i].pc = l
         /\ [j EXCEPT !.pc = l, !.polls = n].kind = j.kind /\ [j EXCEPT !.pc = l, !.polls = n].pc = l
         /\ [j EXCEPT !.pc = l, !.polls = n].old = j.old
         /\ [j EXCEPT !.pc = l, !.cur = i, !.polls = n].kind = j.kind
         /\ [j EXCEPT !.pc = l, !.cur = i, !.polls = n].pc = l
         /\ [j EXCEPT !.pc = l, !.cur = i, !.polls = n].old = j.old
  BY DEF Job

\* An operation goes on without a backup.
LEMMA BackupNone ==
  ASSUME BackupInv, NEW t \in Tasks, NEW j, Become(t, j),
         j.kind \notin {"remove", "removeOld"}, j.pc # "discard",
         j.pc = "oldest" => j.kind = "rollback",
         j.pc \in {"clean", "purge"} => j.kind \in Synchronized,
         j.kind = "upgrade" => j.old = NoId
  PROVE  KeepsBackup(t)'
<1>1. job'[t] = j
  BY DEF BackupInv, SlotInv, TypeOK, Become
<1>. QED BY <1>1 DEF KeepsBackup

LEMMA BackupGoes ==
  ASSUME BackupInv, NEW t \in Tasks
  PROVE  /\ Finish(t) => KeepsBackup(t)'
         /\ job[t].pc \notin {"create", "launch"} =>
              /\ \A l \in Points \ {"discard", "oldest", "clean", "purge"} : Goto(t, l) => KeepsBackup(t)'
              /\ \A l \in Waiting : \A i : Doze(t, l, i) => KeepsBackup(t)'
              /\ Proceed(t) => KeepsBackup(t)'
<1>0. KeepsBackup(t) /\ job[t] \in Job /\ job \in [Tasks -> Job]
  BY DEF BackupInv, SlotInv, TypeOK
<1>1. Finish(t) => KeepsBackup(t)'
  BY <1>0 DEF Finish, Become, Idle, KeepsBackup
<1>2. ASSUME job[t].pc \notin {"create", "launch"} PROVE job[t].kind = "upgrade" => job[t].old = NoId
  BY <1>0, <1>2 DEF KeepsBackup
<1>3. ASSUME job[t].pc \notin {"create", "launch"},
             NEW l \in Points \ {"discard", "oldest", "clean", "purge"}, Goto(t, l)
      PROVE  KeepsBackup(t)'
  <2>. PICK j : j = [job[t] EXCEPT !.pc = l]
    OBVIOUS
  <2>1. j.kind = job[t].kind /\ j.pc = l /\ j.old = job[t].old
    BY <1>0, JobGoes
  <2>. QED BY <1>0, <1>2, <1>3, <2>1, BackupNone DEF Goto, KeepsBackup
<1>4. ASSUME job[t].pc \notin {"create", "launch"}, NEW l \in Waiting, NEW i, Doze(t, l, i)
      PROVE  KeepsBackup(t)'
  <2>. PICK n : n = job[t].polls - 1
    OBVIOUS
  <2>. PICK j : j = [job[t] EXCEPT !.pc = l, !.cur = i, !.polls = n]
    OBVIOUS
  <2>1. j.kind = job[t].kind /\ j.pc = l /\ j.old = job[t].old
    BY <1>0, JobGoes
  <2>2. Become(t, j)
    BY <1>4 DEF Doze
  <2>. QED BY <1>0, <1>2, <1>4, <2>1, <2>2, BackupNone DEF Waiting, KeepsBackup
<1>5. ASSUME job[t].pc \notin {"create", "launch"}, Proceed(t) PROVE KeepsBackup(t)'
  BY <1>0, <1>1, <1>3, <1>5, PointNames DEF Proceed, KeepsBackup
<1>. QED BY <1>1, <1>3, <1>4, <1>5

\* Every step of an upgrade keeps its own backup, which only its rename gives it.
LEMMA BackupOwn ==
  ASSUME BackupInv, Kinds \intersect {"start", "restart", "remove"} = {}, NEW t \in Tasks,
         Submit(t) \/ Step(t)
  PROVE  KeepsBackup(t)'
<1>0. KeepsBackup(t) /\ JobSound(t) /\ job[t] \in Job /\ job \in [Tasks -> Job] /\ DockerTypeOK
  BY DEF BackupInv, SlotInv, TypeOK
<1>. PICK k, o : k = job[t].kind /\ o = job[t].old
  OBVIOUS
<1>1. k \notin {"remove", "removeOld"} /\ (k = "upgrade" /\ job[t].pc \notin {"create", "launch"} => o = NoId)
  BY <1>0 DEF KeepsBackup
<1>2. CASE Submit(t)
  <2>1. PICK q \in Kinds, p \in Projects, v \in Versions :
          Become(t, [Idle EXCEPT !.pc = "queued", !.kind = q, !.proj = p, !.ver = v])
    BY <1>2 DEF Submit
  <2>. PICK j : j = [Idle EXCEPT !.pc = "queued", !.kind = q, !.proj = p, !.ver = v]
    OBVIOUS
  <2>2. j.kind = q /\ j.pc = "queued" /\ j.old = NoId
    BY DEF Idle
  <2>3. q \notin {"remove", "removeOld"}
    BY MachineAssumption DEF AllKinds
  <2>. QED BY <2>1, <2>2, <2>3, BackupNone
<1>3. CASE Enter(t)
  <2>1. PICK l : l = FirstPoint(k) /\ (Become(t, [job[t] EXCEPT !.pc = l]) \/ Finish(t)) /\ job[t].pc = "queued"
    BY <1>3 DEF Enter
  <2>. PICK j : j = [job[t] EXCEPT !.pc = l]
    OBVIOUS
  <2>2. j.kind = k /\ j.pc = l /\ j.old = o
    BY <1>0, JobGoes
  <2>3. l \in {"image", "find", "oldest"} /\ (l = "oldest" => k = "rollback")
    BY <2>1 DEF FirstPoint
  <2>. QED BY <1>1, <2>1, <2>2, <2>3, BackupNone, BackupGoes
<1>4. CASE PrepareImage(t)
  <2>1. ASSUME k = "upgrade", Goto(t, "clean") PROVE KeepsBackup(t)'
    <3>. PICK j : j = [job[t] EXCEPT !.pc = "clean"]
      OBVIOUS
    <3>1. j.kind = k /\ j.pc = "clean" /\ j.old = o
      BY <1>0, JobGoes
    <3>. QED BY <1>1, <1>4, <2>1, <3>1, BackupNone DEF Goto, Synchronized, PrepareImage
  <2>. QED BY <1>4, <2>1, BackupGoes DEF PrepareImage
<1>5. CASE FindOldest(t)
  <2>1. ASSUME NEW i, Become(t, [job[t] EXCEPT !.pc = "clean", !.old = i]) PROVE KeepsBackup(t)'
    <3>. PICK j : j = [job[t] EXCEPT !.pc = "clean", !.old = i]
      OBVIOUS
    <3>1. k = "rollback"
      BY <1>0, <1>5 DEF FindOldest, KeepsBackup
    <3>2. j.kind = k /\ j.pc = "clean"
      BY <1>0, JobGoes
    <3>. QED BY <2>1, <3>1, <3>2, BackupNone DEF Synchronized
  <2>. QED BY <1>5, <2>1, BackupGoes DEF FindOldest
<1>6. CASE Clean(t)
  <2>0. k \in Synchronized /\ job[t].pc = "clean"
    BY <1>0, <1>6 DEF Clean, KeepsBackup
  <2>. PICK n : n = IF k = "upgrade" THEN KillTime ELSE BakPolls
    OBVIOUS
  <2>1. ASSUME Become(t, [job[t] EXCEPT !.pc = "cleared", !.polls = n]) PROVE KeepsBackup(t)'
    <3>. PICK j : j = [job[t] EXCEPT !.pc = "cleared", !.polls = n]
      OBVIOUS
    <3>1. j.kind = k /\ j.pc = "cleared" /\ j.old = o
      BY <1>0, JobGoes
    <3>. QED BY <1>1, <2>0, <2>1, <3>1, BackupNone
  <2>2. ASSUME NEW i, Become(t, [job[t] EXCEPT !.pc = "purge", !.cur = i, !.polls = n])
        PROVE  KeepsBackup(t)'
    <3>. PICK j : j = [job[t] EXCEPT !.pc = "purge", !.cur = i, !.polls = n]
      OBVIOUS
    <3>1. j.kind = k /\ j.pc = "purge" /\ j.old = o
      BY <1>0, JobGoes
    <3>. QED BY <1>1, <2>0, <2>2, <3>1, BackupNone
  <2>. QED BY <1>6, <2>1, <2>2 DEF Clean
<1>7. CASE Purge(t)
  BY <1>7, BackupGoes, PointNames DEF Purge, Lost
<1>8. CASE AwaitCleared(t)
  <2>1. ASSUME Become(t, [job[t] EXCEPT !.pc = "find", !.cur = NoId, !.polls = 0]) PROVE KeepsBackup(t)'
    <3>. PICK j : j = [job[t] EXCEPT !.pc = "find", !.cur = NoId, !.polls = 0]
      OBVIOUS
    <3>1. j.kind = k /\ j.pc = "find" /\ j.old = o
      BY <1>0, JobGoes
    <3>. QED BY <1>1, <1>8, <2>1, <3>1, BackupNone DEF AwaitCleared
  <2>. QED BY <1>8, <2>1, BackupGoes DEF AwaitCleared, Waiting
<1>9. CASE Wake(t)
  <2>. PICK l \in {"poll", "cleared"} : l = IF job[t].pc = "waitPoll" THEN "poll" ELSE "cleared"
    OBVIOUS
  <2>. PICK j : j = [job[t] EXCEPT !.pc = l]
    OBVIOUS
  <2>1. j.kind = k /\ j.pc = l /\ j.old = o
    BY <1>0, JobGoes
  <2>2. Become(t, j)
    BY <1>9 DEF Wake
  <2>. QED BY <1>1, <1>9, <2>1, <2>2, BackupNone DEF Wake, Waiting
<1>10. CASE Find(t)
  <2>1. ASSUME NEW i, Become(t, [job[t] EXCEPT !.pc = FirstCall(k), !.cur = i]) PROVE KeepsBackup(t)'
    <3>. PICK l : l = FirstCall(k)
      OBVIOUS
    <3>. PICK j : j = [job[t] EXCEPT !.pc = l, !.cur = i]
      OBVIOUS
    <3>1. j.kind = k /\ j.pc = l /\ j.old = o /\ l \in {"restart", "launch", "halt"}
      BY <1>0, JobGoes DEF FirstCall
    <3>. QED BY <1>1, <1>10, <2>1, <3>1, BackupNone DEF Find
  <2>. QED BY <1>10, <2>1, BackupGoes DEF Find
<1>11. CASE Halt(t) \/ Restart(t)
  <2>1. ASSUME Become(t, [job[t] EXCEPT !.pc = "poll", !.polls = KillTime]) PROVE KeepsBackup(t)'
    <3>. PICK j : j = [job[t] EXCEPT !.pc = "poll", !.polls = KillTime]
      OBVIOUS
    <3>1. j.kind = k /\ j.pc = "poll" /\ j.old = o
      BY <1>0, JobGoes
    <3>. QED BY <1>1, <1>11, <2>1, <3>1, BackupNone DEF Halt, Restart
  <2>. QED BY <1>11, <2>1, BackupGoes DEF Halt, Restart, Lost
<1>12. CASE Poll(t)
  <2>1. job[t].pc \notin {"create", "launch"}
    BY <1>12 DEF Poll
  <2>. QED BY <1>1, <1>12, <2>1, BackupGoes, PointNames DEF Poll, Waiting
<1>13. CASE Retire(t)
  <2>1. RenameContainer(job[t].cur, RetireName(t)) /\ job[t].pc = "retire"
    BY <1>13 DEF Retire
  <2>2. ASSUME k = "upgrade", Become(t, [job[t] EXCEPT !.pc = "create", !.old = job[t].cur])
        PROVE  KeepsBackup(t)'
    <3>. PICK i \in Ids \union {NoId} : i = job[t].cur
      BY <1>0 DEF Job
    <3>1. job'[t] = [job[t] EXCEPT !.pc = "create", !.old = i]
      BY <1>0, <2>2 DEF Become
    <3>2. job'[t].kind = k /\ job'[t].pc = "create" /\ job'[t].old = i /\ job'[t].proj = job[t].proj
      BY <1>0, <3>1 DEF Job
    <3>3. i # NoId => Exists(i) /\ ~IsRunning(i) /\ st' = st /\ name'[i] = Own(t, "old")
      BY <1>0, <2>1, <2>2 DEF RenameContainer, CanRename, RetireName, JobSound, DockerTypeOK
    <3>. QED BY <2>2, <3>2, <3>3 DEF KeepsBackup, Own, Exists, IsRunning
  <2>3. ASSUME k = "rollback", Become(t, [job[t] EXCEPT !.pc = "swap"]) PROVE KeepsBackup(t)'
    <3>. PICK j : j = [job[t] EXCEPT !.pc = "swap"]
      OBVIOUS
    <3>1. j.kind = k /\ j.pc = "swap"
      BY <1>0, JobGoes
    <3>. QED BY <2>3, <3>1, BackupNone
  <2>4. k \in {"upgrade", "rollback"}
    BY <1>0, <2>1 DEF JobSound, Synchronized
  <2>. QED BY <1>13, <2>2, <2>3, <2>4, BackupGoes DEF Retire, Lost
<1>14. CASE Create(t)
  <2>1. ASSUME Become(t, [job[t] EXCEPT !.pc = "launch", !.cur = created + 1]) PROVE KeepsBackup(t)'
    <3>. PICK c \in Nat : c = created + 1
      BY <1>0 DEF DockerTypeOK
    <3>1. job'[t] = [job[t] EXCEPT !.pc = "launch", !.cur = c]
      BY <1>0, <2>1 DEF Become
    <3>2. job'[t].kind = k /\ job'[t].pc = "launch" /\ job'[t].old = o /\ job'[t].proj = job[t].proj
      BY <1>0, <3>1 DEF Job
    <3>3. k = "upgrade"
      BY <1>0, <1>14 DEF Create, JobSound
    <3>4. st' = [st EXCEPT ![c] = "created"] /\ name' = [name EXCEPT ![c] = Own(t, "current")]
          /\ c \in Ids /\ st[c] = "none"
      BY <1>0, <1>14, DockerAssumption DEF Create, CreateContainer, DockerTypeOK, Ids, BackupInv
    <3>5. o # NoId => name[o] = Own(t, "old") /\ Exists(o) /\ ~IsRunning(o)
      BY <1>0, <3>3 DEF KeepsBackup
    <3>6. o # NoId => o \in Ids /\ o # c
      BY <1>0, <3>4, <3>5 DEF Exists, Job
    <3>7. o # NoId => st'[o] = st[o] /\ name'[o] = name[o]
      BY <1>0, <3>4, <3>6 DEF DockerTypeOK
    <3>. QED BY <3>2, <3>3, <3>5, <3>7 DEF KeepsBackup, Own, Exists, IsRunning
  <2>. QED BY <1>14, <2>1, BackupGoes DEF Create, Lost
<1>15. CASE Swap(t)
  <2>1. ASSUME Become(t, [job[t] EXCEPT !.pc = "launch", !.cur = job[t].old]) PROVE KeepsBackup(t)'
    <3>. PICK j : j = [job[t] EXCEPT !.pc = "launch", !.cur = o]
      OBVIOUS
    <3>1. j.kind = k /\ j.pc = "launch" /\ k = "rollback"
      BY <1>0, <1>15, JobGoes DEF Swap, JobSound
    <3>. QED BY <2>1, <3>1, BackupNone
  <2>. QED BY <1>15, <2>1, BackupGoes DEF Swap, Lost
<1>16. CASE Launch(t) \/ CallFails(t)
  BY <1>16, BackupGoes DEF Launch, CallFails
<1>17. ~Discard(t)
  BY <1>0 DEF Discard, KeepsBackup
<1>. QED BY <1>2, <1>3, <1>4, <1>5, <1>6, <1>7, <1>8, <1>9, <1>10, <1>11, <1>12, <1>13, <1>14, <1>15,
            <1>16, <1>17 DEF Step

LEMMA BackupStep ==
  ASSUME BackupInv, Kinds \intersect {"start", "restart", "remove"} = {}, [Next]_vars
  PROVE  BackupInv'
<1>0. SlotInv' /\ SlotInv /\ DockerTypeOK
  BY SlotStep DEF BackupInv, SlotInv, TypeOK
<1>1. \A i \in Ids : i > created' => st'[i] = "none"
  <2>1. ASSUME NEW t \in Tasks, Create(t) PROVE \A i \in Ids : i > created' => st'[i] = "none"
    BY <1>0, <2>1 DEF Create, CreateContainer, BackupInv, DockerTypeOK, Ids
  <2>2. ASSUME NEW t \in Tasks, Submit(t) \/ Step(t), ~Create(t)
        PROVE  created' = created /\ \A i \in Ids : st[i] = "none" => st'[i] = "none"
    BY <1>0, <2>2 DEF Submit, Step, Enter, PrepareImage, FindOldest, Clean, Purge, AwaitCleared, Wake,
         Find, Halt, Restart, Poll, Retire, Swap, Launch, Discard, CallFails, dockerVars, BuildImage,
         RemoveContainer, CanRemove, StopContainer, RestartContainer, RenameContainer, StartContainer,
         CanStart, Exists, DockerTypeOK
  <2>3. Daemon \/ Quiet \/ UNCHANGED vars
        => created' = created /\ \A i \in Ids : st[i] = "none" => st'[i] = "none"
    BY <1>0 DEF Daemon, ClearImages, Quiet, vars, dockerVars, Exit, Vanish, DeleteImage, DockerTypeOK
  <2>. QED BY <2>1, <2>2, <2>3 DEF Next, BackupInv
<1>2. ASSUME NEW u \in Tasks, Submit(u) \/ Step(u), NEW t \in Tasks PROVE KeepsBackup(t)'
  <2>1. CASE t = u
    BY <1>2, <2>1, BackupOwn
  <2>2. CASE t # u
    <3>1. job'[t] = job[t]
      BY <1>0, <1>2, <2>2, StepsOneJob
    <3>2. InMonitor(t) => ~InMonitor(u)
      BY <1>0, <2>2 DEF SlotInv, Exclusive
    <3>. QED BY <1>2, <3>1, <3>2, OutsideLeaves, BackupOthers
  <2>. QED BY <2>1, <2>2
<1>3. ASSUME Daemon \/ Quiet \/ UNCHANGED vars, NEW t \in Tasks PROVE KeepsBackup(t)'
  <2>1. \A i \in Ids : Exists(i) /\ ~IsRunning(i) => st'[i] = st[i] /\ name'[i] = name[i]
    BY <1>0, <1>3 DEF Daemon, ClearImages, DeleteImage, Exit, Vanish, Quiet, vars, dockerVars, Exists,
                      IsRunning, DockerTypeOK
  <2>2. job' = job
    BY <1>3 DEF Daemon, ClearImages, Quiet, vars
  <2>. QED BY <2>1, <2>2, BackupOthers
<1>. QED BY <1>0, <1>1, <1>2, <1>3 DEF Next, BackupInv

\* On a machine whose containers are only upgraded, rolled back, stopped and built, the container
\* an upgrade retired is there, stopped, as cname-old when the new one is created and launched.
THEOREM BackupStays ==
  ASSUME Kinds \intersect {"start", "restart", "remove"} = {}
  PROVE  Spec => []BackupKept
<1>1. Init => BackupInv
  BY SlotStart, DockerAssumption DEF Init, DockerInit, BackupInv, KeepsBackup, Idle, Ids
<1>2. BackupInv /\ [Next]_vars => BackupInv'
  BY BackupStep
<1>3. BackupInv => BackupKept
  BY DEF BackupInv, KeepsBackup, BackupKept
<1>. QED BY <1>1, <1>2, <1>3, PTL DEF Spec

-----------------------------------------------------------------------------
(* An operation comes to its end *)

\* What is ahead at each point.
Again(j) == IF j.kind = "remove" THEN 4 + 2 * KillTime ELSE 0

AheadIs(j) ==
  /\ Again(j) \in Nat /\ j.polls \in Nat /\ j.pc \in Points
  /\ j.pc = "idle" => Ahead(j) = 0
  /\ j.pc = "launch" => Ahead(j) = Again(j) + 1
  /\ j.pc \in {"create", "swap"} => Ahead(j) = Again(j) + 2
  /\ j.pc \in {"retire", "discard"} => Ahead(j) = Again(j) + 3
  /\ j.pc = "poll" => Ahead(j) = Again(j) + 4 + 2 * j.polls
  /\ j.pc = "waitPoll" => Ahead(j) = Again(j) + 5 + 2 * j.polls
  /\ j.pc \in {"halt", "restart"} => Ahead(j) = Again(j) + 5 + 2 * KillTime
  /\ j.pc = "find" => Ahead(j) = Again(j) + 6 + 2 * KillTime
  /\ j.pc = "cleared" => Ahead(j) = Again(j) + 7 + 2 * KillTime + 2 * j.polls
  /\ j.pc \in {"waitCleared", "purge"} => Ahead(j) = Again(j) + 8 + 2 * KillTime + 2 * j.polls
  /\ j.pc = "clean" => Ahead(j) = Again(j) + 9 + 4 * KillTime + 2 * BakPolls
  /\ j.pc \in {"image", "oldest"} => Ahead(j) = Again(j) + 10 + 4 * KillTime + 2 * BakPolls
  /\ j.pc = "queued" => Ahead(j) = Again(j) + 11 + 4 * KillTime + 2 * BakPolls

LEMMA AheadAt ==
  ASSUME NEW j \in Job
  PROVE  AheadIs(j)
  BY MachineAssumption DEF Ahead, AheadIs, Again, Job

\* There is a step ahead but at the end.
LEMMA AheadIsNat ==
  ASSUME NEW j \in Job
  PROVE  Ahead(j) \in Nat /\ (Ahead(j) = 0 <=> j.pc = "idle")
<1>1. AheadIs(j)
  BY AheadAt
<1>. QED BY <1>1, MachineAssumption DEF AheadIs, Points

\* The points an operation comes to from each, and its polls there: fewer steps are ahead.
GoesOn(j, k) ==
  \/ j.pc = "queued" /\ k.pc \in {"image", "oldest", "find"}
  \/ j.pc \in {"image", "oldest"} /\ k.pc = "clean"
  \/ j.pc = "clean" /\ k.pc \in {"purge", "cleared"} /\ k.polls <= KillTime + BakPolls
  \/ j.pc \in {"purge", "waitCleared"} /\ k.pc = "cleared" /\ k.polls = j.polls
  \/ j.pc = "cleared" /\ k.pc = "waitCleared" /\ j.polls = k.polls + 1
  \/ j.pc = "cleared" /\ k.pc = "find"
  \/ j.pc = "find" /\ k.pc \in {"halt", "restart", "launch", "create", "swap"}
  \/ j.pc \in {"halt", "restart"} /\ k.pc = "poll" /\ k.polls = KillTime
  \/ j.pc = "poll" /\ k.pc = "waitPoll" /\ j.polls = k.polls + 1
  \/ j.pc = "waitPoll" /\ k.pc = "poll" /\ k.polls = j.polls
  \/ j.pc = "poll" /\ k.pc \in {"retire", "discard", "create", "swap"}
  \/ j.pc \in {"retire", "discard"} /\ k.pc \in {"create", "swap"}
  \/ j.pc \in {"create", "swap"} /\ k.pc = "launch"

LEMMA FewerAhead ==
  ASSUME NEW j \in Job, NEW k \in Job, k.kind = j.kind, GoesOn(j, k)
  PROVE  Ahead(k) < Ahead(j)
<1>1. AheadIs(j) /\ AheadIs(k) /\ Again(k) = Again(j)
  BY AheadAt DEF Again
<1>2. KillTime \in Nat /\ BakPolls \in Nat
  BY MachineAssumption
<1>3. CASE j.pc \in {"queued", "image", "oldest", "clean"}
  BY <1>1, <1>2, <1>3 DEF GoesOn, AheadIs
<1>4. CASE j.pc \in {"purge", "waitCleared", "cleared"}
  BY <1>1, <1>2, <1>4 DEF GoesOn, AheadIs
<1>5. CASE j.pc \in {"find", "halt", "restart"}
  BY <1>1, <1>2, <1>5 DEF GoesOn, AheadIs
<1>6. CASE j.pc \in {"poll", "waitPoll", "retire", "discard", "create", "swap"}
  BY <1>1, <1>2, <1>6 DEF GoesOn, AheadIs
<1>. QED BY <1>3, <1>4, <1>5, <1>6 DEF GoesOn

\* The operation of t is a step nearer to its end.
Nearer(t) == Ahead(job'[t]) < Ahead(job[t])

LEMMA FinishNearer ==
  ASSUME TypeOK, NEW t \in Tasks, job[t].pc # "idle"
  PROVE  Finish(t) \/ Lost(t) => Nearer(t)
<1>. SUFFICES ASSUME Finish(t) PROVE Nearer(t)
  BY DEF Lost
<1>1. job'[t] = Idle /\ Idle.pc = "idle" /\ Idle \in Job /\ job[t] \in Job
  BY IdleIsJob DEF TypeOK, Finish, Become, Idle
<1>2. Ahead(Idle) = 0
  BY <1>1, AheadIsNat
<1>3. Ahead(job[t]) \in Nat /\ Ahead(job[t]) # 0
  BY <1>1, AheadIsNat
<1>. QED BY <1>1, <1>2, <1>3 DEF Nearer

LEMMA BecomesNearer ==
  ASSUME TypeOK, NEW t \in Tasks, NEW j \in Job, Become(t, j), j.kind = job[t].kind, GoesOn(job[t], j)
  PROVE  Nearer(t)
<1>1. job'[t] = j /\ job[t] \in Job
  BY DEF TypeOK, Become
<1>. QED BY <1>1, FewerAhead DEF Nearer

LEMMA ProceedNearer ==
  ASSUME TypeOK, NEW t \in Tasks, Proceed(t), job[t].pc \in {"find", "poll", "discard"}
  PROVE  Nearer(t)
<1>0. job[t] \in Job /\ job[t].polls \in Nat /\ KillTime \in Nat
  BY MachineAssumption DEF TypeOK, Job
<1>1. ASSUME NEW l \in {"create", "swap"}, Goto(t, l) PROVE Nearer(t)
  <2>. PICK j : j = [job[t] EXCEPT !.pc = l]
    OBVIOUS
  <2>1. j \in Job /\ j.pc = l /\ j.kind = job[t].kind
    BY <1>0, PointNames DEF Job
  <2>2. GoesOn(job[t], j)
    BY <1>0, <2>1 DEF GoesOn
  <2>. QED BY <1>1, <2>1, <2>2, BecomesNearer DEF Goto
<1>2. ASSUME job[t].kind = "remove", Become(t, [job[t] EXCEPT !.kind = "removeOld", !.pc = "find"])
      PROVE  Nearer(t)
  <2>. PICK j : j = [job[t] EXCEPT !.kind = "removeOld", !.pc = "find"]
    OBVIOUS
  <2>1. j \in Job /\ j.pc = "find" /\ j.kind = "removeOld"
    BY <1>0, PointNames DEF Job
  <2>2. AheadIs(j) /\ AheadIs(job[t]) /\ Again(j) = 0 /\ Again(job[t]) = 4 + 2 * KillTime
    BY <1>0, <1>2, <2>1, AheadAt DEF Again
  <2>3. Ahead(j) < Ahead(job[t])
    BY <1>0, <2>1, <2>2 DEF AheadIs
  <2>4. job'[t] = j
    BY <1>2 DEF TypeOK, Become
  <2>. QED BY <2>3, <2>4 DEF Nearer
<1>. QED BY <1>1, <1>2, FinishNearer DEF Proceed

\* Every step of an operation brings it nearer to its end.
LEMMA StepNearer ==
  ASSUME TypeOK, NEW t \in Tasks, Step(t)
  PROVE  Nearer(t)
<1>0. job[t] \in Job /\ job[t].polls \in Nat /\ KillTime \in Nat /\ BakPolls \in Nat
  BY MachineAssumption DEF TypeOK, Job
<1>1. ASSUME NEW l \in Points, Goto(t, l),
             \/ job[t].pc = "queued" /\ l \in {"image", "oldest", "find"}
             \/ job[t].pc = "image" /\ l = "clean"
             \/ job[t].pc = "purge" /\ l = "cleared"
             \/ job[t].pc = "poll" /\ l \in {"retire", "discard"}
             \/ job[t].pc = "retire" /\ l = "swap"
             \/ job[t].pc = "waitPoll" /\ l = "poll"
             \/ job[t].pc = "waitCleared" /\ l = "cleared"
      PROVE  Nearer(t)
  <2>. PICK j : j = [job[t] EXCEPT !.pc = l]
    OBVIOUS
  <2>1. j \in Job /\ j.pc = l /\ j.kind = job[t].kind /\ j.polls = job[t].polls
    BY <1>0 DEF Job
  <2>2. GoesOn(job[t], j)
    BY <1>0, <1>1, <2>1 DEF GoesOn
  <2>. QED BY <1>1, <2>1, <2>2, BecomesNearer DEF Goto
<1>2. CASE Enter(t)
  <2>1. CASE Finish(t)
    BY <1>2, <2>1, FinishNearer DEF Enter
  <2>2. CASE Become(t, [job[t] EXCEPT !.pc = FirstPoint(job[t].kind)])
    <3>. PICK j, l : j = [job[t] EXCEPT !.pc = l] /\ l = FirstPoint(job[t].kind)
      OBVIOUS
    <3>1. l \in {"image", "oldest", "find"}
      BY DEF FirstPoint
    <3>2. j \in Job /\ j.pc = l /\ j.kind = job[t].kind
      BY <1>0, <3>1, PointNames DEF Job
    <3>3. job[t].pc = "queued"
      BY <1>2 DEF Enter
    <3>4. GoesOn(job[t], j)
      BY <1>0, <3>1, <3>2, <3>3 DEF GoesOn
    <3>. QED BY <2>2, <3>2, <3>4, BecomesNearer
  <2>. QED BY <1>2, <2>1, <2>2 DEF Enter
<1>3. CASE PrepareImage(t)
  BY <1>1, <1>3, FinishNearer, PointNames DEF PrepareImage
<1>4. CASE FindOldest(t)
  <2>1. ASSUME NEW i \in Ids, Become(t, [job[t] EXCEPT !.pc = "clean", !.old = i]) PROVE Nearer(t)
    <3>. PICK j : j = [job[t] EXCEPT !.pc = "clean", !.old = i]
      OBVIOUS
    <3>1. j \in Job /\ j.pc = "clean" /\ j.kind = job[t].kind
      BY <1>0, PointNames DEF Job
    <3>2. GoesOn(job[t], j)
      BY <1>0, <1>4, <3>1 DEF GoesOn, FindOldest
    <3>. QED BY <2>1, <3>1, <3>2, BecomesNearer
  <2>2. \A i \in Newest(Matching(Own(t, "old"))) : i \in Ids
    BY DEF Newest, Matching
  <2>. QED BY <1>4, <2>1, <2>2, FinishNearer DEF FindOldest
<1>5. CASE Clean(t)
  <2>. PICK n : n = IF job[t].kind = "upgrade" THEN KillTime ELSE BakPolls
    OBVIOUS
  <2>0. job[t].pc = "clean"
    BY <1>5 DEF Clean
  <2>1. n \in Nat /\ n <= KillTime + BakPolls
    <3>1. n = KillTime \/ n = BakPolls
      OBVIOUS
    <3>. QED BY <1>0, <3>1
  <2>2. CASE Become(t, [job[t] EXCEPT !.pc = "cleared", !.polls = n])
    <3>. PICK j : j = [job[t] EXCEPT !.pc = "cleared", !.polls = n]
      OBVIOUS
    <3>1. j \in Job /\ j.pc = "cleared" /\ j.kind = job[t].kind /\ j.polls = n
      BY <1>0, <2>1, PointNames DEF Job
    <3>2. GoesOn(job[t], j)
      BY <1>0, <2>0, <2>1, <3>1 DEF GoesOn
    <3>. QED BY <2>2, <3>1, <3>2, BecomesNearer
  <2>3. ASSUME NEW i \in Ids, Become(t, [job[t] EXCEPT !.pc = "purge", !.cur = i, !.polls = n])
        PROVE  Nearer(t)
    <3>. PICK j : j = [job[t] EXCEPT !.pc = "purge", !.cur = i, !.polls = n]
      OBVIOUS
    <3>1. j \in Job /\ j.pc = "purge" /\ j.kind = job[t].kind /\ j.polls = n
      BY <1>0, <2>1, PointNames DEF Job
    <3>2. GoesOn(job[t], j)
      BY <1>0, <2>0, <2>1, <3>1 DEF GoesOn
    <3>. QED BY <2>3, <3>1, <3>2, BecomesNearer
  <2>4. \A i \in Backups(t) : i \in Ids
    BY DEF Backups, Named, Newest, Matching
  <2>. QED BY <1>5, <2>2, <2>3, <2>4 DEF Clean
<1>6. CASE Purge(t)
  BY <1>1, <1>6, FinishNearer, PointNames DEF Purge
<1>7. ASSUME NEW l \in Waiting, NEW i \in Ids \union {NoId}, Doze(t, l, i), job[t].polls > 0,
             \/ job[t].pc = "cleared" /\ l = "waitCleared"
             \/ job[t].pc = "poll" /\ l = "waitPoll"
      PROVE  Nearer(t)
  <2>. PICK n : n = job[t].polls - 1
    OBVIOUS
  <2>. PICK j : j = [job[t] EXCEPT !.pc = l, !.cur = i, !.polls = n]
    OBVIOUS
  <2>1. n \in Nat /\ job[t].polls = n + 1 /\ l \in Points
    BY <1>0, <1>7, PointNames DEF Waiting
  <2>2. j \in Job /\ j.pc = l /\ j.kind = job[t].kind /\ j.polls = n
    BY <1>0, <2>1 DEF Job
  <2>3. GoesOn(job[t], j)
    BY <1>0, <1>7, <2>1, <2>2 DEF GoesOn
  <2>4. Become(t, j)
    BY <1>7 DEF Doze
  <2>. QED BY <2>2, <2>3, <2>4, BecomesNearer
<1>8. CASE AwaitCleared(t)
  <2>1. job[t].pc = "cleared"
    BY <1>8 DEF AwaitCleared
  <2>2. CASE Become(t, [job[t] EXCEPT !.pc = "find", !.cur = NoId, !.polls = 0])
    <3>. PICK j : j = [job[t] EXCEPT !.pc = "find", !.cur = NoId, !.polls = 0]
      OBVIOUS
    <3>1. j \in Job /\ j.pc = "find" /\ j.kind = job[t].kind
      BY <1>0, PointNames DEF Job
    <3>2. GoesOn(job[t], j)
      BY <1>0, <2>1, <3>1 DEF GoesOn
    <3>. QED BY <2>2, <3>1, <3>2, BecomesNearer
  <2>3. \A i \in Backups(t) : i \in Ids
    BY DEF Backups, Named, Newest, Matching
  <2>. QED BY <1>7, <1>8, <2>1, <2>2, <2>3, FinishNearer DEF AwaitCleared, Waiting
<1>9. CASE Wake(t)
  <2>. PICK j, l : j = [job[t] EXCEPT !.pc = l] /\ l = IF job[t].pc = "waitPoll" THEN "poll" ELSE "cleared"
    OBVIOUS
  <2>1. j \in Job /\ j.pc = l /\ j.kind = job[t].kind /\ j.polls = job[t].polls
    BY <1>0, PointNames DEF Job
  <2>2. GoesOn(job[t], j)
    BY <1>0, <1>9, <2>1 DEF GoesOn, Wake, Waiting
  <2>3. Become(t, j)
    BY <1>9 DEF Wake
  <2>. QED BY <2>1, <2>2, <2>3, BecomesNearer
<1>10. CASE Find(t)
  <2>1. ASSUME NEW i \in Ids, Become(t, [job[t] EXCEPT !.pc = FirstCall(job[t].kind), !.cur = i])
        PROVE  Nearer(t)
    <3>. PICK j, l : j = [job[t] EXCEPT !.pc = l, !.cur = i] /\ l = FirstCall(job[t].kind)
      OBVIOUS
    <3>1. l \in {"halt", "restart", "launch"} /\ job[t].pc = "find"
      BY <1>10 DEF FirstCall, Find
    <3>2. j \in Job /\ j.pc = l /\ j.kind = job[t].kind
      BY <1>0, <3>1, PointNames DEF Job
    <3>3. GoesOn(job[t], j)
      BY <1>0, <3>1, <3>2 DEF GoesOn
    <3>. QED BY <2>1, <3>2, <3>3, BecomesNearer
  <2>2. \A i \in Found(t) : i \in Ids
    BY DEF Found, Named, Newest, Matching
  <2>. QED BY <1>10, <2>1, <2>2, ProceedNearer DEF Find
<1>11. CASE Halt(t) \/ Restart(t)
  <2>1. CASE Become(t, [job[t] EXCEPT !.pc = "poll", !.polls = KillTime])
    <3>. PICK j : j = [job[t] EXCEPT !.pc = "poll", !.polls = KillTime]
      OBVIOUS
    <3>1. j \in Job /\ j.pc = "poll" /\ j.kind = job[t].kind /\ j.polls = KillTime
      BY <1>0, PointNames DEF Job
    <3>2. GoesOn(job[t], j)
      BY <1>0, <1>11, <3>1 DEF GoesOn, Halt, Restart
    <3>. QED BY <2>1, <3>1, <3>2, BecomesNearer
  <2>. QED BY <1>11, <2>1, FinishNearer DEF Halt, Restart
<1>12. CASE Poll(t)
  <2>1. job[t].pc = "poll" /\ job[t].cur \in Ids \union {NoId}
    BY <1>0, <1>12 DEF Poll, Job
  <2>. QED BY <1>1, <1>7, <1>12, <2>1, ProceedNearer, FinishNearer, PointNames DEF Poll, Waiting
<1>13. CASE Retire(t)
  <2>1. CASE Become(t, [job[t] EXCEPT !.pc = "create", !.old = job[t].cur])
    <3>. PICK j, i : j = [job[t] EXCEPT !.pc = "create", !.old = i] /\ i = job[t].cur
      OBVIOUS
    <3>1. j \in Job /\ j.pc = "create" /\ j.kind = job[t].kind
      BY <1>0, PointNames DEF Job
    <3>2. GoesOn(job[t], j)
      BY <1>0, <1>13, <3>1 DEF GoesOn, Retire
    <3>. QED BY <2>1, <3>1, <3>2, BecomesNearer
  <2>2. CASE Become(t, [job[t] EXCEPT !.pc = "swap"]) /\ UNCHANGED owner
    BY <1>1, <1>13, <2>2, PointNames DEF Retire, Goto
  <2>. QED BY <1>13, <2>1, <2>2, FinishNearer DEF Retire
<1>14. CASE Create(t) \/ Swap(t)
  <2>1. ASSUME NEW i \in Ids \union {NoId}, Become(t, [job[t] EXCEPT !.pc = "launch", !.cur = i])
        PROVE  Nearer(t)
    <3>. PICK j : j = [job[t] EXCEPT !.pc = "launch", !.cur = i]
      OBVIOUS
    <3>1. j \in Job /\ j.pc = "launch" /\ j.kind = job[t].kind
      BY <1>0, PointNames DEF Job
    <3>2. GoesOn(job[t], j)
      BY <1>0, <1>14, <3>1 DEF GoesOn, Create, Swap
    <3>. QED BY <2>1, <3>1, <3>2, BecomesNearer
  <2>2. job[t].old \in Ids \union {NoId} /\ (Create(t) => created + 1 \in Ids)
    BY <1>0, DockerAssumption DEF Job, Create, CreateContainer, TypeOK, DockerTypeOK, Ids
  <2>. QED BY <1>14, <2>1, <2>2, FinishNearer DEF Create, Swap
<1>15. CASE Launch(t) \/ CallFails(t)
  BY <1>15, FinishNearer DEF Launch, CallFails
<1>16. CASE Discard(t)
  BY <1>16, ProceedNearer, FinishNearer DEF Discard
<1>. QED
  BY <1>2, <1>3, <1>4, <1>5, <1>6, <1>8, <1>9, <1>10, <1>11, <1>12, <1>13, <1>14, <1>15, <1>16 DEF Step

\* Who is not at it leaves an operation where it is.
LEMMA OtherSteps ==
  ASSUME TypeOK, [Next]_vars, NEW t \in Tasks, ~Step(t)
  PROVE  job'[t] = job[t] \/ Submit(t)
<1>1. ASSUME NEW u \in Tasks, Submit(u) \/ Step(u), u # t PROVE job'[t] = job[t]
  <2>1. \E j : Become(u, j)
    BY <1>1 DEF Submit, Step, Enter, PrepareImage, FindOldest, Clean, Purge, AwaitCleared, Wake, Find,
           Halt, Restart, Poll, Retire, Create, Swap, Launch, Discard, CallFails,
           Goto, Finish, Lost, Doze, Proceed
  <2>. QED BY <1>1, <2>1 DEF Become, TypeOK
<1>2. Daemon \/ Quiet \/ UNCHANGED vars => job' = job
  BY DEF Daemon, ClearImages, Quiet, vars
<1>. QED BY <1>1, <1>2 DEF Next

MostSteps == 15 + 6 * KillTime + 2 * BakPolls

\* What is ahead of an operation is bounded from the time it is asked for.
NearEnough == TypeOK /\ \A t \in Tasks : Ahead(job[t]) <= MostSteps

LEMMA NearStep == NearEnough /\ [Next]_vars => NearEnough'
<1>. SUFFICES ASSUME NearEnough, [Next]_vars PROVE NearEnough'
  OBVIOUS
<1>1. TypeOK /\ TypeOK'
  BY TypeStep DEF NearEnough
<1>2. ASSUME NEW t \in Tasks PROVE Ahead(job'[t]) <= MostSteps
  <2>0. job[t] \in Job /\ job'[t] \in Job
    BY <1>1 DEF TypeOK
  <2>1. Ahead(job[t]) \in Nat /\ Ahead(job'[t]) \in Nat /\ Ahead(job[t]) <= MostSteps /\ MostSteps \in Nat
    BY <2>0, AheadIsNat, MachineAssumption DEF NearEnough, MostSteps
  <2>2. CASE Step(t)
    BY <1>1, <2>1, <2>2, StepNearer DEF Nearer
  <2>3. CASE Submit(t)
    <3>1. job'[t].pc = "queued"
      BY <1>1, <2>3 DEF Submit, Become, TypeOK, Idle
    <3>2. AheadIs(job'[t])
      BY <2>0, AheadAt
    <3>. QED BY <3>1, <3>2, MachineAssumption DEF MostSteps, AheadIs, Again
  <2>. QED BY <1>1, <2>1, <2>2, <2>3, OtherSteps
<1>. QED BY <1>1, <1>2 DEF NearEnough

\* On every machine, whatever its tasks do: an operation comes to its end in at most MostSteps
\* steps of its own, each of which brings it nearer; it is at its end when none is ahead.
THEOREM StepsBounded ==
  Spec => /\ EveryStepCounts
          /\ [](\A t \in Tasks : Ahead(job[t]) \in 0..MostSteps /\ (Ahead(job[t]) = 0 <=> job[t].pc = "idle"))
<1>1. Init => NearEnough
  <2>. SUFFICES ASSUME Init, NEW t \in Tasks PROVE Ahead(job[t]) <= MostSteps
    BY TypeInit DEF NearEnough
  <2>1. job[t] \in Job /\ job[t].pc = "idle"
    BY IdleIsJob DEF Init, Idle
  <2>2. Ahead(job[t]) = 0
    BY <2>1, AheadIsNat
  <2>. QED BY <2>2, MachineAssumption DEF MostSteps
<1>2. NearEnough /\ [Next]_vars
      => [\A t \in Tasks :
            /\ Step(t) => Ahead(job'[t]) < Ahead(job[t])
            /\ job[t].pc # "idle" /\ ~Step(t) => job'[t] = job[t]]_vars
  <2>. SUFFICES ASSUME NearEnough, [Next]_vars, NEW t \in Tasks
                PROVE  /\ Step(t) => Ahead(job'[t]) < Ahead(job[t])
                       /\ job[t].pc # "idle" /\ ~Step(t) => job'[t] = job[t]
    OBVIOUS
  <2>1. Step(t) => Ahead(job'[t]) < Ahead(job[t])
    BY StepNearer DEF NearEnough, Nearer
  <2>2. job[t].pc # "idle" /\ ~Step(t) => job'[t] = job[t]
    BY OtherSteps DEF NearEnough, Submit
  <2>. QED BY <2>1, <2>2
<1>3. NearEnough
      => \A t \in Tasks : Ahead(job[t]) \in 0..MostSteps /\ (Ahead(job[t]) = 0 <=> job[t].pc = "idle")
  <2>. SUFFICES ASSUME NearEnough, NEW t \in Tasks
                PROVE  Ahead(job[t]) \in 0..MostSteps /\ (Ahead(job[t]) = 0 <=> job[t].pc = "idle")
    OBVIOUS
  <2>1. job[t] \in Job /\ Ahead(job[t]) <= MostSteps
    BY DEF NearEnough, TypeOK
  <2>. QED BY <2>1, AheadIsNat, MachineAssumption DEF MostSteps
<1>. QED BY <1>1, <1>2, <1>3, NearStep, PTL DEF Spec, EveryStepCounts

-----------------------------------------------------------------------------
(* A rollback goes back to a container of its own project *)

\* cname-old of a project is not part of a container name of another one.
OldApart == \A p, q \in Projects, s \in Slots : << <<p, "old">>, <<q, s>> >> \in NameContains => p = q

\* Where cname-old of no project is part of another's container name (as web-old is of my-web-old
\* and of web-old-api), a rollback of a project without cname-old ends where it finds none; run
\* similar_names has the step that breaks this where one is.
THEOREM RollbackOwnOld ==
  ASSUME OldApart
  PROVE  Spec => RollbackNeedsOwnOld
<1>1. ASSUME TypeOK, [Next]_vars, NEW t \in Tasks, job[t].pc = "oldest", Named(Own(t, "old")) = {}
      PROVE  job'[t].pc \in {"oldest", "idle"}
  <2>0. job \in [Tasks -> Job] /\ name \in [Ids -> Names]
    BY <1>1 DEF TypeOK, DockerTypeOK
  <2>1. Matching(Own(t, "old")) = {}
    <3>1. ASSUME NEW i \in Matching(Own(t, "old")) PROVE i \in Named(Own(t, "old"))
      <4>1. i \in Ids /\ st[i] # "none" /\ FilterAccepts(Own(t, "old"), name[i])
        BY <3>1 DEF Matching
      <4>2. PICK q \in Projects, s \in Slots : name[i] = <<q, s>>
        BY <2>0, <4>1 DEF Names
      <4>3. job[t] \in Job /\ job[t].proj \in Projects
        BY <1>1, <2>0 DEF Job
      <4>4. << <<job[t].proj, "old">>, <<q, s>> >> \in NameContains
        BY <4>1, <4>2 DEF FilterAccepts, Own
      <4>5. q = job[t].proj
        BY <4>3, <4>4 DEF OldApart
      <4>6. "old" \in {"current", s}
        BY <4>3, <4>4, <4>5, DockerAssumption DEF Slots
      <4>. QED BY <4>1, <4>2, <4>5, <4>6 DEF Named, Own
    <3>. QED BY <1>1, <3>1
  <2>2. CASE Step(t)
    <3>1. ~Wake(t)
      BY <1>1 DEF Wake, Waiting
    <3>2. FindOldest(t) \/ CallFails(t)
      BY <1>1, <2>2, <3>1
         DEF Step, Enter, PrepareImage, Clean, Purge, AwaitCleared, Find, Halt, Restart, Poll, Retire,
             Create, Swap, Launch, Discard
    <3>3. Finish(t)
      BY <2>1, <3>2 DEF FindOldest, CallFails, Newest
    <3>. QED BY <2>0, <3>3 DEF Finish, Become, Idle
  <2>3. CASE ~Step(t)
    BY <1>1, <2>3, OtherSteps DEF Submit
  <2>. QED BY <2>2, <2>3
<1>2. TypeOK /\ [Next]_vars
      => [\A t \in Tasks : job[t].pc = "oldest" /\ Named(Own(t, "old")) = {}
                           => job'[t].pc \in {"oldest", "idle"}]_vars
  BY <1>1
<1>. QED BY <1>2, TypeInit, TypeStep, PTL DEF Spec, RollbackNeedsOwnOld
=============================================================================
