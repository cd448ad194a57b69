----------------------- MODULE DeploymentSlots_proofs -----------------------
(***************************************************************************)
(* A machine whose projects have names of which none contains another:     *)
(* every container stays with the project it was made for, and the         *)
(* operations do to the places of the containers what DeploymentSlots      *)
(* allows, for any number of projects, tasks, versions and containers.     *)
(***************************************************************************)
EXTENDS DockerMachine_proofs

\* No container name contains one of another project.
NamesApart == \A n, m \in Names : <<n, m>> \in NameContains => n[1] = m[1]

-----------------------------------------------------------------------------
(* Containers stay with their project *)

\* A container made, which is of the project as long as it is there.
Mine(i, p) == i \in 1..created /\ (st[i] # "none" => name[i][1] = p)

\* What a task works on is of its project.
TaskMine(t) == \A i \in {job[t].cur, job[t].old} \ {NoId} : Mine(i, job[t].proj)

OwnProject ==
    /\ TypeOK
    /\ \A i \in Ids : i > created => st[i] = "none"
    /\ NamedForItsImage
    /\ \A t \in Tasks : TaskMine(t)

\* A step takes no container of one project to another, nor brings one back.
Keeps ==
    /\ created' \in {created, created + 1}
    /\ \A i \in 1..created :
         st'[i] # "none" => st[i] # "none" /\ name'[i][1] = name[i][1] /\ image'[i] = image[i]
    /\ \A i \in Ids : i > created' => st'[i] = "none"

\* What is there at first is of its project.
LEMMA OwnInit == Init => OwnProject
<1>. SUFFICES ASSUME Init PROVE OwnProject
  OBVIOUS
<1>1. TypeOK
  BY TypeInit
<1>2. \A i \in Ids : i > created => st[i] = "none"
  BY DockerAssumption DEF Init, DockerInit, Ids
<1>3. NamedForItsImage
  BY DockerAssumption DEF Init, DockerInit, NamedForItsImage, Ids, Names
<1>4. \A t \in Tasks : TaskMine(t)
  BY DEF Init, TaskMine, Idle
<1>. QED BY <1>1, <1>2, <1>3, <1>4 DEF OwnProject

\* Every call keeps the containers apart that is made for one of its project.
LEMMA KeepsCalls ==
  ASSUME OwnProject
  PROVE  /\ \A i : StopContainer(i) \/ StartContainer(i) \/ RestartContainer(i)
                   \/ RemoveContainer(i) \/ Exit(i) \/ Vanish(i) => Keeps
         /\ \A m : BuildImage(m) \/ DeleteImage(m) => Keeps
         /\ UNCHANGED dockerVars => Keeps
         /\ \A n, m : CreateContainer(n, m) => Keeps
         /\ \A i, p, s : RenameContainer(i, <<p, s>>) /\ (i \in Ids => Mine(i, p)) => Keeps
<1>. USE DEF Keeps
<1>0. /\ DockerTypeOK /\ created \in Nat /\ created <= MaxContainers
      /\ \A i \in Ids : i > created => st[i] = "none"
      /\ \A i \in 1..created : i \in Ids
  BY DockerAssumption DEF OwnProject, TypeOK, DockerTypeOK, Ids
<1>1. ASSUME NEW i, StopContainer(i) \/ StartContainer(i) \/ RestartContainer(i)
                    \/ RemoveContainer(i) \/ Exit(i)
      PROVE  Keeps
  <2>1. Exists(i) \/ st[i] = "stopping"
    BY <1>1 DEF StopContainer, StartContainer, CanStart, RestartContainer, RemoveContainer, CanRemove, Exit
  <2>2. PICK s : st' = [st EXCEPT ![i] = s] /\ UNCHANGED <<name, image, created>>
    BY <1>1 DEF StopContainer, StartContainer, RestartContainer, RemoveContainer, Exit
  <2>3. st[i] # "none"
    BY <2>1 DEF Exists
  <2>. QED BY <1>0, <2>2, <2>3 DEF DockerTypeOK
<1>2. ASSUME NEW i, Vanish(i) PROVE Keeps
  BY <1>0, <1>2 DEF Vanish, DockerTypeOK
<1>3. ASSUME NEW m, BuildImage(m) \/ DeleteImage(m) PROVE Keeps
  BY <1>0, <1>3 DEF BuildImage, DeleteImage
<1>4. UNCHANGED dockerVars => Keeps
  BY <1>0 DEF dockerVars
<1>5. ASSUME NEW n, NEW m, CreateContainer(n, m) PROVE Keeps
  BY <1>0, <1>5, DockerAssumption DEF CreateContainer, DockerTypeOK, Ids
<1>6. ASSUME NEW i, NEW p, NEW s, RenameContainer(i, <<p, s>>), i \in Ids => Mine(i, p)
      PROVE  Keeps
  <2>1. st[i] # "none" /\ name' = [name EXCEPT ![i] = <<p, s>>] /\ UNCHANGED <<st, image, created>>
    BY <1>6 DEF RenameContainer, CanRename, Exists
  <2>2. i \in Ids => name[i][1] = p
    BY <1>6, <2>1 DEF Mine
  <2>3. \A k \in Ids : name'[k][1] = name[k][1]
    BY <1>0, <2>1, <2>2 DEF DockerTypeOK
  <2>4. st' = st /\ image' = image /\ created' = created
    BY <2>1
  <2>. QED BY <1>0, <2>3, <2>4
<1>. QED BY <1>1, <1>2, <1>3, <1>4, <1>5, <1>6

\* What is a project's stays the project's.
LEMMA MineKept ==
  ASSUME OwnProject, Keeps, NEW i, NEW p, Mine(i, p)
  PROVE  Mine(i, p)'
  BY DEF OwnProject, TypeOK, DockerTypeOK, Keeps, Mine

\* What a task finds is of its project.
LEMMA FoundMine ==
  ASSUME OwnProject, NamesApart, NEW t \in Tasks,
         NEW i \in Backups(t) \union Found(t) \union Newest(Matching(Own(t, "old")))
  PROVE  i \in Ids /\ i # NoId /\ Mine(i, job[t].proj)
<1>0. TypeOK /\ DockerTypeOK
  BY DEF OwnProject, TypeOK
<1>1. i \in Ids /\ st[i] # "none" /\ \E s \in Slots : name[i] = Own(t, s) \/ FilterAccepts(Own(t, s), name[i])
  BY DEF Backups, Found, Named, Newest, Matching, Slots
<1>2. PICK s \in Slots : name[i] = Own(t, s) \/ FilterAccepts(Own(t, s), name[i])
  BY <1>1
<1>3. Own(t, s)[1] = job[t].proj
  BY DEF Own
<1>4. name[i][1] = job[t].proj
  <2>1. CASE FilterAccepts(Own(t, s), name[i])
    <3>1. <<Own(t, s), name[i]>> \in NameContains /\ Own(t, s) \in Names /\ name[i] \in Names
      BY <2>1, DockerAssumption DEF FilterAccepts
    <3>. QED BY <1>3, <3>1 DEF NamesApart
  <2>. QED BY <1>2, <1>3, <2>1
<1>5. i \in 1..created
  BY <1>0, <1>1 DEF OwnProject, DockerTypeOK, Ids
<1>. QED BY <1>1, <1>4, <1>5 DEF Mine, Ids, NoId

\* The fields of a job that goes on.
LEMMA JobFields ==
  ASSUME NEW j \in Job, NEW l, NEW i, NEW n
  PROVE  /\ [j EXCEPT !.pc = l].proj = j.proj /\ [j EXCEPT !.pc = l].cur = j.cur
         /\ [j EXCEPT !.pc = l].old = j.old
         /\ [j EXCEPT !.pc = l, !.cur = i].proj = j.proj /\ [j EXCEPT !.pc = l, !.cur = i].cur = i
         /\ [j EXCEPT !.pc = l, !.cur = i].old = j.old
         /\ [j EXCEPT !.pc = l, !.old = i].proj = j.proj /\ [j EXCEPT !.pc = l, !.old = i].cur = j.cur
         /\ [j EXCEPT !.pc = l, !.old = i].old = i
         /\ [j EXCEPT !.pc = l, !.polls = n].proj = j.proj
         /\ [j EXCEPT !.pc = l, !.polls = n].cur = j.cur
         /\ [j EXCEPT !.pc = l, !.polls = n].old = j.old
         /\ [j EXCEPT !.pc = l, !.cur = i, !.polls = n].proj = j.proj
         /\ [j EXCEPT !.pc = l, !.cur = i, !.polls = n].cur = i
         /\ [j EXCEPT !.pc = l, !.cur = i, !.polls = n].old = j.old
         /\ [j EXCEPT !.kind = "removeOld", !.pc = l].proj = j.proj
         /\ [j EXCEPT !.kind = "removeOld", !.pc = l].cur = j.cur
         /\ [j EXCEPT !.kind = "removeOld", !.pc = l].old = j.old
  BY DEF Job

\* A task goes on with a job of its project.
LEMMA TakesMine ==
  ASSUME OwnProject, Keeps, NEW t \in Tasks, NEW j, Become(t, j), j.proj = job[t].proj,
         NEW C, j.cur \in C, j.old \in C,
         \A i \in C : i \in {NoId, job[t].cur, job[t].old} \/ Mine(i, job[t].proj)
  PROVE  TaskMine(t)'
<1>1. job'[t] = j
  BY DEF Become, OwnProject, TypeOK
<1>2. \A i \in {j.cur, j.old} \ {NoId} : Mine(i, j.proj)
  BY DEF OwnProject, TaskMine
<1>3. PICK q : q = j
  OBVIOUS
<1>4. \A i \in {q.cur, q.old} \ {NoId} : Mine(i, q.proj)'
  BY <1>2, <1>3, MineKept
<1>. QED BY <1>1, <1>3, <1>4 DEF TaskMine, Mine

\* The same, said of the steps between two points.
LEMMA GoesMine ==
  ASSUME OwnProject, Keeps, NEW t \in Tasks
  PROVE  /\ Finish(t) => TaskMine(t)'
         /\ \A l : Goto(t, l) => TaskMine(t)'
         /\ \A l, i : Doze(t, l, i) /\ (i = job[t].cur \/ Mine(i, job[t].proj)) => TaskMine(t)'
         /\ Proceed(t) => TaskMine(t)'
<1>0. job[t] \in Job /\ job \in [Tasks -> Job]
  BY DEF OwnProject, TypeOK
<1>1. Finish(t) => TaskMine(t)'
  BY <1>0 DEF Finish, Become, Idle, TaskMine
<1>2. ASSUME NEW l, Goto(t, l) PROVE TaskMine(t)'
  <2>1. /\ [job[t] EXCEPT !.pc = l].proj = job[t].proj
        /\ [job[t] EXCEPT !.pc = l].cur \in {job[t].cur, job[t].old}
        /\ [job[t] EXCEPT !.pc = l].old \in {job[t].cur, job[t].old}
    BY <1>0, JobFields
  <2>. QED BY <1>2, <2>1, TakesMine DEF Goto
<1>3. ASSUME NEW l, NEW i, Doze(t, l, i), i = job[t].cur \/ Mine(i, job[t].proj) PROVE TaskMine(t)'
  <2>. PICK n : n = job[t].polls - 1
    OBVIOUS
  <2>1. /\ [job[t] EXCEPT !.pc = l, !.cur = i, !.polls = n].proj = job[t].proj
        /\ [job[t] EXCEPT !.pc = l, !.cur = i, !.polls = n].cur \in {i, job[t].old}
        /\ [job[t] EXCEPT !.pc = l, !.cur = i, !.polls = n].old \in {i, job[t].old}
    BY <1>0, JobFields
  <2>2. Become(t, [job[t] EXCEPT !.pc = l, !.cur = i, !.polls = n])
    BY <1>3 DEF Doze
  <2>. QED BY <1>3, <2>1, <2>2, TakesMine
<1>4. Proceed(t) => TaskMine(t)'
  <2>1. /\ [job[t] EXCEPT !.kind = "removeOld", !.pc = "find"].proj = job[t].proj
        /\ [job[t] EXCEPT !.kind = "removeOld", !.pc = "find"].cur \in {job[t].cur, job[t].old}
        /\ [job[t] EXCEPT !.kind = "removeOld", !.pc = "find"].old \in {job[t].cur, job[t].old}
    BY <1>0, JobFields
  <2>2. Become(t, [job[t] EXCEPT !.kind = "removeOld", !.pc = "find"]) => TaskMine(t)'
    BY <2>1, TakesMine
  <2>. QED BY <1>1, <1>2, <2>2 DEF Proceed
<1>. QED BY <1>1, <1>2, <1>3, <1>4

\* No step of a task takes a container to another project.
LEMMA KeepsStep ==
  ASSUME OwnProject, NEW t \in Tasks, Submit(t) \/ Step(t)
  PROVE  Keeps
<1>1. ASSUME NEW i \in {job[t].cur, job[t].old} PROVE i \in Ids => Mine(i, job[t].proj)
  BY DEF OwnProject, TaskMine, Ids, NoId
<1>2. CASE Submit(t) \/ Enter(t) \/ FindOldest(t) \/ Clean(t) \/ AwaitCleared(t) \/ Wake(t) \/ Find(t)
           \/ Poll(t) \/ CallFails(t)
  BY <1>2, KeepsCalls DEF Submit, Enter, FindOldest, Clean, AwaitCleared, Wake, Find, Poll, CallFails
<1>3. CASE PrepareImage(t) \/ Purge(t) \/ Halt(t) \/ Restart(t) \/ Launch(t) \/ Discard(t)
  BY <1>3, KeepsCalls DEF PrepareImage, Purge, Halt, Restart, Launch, Discard
<1>4. CASE Create(t)
  BY <1>4, KeepsCalls DEF Create
<1>5. CASE Retire(t)
  <2>1. PICK s : RetireName(t) = <<job[t].proj, s>>
    BY DEF RetireName, Own
  <2>. QED BY <1>1, <1>5, <2>1, KeepsCalls DEF Retire
<1>6. CASE Swap(t)
  BY <1>1, <1>6, KeepsCalls DEF Swap, Own
<1>. QED BY <1>2, <1>3, <1>4, <1>5, <1>6 DEF Step

\* Every task goes on with containers of its project.
LEMMA OwnStepMine ==
  ASSUME OwnProject, NamesApart, NEW t \in Tasks, Submit(t) \/ Step(t)
  PROVE  TaskMine(t)'
<1>0. Keeps /\ job[t] \in Job /\ job \in [Tasks -> Job] /\ TypeOK
  BY KeepsStep DEF OwnProject, TypeOK
<1>. PICK c, o, p : c = job[t].cur /\ o = job[t].old /\ p = job[t].proj
  OBVIOUS
<1>1. CASE Submit(t)
  <2>1. PICK k \in Kinds, q \in Projects, v \in Versions :
          Become(t, [Idle EXCEPT !.pc = "queued", !.kind = k, !.proj = q, !.ver = v])
    BY <1>1 DEF Submit
  <2>2. job'[t].cur = NoId /\ job'[t].old = NoId
    BY <1>0, <2>1 DEF Become, Idle
  <2>. QED BY <2>2 DEF TaskMine
<1>2. CASE Enter(t) \/ Wake(t)
  <2>1. PICK l : Become(t, [job[t] EXCEPT !.pc = l]) \/ Finish(t)
    BY <1>2 DEF Enter, Wake
  <2>2. /\ [job[t] EXCEPT !.pc = l].proj = p
        /\ [job[t] EXCEPT !.pc = l].cur \in {c, o}
        /\ [job[t] EXCEPT !.pc = l].old \in {c, o}
    BY <1>0, JobFields
  <2>. QED BY <1>0, <2>1, <2>2, TakesMine, GoesMine
<1>3. CASE PrepareImage(t) \/ Purge(t) \/ Launch(t) \/ Discard(t) \/ CallFails(t)
  BY <1>0, <1>3, GoesMine DEF PrepareImage, Purge, Launch, Discard, CallFails, Lost
<1>4. CASE FindOldest(t)
  <2>1. ASSUME NEW i \in Newest(Matching(Own(t, "old"))), Become(t, [job[t] EXCEPT !.pc = "clean", !.old = i])
        PROVE  TaskMine(t)'
    <3>1. /\ [job[t] EXCEPT !.pc = "clean", !.old = i].proj = p
          /\ [job[t] EXCEPT !.pc = "clean", !.old = i].cur \in {c, i}
          /\ [job[t] EXCEPT !.pc = "clean", !.old = i].old \in {c, i}
      BY <1>0, JobFields
    <3>2. Mine(i, p)
      BY FoundMine
    <3>. QED BY <1>0, <2>1, <3>1, <3>2, TakesMine
  <2>. QED BY <1>0, <1>4, <2>1, GoesMine DEF FindOldest
<1>5. CASE Clean(t)
  <2>. PICK n : n = IF job[t].kind = "upgrade" THEN KillTime ELSE BakPolls
    OBVIOUS
  <2>1. ASSUME Become(t, [job[t] EXCEPT !.pc = "cleared", !.polls = n]) PROVE TaskMine(t)'
    <3>1. /\ [job[t] EXCEPT !.pc = "cleared", !.polls = n].proj = p
          /\ [job[t] EXCEPT !.pc = "cleared", !.polls = n].cur \in {c, o}
          /\ [job[t] EXCEPT !.pc = "cleared", !.polls = n].old \in {c, o}
      BY <1>0, JobFields
    <3>. QED BY <1>0, <2>1, <3>1, TakesMine
  <2>2. ASSUME NEW i \in Backups(t), Become(t, [job[t] EXCEPT !.pc = "purge", !.cur = i, !.polls = n])
        PROVE  TaskMine(t)'
    <3>1. /\ [job[t] EXCEPT !.pc = "purge", !.cur = i, !.polls = n].proj = p
          /\ [job[t] EXCEPT !.pc = "purge", !.cur = i, !.polls = n].cur \in {i, o}
          /\ [job[t] EXCEPT !.pc = "purge", !.cur = i, !.polls = n].old \in {i, o}
      BY <1>0, JobFields
    <3>2. Mine(i, p)
      BY FoundMine
    <3>. QED BY <1>0, <2>2, <3>1, <3>2, TakesMine
  <2>. QED BY <1>5, <2>1, <2>2 DEF Clean
<1>6. CASE AwaitCleared(t)
  <2>1. ASSUME Become(t, [job[t] EXCEPT !.pc = "find", !.cur = NoId, !.polls = 0]) PROVE TaskMine(t)'
    <3>1. /\ [job[t] EXCEPT !.pc = "find", !.cur = NoId, !.polls = 0].proj = p
          /\ [job[t] EXCEPT !.pc = "find", !.cur = NoId, !.polls = 0].cur \in {NoId, o}
          /\ [job[t] EXCEPT !.pc = "find", !.cur = NoId, !.polls = 0].old \in {NoId, o}
      BY <1>0, JobFields
    <3>. QED BY <1>0, <2>1, <3>1, TakesMine
  <2>2. \A i \in Backups(t) : Mine(i, job[t].proj)
    BY FoundMine
  <2>. QED BY <1>0, <1>6, <2>1, <2>2, GoesMine DEF AwaitCleared
<1>7. CASE Find(t)
  <2>1. ASSUME NEW i \in Found(t), NEW l, Become(t, [job[t] EXCEPT !.pc = l, !.cur = i])
        PROVE  TaskMine(t)'
    <3>1. /\ [job[t] EXCEPT !.pc = l, !.cur = i].proj = p
          /\ [job[t] EXCEPT !.pc = l, !.cur = i].cur \in {i, o}
          /\ [job[t] EXCEPT !.pc = l, !.cur = i].old \in {i, o}
      BY <1>0, JobFields
    <3>2. Mine(i, p)
      BY FoundMine
    <3>. QED BY <1>0, <2>1, <3>1, <3>2, TakesMine
  <2>. QED BY <1>0, <1>7, <2>1, GoesMine DEF Find
<1>8. CASE Halt(t) \/ Restart(t)
  <2>1. ASSUME Become(t, [job[t] EXCEPT !.pc = "poll", !.polls = KillTime]) PROVE TaskMine(t)'
    <3>1. /\ [job[t] EXCEPT !.pc = "poll", !.polls = KillTime].proj = p
          /\ [job[t] EXCEPT !.pc = "poll", !.polls = KillTime].cur \in {c, o}
          /\ [job[t] EXCEPT !.pc = "poll", !.polls = KillTime].old \in {c, o}
      BY <1>0, JobFields
    <3>. QED BY <1>0, <2>1, <3>1, TakesMine
  <2>. QED BY <1>0, <1>8, <2>1, GoesMine DEF Halt, Restart, Lost
<1>9. CASE Poll(t)
  BY <1>0, <1>9, GoesMine DEF Poll
<1>10. CASE Retire(t)
  <2>1. ASSUME Become(t, [job[t] EXCEPT !.pc = "create", !.old = c]) PROVE TaskMine(t)'
    <3>1. /\ [job[t] EXCEPT !.pc = "create", !.old = c].proj = p
          /\ [job[t] EXCEPT !.pc = "create", !.old = c].cur \in {c, o}
          /\ [job[t] EXCEPT !.pc = "create", !.old = c].old \in {c, o}
      BY <1>0, JobFields
    <3>. QED BY <1>0, <2>1, <3>1, TakesMine
  <2>2. ASSUME Become(t, [job[t] EXCEPT !.pc = "swap"]) PROVE TaskMine(t)'
    <3>1. /\ [job[t] EXCEPT !.pc = "swap"].proj = p
          /\ [job[t] EXCEPT !.pc = "swap"].cur \in {c, o}
          /\ [job[t] EXCEPT !.pc = "swap"].old \in {c, o}
      BY <1>0, JobFields
    <3>. QED BY <1>0, <2>2, <3>1, TakesMine
  <2>. QED BY <1>0, <1>10, <2>1, <2>2, GoesMine DEF Retire, Lost
<1>11. CASE Create(t)
  <2>1. ASSUME Become(t, [job[t] EXCEPT !.pc = "launch", !.cur = created + 1]) PROVE TaskMine(t)'
    <3>. PICK m \in Nat : m = created + 1
      BY <1>0 DEF TypeOK, DockerTypeOK
    <3>1. job'[t] = [job[t] EXCEPT !.pc = "launch", !.cur = m]
      BY <1>0, <2>1 DEF Become
    <3>2. job'[t].proj = p /\ job'[t].cur = m /\ job'[t].old = o
      BY <1>0, <3>1, JobFields
    <3>3. created' = m /\ m \in Ids /\ name' = [name EXCEPT ![m] = Own(t, "current")]
      BY <1>0, <1>11, DockerAssumption DEF Create, CreateContainer, Ids, TypeOK, DockerTypeOK
    <3>4. name'[m][1] = p /\ m \in 1..created'
      BY <1>0, <3>3, DockerAssumption DEF Own, TypeOK, DockerTypeOK, Ids
    <3>5. o # NoId => Mine(o, p)'
      <4>1. o # NoId => Mine(o, p)
        BY DEF OwnProject, TaskMine
      <4>. QED BY <1>0, <4>1, MineKept
    <3>. QED BY <3>2, <3>4, <3>5 DEF TaskMine, Mine
  <2>. QED BY <1>0, <1>11, <2>1, GoesMine DEF Create, Lost
<1>12. CASE Swap(t)
  <2>1. ASSUME Become(t, [job[t] EXCEPT !.pc = "launch", !.cur = o]) PROVE TaskMine(t)'
    <3>1. /\ [job[t] EXCEPT !.pc = "launch", !.cur = o].proj = p
          /\ [job[t] EXCEPT !.pc = "launch", !.cur = o].cur \in {c, o}
          /\ [job[t] EXCEPT !.pc = "launch", !.cur = o].old \in {c, o}
      BY <1>0, JobFields
    <3>. QED BY <1>0, <2>1, <3>1, TakesMine
  <2>. QED BY <1>0, <1>12, <2>1, GoesMine DEF Swap, Lost
<1>. QED BY <1>1, <1>2, <1>3, <1>4, <1>5, <1>6, <1>7, <1>8, <1>9, <1>10, <1>11, <1>12 DEF Step

\* A container keeps the project it was made for.
LEMMA OwnProjectStep ==
  ASSUME OwnProject, NamesApart, [Next]_vars
  PROVE  OwnProject'
<1>0. TypeOK /\ DockerTypeOK /\ TypeOK'
  BY TypeStep DEF OwnProject, TypeOK
<1>1. ASSUME Keeps, UNCHANGED job PROVE \A t \in Tasks : TaskMine(t)'
  <2>1. ASSUME NEW t \in Tasks PROVE TaskMine(t)'
    <3>. PICK j : j = job[t]
      OBVIOUS
    <3>1. \A i \in {j.cur, j.old} \ {NoId} : Mine(i, j.proj)'
      BY <1>1, MineKept DEF OwnProject, TaskMine
    <3>. QED BY <1>1, <3>1 DEF TaskMine, Mine
  <2>. QED BY <2>1
<1>2. ASSUME NEW t \in Tasks, Submit(t) \/ Step(t) PROVE Keeps /\ \A u \in Tasks : TaskMine(u)'
  <2>1. Keeps
    BY <1>2, KeepsStep
  <2>2. \A u \in Tasks \ {t} : job'[u] = job[u]
    <3>1. \E j : Become(t, j)
      BY <1>2 DEF Submit, Step, Enter, PrepareImage, FindOldest, Clean, Purge, AwaitCleared, Wake,
             Find, Halt, Restart, Poll, Retire, Create, Swap, Launch, Discard, CallFails,
             Goto, Finish, Lost, Doze, Proceed
    <3>. QED BY <1>0, <3>1 DEF TypeOK, Become
  <2>3. ASSUME NEW u \in Tasks \ {t} PROVE TaskMine(u)'
    <3>. PICK j : j = job[u]
      OBVIOUS
    <3>1. \A i \in {j.cur, j.old} \ {NoId} : Mine(i, j.proj)'
      BY <2>1, MineKept DEF OwnProject, TaskMine
    <3>. QED BY <2>2, <3>1 DEF TaskMine, Mine
  <2>. QED BY <1>2, <2>1, <2>3, OwnStepMine
<1>3. Daemon \/ Quiet \/ UNCHANGED vars => Keeps /\ UNCHANGED job
  BY KeepsCalls DEF OwnProject, Daemon, ClearImages, Quiet, vars
<1>4. Keeps /\ \A t \in Tasks : TaskMine(t)'
  BY <1>1, <1>2, <1>3 DEF Next
<1>5. NamedForItsImage'
  <2>1. ASSUME NEW i \in Ids, st'[i] # "none", i <= created PROVE name'[i][1] = image'[i][1]
    BY <1>0, <1>4, <2>1 DEF OwnProject, NamedForItsImage, Keeps, Ids, DockerTypeOK
  <2>2. ASSUME NEW i \in Ids, st'[i] # "none", i > created PROVE name'[i][1] = image'[i][1]
    <3>1. created' = created + 1 /\ i = created + 1
      BY <1>0, <1>4, <2>2 DEF Keeps, Ids, DockerTypeOK
    <3>2. PICK t \in Tasks : Create(t)
      <4>1. ASSUME NEW t \in Tasks, Submit(t) \/ Step(t), ~Create(t) PROVE created' = created
        BY <4>1 DEF Submit, Step, Enter, PrepareImage, FindOldest, Clean, Purge, AwaitCleared, Wake,
             Find, Halt, Restart, Poll, Retire, Swap, Launch, Discard, CallFails, dockerVars,
             BuildImage, RemoveContainer, StopContainer, RestartContainer, RenameContainer, StartContainer
      <4>2. Daemon \/ Quiet \/ UNCHANGED vars => created' = created
        BY DEF Daemon, ClearImages, Quiet, vars, dockerVars, Exit, Vanish, DeleteImage
      <4>. QED BY <1>0, <3>1, <4>1, <4>2 DEF Next, DockerTypeOK
    <3>3. name'[i] = Own(t, "current") /\ image'[i] = <<job[t].proj, job[t].ver>>
      BY <1>0, <3>1, <3>2 DEF Create, CreateContainer, DockerTypeOK
    <3>. QED BY <3>3 DEF Own
  <2>. QED BY <1>0, <2>1, <2>2 DEF NamedForItsImage, Ids, DockerTypeOK
<1>. QED BY <1>0, <1>4, <1>5 DEF OwnProject, Keeps

\* Where no project's name contains another's, a container carries names of the project whose
\* image it runs, whatever operations are asked for and however they interleave and fail.
THEOREM NamesStay ==
  ASSUME NamesApart
  PROVE  Spec => []NamedForItsImage
<1>1. OwnProject /\ [Next]_vars => OwnProject'
  BY OwnProjectStep
<1>2. OwnProject => NamedForItsImage
  BY DEF OwnProject
<1>. QED BY <1>1, <1>2, OwnInit, PTL DEF Spec

-----------------------------------------------------------------------------
(* Containers change place, or go, only while they do not run *)

PlaceInv == SlotInv /\ OwnProject

\* Both invariants are kept together.
LEMMA PlaceStep ==
  ASSUME PlaceInv, NamesApart, Kinds \intersect {"start", "restart"} = {}, [Next]_vars
  PROVE  PlaceInv'
  BY SlotStep, OwnProjectStep DEF PlaceInv

\* The container a rollback brings back does not run: if it did it would have the very name
\* it is to get.
LEMMA SwapStopped ==
  ASSUME PlaceInv, NEW t \in Tasks, Swap(t)
  PROVE  job[t].old \in Ids => ~IsRunning(job[t].old)
<1>. SUFFICES ASSUME job[t].old \in Ids, IsRunning(job[t].old) PROVE FALSE
  OBVIOUS
<1>. PICK i \in Ids : i = job[t].old
  OBVIOUS
<1>1. name[i] \in Names /\ name[i][2] = "current"
  BY DEF PlaceInv, SlotInv, RunningIsCurrent, TypeOK, DockerTypeOK
<1>2. st[i] # "none" /\ name[i][1] = job[t].proj
  BY DEF PlaceInv, OwnProject, TaskMine, Mine, IsRunning, Ids, NoId
<1>3. name[i] = Own(t, "current")
  BY <1>1, <1>2 DEF Own, Names
<1>. QED BY <1>2, <1>3 DEF Swap, RenameContainer, CanRename, NameFree, Named

\* The container an upgrade retires does not run.
LEMMA RetireStopped ==
  ASSUME PlaceInv, NEW t \in Tasks, Retire(t)
  PROVE  job[t].cur \in Ids => ~IsRunning(job[t].cur)
  BY DEF PlaceInv, SlotInv, JobSound, Retire

\* What one step does to the table of containers.
Renamed(i, n) == RenameContainer(i, n) /\ (i \in Ids => ~IsRunning(i) /\ name[i][1] = n[1])
Started(i) == StartContainer(i) /\ (i \in Ids => name[i][2] = "current")
Made(n, m) == CreateContainer(n, m) /\ n[2] = "current"

LEMMA TableStep ==
  ASSUME PlaceInv, [Next]_vars
  PROVE  \/ UNCHANGED <<st, name, created>>
         \/ \E i \in Ids : Exit(i) \/ Vanish(i)
         \/ \E i \in Ids \union {NoId} : StopContainer(i) \/ RemoveContainer(i) \/ Started(i)
         \/ \E i \in Ids \union {NoId}, n \in Names : Renamed(i, n)
         \/ \E n \in Names, m \in Images : Made(n, m)
<1>0. TypeOK /\ \A t \in Tasks : JobSound(t) /\ TaskMine(t)
  BY DEF PlaceInv, SlotInv, OwnProject
<1>1. ASSUME NEW t \in Tasks
      PROVE  /\ job[t] \in Job /\ job[t].cur \in Ids \union {NoId} /\ job[t].old \in Ids \union {NoId}
             /\ \A i \in {job[t].cur, job[t].old} : i \in Ids /\ st[i] # "none" => name[i][1] = job[t].proj
  BY <1>0 DEF TypeOK, Job, TaskMine, Mine, Ids, NoId
<1>2. ASSUME NEW t \in Tasks,
             \/ Submit(t) \/ Enter(t) \/ PrepareImage(t) \/ FindOldest(t) \/ Clean(t) \/ AwaitCleared(t)
             \/ Wake(t) \/ Find(t) \/ Poll(t) \/ CallFails(t)
      PROVE  UNCHANGED <<st, name, created>>
  BY <1>2 DEF Submit, Enter, PrepareImage, FindOldest, Clean, AwaitCleared, Wake, Find, Poll, CallFails,
              BuildImage, dockerVars
<1>3. ASSUME NEW t \in Tasks, Purge(t) \/ Halt(t) \/ Discard(t)
      PROVE  \E i \in Ids \union {NoId} : StopContainer(i) \/ RemoveContainer(i)
  BY <1>1, <1>3 DEF Purge, Halt, Discard
<1>4. ASSUME NEW t \in Tasks PROVE ~Restart(t)
  BY <1>0 DEF Restart, JobSound
<1>5. ASSUME NEW t \in Tasks, Retire(t)
      PROVE  \E i \in Ids \union {NoId}, n \in Names : Renamed(i, n)
  <2>1. RetireName(t) \in Names /\ RetireName(t)[1] = job[t].proj
    BY <1>0, OwnNames DEF RetireName, Own
  <2>2. RenameContainer(job[t].cur, RetireName(t)) /\ st[job[t].cur] # "none"
    BY <1>5 DEF Retire, RenameContainer, CanRename, Exists
  <2>3. Renamed(job[t].cur, RetireName(t))
    BY <1>1, <1>5, <2>1, <2>2, RetireStopped DEF Renamed
  <2>. QED BY <1>1, <2>1, <2>3
<1>6. ASSUME NEW t \in Tasks, Swap(t)
      PROVE  \E i \in Ids \union {NoId}, n \in Names : Renamed(i, n)
  <2>1. Own(t, "current") \in Names /\ Own(t, "current")[1] = job[t].proj
    BY <1>0, OwnNames DEF Own, Slots
  <2>2. RenameContainer(job[t].old, Own(t, "current")) /\ st[job[t].old] # "none"
    BY <1>6 DEF Swap, RenameContainer, CanRename, Exists
  <2>3. Renamed(job[t].old, Own(t, "current"))
    BY <1>1, <1>6, <2>1, <2>2, SwapStopped DEF Renamed
  <2>. QED BY <1>1, <2>1, <2>3
<1>7. ASSUME NEW t \in Tasks, Launch(t) PROVE \E i \in Ids \union {NoId} : Started(i)
  <2>1. StartContainer(job[t].cur) /\ st[job[t].cur] # "none" /\ job[t].pc = "launch"
    BY <1>7 DEF Launch, StartContainer, CanStart, Exists
  <2>2. Started(job[t].cur)
    BY <1>0, <2>1 DEF JobSound, Own, Started
  <2>. QED BY <1>1, <2>2
<1>8. ASSUME NEW t \in Tasks, Create(t) PROVE \E n \in Names, m \in Images : Made(n, m)
  <2>1. Own(t, "current") \in Names /\ <<job[t].proj, job[t].ver>> \in Images
        /\ Own(t, "current")[2] = "current"
    BY <1>0, OwnNames DEF Own, Slots
  <2>. QED BY <1>8, <2>1 DEF Create, Made
<1>9. Daemon => UNCHANGED <<st, name, created>> \/ \E i \in Ids : Exit(i) \/ Vanish(i)
  BY DEF Daemon, ClearImages, DeleteImage
<1>10. Quiet \/ UNCHANGED vars => UNCHANGED <<st, name, created>>
  BY DEF Quiet, vars, dockerVars
<1>. QED BY <1>2, <1>3, <1>4, <1>5, <1>6, <1>7, <1>8, <1>9, <1>10 DEF Next, Step

\* Where no project's name contains another's, and nothing is restarted or started by hand, no
\* operation removes or renames a container while it runs.
THEOREM RunningStay ==
  ASSUME NamesApart, Kinds \intersect {"start", "restart"} = {}
  PROVE  Spec => RunningUntouched
<1>1. Init => PlaceInv
  BY SlotStart, OwnInit DEF PlaceInv
<1>2. PlaceInv /\ [Next]_vars => PlaceInv'
  BY PlaceStep
<1>3. ASSUME PlaceInv, [Next]_vars, NEW i \in Ids, IsRunning(i)
      PROVE  name'[i] = name[i] /\ st'[i] \notin {"removing", "none"}
  <2>1. DockerTypeOK /\ created \in Nat /\ \A k \in Ids : k > created => st[k] = "none"
    BY <1>3 DEF PlaceInv, OwnProject, TypeOK, DockerTypeOK
  <2>2. CASE \E k \in Ids : Exit(k) \/ Vanish(k)
    BY <1>3, <2>1, <2>2 DEF Exit, Vanish, IsRunning, DockerTypeOK
  <2>3. CASE \E k \in Ids \union {NoId} : StopContainer(k) \/ RemoveContainer(k) \/ Started(k)
    BY <1>3, <2>1, <2>3 DEF StopContainer, RemoveContainer, CanRemove, Started, StartContainer, IsRunning,
                           DockerTypeOK
  <2>4. CASE \E k \in Ids \union {NoId}, n \in Names : Renamed(k, n)
    BY <1>3, <2>1, <2>4 DEF Renamed, RenameContainer, IsRunning, DockerTypeOK
  <2>5. CASE \E n \in Names, m \in Images : Made(n, m)
    <3>1. i # created + 1
      BY <1>3, <2>1 DEF IsRunning, Ids
    <3>. QED BY <1>3, <2>1, <2>5, <3>1 DEF Made, CreateContainer, IsRunning, DockerTypeOK
  <2>. QED BY <1>3, <2>2, <2>3, <2>4, <2>5, TableStep DEF IsRunning
<1>4. PlaceInv /\ [Next]_vars
      => [\A i \in Ids : IsRunning(i) => name'[i] = name[i] /\ st'[i] \notin {"removing", "none"}]_vars
  BY <1>3
<1>. QED BY <1>1, <1>2, <1>4, PTL DEF Spec, RunningUntouched

-----------------------------------------------------------------------------
(* The operations do to the places of the containers what DeploymentSlots allows *)

\* Both modules speak of the same places and containers.
LEMMA SamePlaces ==
  /\ Abs!Places = Slots /\ Abs!Containers = Ids /\ Projects \X Abs!Places = Names
  /\ Abs!Nothing = NoId /\ \A i \in Ids : i # NoId
  BY DEF Abs!Places, Abs!Containers, Abs!Nothing, Slots, Ids, Names, NoId

\* The holder of a place is the one of its name.
LEMMA HolderIs ==
  ASSUME PlaceInv, NEW n \in Names
  PROVE  /\ \A i \in Ids : HolderOf[n] = i <=> st[i] # "none" /\ name[i] = n
         /\ \A i \in Named(n) : Named(n) = {i} /\ HolderOf[n] = i
         /\ NameFree(n) <=> HolderOf[n] = NoId
<1>1. \A i \in Named(n) : Named(n) = {i}
  BY DEF PlaceInv, SlotInv, NamesUnique, Named
<1>2. ASSUME NEW i \in Named(n) PROVE HolderOf[n] = i
  <2>1. Named(n) = {i} /\ ~NameFree(n)
    BY <1>1, <1>2 DEF NameFree
  <2>2. HolderOf[n] = CHOOSE j \in Named(n) : TRUE
    BY <2>1 DEF HolderOf
  <2>. QED BY <2>1, <2>2
<1>3. NameFree(n) => HolderOf[n] = NoId
  BY DEF HolderOf
<1>4. \A i \in Named(n) : i \in Ids /\ i # NoId /\ st[i] # "none" /\ name[i] = n
  BY DEF Named, Ids, NoId
<1>5. \A i \in Ids : st[i] # "none" /\ name[i] = n => i \in Named(n)
  BY DEF Named
<1>6. ~NameFree(n) => \E i : i \in Named(n)
  BY DEF NameFree
<1>7. \A i \in Ids : i # NoId
  BY DEF Ids, NoId
<1>. QED BY <1>1, <1>2, <1>3, <1>4, <1>5, <1>6, <1>7

\* The same after a step: what holds the places that keep their containers, and the others.
LEMMA HolderAfter ==
  ASSUME NEW n \in Names
  PROVE  /\ Named(n)' = Named(n) => HolderOf'[n] = HolderOf[n]
         /\ Named(n)' = {} => HolderOf'[n] = NoId
         /\ \A i : Named(n)' = {i} => HolderOf'[n] = i
<1>1. HolderOf'[n] = IF Named(n)' = {} THEN NoId ELSE CHOOSE i \in Named(n)' : TRUE
  BY DEF HolderOf, NameFree
<1>2. HolderOf[n] = IF Named(n) = {} THEN NoId ELSE CHOOSE i \in Named(n) : TRUE
  BY DEF HolderOf, NameFree
<1>3. Named(n)' = Named(n) => HolderOf'[n] = HolderOf[n]
  BY <1>1, <1>2
<1>4. \A i : Named(n)' = {i} => HolderOf'[n] = i
  BY <1>1
<1>. QED BY <1>1, <1>3, <1>4

\* The holder map is a function of the places.
LEMMA HolderTypes == DOMAIN HolderOf = Names /\ HolderOf = [n \in Names |-> HolderOf[n]]
                     /\ DOMAIN HolderOf' = Names /\ HolderOf' = [n \in Names |-> HolderOf'[n]]
  BY DEF HolderOf

\* A step that changes neither which containers are there nor which run.
LEMMA StillThere ==
  ASSUME \A i \in Ids : /\ (st'[i] = "none") = (st[i] = "none")
                        /\ st[i] # "none" => name'[i] = name[i]
                        /\ IsRunning(i)' = IsRunning(i)
  PROVE  UNCHANGED Abs!slotVars
<1>1. ASSUME NEW n \in Names PROVE Named(n)' = Named(n)
  BY DEF Named
<1>2. HolderOf' = HolderOf
  BY <1>1, HolderAfter, HolderTypes
<1>3. RunningNow' = RunningNow
  BY DEF RunningNow
<1>. QED BY <1>2, <1>3 DEF Abs!slotVars

\* A container that goes drops out of its place.
LEMMA VanishDrops ==
  ASSUME PlaceInv, NEW i \in Ids, Vanish(i)
  PROVE  Abs!SlotNext
<1>0. DockerTypeOK
  BY DEF PlaceInv, OwnProject, TypeOK
<1>1. PICK n \in Names : n = name[i]
  BY <1>0 DEF DockerTypeOK
<1>2. st[i] = "removing" /\ ~IsRunning(i) /\ st' = [st EXCEPT ![i] = "none"]
      /\ name' = [name EXCEPT ![i] = NoName]
  BY DEF Vanish, IsRunning
<1>3. Named(n) = {i} /\ HolderOf[n] = i
  <2>1. i \in Named(n)
    BY <1>1, <1>2 DEF Named
  <2>. QED BY <2>1, HolderIs
<1>4. Named(n)' = {}
  BY <1>0, <1>2, <1>3 DEF Named, DockerTypeOK
<1>5. \A m \in Names : m # n => Named(m)' = Named(m)
  BY <1>0, <1>1, <1>2 DEF Named, DockerTypeOK
<1>6. HolderOf' = [HolderOf EXCEPT ![n] = NoId]
  BY <1>4, <1>5, HolderAfter, HolderTypes
<1>7. RunningNow' = RunningNow /\ i \notin RunningNow
  BY <1>0, <1>2 DEF RunningNow, IsRunning, DockerTypeOK
<1>8. Abs!Drop(n)
  BY <1>3, <1>6, <1>7, SamePlaces DEF Abs!Drop
<1>. QED BY <1>8, SamePlaces DEF Abs!SlotNext

\* A container that exits ends.
LEMMA ExitEnds ==
  ASSUME PlaceInv, NEW i \in Ids, Exit(i)
  PROVE  Abs!SlotNext
<1>0. DockerTypeOK
  BY DEF PlaceInv, OwnProject, TypeOK
<1>1. st[i] = "stopping" /\ st' = [st EXCEPT ![i] = "exited"] /\ name' = name
  BY DEF Exit
<1>2. ASSUME NEW n \in Names PROVE Named(n)' = Named(n)
  BY <1>0, <1>1 DEF Named, DockerTypeOK
<1>3. HolderOf' = HolderOf
  BY <1>2, HolderAfter, HolderTypes
<1>4. i \in RunningNow /\ RunningNow' = RunningNow \ {i}
  BY <1>0, <1>1 DEF RunningNow, IsRunning, DockerTypeOK
<1>5. Abs!End(i)
  BY <1>3, <1>4 DEF Abs!End
<1>. QED BY <1>5, SamePlaces DEF Abs!SlotNext

\* A container that is started in its place runs.
LEMMA StartedRuns ==
  ASSUME PlaceInv, NEW i \in Ids, Started(i)
  PROVE  Abs!SlotNext
<1>0. DockerTypeOK
  BY DEF PlaceInv, OwnProject, TypeOK
<1>1. st[i] # "none" /\ st' = [st EXCEPT ![i] = "running"] /\ name' = name /\ name[i][2] = "current"
  BY DEF Started, StartContainer, CanStart, Exists
<1>2. PICK p \in Projects : <<p, "current">> \in Names /\ name[i] = <<p, "current">>
  BY <1>0, <1>1 DEF DockerTypeOK, Names, Slots
<1>3. HolderOf[<<p, "current">>] = i
  BY <1>1, <1>2, HolderIs
<1>4. ASSUME NEW n \in Names PROVE Named(n)' = Named(n)
  BY <1>0, <1>1 DEF Named, DockerTypeOK
<1>5. HolderOf' = HolderOf
  BY <1>4, HolderAfter, HolderTypes
<1>6. RunningNow' = RunningNow \union {i}
  BY <1>0, <1>1 DEF RunningNow, IsRunning, DockerTypeOK
<1>7. Abs!Run(p)
  BY <1>3, <1>5, <1>6, SamePlaces DEF Abs!Run
<1>. QED BY <1>7 DEF Abs!SlotNext

\* A container that is renamed while it does not run moves.
LEMMA RenamedMoves ==
  ASSUME PlaceInv, NEW i \in Ids, NEW n \in Names, Renamed(i, n)
  PROVE  Abs!SlotNext
<1>0. DockerTypeOK
  BY DEF PlaceInv, OwnProject, TypeOK
<1>1. /\ st[i] # "none" /\ ~IsRunning(i) /\ NameFree(n) /\ name[i][1] = n[1]
      /\ st' = st /\ name' = [name EXCEPT ![i] = n]
  BY DEF Renamed, RenameContainer, CanRename, Exists
<1>2. PICK p \in Projects, from \in Slots, to \in Slots :
        name[i] = <<p, from>> /\ n = <<p, to>> /\ <<p, from>> \in Names
  BY <1>0, <1>1 DEF DockerTypeOK, Names
<1>. PICK m \in Names : m = <<p, from>>
  BY <1>2
<1>3. Named(m) = {i} /\ HolderOf[m] = i
  <2>1. i \in Named(m)
    BY <1>1, <1>2 DEF Named
  <2>. QED BY <2>1, HolderIs
<1>4. Named(n) = {} /\ HolderOf[n] = NoId /\ m # n
  BY <1>1, <1>3, HolderIs DEF NameFree
<1>5. Named(m)' = {}
  BY <1>0, <1>1, <1>3, <1>4 DEF Named, DockerTypeOK
<1>6. Named(n)' = {i}
  BY <1>0, <1>1, <1>4 DEF Named, DockerTypeOK
<1>7. \A k \in Names : k # m /\ k # n => Named(k)' = Named(k)
  BY <1>0, <1>1, <1>2 DEF Named, DockerTypeOK
<1>8. HolderOf' = [HolderOf EXCEPT ![n] = HolderOf[m], ![m] = NoId]
  BY <1>3, <1>4, <1>5, <1>6, <1>7, HolderAfter, HolderTypes
<1>9. RunningNow' = RunningNow /\ i \notin RunningNow
  BY <1>1 DEF RunningNow, IsRunning
<1>10. from # to /\ i # NoId
  BY <1>2, <1>4, SamePlaces
<1>11. Abs!Move(p, from, to)
  BY <1>2, <1>3, <1>4, <1>8, <1>9, <1>10, SamePlaces DEF Abs!Move
<1>. QED BY <1>11, SamePlaces DEF Abs!SlotNext

\* A container that is created comes new into the current place.
LEMMA MadeNew ==
  ASSUME PlaceInv, NEW n \in Names, NEW m \in Images, Made(n, m)
  PROVE  Abs!SlotNext
<1>0. DockerTypeOK /\ \A k \in Ids : k > created => st[k] = "none"
  BY DEF PlaceInv, OwnProject, TypeOK
<1>. PICK c \in Ids : c = created + 1
  BY <1>0, DockerAssumption DEF Made, CreateContainer, DockerTypeOK, Ids
<1>1. /\ st[c] = "none" /\ NameFree(n)
      /\ st' = [st EXCEPT ![c] = "created"] /\ name' = [name EXCEPT ![c] = n]
  BY <1>0 DEF Made, CreateContainer, CanCreate, DockerTypeOK
<1>2. PICK p \in Projects : n = <<p, "current">>
  BY DEF Made, Names
<1>3. HolderOf[n] = NoId /\ \A k \in Names : HolderOf[k] # c
  BY <1>1, HolderIs
<1>4. Named(n)' = {c}
  BY <1>0, <1>1 DEF Named, NameFree, DockerTypeOK
<1>5. \A k \in Names : k # n => Named(k)' = Named(k)
  BY <1>0, <1>1 DEF Named, DockerTypeOK
<1>6. HolderOf' = [HolderOf EXCEPT ![n] = c]
  BY <1>4, <1>5, HolderAfter, HolderTypes
<1>7. RunningNow' = RunningNow
  BY <1>0, <1>1 DEF RunningNow, IsRunning, DockerTypeOK
<1>8. Abs!New(p, c)
  BY <1>2, <1>3, <1>6, <1>7, SamePlaces DEF Abs!New
<1>. QED BY <1>8, SamePlaces DEF Abs!SlotNext

\* What was left by earlier operations has places of its own, with the current ones running.
LEMMA StartsInPlace == Init => Abs!SlotInit
<1>. SUFFICES ASSUME Init PROVE Abs!SlotInit
  OBVIOUS
<1>0. PlaceInv
  BY SlotStart, OwnInit DEF PlaceInv
<1>1. ASSUME NEW n \in Names PROVE HolderOf[n] \in Ids \union {NoId}
  BY DEF HolderOf, NameFree, Named
<1>2. HolderOf \in [Names -> Ids \union {NoId}]
  BY <1>1, HolderTypes
<1>3. ASSUME NEW m \in Names, NEW n \in Names, HolderOf[m] = HolderOf[n], HolderOf[m] # NoId
      PROVE  m = n
  <2>. PICK i \in Ids : i = HolderOf[m]
    BY <1>1, <1>3
  <2>. QED BY <1>0, <1>3, HolderIs
<1>4. ASSUME NEW i \in Ids PROVE IsRunning(i) <=> st[i] # "none" /\ name[i][2] = "current"
  BY DockerAssumption DEF Init, DockerInit, IsRunning, Names
<1>5. ASSUME NEW i \in Ids, IsRunning(i) PROVE \E p \in Projects : HolderOf[<<p, "current">>] = i
  <2>1. PICK p \in Projects : name[i] = <<p, "current">> /\ <<p, "current">> \in Names
    BY <1>0, <1>4, <1>5 DEF PlaceInv, OwnProject, TypeOK, DockerTypeOK, Names, Slots
  <2>. QED BY <1>0, <1>4, <1>5, <2>1, HolderIs
<1>6. ASSUME NEW p \in Projects, HolderOf[<<p, "current">>] # NoId
      PROVE  HolderOf[<<p, "current">>] \in RunningNow
  <2>1. <<p, "current">> \in Names
    BY DEF Names, Slots
  <2>. PICK i \in Ids : i = HolderOf[<<p, "current">>]
    BY <1>1, <1>6, <2>1
  <2>2. st[i] # "none" /\ name[i] = <<p, "current">>
    BY <1>0, <2>1, HolderIs
  <2>. QED BY <1>4, <2>2 DEF RunningNow
<1>7. RunningNow = {HolderOf[<<p, "current">>] : p \in Projects} \ {NoId}
  BY <1>5, <1>6, SamePlaces DEF RunningNow
<1>. QED BY <1>2, <1>3, <1>7, SamePlaces DEF Abs!SlotInit

\* Where no project's name contains another's, and nothing is restarted or started by hand, the
\* operations do to the places of the containers what DeploymentSlots allows, whatever fails and
\* however they interleave.
THEOREM SlotsImplemented ==
  ASSUME NamesApart, Kinds \intersect {"start", "restart"} = {}
  PROVE  Spec => ImplementsSlots
<1>1. Init => PlaceInv /\ Abs!SlotInit
  BY SlotStart, OwnInit, StartsInPlace DEF PlaceInv
<1>2. PlaceInv /\ [Next]_vars => PlaceInv'
  BY PlaceStep
<1>3. PlaceInv /\ [Next]_vars => [Abs!SlotNext]_Abs!slotVars
  <2>. SUFFICES ASSUME PlaceInv, [Next]_vars PROVE [Abs!SlotNext]_Abs!slotVars
    OBVIOUS
  <2>0. DockerTypeOK /\ NoId \notin Ids
    BY DEF PlaceInv, OwnProject, TypeOK, NoId, Ids
  <2>1. CASE UNCHANGED <<st, name, created>>
    BY <2>1, StillThere DEF IsRunning
  <2>2. CASE \E i \in Ids : Exit(i) \/ Vanish(i)
    BY <2>2, ExitEnds, VanishDrops
  <2>3. ASSUME NEW i \in Ids \union {NoId}, StopContainer(i) \/ RemoveContainer(i)
        PROVE  UNCHANGED Abs!slotVars
    BY <2>0, <2>3, StillThere DEF StopContainer, RemoveContainer, CanRemove, Exists, IsRunning, DockerTypeOK
  <2>4. ASSUME NEW i \in Ids \union {NoId}, Started(i) PROVE [Abs!SlotNext]_Abs!slotVars
    <3>1. CASE i \in Ids
      BY <2>4, <3>1, StartedRuns
    <3>2. CASE i = NoId
      BY <2>0, <2>4, <3>2, StillThere DEF Started, StartContainer, IsRunning, DockerTypeOK
    <3>. QED BY <3>1, <3>2
  <2>5. ASSUME NEW i \in Ids \union {NoId}, NEW n \in Names, Renamed(i, n)
        PROVE  [Abs!SlotNext]_Abs!slotVars
    <3>1. CASE i \in Ids
      BY <2>5, <3>1, RenamedMoves
    <3>2. CASE i = NoId
      BY <2>0, <2>5, <3>2, StillThere DEF Renamed, RenameContainer, IsRunning, DockerTypeOK
    <3>. QED BY <3>1, <3>2
  <2>6. CASE \E n \in Names, m \in Images : Made(n, m)
    BY <2>6, MadeNew
  <2>. QED BY <2>1, <2>2, <2>3, <2>4, <2>5, <2>6, TableStep
<1>. QED BY <1>1, <1>2, <1>3, PTL DEF Spec, ImplementsSlots, Abs!SlotSpec

=============================================================================
