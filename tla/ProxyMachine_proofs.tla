------------------------ MODULE ProxyMachine_proofs ------------------------
(***************************************************************************)
(* What holds of the hosts of a proxy machine for any number of hosts,     *)
(* versions and tasks: types, what the clear takes, what is served in      *)
(* part, and where the links lead that a task leaves behind.               *)
(***************************************************************************)
EXTENDS ProxyMachine, FiniteSetTheorems, SequenceTheorems, TLAPS

MayBe == Versions \union {None}

-----------------------------------------------------------------------------
(* Types *)

\* The part of the type invariant that is of each task by itself.
LEMMA EachTask ==
  ASSUME TypeOK
  PROVE  \A t \in Tasks : /\ At(t, "done") <=> Host(t) > HostCount
                          /\ task[t].pc \in {"upload", "put", "link"} => Upgrades(t)
                          /\ task[t].pc \in {"check", "restore"} => ~Upgrades(t)
  BY DEF TypeOK

\* What the type invariant says of a task.
LEMMA TaskTypes ==
  ASSUME TypeOK, NEW t \in Tasks
  PROVE  /\ task[t] \in Task /\ task[t].version \in MayBe
         /\ task[t].pc # "done" => Host(t) \in Hosts
         /\ task[t].pc \in {"upload", "put", "link"} => task[t].version \in Versions
         /\ task[t].pc \in {"check", "restore"} => task[t].version = None
         /\ task[t].goal \in [Hosts -> MayBe] /\ task[t].prev \in [Hosts -> MayBe]
<1>0. /\ At(t, "done") <=> Host(t) > HostCount
      /\ task[t].pc \in {"upload", "put", "link"} => Upgrades(t)
      /\ task[t].pc \in {"check", "restore"} => ~Upgrades(t)
  BY EachTask
<1>1. task[t] \in Task
  BY DEF TypeOK
<1>2. /\ task[t].version \in MayBe /\ task[t].host \in 1..HostCount + 1
      /\ task[t].goal \in [Hosts -> MayBe] /\ task[t].prev \in [Hosts -> MayBe]
  BY <1>1 DEF Task, MayBe
<1>3. task[t].pc # "done" => ~(task[t].host > HostCount)
  BY <1>0 DEF At, Host
<1>4. task[t].pc # "done" => Host(t) \in Hosts
  BY <1>2, <1>3, ProxyMachineAssumption DEF Hosts, Host
<1>5. task[t].pc \in {"upload", "put", "link"} => task[t].version \in Versions
  BY <1>0, <1>2 DEF Upgrades, MayBe
<1>6. task[t].pc \in {"check", "restore"} => task[t].version = None
  BY <1>0 DEF Upgrades
<1>. QED BY <1>1, <1>2, <1>4, <1>5, <1>6

\* What has to be shown of a task, to keep its type.
Fits(r) == /\ r \in Task
           /\ r.pc = "done" <=> r.host > HostCount
           /\ r.pc \in {"upload", "put", "link"} => r.version # None
           /\ r.pc \in {"check", "restore"} => r.version = None

\* A task that fits, in place of another.
LEMMA TaskFits ==
  ASSUME TypeOK, NEW t \in Tasks, NEW r, Fits(r), Become(t, r)
  PROVE  task' \in [Tasks -> Task] /\ \A u \in Tasks : Fits(task'[u])
<1>1. ASSUME NEW u \in Tasks PROVE Fits(task[u])
  <2>1. /\ At(u, "done") <=> Host(u) > HostCount
        /\ task[u].pc \in {"upload", "put", "link"} => Upgrades(u)
        /\ task[u].pc \in {"check", "restore"} => ~Upgrades(u)
    BY EachTask
  <2>2. task[u] \in Task
    BY DEF TypeOK
  <2>. QED BY <2>1, <2>2 DEF Fits, At, Host, Upgrades
<1>2. task \in [Tasks -> Task]
  BY DEF TypeOK
<1>. QED BY <1>1, <1>2 DEF Become, Fits

\* It is all that the type invariant says of tasks.
LEMMA TasksFit ==
  ASSUME task' \in [Tasks -> Task], \A u \in Tasks : Fits(task'[u])
  PROVE  \A t \in Tasks : /\ At(t, "done")' <=> (Host(t) > HostCount)'
                          /\ (task[t].pc \in {"upload", "put", "link"} => Upgrades(t))'
                          /\ (task[t].pc \in {"check", "restore"} => ~Upgrades(t))'
  BY DEF Fits, At, Host, Upgrades

\* A task that has not begun.
LEMMA NoTaskFits == Fits(NoTask) /\ NoTask.pc = "idle"
<1>1. 1 \in 1..HostCount + 1 /\ ~(1 > HostCount)
  BY ProxyMachineAssumption
<1>2. [h \in Hosts |-> None] \in [Hosts -> Versions \union {None}]
  OBVIOUS
<1>. QED BY <1>1, <1>2 DEF Fits, NoTask, Task

\* The next host, or the end.
LEMMA PassedFits ==
  ASSUME NEW r \in Task, r.host \in Hosts
  PROVE  Fits(Passed(r))
<1>1. r.host + 1 \in 1..HostCount + 1 /\ (r.host = HostCount <=> r.host + 1 > HostCount)
  BY ProxyMachineAssumption DEF Hosts
<1>2. PICK p : p = (IF r.host = HostCount THEN "done" ELSE First(r.version))
  OBVIOUS
<1>3. /\ p \in {"done", "check", "upload"} /\ (p = "done" <=> r.host + 1 > HostCount)
      /\ (p = "upload" => r.version # None) /\ (p = "check" => r.version = None)
  BY <1>1, <1>2 DEF First
<1>4. Passed(r) = [r EXCEPT !.host = @ + 1, !.pc = p]
  BY <1>2 DEF Passed
<1>5. [r EXCEPT !.host = @ + 1, !.pc = p] \in Task
  BY <1>1, <1>3 DEF Task
<1>6. /\ [r EXCEPT !.host = @ + 1, !.pc = p].pc = p /\ [r EXCEPT !.host = @ + 1, !.pc = p].host = r.host + 1
      /\ [r EXCEPT !.host = @ + 1, !.pc = p].version = r.version
  BY DEF Task
<1>. QED BY <1>3, <1>4, <1>5, <1>6 DEF Fits

LEMMA PassedGoes ==
  ASSUME NEW r \in Task
  PROVE  Passed(r).pc \in {"done", "check", "upload"}
  BY DEF Passed, Task, First

\* Only the place in the program changes.
LEMMA GotoFits ==
  ASSUME NEW r, Fits(r), r.pc # "done", NEW p \in {"put", "free", "move", "link", "restore"},
         p \in {"put", "link"} => r.version # None, p = "restore" => r.version = None
  PROVE  Fits([r EXCEPT !.pc = p])
<1>1. [r EXCEPT !.pc = p] \in Task
  BY DEF Fits, Task
<1>2. [r EXCEPT !.pc = p].pc = p /\ [r EXCEPT !.pc = p].host = r.host /\ [r EXCEPT !.pc = p].version = r.version
  BY DEF Fits, Task
<1>. QED BY <1>1, <1>2 DEF Fits

\* It was not seen that a link is there, too.
LEMMA BlindFits ==
  ASSUME NEW r, Fits(r), r.pc # "done", NEW p \in {"link", "restore"}, NEW b \in SUBSET Hosts,
         p = "link" => r.version # None, p = "restore" => r.version = None
  PROVE  Fits([r EXCEPT !.pc = p, !.blind = @ \union b]) /\ [r EXCEPT !.blind = @ \union b] \in Task
<1>1. r \in Task /\ r.blind \union b \in SUBSET Hosts
  BY DEF Fits, Task
<1>2. PICK c \in SUBSET Hosts : c = r.blind \union b
  BY <1>1
<1>3. [r EXCEPT !.pc = p, !.blind = c] \in Task /\ [r EXCEPT !.blind = c] \in Task
  BY <1>1, <1>2 DEF Task
<1>4. /\ [r EXCEPT !.pc = p, !.blind = c].pc = p /\ [r EXCEPT !.pc = p, !.blind = c].host = r.host
      /\ [r EXCEPT !.pc = p, !.blind = c].version = r.version
  BY <1>1 DEF Task
<1>5. Fits([r EXCEPT !.pc = p, !.blind = c])
  BY <1>3, <1>4 DEF Fits
<1>. QED BY <1>2, <1>3, <1>5

\* A task when another begins: it keeps its place, but is not alone any more.
LEMMA JoinedKeeps ==
  ASSUME NEW r \in Task
  PROVE  /\ Joined(r) \in Task /\ Joined(r).pc = r.pc /\ Joined(r).version = r.version
         /\ Joined(r).host = r.host /\ (Joined(r).alone => r.pc = "idle")
<1>1. PICK a \in BOOLEAN : a = (r.pc = "idle")
  OBVIOUS
<1>2. Joined(r) = [NoTask EXCEPT !.pc = r.pc, !.version = r.version, !.host = r.host, !.alone = a]
  BY <1>1 DEF Joined
<1>3. NoTask \in Task
  BY NoTaskFits DEF Fits
<1>4. /\ [NoTask EXCEPT !.pc = r.pc, !.version = r.version, !.host = r.host, !.alone = a] \in Task
      /\ [NoTask EXCEPT !.pc = r.pc, !.version = r.version, !.host = r.host, !.alone = a].pc = r.pc
      /\ [NoTask EXCEPT !.pc = r.pc, !.version = r.version, !.host = r.host, !.alone = a].version = r.version
      /\ [NoTask EXCEPT !.pc = r.pc, !.version = r.version, !.host = r.host, !.alone = a].host = r.host
      /\ [NoTask EXCEPT !.pc = r.pc, !.version = r.version, !.host = r.host, !.alone = a].alone = a
  BY <1>3 DEF Task
<1>. QED BY <1>1, <1>2, <1>4

\* Where the tasks are after one has begun.
LEMMA Begins ==
  ASSUME TypeOK, NEW t \in Tasks, NEW v \in MayBe, Begin(t, v)
  PROVE  /\ At(t, "idle") /\ task'[t] \in Task /\ task'[t].pc = First(v) /\ First(v) \in {"check", "upload"}
         /\ task'[t].version = v /\ task'[t].host = 1
         /\ (task'[t].alone => Working = {} /\ \A h \in Hosts : task'[t].goal[h] = v)
         /\ task' \in [Tasks -> Task]
         /\ \A u \in Tasks \ {t} : /\ task'[u].pc = task[u].pc /\ task'[u].version = task[u].version
                                   /\ task'[u].host = task[u].host
                                   /\ (task'[u].alone => At(u, "idle"))
<1>1. task[t] \in Task /\ NoTask \in Task /\ NoTask.host = 1 /\ task \in [Tasks -> Task]
  BY NoTaskFits DEF TypeOK, Fits, NoTask
<1>2. PICK a \in BOOLEAN : a = (Working = {})
  OBVIOUS
<1>3. PICK g : g = [h \in Hosts |-> IF Working = {} THEN v ELSE None]
  OBVIOUS
<1>4. task' = [u \in Tasks |-> IF u = t THEN [NoTask EXCEPT !.pc = First(v), !.version = v, !.alone = a, !.goal = g]
                                       ELSE Joined(task[u])]
  BY <1>2, <1>3 DEF Begin
<1>5. task'[t] = [NoTask EXCEPT !.pc = First(v), !.version = v, !.alone = a, !.goal = g]
  BY <1>4
<1>6. g \in [Hosts -> MayBe] /\ (a => \A h \in Hosts : g[h] = v)
  BY <1>2, <1>3 DEF MayBe
<1>7. At(t, "idle") /\ First(v) \in {"check", "upload"}
  BY DEF Begin, First
<1>8. [NoTask EXCEPT !.pc = First(v), !.version = v, !.alone = a, !.goal = g] \in Task
  BY <1>1, <1>6, <1>7 DEF Task, MayBe
<1>9. task'[t].pc = First(v) /\ task'[t].version = v /\ task'[t].host = 1 /\ task'[t].alone = a /\ task'[t].goal = g
  BY <1>1, <1>5 DEF Task
<1>10. ASSUME NEW u \in Tasks \ {t}
       PROVE  /\ task'[u] \in Task /\ task'[u].pc = task[u].pc /\ task'[u].version = task[u].version
              /\ task'[u].host = task[u].host /\ (task'[u].alone => At(u, "idle"))
  <2>1. task'[u] = Joined(task[u]) /\ task[u] \in Task
    BY <1>1, <1>4, <1>10
  <2>. QED BY <2>1, JoinedKeeps DEF At
<1>11. task' \in [Tasks -> Task]
  <2>1. \A u \in Tasks : task'[u] \in Task
    BY <1>5, <1>8, <1>10
  <2>. QED BY <1>4, <2>1
<1>. QED BY <1>2, <1>5, <1>6, <1>7, <1>8, <1>9, <1>10, <1>11

\* A command more in a shell.
LEMMA WriteTypes ==
  ASSUME TypeOK, NEW t \in Tasks, Host(t) \in Hosts, NEW c \in Commands, Write(t, c)
  PROVE  shell' \in [Tasks -> [Hosts -> Seq(Commands)]]
<1>1. shell[t] \in [Hosts -> Seq(Commands)] /\ shell[t][Host(t)] \in Seq(Commands)
  BY DEF TypeOK
<1>2. Append(shell[t][Host(t)], c) \in Seq(Commands)
  BY <1>1, AppendProperties
<1>3. [shell[t] EXCEPT ![Host(t)] = Append(shell[t][Host(t)], c)] \in [Hosts -> Seq(Commands)]
  BY <1>1, <1>2
<1>4. shell' = [shell EXCEPT ![t] = [shell[t] EXCEPT ![Host(t)] = Append(shell[t][Host(t)], c)]]
  BY DEF Write
<1>. QED BY <1>3, <1>4 DEF TypeOK

\* No command is left.
LEMMA DisconnectTypes ==
  ASSUME TypeOK, NEW t \in Tasks, Disconnect(t)
  PROVE  /\ shell' \in [Tasks -> [Hosts -> Seq(Commands)]]
         /\ task' \in [Tasks -> Task] /\ \A u \in Tasks : Fits(task'[u])
<1>1. [h \in Hosts |-> <<>>] \in [Hosts -> Seq(Commands)]
  BY EmptySeq
<1>2. shell' \in [Tasks -> [Hosts -> Seq(Commands)]]
  BY <1>1 DEF Disconnect, TypeOK
<1>. QED BY <1>2, NoTaskFits, TaskFits DEF Disconnect

\* A link renamed: what a link leads to, some link led to before.
LEMMA RenameTypes ==
  ASSUME TypeOK, NEW h \in Hosts, NEW a \in Links, NEW b \in Links, Rename(h, a, b)
  PROVE  /\ link' \in [Hosts -> [Links -> MayBe]]
         /\ \A g \in Hosts, l \in Links : link'[g][l] = None \/ \E m \in Links : link'[g][l] = link[g][m]
<1>. DEFINE n == [link[h] EXCEPT ![a] = None, ![b] = link[h][a]]
<1>1. link \in [Hosts -> [Links -> MayBe]] /\ link[h] \in [Links -> MayBe]
  BY DEF TypeOK, MayBe
<1>2. n \in [Links -> MayBe] /\ \A l \in Links : n[l] \in {None, link[h][a], link[h][l]}
  BY <1>1 DEF MayBe
<1>3. link' = [link EXCEPT ![h] = n]
  BY DEF Rename
<1>. HIDE DEF n
<1>4. \A g \in Hosts : link'[g] = IF g = h THEN n ELSE link[g]
  BY <1>1, <1>3
<1>. QED BY <1>1, <1>2, <1>3, <1>4

\* The shell runs a command: rm takes a link away, ln gives latest a version.
LEMMA RunTypes ==
  ASSUME TypeOK, NEW t \in Tasks, NEW h \in Hosts, Run(t, h)
  PROVE  /\ link' \in [Hosts -> [Links -> MayBe]]
         /\ \A g \in Hosts, l \in Links :
              \/ link'[g][l] \in {None, link[g][l]}
              \/ g = h /\ Head(shell[t][h]) \in Commands /\ Head(shell[t][h]) = Ln(link'[g][l])
<1>1. PICK c : c = Head(shell[t][h])
  OBVIOUS
<1>2. c \in Commands
  <2>1. shell[t][h] \in Seq(Commands) /\ shell[t][h] # <<>>
    BY DEF TypeOK, Run
  <2>. QED BY <1>1, <2>1, HeadTailProperties
<1>3. link \in [Hosts -> [Links -> MayBe]] /\ link[h] \in [Links -> MayBe]
  BY DEF TypeOK, MayBe
<1>4. ASSUME NEW l \in Links, NEW v \in MayBe, link' = [link EXCEPT ![h][l] = v]
      PROVE  /\ link' \in [Hosts -> [Links -> MayBe]]
             /\ \A g \in Hosts, k \in Links : link'[g][k] = IF g = h /\ k = l THEN v ELSE link[g][k]
  <2>. DEFINE n == [link[h] EXCEPT ![l] = v]
  <2>1. n \in [Links -> MayBe] /\ \A k \in Links : n[k] = IF k = l THEN v ELSE link[h][k]
    BY <1>3
  <2>2. link' = [link EXCEPT ![h] = n]
    BY <1>4
  <2>. HIDE DEF n
  <2>3. \A g \in Hosts : link'[g] = IF g = h THEN n ELSE link[g]
    BY <1>3, <2>2
  <2>. QED BY <1>3, <2>1, <2>2, <2>3
<1>5. CASE c.cmd = "rm"
  <2>1. c.arg \in Links
    BY <1>2, <1>5 DEF Commands
  <2>2. link' = [link EXCEPT ![h][c.arg] = None]
    BY <1>1, <1>5 DEF Run
  <2>. QED BY <1>4, <2>1, <2>2 DEF MayBe
<1>6. CASE c.cmd = "ln" /\ link[h]["latest"] = None
  <2>1. c.arg \in Versions /\ c = Ln(c.arg)
    BY <1>2, <1>6 DEF Commands, Ln
  <2>2. link' = [link EXCEPT ![h]["latest"] = c.arg]
    BY <1>1, <1>6 DEF Run
  <2>3. /\ link' \in [Hosts -> [Links -> MayBe]]
        /\ \A g \in Hosts, k \in Links : link'[g][k] = IF g = h /\ k = "latest" THEN c.arg ELSE link[g][k]
    BY <1>4, <2>1, <2>2 DEF MayBe, Links
  <2>. QED BY <1>1, <1>2, <2>1, <2>3
<1>7. CASE c.cmd # "rm" /\ ~(c.cmd = "ln" /\ link[h]["latest"] = None)
  <2>1. link' = link
    BY <1>1, <1>7 DEF Run
  <2>. QED BY <1>3, <2>1
<1>. QED BY <1>5, <1>6, <1>7

\* The clear takes away one of the versions it has listed.
LEMMA Removes ==
  ASSUME TypeOK, NEW h \in Hosts, Remove(h)
  PROVE  \E v \in todo[h] : /\ v \in Versions
                            /\ \E d \in {"none", "torn"} : dir' = [dir EXCEPT ![h][v] = d]
                            /\ todo' = [todo EXCEPT ![h] = @ \ {v}] /\ UNCHANGED <<clear, clears>>
<1>1. todo[h] \subseteq Versions
  BY DEF TypeOK
<1>2. PICK v \in todo[h] : /\ (dir' = [dir EXCEPT ![h][v] = "none"] \/ dir' = [dir EXCEPT ![h][v] = "torn"])
                           /\ todo' = [todo EXCEPT ![h] = @ \ {v}]
  BY DEF Remove
<1>3. UNCHANGED <<clear, clears>>
  BY DEF Remove
<1>. QED BY <1>1, <1>2, <1>3

\* What the type invariant says beside tasks, links and shells.
Rest == /\ dir \in [Hosts -> [Versions -> Dir]]
        /\ todo \in [Hosts -> SUBSET Versions] /\ clear \in 0..HostCount + 1
        /\ asked \in 0..MaxTasks /\ clears \in 0..MaxClears
        /\ inPlace \in [Hosts -> SUBSET Versions]

LEMMA TypeParts ==
  ASSUME Rest', link' \in [Hosts -> [Links -> MayBe]],
         task' \in [Tasks -> Task], \A u \in Tasks : Fits(task'[u]),
         shell' \in [Tasks -> [Hosts -> Seq(Commands)]]
  PROVE  TypeOK'
  BY TasksFit DEF TypeOK, Rest, MayBe

LEMMA TypeHas ==
  ASSUME TypeOK
  PROVE  /\ Rest /\ link \in [Hosts -> [Links -> MayBe]] /\ shell \in [Tasks -> [Hosts -> Seq(Commands)]]
         /\ task \in [Tasks -> Task] /\ \A u \in Tasks : Fits(task[u])
<1>1. ASSUME NEW u \in Tasks PROVE Fits(task[u])
  BY EachTask, TaskTypes DEF Fits, At, Host, Upgrades
<1>. QED BY <1>1 DEF TypeOK, Rest, MayBe

\* A directory changed.
LEMMA DirTypes ==
  ASSUME TypeOK, NEW h \in Hosts, NEW v \in Versions, NEW d \in Dir, dir' = [dir EXCEPT ![h][v] = d]
  PROVE  /\ dir' \in [Hosts -> [Versions -> Dir]]
         /\ \A g \in Hosts, w \in Versions : dir'[g][w] = IF g = h /\ w = v THEN d ELSE dir[g][w]
<1>. DEFINE n == [dir[h] EXCEPT ![v] = d]
<1>1. dir \in [Hosts -> [Versions -> Dir]] /\ dir[h] \in [Versions -> Dir]
  BY DEF TypeOK
<1>2. n \in [Versions -> Dir] /\ \A w \in Versions : n[w] = IF w = v THEN d ELSE dir[h][w]
  BY <1>1
<1>3. dir' = [dir EXCEPT ![h] = n]
  OBVIOUS
<1>. HIDE DEF n
<1>4. \A g \in Hosts : dir'[g] = IF g = h THEN n ELSE dir[g]
  BY <1>1, <1>3
<1>. QED BY <1>1, <1>2, <1>3, <1>4

\* A set of versions of a host changed.
LEMMA SetTypes ==
  ASSUME NEW f \in [Hosts -> SUBSET Versions], NEW h \in Hosts, NEW s \in SUBSET Versions
  PROVE  [f EXCEPT ![h] = s] \in [Hosts -> SUBSET Versions]
  OBVIOUS

LEMMA TypeInit == Init => TypeOK
<1>1. ASSUME Init PROVE TypeOK
  <2>1. \A h \in Hosts : <<>> \in Seq(Commands)
    BY EmptySeq
  <2>2. NoTask \in Task /\ ~(NoTask.host > HostCount) /\ NoTask.pc = "idle"
    BY NoTaskFits DEF Fits
  <2>3. \A t \in Tasks : task[t] = NoTask
    BY <1>1 DEF Init
  <2>4. dir \in [Hosts -> [Versions -> Dir]] /\ link \in [Hosts -> [Links -> Versions \union {None}]]
    <3>1. \A l \in Links : Before(l) \in Versions \union {None}
      BY ProxyMachineAssumption DEF Before, Versions, None
    <3>2. dir \in [Hosts -> [Versions -> Dir]]
      BY <1>1 DEF Init, Dir
    <3>. QED BY <1>1, <3>1, <3>2 DEF Init
  <2>5. shell \in [Tasks -> [Hosts -> Seq(Commands)]]
    BY <1>1, <2>1 DEF Init
  <2>6. task \in [Tasks -> Task]
    BY <1>1, <2>2 DEF Init
  <2>7. /\ todo \in [Hosts -> SUBSET Versions] /\ clear \in 0..HostCount + 1
        /\ asked \in 0..MaxTasks /\ clears \in 0..MaxClears /\ inPlace \in [Hosts -> SUBSET Versions]
    BY <1>1, ProxyMachineAssumption DEF Init, None
  <2>. QED BY <2>2, <2>3, <2>4, <2>5, <2>6, <2>7 DEF TypeOK, At, Host
<1>. QED BY <1>1

\* A step of a task.
LEMMA TaskSteps ==
  ASSUME TypeOK, NEW t \in Tasks, Operation(t)
  PROVE  TypeOK'
<1>1. /\ Rest /\ link \in [Hosts -> [Links -> MayBe]] /\ shell \in [Tasks -> [Hosts -> Seq(Commands)]]
      /\ task \in [Tasks -> Task] /\ (\A u \in Tasks : Fits(task[u])) /\ Fits(task[t]) /\ task[t] \in Task
  BY TypeHas DEF TypeOK
<1>2. ASSUME NEW v \in MayBe, Begin(t, v) PROVE TypeOK'
  <2>1. Fits(task'[t])
    BY <1>2, Begins, ProxyMachineAssumption DEF Fits, First
  <2>2. ASSUME NEW u \in Tasks \ {t} PROVE Fits(task'[u])
    <3>1. Fits(task[u]) /\ task'[u] \in Task
      BY <1>1, <1>2, Begins
    <3>2. task'[u].pc = task[u].pc /\ task'[u].version = task[u].version /\ task'[u].host = task[u].host
      BY <1>2, Begins
    <3>. QED BY <3>1, <3>2 DEF Fits
  <2>3. task' \in [Tasks -> Task] /\ \A u \in Tasks : Fits(task'[u])
    BY <1>2, <2>1, <2>2, Begins
  <2>4. Rest' /\ link' = link /\ shell' = shell
    <3>1. asked' \in 0..MaxTasks
      <4>1. asked' = asked + 1 /\ asked < MaxTasks
        BY <1>2 DEF Begin
      <4>. QED BY <1>1, <4>1, ProxyMachineAssumption DEF Rest
    <3>2. link' = link /\ shell' = shell /\ UNCHANGED <<dir, todo, clear, clears, inPlace>>
      BY <1>2 DEF Begin, clearing
    <3>. QED BY <1>1, <3>1, <3>2 DEF Rest
  <2>. QED BY <1>1, <2>3, <2>4, TypeParts
<1>3. ASSUME NEW p \in {"put", "free", "move", "link", "restore"}, task[t].pc # "done",
             p \in {"put", "link"} => task[t].version # None, p = "restore" => task[t].version = None, Goto(t, p)
      PROVE  task' \in [Tasks -> Task] /\ \A u \in Tasks : Fits(task'[u])
  BY <1>1, <1>3, GotoFits, TaskFits DEF Goto
<1>4. CASE Upload(t)
  <2>1. task[t].pc = "upload" /\ Host(t) \in Hosts /\ task[t].version \in Versions
    BY <1>4, TaskTypes DEF Upload, At
  <2>2. task' \in [Tasks -> Task] /\ \A u \in Tasks : Fits(task'[u])
    BY <1>3, <1>4, <2>1 DEF Upload, Versions, None
  <2>3. dir' \in [Hosts -> [Versions -> Dir]]
    BY <1>4, <2>1, DirTypes DEF Upload, Dir
  <2>4. inPlace' \in [Hosts -> SUBSET Versions]
    <3>1. inPlace \in [Hosts -> SUBSET Versions] /\ inPlace[Host(t)] \union {task[t].version} \in SUBSET Versions
      BY <1>1, <2>1 DEF Rest
    <3>. QED BY <1>4, <2>1, <3>1, SetTypes DEF Upload
  <2>5. link' = link /\ shell' = shell /\ UNCHANGED <<todo, clear, clears, asked>>
    BY <1>4 DEF Upload, clearing
  <2>. QED BY <1>1, <2>2, <2>3, <2>4, <2>5, TypeParts DEF Rest
<1>5. CASE Uploaded(t)
  <2>1. task[t].pc = "put" /\ Host(t) \in Hosts /\ task[t].version \in Versions
    BY <1>5, TaskTypes DEF Uploaded, At
  <2>2. task' \in [Tasks -> Task] /\ \A u \in Tasks : Fits(task'[u])
    BY <1>3, <1>5, <2>1 DEF Uploaded
  <2>3. \/ dir' = [dir EXCEPT ![Host(t)][task[t].version] = "whole"]
           /\ inPlace' = [inPlace EXCEPT ![Host(t)] = @ \ {task[t].version}]
        \/ /\ inPlace' = [inPlace EXCEPT ![Host(t)] = @ \union {task[t].version}]
           /\ UNCHANGED dir
        \/ UNCHANGED <<dir, inPlace>>
    BY <1>5 DEF Uploaded
  <2>4. dir' \in [Hosts -> [Versions -> Dir]]
    BY <1>1, <2>1, <2>3, DirTypes DEF Dir, Rest
  <2>5. inPlace' \in [Hosts -> SUBSET Versions]
    <3>1. /\ inPlace \in [Hosts -> SUBSET Versions] /\ inPlace[Host(t)] \ {task[t].version} \in SUBSET Versions
          /\ inPlace[Host(t)] \union {task[t].version} \in SUBSET Versions
      BY <1>1, <2>1 DEF Rest
    <3>. QED BY <2>1, <2>3, <3>1, SetTypes
  <2>6. link' = link /\ shell' = shell /\ UNCHANGED <<todo, clear, clears, asked>>
    BY <1>5 DEF Uploaded, clearing
  <2>. QED BY <1>1, <2>2, <2>4, <2>5, <2>6, TypeParts DEF Rest
<1>6. CASE Check(t)
  <2>1. task[t].pc = "check" /\ Host(t) \in Hosts
    BY <1>6, TaskTypes DEF Check, At
  <2>2. Rest' /\ link' = link
    BY <1>1, <1>6 DEF Check, Rest, clearing
  <2>3. CASE Disconnect(t)
    BY <1>1, <2>2, <2>3, DisconnectTypes, TypeParts
  <2>4. CASE ~Disconnect(t)
    <3>. DEFINE g == IF task[t].alone THEN link[Host(t)]["old"] ELSE None
                r == [task[t] EXCEPT !.pc = "free", !.goal[Host(t)] = g]
    <3>1. Become(t, r) /\ shell' = shell
      BY <1>6, <2>4 DEF Check
    <3>2. g \in MayBe /\ task[t].goal \in [Hosts -> MayBe]
      BY <1>1, <2>1, TaskTypes DEF Links, MayBe
    <3>. HIDE DEF g
    <3>3. [task[t].goal EXCEPT ![Host(t)] = g] \in [Hosts -> MayBe]
      BY <2>1, <3>2
    <3>4. r \in Task
      BY <1>1, <3>3 DEF Task, MayBe
    <3>5. r.pc = "free" /\ r.host = task[t].host /\ ~(task[t].host > HostCount)
      BY <1>1, <2>1 DEF Fits, Task
    <3>6. Fits(r)
      BY <3>4, <3>5 DEF Fits
    <3>. HIDE DEF r
    <3>. QED BY <1>1, <2>2, <3>1, <3>6, TaskFits, TypeParts
  <2>. QED BY <2>3, <2>4
<1>7. CASE Free(t)
  <2>1. task[t].pc = "free" /\ Host(t) \in Hosts
    BY <1>7, TaskTypes DEF Free, At
  <2>2. Rest' /\ link' = link
    BY <1>1, <1>7 DEF Free, Rest, clearing
  <2>3. shell' \in [Tasks -> [Hosts -> Seq(Commands)]]
    <3>1. Rm(Spare(t)) \in Commands
      BY DEF Rm, Commands, Spare, Links
    <3>. QED BY <1>1, <1>7, <2>1, <3>1, WriteTypes DEF Free
  <2>. DEFINE p == IF task[t].alone /\ Upgrades(t) /\ Stat(Host(t), "latest")
                     THEN link[Host(t)]["latest"] ELSE None
              r == [task[t] EXCEPT !.pc = "move", !.prev[Host(t)] = p]
  <2>4. p \in MayBe /\ task[t].prev \in [Hosts -> MayBe]
    BY <1>1, <2>1, TaskTypes DEF Links, MayBe
  <2>5. Become(t, r)
    BY <1>7 DEF Free
  <2>. HIDE DEF p
  <2>6. [task[t].prev EXCEPT ![Host(t)] = p] \in [Hosts -> MayBe]
    BY <2>1, <2>4
  <2>7. r \in Task
    BY <1>1, <2>6 DEF Task, MayBe
  <2>8. r.pc = "move" /\ r.host = task[t].host /\ ~(task[t].host > HostCount)
    BY <1>1, <2>1 DEF Fits, Task
  <2>9. Fits(r)
    BY <2>7, <2>8 DEF Fits
  <2>. HIDE DEF r
  <2>. QED BY <1>1, <2>2, <2>3, <2>5, <2>9, TaskFits, TypeParts
<1>8. CASE Move(t)
  <2>1. task[t].pc = "move" /\ Host(t) \in Hosts
    BY <1>8, TaskTypes DEF Move, At
  <2>2. Rest' /\ shell' = shell
    BY <1>1, <1>8 DEF Move, Rest, clearing
  <2>3. link' \in [Hosts -> [Links -> MayBe]]
    BY <1>1, <1>8, <2>1, RenameTypes DEF Move, Spare, Links
  <2>4. task' \in [Tasks -> Task] /\ \A u \in Tasks : Fits(task'[u])
    <3>1. After(t) \in {"link", "restore"} /\ (After(t) = "link" => task[t].version # None)
          /\ (After(t) = "restore" => task[t].version = None)
      BY DEF After, Upgrades
    <3>2. CASE Goto(t, After(t))
      BY <1>3, <2>1, <3>1, <3>2
    <3>3. CASE Become(t, [task[t] EXCEPT !.pc = After(t), !.blind = @ \union Unseen(t, "latest")])
      <4>1. Unseen(t, "latest") \in SUBSET Hosts
        BY <2>1 DEF Unseen
      <4>2. Fits([task[t] EXCEPT !.pc = After(t), !.blind = @ \union Unseen(t, "latest")])
        BY <1>1, <2>1, <3>1, <4>1, BlindFits
      <4>. QED BY <3>3, <4>2, TaskFits
    <3>. QED BY <1>8, <3>2, <3>3 DEF Move
  <2>. QED BY <1>1, <2>2, <2>3, <2>4, TypeParts
<1>9. CASE Link(t)
  <2>1. task[t].pc = "link" /\ Host(t) \in Hosts /\ task[t].version \in Versions
    BY <1>9, TaskTypes DEF Link, At
  <2>2. Rest' /\ link' = link
    BY <1>1, <1>9 DEF Link, Rest, clearing
  <2>3. shell' \in [Tasks -> [Hosts -> Seq(Commands)]]
    <3>1. Ln(task[t].version) \in Commands
      BY <2>1 DEF Ln, Commands
    <3>. QED BY <1>9, <2>1, <3>1, WriteTypes DEF Link
  <2>4. Fits(Passed(task[t])) /\ Become(t, Passed(task[t]))
    BY <1>1, <1>9, <2>1, PassedFits DEF Host, Link
  <2>. QED BY <1>1, <2>2, <2>3, <2>4, TaskFits, TypeParts
<1>10. CASE Restore(t)
  <2>1. task[t].pc = "restore" /\ Host(t) \in Hosts
    BY <1>10, TaskTypes DEF Restore, At
  <2>2. Rest' /\ shell' = shell
    BY <1>1, <1>10 DEF Restore, Rest, clearing
  <2>3. link' \in [Hosts -> [Links -> MayBe]]
    BY <1>1, <1>10, <2>1, RenameTypes DEF Restore, Links
  <2>4. PICK r : Become(t, r) /\ Fits(r)
    <3>1. CASE Become(t, Passed(task[t]))
      BY <1>1, <2>1, <3>1, PassedFits DEF Host
    <3>2. CASE Become(t, Passed([task[t] EXCEPT !.blind = @ \union Unseen(t, "old")]))
      <4>1. Unseen(t, "old") \in SUBSET Hosts /\ task[t].version = None
        BY <1>10, <2>1, TaskTypes DEF Unseen
      <4>2. PICK q : q = [task[t] EXCEPT !.blind = @ \union Unseen(t, "old")]
        OBVIOUS
      <4>3. q \in Task
        BY <1>1, <2>1, <4>1, <4>2, BlindFits
      <4>4. q.host = task[t].host
        BY <1>1, <4>2 DEF Task
      <4>. QED BY <2>1, <3>2, <4>2, <4>3, <4>4, PassedFits DEF Host
    <3>. QED BY <1>10, <3>1, <3>2 DEF Restore
  <2>. QED BY <1>1, <2>2, <2>3, <2>4, TaskFits, TypeParts
<1>11. CASE End(t)
  <2>1. Rest' /\ link' = link
    BY <1>1, <1>11 DEF End, Rest, clearing
  <2>. QED BY <1>1, <1>11, <2>1, DisconnectTypes, TypeParts DEF End
<1>12. ASSUME NEW h \in Hosts, Run(t, h) PROVE TypeOK'
  <2>1. Rest' /\ task' = task
    BY <1>1, <1>12 DEF Run, Rest, clearing
  <2>2. shell[t] \in [Hosts -> Seq(Commands)] /\ shell[t][h] \in Seq(Commands) /\ shell[t][h] # <<>>
    BY <1>1, <1>12 DEF Run
  <2>3. Head(shell[t][h]) \in Commands /\ Tail(shell[t][h]) \in Seq(Commands)
    BY <2>2, HeadTailProperties
  <2>4. shell' \in [Tasks -> [Hosts -> Seq(Commands)]]
    <3>1. shell' = [shell EXCEPT ![t] = [shell[t] EXCEPT ![h] = Tail(shell[t][h])]]
      BY <1>12 DEF Run
    <3>2. [shell[t] EXCEPT ![h] = Tail(shell[t][h])] \in [Hosts -> Seq(Commands)]
      BY <2>2, <2>3
    <3>. QED BY <1>1, <3>1, <3>2
  <2>5. link' \in [Hosts -> [Links -> MayBe]]
    BY <1>12, RunTypes
  <2>. QED BY <1>1, <2>1, <2>4, <2>5, TypeParts
<1>. QED BY <1>2, <1>4, <1>5, <1>6, <1>7, <1>8, <1>9, <1>10, <1>11, <1>12 DEF Operation, MayBe

\* A step of the clear.
LEMMA ClearSteps ==
  ASSUME TypeOK, Clear
  PROVE  TypeOK'
<1>1. /\ Rest /\ link \in [Hosts -> [Links -> MayBe]] /\ shell \in [Tasks -> [Hosts -> Seq(Commands)]]
      /\ task \in [Tasks -> Task] /\ (\A u \in Tasks : Fits(task[u]))
  BY TypeHas
<1>2. link' = link /\ task' = task /\ shell' = shell /\ asked' = asked
  BY DEF Clear, StartClear, List, Remove, EndClear
<1>3. CASE StartClear
  <2>1. clear' \in 0..HostCount + 1 /\ clears' \in 0..MaxClears /\ UNCHANGED <<dir, todo, inPlace>>
    BY <1>1, <1>3, ProxyMachineAssumption DEF StartClear, Rest
  <2>. QED BY <1>1, <1>2, <2>1, TypeParts DEF Rest
<1>4. CASE List
  <2>1. clear' \in 0..HostCount + 1 /\ UNCHANGED <<dir, clears, inPlace>>
    BY <1>1, <1>4, ProxyMachineAssumption DEF List, Rest, Hosts
  <2>2. todo' \in [Hosts -> SUBSET Versions]
    BY <1>1, <1>4 DEF List, Rest
  <2>. QED BY <1>1, <1>2, <2>1, <2>2, TypeParts DEF Rest
<1>5. CASE \E h \in Hosts : Remove(h)
  <2>1. PICK h \in Hosts : Remove(h)
    BY <1>5
  <2>2. PICK v \in Versions : /\ \E d \in {"none", "torn"} : dir' = [dir EXCEPT ![h][v] = d]
                              /\ todo' = [todo EXCEPT ![h] = @ \ {v}] /\ UNCHANGED <<clear, clears>>
    BY <2>1, Removes
  <2>3. dir' \in [Hosts -> [Versions -> Dir]] /\ todo' \in [Hosts -> SUBSET Versions]
    BY <1>1, <2>2, DirTypes DEF Dir, Rest
  <2>4. inPlace' \in [Hosts -> SUBSET Versions]
    <3>1. PICK s : s = {w \in inPlace[h] : dir'[h][w] # "none"}
      OBVIOUS
    <3>2. inPlace' = [inPlace EXCEPT ![h] = s] /\ inPlace \in [Hosts -> SUBSET Versions] /\ s \in SUBSET Versions
      BY <1>1, <2>1, <3>1 DEF Remove, Rest
    <3>. QED BY <3>2, SetTypes
  <2>. QED BY <1>1, <1>2, <2>2, <2>3, <2>4, TypeParts DEF Rest
<1>6. CASE EndClear
  <2>1. clear' \in 0..HostCount + 1 /\ todo' \in [Hosts -> SUBSET Versions] /\ UNCHANGED <<dir, clears, inPlace>>
    BY <1>6, ProxyMachineAssumption DEF EndClear, None
  <2>. QED BY <1>1, <1>2, <2>1, TypeParts DEF Rest
<1>. QED BY <1>3, <1>4, <1>5, <1>6 DEF Clear

LEMMA TypeNext == TypeOK /\ [Next]_vars => TypeOK'
<1>1. ASSUME TypeOK, UNCHANGED vars PROVE TypeOK'
  BY <1>1 DEF vars, clearing, TypeOK, At, Host, Upgrades
<1>. QED BY <1>1, TaskSteps, ClearSteps DEF Next

\* Every reachable state of the machine has its types.
THEOREM TypeCorrect == Spec => []TypeOK
  BY TypeInit, TypeNext, PTL DEF Spec

-----------------------------------------------------------------------------
(* How a task moves *)

\* A record with a field changed keeps the others.
LEMMA Keeps ==
  ASSUME NEW r \in Task, NEW p, NEW g, NEW h \in Hosts
  PROVE  /\ [r EXCEPT !.pc = p].version = r.version /\ [r EXCEPT !.pc = p].host = r.host
         /\ [r EXCEPT !.pc = p].alone = r.alone /\ [r EXCEPT !.pc = p].pc = p
         /\ [r EXCEPT !.pc = p, !.goal[h] = g].version = r.version /\ [r EXCEPT !.pc = p, !.goal[h] = g].host = r.host
         /\ [r EXCEPT !.pc = p, !.goal[h] = g].alone = r.alone /\ [r EXCEPT !.pc = p, !.goal[h] = g].pc = p
         /\ [r EXCEPT !.pc = p, !.prev[h] = g].version = r.version /\ [r EXCEPT !.pc = p, !.prev[h] = g].host = r.host
         /\ [r EXCEPT !.pc = p, !.prev[h] = g].alone = r.alone /\ [r EXCEPT !.pc = p, !.prev[h] = g].pc = p
         /\ [r EXCEPT !.pc = p, !.blind = g].version = r.version /\ [r EXCEPT !.pc = p, !.blind = g].host = r.host
         /\ [r EXCEPT !.pc = p, !.blind = g].alone = r.alone /\ [r EXCEPT !.pc = p, !.blind = g].pc = p
         /\ [r EXCEPT !.blind = g].version = r.version /\ [r EXCEPT !.blind = g].host = r.host
         /\ [r EXCEPT !.blind = g].alone = r.alone
  BY DEF Task

\* And so does a record with a field changed keep what the others aim at.
LEMMA Aims ==
  ASSUME NEW r \in Task, NEW p, NEW g, NEW h \in Hosts
  PROVE  /\ [r EXCEPT !.pc = p].goal = r.goal /\ [r EXCEPT !.pc = p].prev = r.prev /\ [r EXCEPT !.pc = p].blind = r.blind
         /\ [r EXCEPT !.pc = p, !.goal[h] = g].prev = r.prev /\ [r EXCEPT !.pc = p, !.goal[h] = g].blind = r.blind
         /\ [r EXCEPT !.pc = p, !.prev[h] = g].goal = r.goal /\ [r EXCEPT !.pc = p, !.prev[h] = g].blind = r.blind
         /\ [r EXCEPT !.pc = p, !.blind = g].goal = r.goal /\ [r EXCEPT !.pc = p, !.blind = g].prev = r.prev
         /\ [r EXCEPT !.pc = p, !.blind = g].blind = g
         /\ [r EXCEPT !.blind = g].goal = r.goal /\ [r EXCEPT !.blind = g].prev = r.prev
         /\ [r EXCEPT !.blind = g].blind = g
         /\ \A k \in Hosts : [r EXCEPT !.pc = p, !.goal[h] = g].goal[k] = IF k = h THEN g ELSE r.goal[k]
         /\ \A k \in Hosts : [r EXCEPT !.pc = p, !.prev[h] = g].prev[k] = IF k = h THEN g ELSE r.prev[k]
<1>1. /\ [r EXCEPT !.pc = p].goal = r.goal /\ [r EXCEPT !.pc = p].prev = r.prev /\ [r EXCEPT !.pc = p].blind = r.blind
      /\ [r EXCEPT !.pc = p, !.goal[h] = g].prev = r.prev /\ [r EXCEPT !.pc = p, !.goal[h] = g].blind = r.blind
      /\ [r EXCEPT !.pc = p, !.prev[h] = g].goal = r.goal /\ [r EXCEPT !.pc = p, !.prev[h] = g].blind = r.blind
      /\ [r EXCEPT !.pc = p, !.blind = g].goal = r.goal /\ [r EXCEPT !.pc = p, !.blind = g].prev = r.prev
      /\ [r EXCEPT !.pc = p, !.blind = g].blind = g
      /\ [r EXCEPT !.blind = g].goal = r.goal /\ [r EXCEPT !.blind = g].prev = r.prev
      /\ [r EXCEPT !.blind = g].blind = g
  BY DEF Task
<1>2. r.goal \in [Hosts -> MayBe] /\ r.prev \in [Hosts -> MayBe]
  BY DEF Task, MayBe
<1>3. [r EXCEPT !.pc = p, !.goal[h] = g].goal = [r.goal EXCEPT ![h] = g]
      /\ [r EXCEPT !.pc = p, !.prev[h] = g].prev = [r.prev EXCEPT ![h] = g]
  BY DEF Task
<1>. QED BY <1>1, <1>2, <1>3

\* The same of the step to the next host.
LEMMA PassedKeeps ==
  ASSUME NEW r \in Task
  PROVE  /\ Passed(r).version = r.version /\ Passed(r).host = r.host + 1 /\ Passed(r).alone = r.alone
         /\ Passed(r).pc \in {"done", "check", "upload"}
         /\ Passed(r).goal = r.goal /\ Passed(r).prev = r.prev /\ Passed(r).blind = r.blind
<1>1. PICK p : p = (IF r.host = HostCount THEN "done" ELSE First(r.version))
  OBVIOUS
<1>2. Passed(r) = [r EXCEPT !.host = @ + 1, !.pc = p] /\ p \in {"done", "check", "upload"}
  BY <1>1 DEF Passed, First
<1>3. /\ [r EXCEPT !.host = @ + 1, !.pc = p].version = r.version
      /\ [r EXCEPT !.host = @ + 1, !.pc = p].host = r.host + 1
      /\ [r EXCEPT !.host = @ + 1, !.pc = p].alone = r.alone /\ [r EXCEPT !.host = @ + 1, !.pc = p].pc = p
      /\ [r EXCEPT !.host = @ + 1, !.pc = p].goal = r.goal /\ [r EXCEPT !.host = @ + 1, !.pc = p].prev = r.prev
      /\ [r EXCEPT !.host = @ + 1, !.pc = p].blind = r.blind
  BY DEF Task
<1>. QED BY <1>2, <1>3

\* latest made way, or it was not seen.
LEMMA MoveWays ==
  ASSUME TypeOK, NEW t \in Tasks, Move(t)
  PROVE  /\ At(t, "move") /\ Host(t) \in Hosts /\ UNCHANGED <<dir, shell>>
         /\ task'[t].pc = After(t) /\ task'[t].version = task[t].version /\ task'[t].host = Host(t)
         /\ task'[t].alone = task[t].alone /\ task'[t].goal = task[t].goal /\ task'[t].prev = task[t].prev
         /\ Become(t, task'[t])
         /\ \/ /\ Stat(Host(t), "latest") /\ Rename(Host(t), "latest", Spare(t))
               /\ task'[t].blind = task[t].blind
            \/ /\ link' = link /\ task'[t].blind = task[t].blind \union Unseen(t, "latest")
<1>1. task[t] \in Task /\ task \in [Tasks -> Task] /\ At(t, "move") /\ Host(t) \in Hosts
  BY TaskTypes DEF Move, At, TypeOK
<1>2. UNCHANGED <<dir, shell>>
  BY DEF Move
<1>3. CASE Goto(t, After(t)) /\ Stat(Host(t), "latest") /\ Rename(Host(t), "latest", Spare(t))
  <2>1. task' = [task EXCEPT ![t] = [task[t] EXCEPT !.pc = After(t)]]
    BY <1>3 DEF Goto, Become
  <2>2. task'[t] = [task[t] EXCEPT !.pc = After(t)] /\ Become(t, task'[t])
    BY <1>1, <2>1 DEF Become
  <2>. QED BY <1>1, <1>2, <1>3, <2>2, Keeps, Aims DEF Host
<1>4. CASE /\ link' = link
           /\ Become(t, [task[t] EXCEPT !.pc = After(t), !.blind = @ \union Unseen(t, "latest")])
  <2>1. PICK b : b = task[t].blind \union Unseen(t, "latest")
    OBVIOUS
  <2>2. task' = [task EXCEPT ![t] = [task[t] EXCEPT !.pc = After(t), !.blind = b]]
    BY <1>4, <2>1 DEF Become
  <2>3. task'[t] = [task[t] EXCEPT !.pc = After(t), !.blind = b] /\ Become(t, task'[t])
    BY <1>1, <2>2 DEF Become
  <2>. QED BY <1>1, <1>2, <1>4, <2>1, <2>3, Keeps, Aims DEF Host
<1>. QED BY <1>3, <1>4 DEF Move

\* old went back, or it was not seen.
LEMMA RestoreWays ==
  ASSUME TypeOK, NEW t \in Tasks, Restore(t)
  PROVE  /\ At(t, "restore") /\ Host(t) \in Hosts /\ UNCHANGED <<dir, shell>>
         /\ task'[t].pc \in {"done", "check", "upload"} /\ task'[t].version = task[t].version
         /\ task'[t].host = Host(t) + 1 /\ task'[t].alone = task[t].alone
         /\ task'[t].goal = task[t].goal /\ task'[t].prev = task[t].prev
         /\ Become(t, task'[t])
         /\ \/ /\ Stat(Host(t), "old") /\ Rename(Host(t), "old", "latest")
               /\ task'[t].blind = task[t].blind
            \/ /\ link' = link /\ task'[t].blind = task[t].blind \union Unseen(t, "old")
<1>1. task[t] \in Task /\ task \in [Tasks -> Task] /\ At(t, "restore") /\ Host(t) \in Hosts
  BY TaskTypes DEF Restore, At, TypeOK
<1>2. UNCHANGED <<dir, shell>>
  BY DEF Restore
<1>3. CASE Become(t, Passed(task[t])) /\ Stat(Host(t), "old") /\ Rename(Host(t), "old", "latest")
  <2>1. task'[t] = Passed(task[t]) /\ Become(t, task'[t])
    BY <1>1, <1>3 DEF Become
  <2>. QED BY <1>1, <1>2, <1>3, <2>1, PassedKeeps DEF Host
<1>4. CASE link' = link /\ Become(t, Passed([task[t] EXCEPT !.blind = @ \union Unseen(t, "old")]))
  <2>1. PICK b \in SUBSET Hosts : b = task[t].blind \union Unseen(t, "old")
    BY <1>1 DEF Unseen, Task
  <2>2. task'[t] = Passed([task[t] EXCEPT !.blind = b]) /\ Become(t, task'[t])
    BY <1>1, <1>4, <2>1 DEF Become
  <2>3. [task[t] EXCEPT !.blind = b] \in Task
    BY <1>1 DEF Task
  <2>4. PICK q \in Task : q = [task[t] EXCEPT !.blind = b]
    BY <2>3
  <2>5. /\ q.version = task[t].version /\ q.host = task[t].host /\ q.alone = task[t].alone
        /\ q.goal = task[t].goal /\ q.prev = task[t].prev /\ q.blind = b
    BY <1>1, <2>4, Keeps, Aims
  <2>. QED BY <1>1, <1>2, <1>4, <2>1, <2>2, <2>4, <2>5, PassedKeeps DEF Host
<1>. QED BY <1>3, <1>4 DEF Restore

\* How a task goes on, once it has begun.
GoesOn(t, r) ==
    /\ ~At(t, "idle") /\ r.pc # "idle"
    /\ r.alone = task[t].alone /\ r.version = task[t].version
    /\ r.host = Host(t) \/ r.host = Host(t) + 1
    /\ r.pc = "put" => Upload(t) /\ r.host = Host(t)

LEMMA Works ==
  ASSUME TypeOK, NEW t \in Tasks,
         Upload(t) \/ Uploaded(t) \/ (Check(t) /\ ~Disconnect(t)) \/ Free(t) \/ Move(t) \/ Link(t) \/ Restore(t)
  PROVE  \E r : Become(t, r) /\ GoesOn(t, r)
<1>1. task[t] \in Task /\ task[t].host = Host(t) /\ (~At(t, "done") => Host(t) \in Hosts)
  BY TaskTypes DEF Host, At
<1>2. CASE Upload(t) \/ Uploaded(t)
  <2>1. PICK p \in {"put", "free"} : Goto(t, p) /\ (p = "put" => Upload(t))
    BY <1>2 DEF Upload, Uploaded
  <2>2. ~At(t, "idle")
    BY <1>2 DEF Upload, Uploaded, At
  <2>3. GoesOn(t, [task[t] EXCEPT !.pc = p])
    BY <1>1, <2>1, <2>2, Keeps DEF GoesOn
  <2>. QED BY <2>1, <2>3 DEF Goto
<1>3. CASE Check(t) /\ ~Disconnect(t)
  <2>1. PICK g : Become(t, [task[t] EXCEPT !.pc = "free", !.goal[Host(t)] = g])
    BY <1>3 DEF Check
  <2>2. GoesOn(t, [task[t] EXCEPT !.pc = "free", !.goal[Host(t)] = g])
    BY <1>1, <1>3, Keeps DEF GoesOn, Check, At
  <2>. QED BY <2>1, <2>2
<1>4. CASE Free(t)
  <2>1. PICK g : Become(t, [task[t] EXCEPT !.pc = "move", !.prev[Host(t)] = g])
    BY <1>4 DEF Free
  <2>2. GoesOn(t, [task[t] EXCEPT !.pc = "move", !.prev[Host(t)] = g])
    BY <1>1, <1>4, Keeps DEF GoesOn, Free, At
  <2>. QED BY <2>1, <2>2
<1>5. CASE Link(t)
  <2>1. ~At(t, "idle") /\ Become(t, Passed(task[t]))
    BY <1>5 DEF Link, At
  <2>2. GoesOn(t, Passed(task[t]))
    BY <1>1, <2>1, PassedKeeps DEF GoesOn
  <2>. QED BY <2>1, <2>2
<1>6. CASE Move(t)
  <2>1. GoesOn(t, task'[t]) /\ Become(t, task'[t])
    BY <1>6, MoveWays DEF GoesOn, At, After
  <2>. QED BY <2>1
<1>7. CASE Restore(t)
  <2>1. GoesOn(t, task'[t]) /\ Become(t, task'[t])
    BY <1>7, RestoreWays DEF GoesOn, At
  <2>. QED BY <2>1
<1>. QED BY <1>2, <1>3, <1>4, <1>5, <1>6, <1>7

\* A step of a task is its beginning, its end, of its shell, or goes on.
LEMMA Moves ==
  ASSUME TypeOK, NEW t \in Tasks, Operation(t)
  PROVE  \/ \E v \in MayBe : Begin(t, v)
         \/ Disconnect(t) /\ UNCHANGED <<dir, inPlace>>
         \/ \E r : Become(t, r) /\ GoesOn(t, r)
         \/ UNCHANGED <<task, dir, inPlace>>
  BY Works DEF Operation, MayBe, Check, End, Run

\* One that is at its last file was there before, or comes from its first.
PutBefore(u) ==
    task'[u].pc = "put" =>
      /\ task'[u].host = Host(u) /\ task'[u].version = task[u].version
      /\ At(u, "put") \/ Upload(u)

\* No step but the first file leads there.
LEMMA PutComes ==
  ASSUME TypeOK, NEW t \in Tasks, Operation(t), NEW u \in Tasks
  PROVE  PutBefore(u)
<1>1. ASSUME NEW v \in MayBe, Begin(t, v) PROVE PutBefore(u)
  BY <1>1, Begins DEF Host, At, PutBefore
<1>2. ASSUME NEW r, Become(t, r), r.pc # "put" \/ GoesOn(t, r) PROVE PutBefore(u)
  <2>1. task'[u] = IF u = t THEN r ELSE task[u]
    BY <1>2 DEF Become, TypeOK
  <2>2. CASE u = t
    BY <1>2, <2>1, <2>2 DEF GoesOn, PutBefore
  <2>3. CASE u # t
    BY <2>1, <2>3 DEF PutBefore, Host, At
  <2>. QED BY <2>2, <2>3
<1>3. CASE Disconnect(t)
  BY <1>2, <1>3, NoTaskFits DEF Disconnect
<1>4. CASE UNCHANGED task
  BY <1>4 DEF PutBefore, Host, At
<1>. QED BY <1>1, <1>2, <1>3, <1>4, Moves

-----------------------------------------------------------------------------
(* The clear takes only old versions *)

Enough(h, v) == Cardinality(Newer(h, v)) >= MaxHistory

\* A version that is linked, or that a task has put and is about to link.
Brought(h, v) ==
    \/ Linked(h, v)
    \/ \E t \in Tasks : /\ task[t].version = v /\ Host(t) = h
                        /\ task[t].pc \in {"free", "move", "link"}
    \/ \E t \in Tasks : \E i \in 1..Len(shell[t][h]) : shell[t][h][i] = Ln(v)

\* Or that a task is putting.
Held(h, v) == Brought(h, v) \/ \E t \in Tasks : task[t].version = v /\ Host(t) = h /\ At(t, "put")

\* What the clear is to take, tore or took has enough newer versions, unless nobody has it in hand.
Kept ==
    \A h \in Hosts, v \in Versions :
      /\ v \in todo[h] => Enough(h, v)
      /\ dir[h][v] = "torn" => Enough(h, v)
      /\ dir[h][v] = "none" /\ Held(h, v) => Enough(h, v)

\* The numbers of newer versions are numbers; more versions, no fewer of them.
LEMMA Counts ==
  ASSUME NEW S \in SUBSET Versions, NEW T \in SUBSET S
  PROVE  Cardinality(S) \in Nat /\ Cardinality(T) \in Nat /\ Cardinality(T) <= Cardinality(S)
<1>1. IsFiniteSet(Versions)
  BY FS_Interval, ProxyMachineAssumption DEF Versions
<1>2. IsFiniteSet(S)
  BY <1>1, FS_Subset
<1>3. IsFiniteSet(T) /\ Cardinality(T) <= Cardinality(S)
  BY <1>2, FS_Subset
<1>. QED BY <1>2, <1>3, FS_CardinalityType

\* Only the clear makes a directory go, and it takes one it has listed.
LEMMA DirSteps ==
  ASSUME TypeOK, Next
  PROVE  \/ /\ \A h \in Hosts, v \in Versions : dir[h][v] # "none" => dir'[h][v] # "none"
            /\ \A h \in Hosts, v \in Versions : dir'[h][v] = "torn" => dir[h][v] = "torn"
         \/ \E h \in Hosts : \E v \in todo[h] :
              /\ v \in Versions /\ todo' = [todo EXCEPT ![h] = @ \ {v}]
              /\ \A g \in Hosts, w \in Versions : (g # h \/ w # v) => dir'[g][w] = dir[g][w]
<1>1. ASSUME NEW t \in Tasks, Upload(t) \/ Uploaded(t)
      PROVE  /\ \A h \in Hosts, v \in Versions : dir[h][v] # "none" => dir'[h][v] # "none"
             /\ \A h \in Hosts, v \in Versions : dir'[h][v] = "torn" => dir[h][v] = "torn"
  <2>1. Host(t) \in Hosts /\ task[t].version \in Versions
    BY <1>1, TaskTypes DEF Upload, Uploaded, At
  <2>2. dir' = dir \/ \E d \in {"part", "whole"} : dir' = [dir EXCEPT ![Host(t)][task[t].version] = d]
    BY <1>1 DEF Upload, Uploaded
  <2>3. CASE dir' = dir
    BY <2>3
  <2>4. ASSUME NEW d \in {"part", "whole"}, dir' = [dir EXCEPT ![Host(t)][task[t].version] = d]
        PROVE  /\ \A h \in Hosts, v \in Versions : dir[h][v] # "none" => dir'[h][v] # "none"
               /\ \A h \in Hosts, v \in Versions : dir'[h][v] = "torn" => dir[h][v] = "torn"
    <3>1. \A g \in Hosts, w \in Versions :
            dir'[g][w] = IF g = Host(t) /\ w = task[t].version THEN d ELSE dir[g][w]
      <4>1. d \in Dir
        BY <2>4 DEF Dir
      <4>. QED BY <2>1, <2>4, <4>1, DirTypes
    <3>. QED BY <3>1
  <2>. QED BY <2>2, <2>3, <2>4
<1>2. ASSUME NEW t \in Tasks, Operation(t), ~Upload(t), ~Uploaded(t) PROVE dir' = dir
  BY <1>2 DEF Operation, Begin, Check, Free, Move, Link, Restore, End, Run
<1>3. ASSUME Clear, \A h \in Hosts : ~Remove(h) PROVE dir' = dir
  BY <1>3 DEF Clear, StartClear, List, EndClear
<1>4. ASSUME NEW h \in Hosts, Remove(h)
      PROVE  \E v \in todo[h] :
              /\ v \in Versions /\ todo' = [todo EXCEPT ![h] = @ \ {v}]
              /\ \A g \in Hosts, w \in Versions : (g # h \/ w # v) => dir'[g][w] = dir[g][w]
  <2>1. PICK v \in todo[h] : /\ v \in Versions
                             /\ \E d \in {"none", "torn"} : dir' = [dir EXCEPT ![h][v] = d]
                             /\ todo' = [todo EXCEPT ![h] = @ \ {v}]
    BY <1>4, Removes
  <2>2. \A g \in Hosts, w \in Versions : (g # h \/ w # v) => dir'[g][w] = dir[g][w]
    BY <2>1, DirTypes DEF Dir
  <2>. QED BY <2>1, <2>2
<1>. QED BY <1>1, <1>2, <1>3, <1>4 DEF Next

\* A version that has enough newer ones keeps enough.
LEMMA EnoughStays ==
  ASSUME TypeOK, Kept, Next, NEW h \in Hosts, NEW v \in Versions, Enough(h, v)
  PROVE  Enough(h, v)'
<1>1. Newer(h, v) \in SUBSET Versions /\ Newer(h, v)' \in SUBSET Versions
  BY DEF Newer
<1>2. CASE \A w \in Versions : dir[h][w] # "none" => dir'[h][w] # "none"
  <2>1. Newer(h, v) \in SUBSET Newer(h, v)'
    BY <1>2 DEF Newer
  <2>2. Cardinality(Newer(h, v)) <= Cardinality(Newer(h, v)') /\ Cardinality(Newer(h, v)) \in Nat
        /\ Cardinality(Newer(h, v)') \in Nat
    BY <1>1, <2>1, Counts
  <2>. QED BY <2>2, ProxyMachineAssumption DEF Enough
<1>3. ASSUME NEW w \in todo[h], w \in Versions, \A u \in Versions : u # w => dir'[h][u] = dir[h][u]
      PROVE  Enough(h, v)'
  <2>1. CASE w > v
    <3>1. Enough(h, w)
      BY <1>3 DEF Kept
    <3>2. Newer(h, w) \in SUBSET Newer(h, v)'
      BY <1>3, <2>1 DEF Newer, Versions
    <3>3. Cardinality(Newer(h, w)) <= Cardinality(Newer(h, v)') /\ Cardinality(Newer(h, w)) \in Nat
          /\ Cardinality(Newer(h, v)') \in Nat
      BY <1>1, <3>2, Counts
    <3>. QED BY <3>1, <3>3, ProxyMachineAssumption DEF Enough
  <2>2. CASE ~(w > v)
    <3>1. Newer(h, v)' = Newer(h, v)
      BY <1>3, <2>2 DEF Newer
    <3>. QED BY <3>1 DEF Enough
  <2>. QED BY <2>1, <2>2
<1>4. ASSUME NEW g \in Hosts, NEW w \in todo[g], w \in Versions,
             \A k \in Hosts, u \in Versions : (k # g \/ u # w) => dir'[k][u] = dir[k][u]
      PROVE  Enough(h, v)'
  <2>1. CASE g = h
    BY <1>3, <1>4, <2>1
  <2>2. CASE g # h
    BY <1>2, <1>4, <2>2
  <2>. QED BY <2>1, <2>2
<1>. QED BY <1>2, <1>4, DirSteps

\* What a shell has after a command was written to it.
LEMMA WriteAdds ==
  ASSUME TypeOK, NEW t \in Tasks, Host(t) \in Hosts, NEW c \in Commands, Write(t, c),
         NEW u \in Tasks, NEW h \in Hosts, NEW i \in 1..Len(shell'[u][h])
  PROVE  \/ \E j \in 1..Len(shell[u][h]) : shell[u][h][j] = shell'[u][h][i]
         \/ u = t /\ h = Host(t) /\ shell'[u][h][i] = c
<1>1. shell[t][Host(t)] \in Seq(Commands) /\ shell[t] \in [Hosts -> Seq(Commands)]
  BY DEF TypeOK
<1>2. shell' = [shell EXCEPT ![t] = [shell[t] EXCEPT ![Host(t)] = Append(shell[t][Host(t)], c)]]
  BY DEF Write
<1>3. CASE u = t /\ h = Host(t)
  <2>1. shell'[u][h] = Append(shell[t][Host(t)], c)
    BY <1>1, <1>2, <1>3 DEF TypeOK
  <2>2. /\ Len(shell'[u][h]) = Len(shell[t][Host(t)]) + 1 /\ Len(shell[t][Host(t)]) \in Nat
        /\ \A j \in 1..Len(shell[t][Host(t)]) : shell'[u][h][j] = shell[t][Host(t)][j]
        /\ shell'[u][h][Len(shell[t][Host(t)]) + 1] = c
    BY <1>1, <2>1, AppendProperties, LenProperties
  <2>. QED BY <1>3, <2>2
<1>4. CASE ~(u = t /\ h = Host(t))
  <2>1. shell'[u][h] = shell[u][h]
    BY <1>1, <1>2, <1>4 DEF TypeOK
  <2>. QED BY <2>1
<1>. QED BY <1>3, <1>4

\* What it has after one was run.
LEMMA RunTakes ==
  ASSUME TypeOK, NEW t \in Tasks, NEW g \in Hosts, Run(t, g)
  PROVE  /\ \A u \in Tasks, h \in Hosts : \A i \in 1..Len(shell'[u][h]) :
              \E j \in 1..Len(shell[u][h]) : shell[u][h][j] = shell'[u][h][i]
         /\ \E j \in 1..Len(shell[t][g]) : shell[t][g][j] = Head(shell[t][g])
<1>1. shell[t][g] \in Seq(Commands) /\ shell[t] \in [Hosts -> Seq(Commands)] /\ shell[t][g] # <<>>
  BY DEF TypeOK, Run
<1>2. shell' = [shell EXCEPT ![t] = [shell[t] EXCEPT ![g] = Tail(shell[t][g])]]
  BY DEF Run
<1>3. /\ Len(Tail(shell[t][g])) = Len(shell[t][g]) - 1 /\ Len(shell[t][g]) \in Nat \ {0}
      /\ \A i \in 1..Len(Tail(shell[t][g])) : Tail(shell[t][g])[i] = shell[t][g][i + 1]
      /\ Head(shell[t][g]) = shell[t][g][1]
  BY <1>1, HeadTailProperties, LenProperties, EmptySeq
<1>4. ASSUME NEW u \in Tasks, NEW h \in Hosts, NEW i \in 1..Len(shell'[u][h])
      PROVE  \E j \in 1..Len(shell[u][h]) : shell[u][h][j] = shell'[u][h][i]
  <2>1. CASE u = t /\ h = g
    <3>1. shell'[u][h] = Tail(shell[t][g])
      BY <1>1, <1>2, <2>1 DEF TypeOK
    <3>2. i + 1 \in 1..Len(shell[t][g]) /\ shell'[u][h][i] = shell[t][g][i + 1]
      BY <1>3, <3>1
    <3>. QED BY <2>1, <3>2
  <2>2. CASE ~(u = t /\ h = g)
    <3>1. shell'[u][h] = shell[u][h]
      BY <1>1, <1>2, <2>2 DEF TypeOK
    <3>. QED BY <3>1
  <2>. QED BY <2>1, <2>2
<1>5. 1 \in 1..Len(shell[t][g]) /\ shell[t][g][1] = Head(shell[t][g])
  BY <1>3
<1>6. \E j \in 1..Len(shell[t][g]) : shell[t][g][j] = Head(shell[t][g])
  BY <1>5
<1>. QED BY <1>4, <1>6

\* The last file of a version was put at a host.
Put(h, v) == \E t \in Tasks : Uploaded(t) /\ task[t].version = v /\ Host(t) = h

\* What is brought was brought before, or its last file was put.
LEMMA BroughtBefore ==
  ASSUME TypeOK, Next, NEW h \in Hosts, NEW v \in Versions, Brought(h, v)'
  PROVE  Brought(h, v) \/ Put(h, v)
<1>. DEFINE Puts(t) == task[t].version = v /\ Host(t) = h /\ task[t].pc \in {"free", "move", "link"}
            Has1(t) == \E i \in 1..Len(shell[t][h]) : shell[t][h][i] = Ln(v)
<1>0. v # None
  BY DEF Versions, None
<1>1. CASE Clear
  <2>1. link' = link /\ task' = task /\ shell' = shell
    BY <1>1 DEF Clear, StartClear, List, Remove, EndClear
  <2>. QED BY <2>1 DEF Brought, Linked, Host
<1>. SUFFICES ASSUME NEW t \in Tasks, Operation(t) PROVE Brought(h, v) \/ Put(h, v)
  BY <1>1 DEF Next
<1>2. ASSUME NEW v0 \in MayBe, Begin(t, v0) PROVE Brought(h, v)
  <2>1. link' = link /\ shell' = shell
    BY <1>2 DEF Begin
  <2>2. ASSUME NEW u \in Tasks, Puts(u)' PROVE Puts(u)
    <3>1. u # t
      BY <1>2, <2>2, Begins
    <3>. QED BY <1>2, <2>2, <3>1, Begins DEF Host
  <2>. QED BY <2>1, <2>2 DEF Brought, Linked
<1>3. ASSUME NEW r, task' = [task EXCEPT ![t] = r],
             (r.version = v /\ r.host = h /\ r.pc \in {"free", "move", "link"}) => Puts(t),
             \A l \in Links : link'[h][l] = None \/ \E m \in Links : link'[h][l] = link[h][m],
             \A u \in Tasks : Has1(u)' => Has1(u) \/ Puts(t)
      PROVE  Brought(h, v)
  <2>1. \A u \in Tasks : Puts(u)' => Puts(u)
    BY <1>3 DEF TypeOK, Host
  <2>2. Linked(h, v)' => Linked(h, v)
    BY <1>0, <1>3 DEF Linked
  <2>. QED BY <1>3, <2>1, <2>2 DEF Brought
<1>4. ASSUME NEW p, Goto(t, p)
      PROVE  \E r : /\ task' = [task EXCEPT ![t] = r] /\ r.pc = p /\ r.version = task[t].version
                    /\ r.host = Host(t)
  <2>1. task[t] \in Task
    BY DEF TypeOK
  <2>2. /\ [task[t] EXCEPT !.pc = p].pc = p /\ [task[t] EXCEPT !.pc = p].version = task[t].version
        /\ [task[t] EXCEPT !.pc = p].host = task[t].host
    BY <2>1 DEF Task
  <2>. QED BY <1>4, <2>2 DEF Goto, Become, Host
<1>5. CASE Upload(t)
  <2>1. PICK r : task' = [task EXCEPT ![t] = r] /\ r.pc = "put"
    BY <1>4, <1>5 DEF Upload
  <2>2. link' = link /\ shell' = shell
    BY <1>5 DEF Upload
  <2>. QED BY <1>3, <2>1, <2>2
<1>6. CASE Uploaded(t)
  <2>1. PICK r : task' = [task EXCEPT ![t] = r] /\ r.version = task[t].version /\ r.host = Host(t)
    BY <1>4, <1>6 DEF Uploaded
  <2>2. link' = link /\ shell' = shell
    BY <1>6 DEF Uploaded
  <2>3. CASE task[t].version = v /\ Host(t) = h
    BY <1>6, <2>3 DEF Put
  <2>4. CASE ~(task[t].version = v /\ Host(t) = h)
    BY <1>3, <2>1, <2>2, <2>4
  <2>. QED BY <2>3, <2>4
<1>7. CASE Disconnect(t) /\ link' = link
  <2>1. task' = [task EXCEPT ![t] = NoTask] /\ NoTask.pc = "idle"
    BY <1>7, NoTaskFits DEF Disconnect, Become
  <2>2. ASSUME NEW u \in Tasks, Has1(u)' PROVE Has1(u)
    <3>1. u # t
      BY <1>7, <2>2, EmptySeq DEF Disconnect, TypeOK
    <3>. QED BY <1>7, <2>2, <3>1 DEF Disconnect, TypeOK
  <2>. QED BY <1>3, <1>7, <2>1, <2>2
<1>8. CASE Check(t)
  <2>1. link' = link /\ task[t].pc = "check" /\ task[t].version = None /\ task[t] \in Task
    BY <1>8, TaskTypes DEF Check, At
  <2>2. CASE ~Disconnect(t)
    <3>1. PICK r : /\ task' = [task EXCEPT ![t] = r] /\ shell' = shell
                   /\ \E g : r = [task[t] EXCEPT !.pc = "free", !.goal[Host(t)] = g]
      BY <1>8, <2>2 DEF Check, Become
    <3>2. r.version = None
      BY <2>1, <3>1 DEF Task
    <3>. QED BY <1>0, <1>3, <2>1, <3>1, <3>2
  <2>. QED BY <1>7, <2>1, <2>2
<1>9. CASE Free(t)
  <2>1. link' = link /\ task[t].pc = "free" /\ Host(t) \in Hosts
    BY <1>9, TaskTypes DEF Free, At
  <2>2. PICK r : /\ task' = [task EXCEPT ![t] = r] /\ r.version = task[t].version /\ r.host = task[t].host
    <3>. DEFINE p == IF task[t].alone /\ Upgrades(t) /\ Stat(Host(t), "latest")
                       THEN link[Host(t)]["latest"] ELSE None
    <3>1. task' = [task EXCEPT ![t] = [task[t] EXCEPT !.pc = "move", !.prev[Host(t)] = p]]
      BY <1>9 DEF Free, Become
    <3>. HIDE DEF p
    <3>2. task[t] \in Task
      BY DEF TypeOK
    <3>3. /\ [task[t] EXCEPT !.pc = "move", !.prev[Host(t)] = p].version = task[t].version
          /\ [task[t] EXCEPT !.pc = "move", !.prev[Host(t)] = p].host = task[t].host
      BY <3>2 DEF Task
    <3>. QED BY <3>1, <3>3
  <2>3. ASSUME NEW u \in Tasks, Has1(u)' PROVE Has1(u)
    <3>1. CASE shell' = shell
      BY <2>3, <3>1
    <3>2. CASE Write(t, Rm(Spare(t)))
      <4>1. Rm(Spare(t)) \in Commands /\ Rm(Spare(t)) # Ln(v)
        BY DEF Rm, Ln, Commands, Spare, Links
      <4>2. PICK i \in 1..Len(shell'[u][h]) : shell'[u][h][i] = Ln(v)
        BY <2>3
      <4>3. \/ \E j \in 1..Len(shell[u][h]) : shell[u][h][j] = shell'[u][h][i]
            \/ shell'[u][h][i] = Rm(Spare(t))
        BY <2>1, <3>2, <4>1, <4>2, WriteAdds
      <4>. QED BY <4>1, <4>2, <4>3
    <3>. QED BY <1>9, <3>1, <3>2 DEF Free
  <2>. QED BY <1>3, <2>1, <2>2, <2>3 DEF Host
<1>10. CASE Move(t)
  <2>1. Host(t) \in Hosts /\ task[t].pc = "move" /\ shell' = shell
    BY <1>10, MoveWays DEF At
  <2>2. \A l \in Links : link'[h][l] = None \/ \E m \in Links : link'[h][l] = link[h][m]
    BY <1>10, <2>1, RenameTypes DEF Move, Spare, Links
  <2>3. PICK r : task' = [task EXCEPT ![t] = r] /\ r.version = task[t].version /\ r.host = Host(t)
    BY <1>10, MoveWays DEF Become
  <2>. QED BY <1>3, <2>1, <2>2, <2>3
<1>11. CASE Link(t)
  <2>1. Host(t) \in Hosts /\ task[t].pc = "link" /\ task[t].version \in Versions /\ task[t] \in Task /\ link' = link
    BY <1>11, TaskTypes DEF Link, At
  <2>2. task' = [task EXCEPT ![t] = Passed(task[t])] /\ Passed(task[t]).pc \in {"done", "check", "upload"}
    BY <1>11, <2>1, PassedGoes DEF Link, Become
  <2>3. ASSUME NEW u \in Tasks, Has1(u)' PROVE Has1(u) \/ Puts(t)
    <3>1. Ln(task[t].version) \in Commands /\ (Ln(task[t].version) = Ln(v) => task[t].version = v)
      BY <2>1 DEF Ln, Commands
    <3>2. Write(t, Ln(task[t].version))
      BY <1>11 DEF Link
    <3>. QED BY <2>1, <2>3, <3>1, <3>2, WriteAdds
  <2>. QED BY <1>3, <2>1, <2>2, <2>3
<1>12. CASE Restore(t)
  <2>1. Host(t) \in Hosts /\ task[t].pc = "restore" /\ shell' = shell
    BY <1>12, RestoreWays DEF At
  <2>2. \A l \in Links : link'[h][l] = None \/ \E m \in Links : link'[h][l] = link[h][m]
    BY <1>12, <2>1, RenameTypes DEF Restore, Links
  <2>3. PICK r : task' = [task EXCEPT ![t] = r] /\ r.pc \in {"done", "check", "upload"}
    BY <1>12, RestoreWays DEF Become
  <2>. QED BY <1>3, <2>1, <2>2, <2>3
<1>13. ASSUME NEW g \in Hosts, Run(t, g) PROVE Brought(h, v)
  <2>1. task' = task
    BY <1>13 DEF Run
  <2>2. ASSUME NEW u \in Tasks, Has1(u)' PROVE Has1(u)
    <3>1. PICK i \in 1..Len(shell'[u][h]) : shell'[u][h][i] = Ln(v)
      BY <2>2
    <3>2. \E j \in 1..Len(shell[u][h]) : shell[u][h][j] = shell'[u][h][i]
      BY <1>13, <3>1, RunTakes
    <3>. QED BY <3>1, <3>2
  <2>3. ASSUME Linked(h, v)' PROVE Linked(h, v) \/ Has1(t)
    <3>1. PICK l \in Links : link'[h][l] = v
      BY <2>3 DEF Linked
    <3>2. CASE link'[h][l] \in {None, link[h][l]}
      BY <1>0, <3>1, <3>2 DEF Linked
    <3>3. CASE h = g /\ Head(shell[t][g]) = Ln(v)
      BY <1>13, <3>3, RunTakes
    <3>. QED BY <1>13, <3>1, <3>2, <3>3, RunTypes
  <2>. QED BY <2>1, <2>2, <2>3 DEF Brought, Host
<1>. QED BY <1>2, <1>5, <1>6, <1>7, <1>8, <1>9, <1>10, <1>11, <1>12, <1>13 DEF Operation, End, MayBe

\* And what is in hand was so before, or a task has begun to put it: it is there.
LEMMA HeldBefore ==
  ASSUME TypeOK, Next, NEW h \in Hosts, NEW v \in Versions, Held(h, v)', dir'[h][v] = "none"
  PROVE  Held(h, v)
<1>1. CASE Brought(h, v)'
  BY <1>1, BroughtBefore DEF Held, Put, Uploaded
<1>2. ASSUME NEW u \in Tasks, task'[u].version = v, task'[u].host = h, task'[u].pc = "put"
      PROVE  Held(h, v)
  <2>1. CASE Clear
    <3>1. task' = task
      BY <2>1 DEF Clear, StartClear, List, Remove, EndClear
    <3>. QED BY <1>2, <3>1 DEF Held, Host, At
  <2>2. ASSUME NEW t \in Tasks, Operation(t) PROVE Held(h, v)
    <3>1. Host(u) = h /\ task[u].version = v /\ (At(u, "put") \/ Upload(u))
      BY <1>2, <2>2, PutComes DEF PutBefore
    <3>2. CASE Upload(u)
      <4>1. dir' = [dir EXCEPT ![h][v] = "part"]
        BY <3>1, <3>2 DEF Upload
      <4>. QED BY <4>1 DEF TypeOK
    <3>. QED BY <3>1, <3>2 DEF Held
  <2>. QED BY <2>1, <2>2 DEF Next
<1>. QED BY <1>1, <1>2 DEF Held, Host, At

\* Only what is old is taken, from the start ...
LEMMA KeptInit == Init => Kept
<1>. SUFFICES ASSUME Init, NEW h \in Hosts, NEW v \in Versions
              PROVE  v \notin todo[h] /\ dir[h][v] # "torn" /\ (dir[h][v] = "none" => ~Held(h, v))
  BY DEF Kept
<1>1. v # None /\ v \in Nat
  BY DEF Versions, None
<1>2. v \notin todo[h] /\ dir[h][v] = IF v <= Served THEN "whole" ELSE "none"
  BY DEF Init
<1>3. ASSUME Linked(h, v) PROVE v <= Served
  <2>1. PICK l \in Links : link[h][l] = v
    BY <1>3 DEF Linked
  <2>2. Before(l) = v
    BY <2>1 DEF Init
  <2>. QED BY <1>1, <2>2, ProxyMachineAssumption DEF Before
<1>4. \A t \in Tasks : task[t].pc = "idle" /\ Len(shell[t][h]) = 0
  BY NoTaskFits, EmptySeq DEF Init
<1>. QED BY <1>2, <1>3, <1>4 DEF Held, Brought, At

\* ... and after every step.
LEMMA KeptStep ==
  ASSUME TypeOK, Kept, [Next]_vars
  PROVE  Kept'
<1>1. CASE UNCHANGED vars
  BY <1>1 DEF vars, clearing, Kept, Enough, Newer, Held, Brought, Linked, Host, At
<1>. SUFFICES ASSUME Next, NEW h \in Hosts, NEW v \in Versions
              PROVE  /\ v \in todo'[h] => Enough(h, v)'
                     /\ dir'[h][v] = "torn" => Enough(h, v)'
                     /\ dir'[h][v] = "none" /\ Held(h, v)' => Enough(h, v)'
  BY <1>1 DEF Kept
<1>2. Enough(h, v) => Enough(h, v)'
  BY EnoughStays
<1>3. ASSUME v \in todo'[h] PROVE Enough(h, v)'
  <2>1. CASE v \in todo[h]
    BY <1>2, <2>1 DEF Kept
  <2>2. CASE List
    <3>1. Enough(h, v) \/ v \in todo[h]
      BY <1>3, <2>2 DEF List, TypeOK, Enough
    <3>. QED BY <1>2, <3>1 DEF Kept
  <2>3. CASE ~List
    <3>1. CASE \E t \in Tasks : Operation(t)
      BY <1>3, <2>1, <3>1 DEF Operation, Begin, Upload, Uploaded, Check, Free, Move, Link, Restore, End, Run, clearing
    <3>2. CASE StartClear \/ EndClear
      BY <1>3, <2>1, <3>2 DEF StartClear, EndClear
    <3>3. ASSUME NEW g \in Hosts, Remove(g) PROVE v \in todo[h]
      BY <1>3, <3>3 DEF Remove, TypeOK
    <3>. QED BY <2>1, <2>3, <3>1, <3>2, <3>3 DEF Next, Clear
  <2>. QED BY <2>2, <2>3
<1>4. ASSUME dir[h][v] # dir'[h][v], dir'[h][v] \in {"none", "torn"} PROVE Enough(h, v)
  <2>1. CASE /\ \A k \in Hosts, w \in Versions : dir[k][w] # "none" => dir'[k][w] # "none"
             /\ \A k \in Hosts, w \in Versions : dir'[k][w] = "torn" => dir[k][w] = "torn"
    BY <1>4, <2>1
  <2>2. ASSUME NEW g \in Hosts, NEW w \in todo[g],
               \A k \in Hosts, u \in Versions : (k # g \/ u # w) => dir'[k][u] = dir[k][u]
        PROVE  Enough(h, v)
    BY <1>4, <2>2 DEF Kept
  <2>. QED BY <2>1, <2>2, DirSteps
<1>5. dir'[h][v] = "torn" => Enough(h, v)'
  BY <1>2, <1>4 DEF Kept
<1>6. dir'[h][v] = "none" /\ Held(h, v)' => Enough(h, v)'
  BY <1>2, <1>4, HeldBefore DEF Kept
<1>. QED BY <1>3, <1>5, <1>6

\* For any number of hosts, versions and tasks: the clear never takes the newest MaxHistory
\* versions of a host, and so a link that leads nowhere led to an older one.
THEOREM NewestStay == Spec => []ClearedOnlyOld
<1>1. TypeOK /\ Kept => ClearedOnlyOld
  <2>1. ASSUME TypeOK, Kept, NEW h \in Hosts, NEW l \in Links, link[h][l] # None,
               dir[h][link[h][l]] \in {"none", "torn"}
        PROVE  Enough(h, link[h][l])
    <3>1. link[h][l] \in Versions
      BY <2>1 DEF TypeOK
    <3>2. Held(h, link[h][l])
      BY DEF Held, Brought, Linked
    <3>. QED BY <2>1, <3>1, <3>2 DEF Kept
  <2>. QED BY <2>1 DEF ClearedOnlyOld, Enough
<1>2. TypeOK /\ [Next]_vars => TypeOK'
  BY TypeNext
<1>. QED BY <1>1, <1>2, TypeInit, KeptInit, KeptStep, PTL DEF Spec

-----------------------------------------------------------------------------
(* What is served in part *)

\* Nobody works beside one that is alone.
Alone == \A t, u \in Tasks : t # u /\ ~At(t, "idle") /\ task[t].alone => At(u, "idle")

\* One that is not at work has no shell, one that is has given no ln to the hosts to come.
LinksBehind ==
    \A t \in Tasks, h \in Hosts : \A i \in 1..Len(shell[t][h]) :
      ~At(t, "idle") /\ (shell[t][h][i].cmd = "ln" => Host(t) > h)

\* What is there in part and was not put in place is not brought.
PartApart == \A h \in Hosts, v \in Versions : dir[h][v] = "part" /\ v \notin inPlace[h] => ~Brought(h, v)

PartInv == Alone /\ LinksBehind /\ PartApart

\* One that begins beside others is not alone, nor are they.
LEMMA AloneStep ==
  ASSUME TypeOK, Alone, [Next]_vars
  PROVE  Alone'
<1>1. CASE UNCHANGED task
  BY <1>1 DEF Alone, At
<1>2. ASSUME NEW t \in Tasks, NEW v \in MayBe, Begin(t, v) PROVE Alone'
  <2>1. SUFFICES ASSUME NEW a \in Tasks, NEW b \in Tasks, a # b, task'[a].pc # "idle", task'[a].alone
                 PROVE  task'[b].pc = "idle"
    BY DEF Alone, At
  <2>2. CASE a = t
    <3>1. task[b].pc = "idle"
      BY <1>2, <2>1, <2>2, Begins DEF Working, At
    <3>. QED BY <1>2, <2>1, <2>2, <3>1, Begins
  <2>3. CASE a # t
    BY <1>2, <2>1, <2>3, Begins DEF At
  <2>. QED BY <2>2, <2>3
<1>3. ASSUME NEW t \in Tasks, NEW r, Become(t, r), r.pc = "idle" \/ GoesOn(t, r) PROVE Alone'
  <2>1. \A u \in Tasks : task'[u] = IF u = t THEN r ELSE task[u]
    BY <1>3 DEF Become, TypeOK
  <2>2. \A u \in Tasks : task'[u].pc # "idle" => task[u].pc # "idle" /\ task'[u].alone = task[u].alone
    BY <1>3, <2>1 DEF GoesOn, At
  <2>. QED BY <2>2 DEF Alone, At
<1>4. ASSUME NEW t \in Tasks, Operation(t) PROVE Alone'
  BY <1>1, <1>2, <1>3, <1>4, Moves, NoTaskFits DEF Disconnect
<1>5. CASE Clear
  BY <1>1, <1>5 DEF Clear, StartClear, List, Remove, EndClear
<1>. QED BY <1>1, <1>4, <1>5 DEF Next, vars

\* A task writes an ln as it passes a host, and takes what is left with it.
LEMMA LinksBehindStep ==
  ASSUME TypeOK, LinksBehind, [Next]_vars
  PROVE  LinksBehind'
<1>1. CASE UNCHANGED <<task, shell>>
  BY <1>1 DEF LinksBehind, At, Host
<1>. SUFFICES ASSUME NEW t \in Tasks, Operation(t) PROVE LinksBehind'
  BY <1>1 DEF Next, vars, Clear, StartClear, List, Remove, EndClear
<1>. SUFFICES ASSUME NEW u \in Tasks, NEW h \in Hosts, NEW i \in 1..Len(shell'[u][h])
              PROVE  task'[u].pc # "idle" /\ (shell'[u][h][i].cmd = "ln" => task'[u].host > h)
  BY DEF LinksBehind, At, Host
<1>2. task[t].host \in Nat /\ task[u].host \in Nat /\ h \in Nat /\ task \in [Tasks -> Task]
  BY ProxyMachineAssumption DEF TypeOK, Task, Hosts
<1>3. ASSUME NEW j \in 1..Len(shell[u][h]), shell[u][h][j] = shell'[u][h][i],
             task'[u].pc # "idle", task'[u].host = task[u].host \/ task'[u].host = task[u].host + 1
      PROVE  task'[u].pc # "idle" /\ (shell'[u][h][i].cmd = "ln" => task'[u].host > h)
  <2>1. shell'[u][h][i].cmd = "ln" => task[u].host > h
    BY <1>3 DEF LinksBehind, Host
  <2>. QED BY <1>2, <1>3, <2>1
<1>4. ASSUME NEW r, Become(t, r), GoesOn(t, r)
      PROVE  task'[t].pc # "idle" /\ (task'[u].host = task[u].host \/ task'[u].host = task[u].host + 1)
             /\ (task[u].pc # "idle" => task'[u].pc # "idle")
  BY <1>2, <1>4 DEF Become, GoesOn, Host
<1>5. ASSUME shell' = shell, task'[u].pc # "idle" \/ task[u].pc = "idle",
             task'[u].host = task[u].host \/ task'[u].host = task[u].host + 1 \/ task[u].pc = "idle"
      PROVE  task'[u].pc # "idle" /\ (shell'[u][h][i].cmd = "ln" => task'[u].host > h)
  BY <1>3, <1>5 DEF LinksBehind, At
<1>6. CASE \E v \in MayBe : Begin(t, v)
  <2>1. shell' = shell /\ u # t
    BY <1>6 DEF Begin, LinksBehind
  <2>. QED BY <1>5, <1>6, <2>1, Begins
<1>7. CASE Disconnect(t)
  <2>1. u # t
    BY <1>7, EmptySeq DEF Disconnect, TypeOK
  <2>2. shell'[u] = shell[u] /\ task'[u] = task[u]
    BY <1>7, <2>1 DEF Disconnect, Become, TypeOK
  <2>. QED BY <2>2 DEF LinksBehind, At, Host
<1>8. ASSUME NEW g \in Hosts, Run(t, g)
      PROVE  task'[u].pc # "idle" /\ (shell'[u][h][i].cmd = "ln" => task'[u].host > h)
  <2>1. PICK j \in 1..Len(shell[u][h]) : shell[u][h][j] = shell'[u][h][i]
    BY <1>8, RunTakes
  <2>2. task' = task
    BY <1>8 DEF Run
  <2>. QED BY <2>1, <2>2 DEF LinksBehind, At, Host
<1>9. ASSUME NEW r, Become(t, r), GoesOn(t, r), NEW c \in Commands, Write(t, c), Host(t) \in Hosts,
             c.cmd = "ln" => r.host = Host(t) + 1
      PROVE  task'[u].pc # "idle" /\ (shell'[u][h][i].cmd = "ln" => task'[u].host > h)
  <2>1. CASE \E j \in 1..Len(shell[u][h]) : shell[u][h][j] = shell'[u][h][i]
    BY <1>3, <1>4, <1>9, <2>1 DEF LinksBehind, At
  <2>2. CASE u = t /\ h = Host(t) /\ shell'[u][h][i] = c
    <3>1. task'[t] = r
      BY <1>2, <1>9 DEF Become
    <3>. QED BY <1>2, <1>4, <1>9, <2>2, <3>1
  <2>. QED BY <1>9, <2>1, <2>2, WriteAdds
<1>10. CASE Free(t) \/ Link(t)
  <2>1. Host(t) \in Hosts /\ task[t].pc \in {"free", "link"} /\ task[t] \in Task
        /\ (task[t].pc = "link" => task[t].version \in Versions)
    BY <1>10, TaskTypes DEF Free, Link, At
  <2>2. CASE Link(t)
    <3>1. /\ Become(t, Passed(task[t])) /\ Write(t, Ln(task[t].version)) /\ task[t].pc = "link"
          /\ Ln(task[t].version) \in Commands
      BY <2>1, <2>2 DEF Link, Ln, Commands, At
    <3>2. GoesOn(t, Passed(task[t])) /\ Passed(task[t]).host = Host(t) + 1
      BY <2>1, <3>1, PassedKeeps DEF GoesOn, Host, At
    <3>. QED BY <1>9, <2>1, <3>1, <3>2
  <2>3. CASE Free(t)
    <3>1. PICK g : Become(t, [task[t] EXCEPT !.pc = "move", !.prev[Host(t)] = g])
      BY <2>3 DEF Free
    <3>2. GoesOn(t, [task[t] EXCEPT !.pc = "move", !.prev[Host(t)] = g])
      BY <2>1, Keeps DEF GoesOn, Host, At
    <3>3. Rm(Spare(t)) \in Commands /\ Rm(Spare(t)).cmd = "rm"
      BY DEF Rm, Commands, Spare, Links
    <3>4. shell' = shell \/ Write(t, Rm(Spare(t)))
      BY <2>3 DEF Free
    <3>5. CASE shell' = shell
      BY <1>4, <1>5, <3>1, <3>2, <3>5
    <3>. QED BY <1>9, <2>1, <3>1, <3>2, <3>3, <3>4, <3>5
  <2>. QED BY <1>10, <2>2, <2>3
<1>11. CASE shell' = shell /\ \E r : Become(t, r) /\ GoesOn(t, r)
  BY <1>4, <1>5, <1>11
<1>12. CASE Upload(t) \/ Uploaded(t) \/ Move(t) \/ Restore(t) \/ Check(t)
  <2>1. Disconnect(t) \/ shell' = shell
    BY <1>12 DEF Upload, Uploaded, Move, Restore, Check
  <2>. QED BY <1>7, <1>11, <1>12, <2>1, Works
<1>. QED BY <1>6, <1>7, <1>8, <1>10, <1>12 DEF Operation, End, MayBe

\* A version is put in place when another puts it too, or has.
LEMMA UploadPuts ==
  ASSUME TypeOK, NEW t \in Tasks, Upload(t)
  PROVE  /\ Host(t) \in Hosts /\ task[t].version \in Versions /\ At(t, "upload")
         /\ \A h \in Hosts : inPlace[h] \subseteq inPlace'[h]
         /\ Linked(Host(t), task[t].version) \/ ~task[t].alone => task[t].version \in inPlace'[Host(t)]
         /\ \A h \in Hosts, v \in Versions : h # Host(t) \/ v # task[t].version => dir'[h][v] = dir[h][v]
<1>1. Host(t) \in Hosts /\ task[t].version \in Versions /\ At(t, "upload")
  BY TaskTypes DEF Upload, At
<1>2. dir' = [dir EXCEPT ![Host(t)][task[t].version] = "part"]
  BY DEF Upload
<1>3. \A h \in Hosts, v \in Versions : h # Host(t) \/ v # task[t].version => dir'[h][v] = dir[h][v]
  BY <1>1, <1>2 DEF TypeOK
<1>4. /\ \A h \in Hosts : inPlace[h] \subseteq inPlace'[h]
      /\ Linked(Host(t), task[t].version) \/ ~task[t].alone => task[t].version \in inPlace'[Host(t)]
  BY <1>1 DEF Upload, TypeOK
<1>. QED BY <1>1, <1>3, <1>4

\* A version leaves those put in place when its last file is put, or its directory goes.
LEMMA LeavesPlace ==
  ASSUME TypeOK, Next, NEW h \in Hosts, NEW v \in inPlace[h], v \notin inPlace'[h]
  PROVE  dir'[h][v] # "part"
<1>1. ASSUME NEW g \in Hosts, Remove(g) PROVE dir'[h][v] # "part"
  <2>1. PICK s : s = {w \in inPlace[g] : dir'[g][w] # "none"}
    OBVIOUS
  <2>2. inPlace' = [inPlace EXCEPT ![g] = s]
    BY <1>1, <2>1 DEF Remove
  <2>3. h = g /\ v \notin s
    BY <2>2 DEF TypeOK
  <2>. QED BY <2>1, <2>3
<1>2. ASSUME NEW t \in Tasks, Operation(t) PROVE dir'[h][v] # "part"
  <2>1. ~Upload(t)
    BY UploadPuts
  <2>2. Uploaded(t)
    BY <1>2, <2>1 DEF Operation, Begin, Check, Free, Move, Link, Restore, End, Run
  <2>3. Host(t) \in Hosts /\ task[t].version \in Versions
    BY <2>2, TaskTypes DEF Uploaded, At
  <2>4. inPlace' # inPlace /\ inPlace' # [inPlace EXCEPT ![Host(t)] = @ \union {task[t].version}]
    BY <2>3 DEF TypeOK
  <2>5. /\ inPlace' = [inPlace EXCEPT ![Host(t)] = @ \ {task[t].version}]
        /\ dir' = [dir EXCEPT ![Host(t)][task[t].version] = "whole"]
    BY <2>2, <2>4 DEF Uploaded
  <2>6. h = Host(t) /\ v = task[t].version
    BY <2>3, <2>5 DEF TypeOK
  <2>7. dir'[h][v] = "whole"
    BY <2>3, <2>5, <2>6 DEF TypeOK
  <2>. QED BY <2>7
<1>3. ~(StartClear \/ List \/ EndClear)
  BY DEF StartClear, List, EndClear
<1>. QED BY <1>1, <1>2, <1>3 DEF Next, Clear

\* A version put last is whole, or is among those put in place.
LEMMA PutWhole ==
  ASSUME TypeOK, NEW t \in Tasks, Uploaded(t), dir'[Host(t)][task[t].version] = "part"
  PROVE  task[t].version \in inPlace'[Host(t)]
<1>1. Host(t) \in Hosts /\ task[t].version \in Versions
  BY TaskTypes DEF Uploaded, At
<1>2. dir' # [dir EXCEPT ![Host(t)][task[t].version] = "whole"]
  BY <1>1 DEF TypeOK
<1>3. inPlace' = [inPlace EXCEPT ![Host(t)] = @ \union {task[t].version}]
  BY <1>2 DEF Uploaded
<1>. QED BY <1>1, <1>3 DEF TypeOK

\* A version that one puts alone was linked before, or nobody has it in hand.
LEMMA PartApartStep ==
  ASSUME TypeOK, PartInv, [Next]_vars
  PROVE  PartApart'
<1>1. CASE UNCHANGED vars
  BY <1>1 DEF vars, PartInv, PartApart, Brought, Linked, Host
<1>. SUFFICES ASSUME Next, NEW h \in Hosts, NEW v \in Versions, dir'[h][v] = "part", v \notin inPlace'[h],
                     Brought(h, v)'
              PROVE  FALSE
  BY <1>1 DEF PartApart
<1>2. v \notin inPlace[h]
  BY LeavesPlace
<1>3. ~Put(h, v)
  <2>1. SUFFICES ASSUME NEW t \in Tasks, Uploaded(t), task[t].version = v, Host(t) = h PROVE FALSE
    BY DEF Put
  <2>. QED BY <2>1, PutWhole
<1>4. Brought(h, v)
  BY <1>3, BroughtBefore
<1>5. dir[h][v] # "part"
  BY <1>2, <1>4 DEF PartInv, PartApart
<1>6. PICK t \in Tasks : Upload(t) /\ Host(t) = h /\ task[t].version = v
  <2>1. ASSUME NEW t \in Tasks, Operation(t), ~Upload(t) PROVE FALSE
    <3>1. CASE Uploaded(t)
      <4>1. Host(t) \in Hosts /\ task[t].version \in Versions
        BY <3>1, TaskTypes DEF Uploaded, At
      <4>2. dir' = dir \/ dir' = [dir EXCEPT ![Host(t)][task[t].version] = "whole"]
        BY <3>1 DEF Uploaded
      <4>3. CASE dir' = [dir EXCEPT ![Host(t)][task[t].version] = "whole"]
        <5>1. dir'[h][v] \in {"whole", dir[h][v]}
          BY <4>1, <4>3 DEF TypeOK
        <5>. QED BY <1>5, <5>1
      <4>. QED BY <1>5, <4>2, <4>3
    <3>. QED BY <1>5, <2>1, <3>1 DEF Operation, Begin, Check, Free, Move, Link, Restore, End, Run
  <2>2. ASSUME NEW g \in Hosts, Remove(g) PROVE FALSE
    <3>1. PICK w \in Versions : \E d \in {"none", "torn"} : dir' = [dir EXCEPT ![g][w] = d]
      BY <2>2, Removes
    <3>. QED BY <1>5, <3>1 DEF TypeOK
  <2>3. ~Clear
    BY <1>5, <2>2 DEF Clear, StartClear, List, EndClear
  <2>. QED BY <1>5, <2>1, <2>3, UploadPuts DEF Next
<1>7. ~Linked(h, v) /\ task[t].alone /\ At(t, "upload")
  BY <1>6, UploadPuts
<1>8. \A u \in Tasks : u # t => At(u, "idle")
  BY <1>7 DEF PartInv, Alone, At
<1>9. ~\E u \in Tasks : task[u].version = v /\ Host(u) = h /\ task[u].pc \in {"free", "move", "link"}
  BY <1>7, <1>8 DEF At
<1>10. ASSUME NEW u \in Tasks, NEW i \in 1..Len(shell[u][h]), shell[u][h][i] = Ln(v) PROVE FALSE
  <2>1. ~At(u, "idle") /\ Host(u) > h
    BY <1>10 DEF PartInv, LinksBehind, Ln
  <2>. QED BY <1>6, <1>8, <2>1 DEF Hosts
<1>. QED BY <1>4, <1>7, <1>9, <1>10 DEF Brought

\* The initial states satisfy PartInv.
LEMMA PartInit == Init => PartInv
<1>. SUFFICES ASSUME Init PROVE PartInv
  OBVIOUS
<1>1. \A t \in Tasks : At(t, "idle") /\ \A h \in Hosts : Len(shell[t][h]) = 0
  BY NoTaskFits, EmptySeq DEF Init, At
<1>2. \A h \in Hosts, v \in Versions : dir[h][v] \in {"none", "whole"}
  BY DEF Init
<1>. QED BY <1>1, <1>2 DEF PartInv, Alone, LinksBehind, PartApart, At

\* For any number of hosts, versions and tasks: an upgrade serves a version only once it is
\* there, unless it was put over one linked before, by two tasks at a time, or from local files
\* that were pulled again meanwhile.
THEOREM PartsApart == Spec => []PartOnlyInPlace
<1>1. TypeOK /\ PartInv => PartOnlyInPlace
  <2>1. ASSUME TypeOK, PartInv, NEW h \in Hosts, link[h]["latest"] # None, dir[h][link[h]["latest"]] = "part"
        PROVE  link[h]["latest"] \in inPlace[h]
    <3>1. link[h]["latest"] \in Versions
      BY <2>1 DEF TypeOK, Links
    <3>2. Brought(h, link[h]["latest"])
      BY DEF Brought, Linked, Links
    <3>. QED BY <2>1, <3>1, <3>2 DEF PartInv, PartApart
  <2>. QED BY <2>1 DEF PartOnlyInPlace
<1>2. TypeOK /\ PartInv /\ [Next]_vars => PartInv'
  BY AloneStep, LinksBehindStep, PartApartStep DEF PartInv
<1>. QED BY <1>1, <1>2, TypeInit, TypeNext, PartInit, PTL DEF Spec

-----------------------------------------------------------------------------
(* Where the links lead that a task leaves behind *)

\* The shell of a task is given nothing but these.
Given(t, c) == c = Rm(Spare(t)) \/ (Upgrades(t) /\ c = Ln(task[t].version))
ShellsOwn == \A t \in Tasks, h \in Hosts : \A i \in 1..Len(shell[t][h]) : Given(t, shell[t][h][i])

\* What the clear has listed is there until it removes it.
Listed == \A h \in Hosts : \A v \in todo[h] : dir[h][v] # "none"

\* There is an ln to come at a host.
LnToRun(t, h) == \E i \in 1..Len(shell[t][h]) : shell[t][h][i].cmd = "ln"

\* Nothing is in the way of the ln, or it was not seen.
LinkFree(t, h) ==
    link[h]["latest"] = task[t].version \/ ~Stat(h, "latest") \/ h \in task[t].blind

\* latest leads where the task wants it, or will, or cannot, or a link was not seen.
Leads(t, h) ==
    /\ task[t].goal[h] # None
    /\ \/ link[h]["latest"] = task[t].goal[h]
       \/ LnToRun(t, h)
       \/ ~Has(h, task[t].goal[h]) \/ (link[h]["latest"] # None /\ ~Stat(h, "latest"))
       \/ h \in task[t].blind

OldKept(t, h) ==
    Upgrades(t) /\ h \notin task[t].blind /\ Has(h, task[t].prev[h])
      => link[h]["old"] \in {task[t].prev[h], None}

\* A host the task has passed.
Behind(t, h) == Leads(t, h) /\ OldKept(t, h) /\ (LnToRun(t, h) => LinkFree(t, h))

\* The host it is at, by the place it has come to.
Around(t, h) ==
    /\ At(t, "move") /\ Upgrades(t) /\ Has(h, task[t].prev[h]) => link[h]["latest"] = task[t].prev[h]
    /\ At(t, "link") => OldKept(t, h) /\ LinkFree(t, h)
    /\ task[t].pc \in {"free", "move", "restore"} /\ ~Upgrades(t) =>
         task[t].goal[h] # None /\ (link[h]["old"] = task[t].goal[h] \/ ~Has(h, task[t].goal[h]))

\* What one that is alone at work finds and leaves.
Sees(t) ==
    /\ Upgrades(t) => \A h \in Hosts : task[t].goal[h] = task[t].version
    /\ \A h \in Hosts : (h < Host(t) => Behind(t, h)) /\ (h = Host(t) => Around(t, h))

ReachInv ==
    /\ Alone /\ LinksBehind /\ ShellsOwn /\ Listed
    /\ \A t \in Working : task[t].alone => Sees(t)

\* Who is at work alone afterwards was so before, and does the step himself, or the clear, unless
\* he begins.
LEMMA AloneActs ==
  ASSUME TypeOK, Alone, LinksBehind, Next, NEW t \in Tasks, task'[t].pc # "idle", task'[t].alone
  PROVE  \/ \E v \in MayBe : Begin(t, v)
         \/ /\ ~At(t, "idle") /\ task[t].alone
            /\ \/ \E r : Become(t, r) /\ GoesOn(t, r) /\ Operation(t)
               \/ \E h \in Hosts : Run(t, h)
               \/ Clear /\ UNCHANGED <<task, link, shell>>
<1>1. CASE Clear
  <2>1. UNCHANGED <<task, link, shell>>
    BY <1>1 DEF Clear, StartClear, List, Remove, EndClear
  <2>. QED BY <1>1, <2>1 DEF At
<1>2. ASSUME NEW u \in Tasks, u # t, Operation(u) PROVE FALSE
  <2>1. ASSUME NEW v \in MayBe, Begin(u, v) PROVE FALSE
    BY <1>2, <2>1, Begins DEF At
  <2>2. ASSUME task'[t] = task[t], ~At(u, "idle") PROVE FALSE
    BY <1>2, <2>2 DEF Alone, At
  <2>3. ASSUME NEW r, Become(u, r), ~At(u, "idle") PROVE FALSE
    <3>1. task'[t] = task[t]
      BY <1>2, <2>3 DEF Become, TypeOK
    <3>. QED BY <2>2, <2>3, <3>1
  <2>4. CASE \E h \in Hosts : Run(u, h)
    <3>1. PICK h \in Hosts : Run(u, h)
      BY <2>4
    <3>2. task'[t] = task[t]
      BY <3>1 DEF Run
    <3>3. ~At(u, "idle")
      <4>1. \E j \in 1..Len(shell[u][h]) : shell[u][h][j] = Head(shell[u][h])
        BY <3>1, RunTakes
      <4>. QED BY <4>1 DEF LinksBehind
    <3>. QED BY <2>2, <3>2, <3>3
  <2>5. CASE Upload(u) \/ Uploaded(u) \/ Check(u) \/ Free(u) \/ Move(u) \/ Link(u) \/ Restore(u) \/ End(u)
    <3>1. ~At(u, "idle")
      BY <2>5 DEF Upload, Uploaded, Check, Free, Move, Link, Restore, End, At
    <3>2. \E r : Become(u, r)
      BY <2>5 DEF Upload, Uploaded, Check, Free, Move, Link, Restore, End, Disconnect, Goto
    <3>. QED BY <2>3, <3>1, <3>2
  <2>. QED BY <1>2, <2>1, <2>4, <2>5 DEF Operation, MayBe
<1>3. ASSUME Operation(t), \A v \in MayBe : ~Begin(t, v), \A h \in Hosts : ~Run(t, h)
      PROVE  ~At(t, "idle") /\ task[t].alone /\ \E r : Become(t, r) /\ GoesOn(t, r)
  <2>1. ~Disconnect(t)
    BY NoTaskFits DEF Disconnect, Become, TypeOK
  <2>2. \E r : Become(t, r) /\ GoesOn(t, r)
    BY <1>3, <2>1, Works DEF Operation, MayBe, End
  <2>. QED BY <2>2 DEF GoesOn, Become, TypeOK
<1>4. ASSUME NEW h \in Hosts, Run(t, h) PROVE ~At(t, "idle") /\ task[t].alone
  BY <1>4 DEF Run, At
<1>. QED BY <1>1, <1>2, <1>3, <1>4 DEF Next

\* No directory comes to a host but where the upload is.
Stays(h) == \A v \in Versions : dir[h][v] = "none" => dir'[h][v] = "none"

LEMMA DirStays ==
  ASSUME TypeOK, Listed, NEW t \in Tasks, NEW h \in Hosts,
         Clear \/ (Operation(t) /\ (Upload(t) => h # Host(t)))
  PROVE  Stays(h)
<1>1. ASSUME NEW u \in Tasks, Upload(u), h # Host(u) PROVE Stays(h)
  BY <1>1, UploadPuts DEF Stays
<1>2. ASSUME NEW g \in Hosts, NEW w \in Versions, NEW d, dir[g][w] # "none", dir' = [dir EXCEPT ![g][w] = d]
      PROVE  Stays(h)
  <2>1. CASE g = h
    <3>1. \A v \in Versions : v # w => dir'[h][v] = dir[h][v]
      BY <1>2, <2>1 DEF TypeOK
    <3>. QED BY <1>2, <2>1, <3>1 DEF Stays
  <2>2. CASE g # h
    <3>1. dir'[h] = dir[h]
      BY <1>2, <2>2 DEF TypeOK
    <3>. QED BY <3>1 DEF Stays
  <2>. QED BY <2>1, <2>2
<1>3. ASSUME dir' = dir PROVE Stays(h)
  BY <1>3 DEF Stays
<1>4. ASSUME NEW u \in Tasks, Uploaded(u) PROVE Stays(h)
  <2>1. Host(u) \in Hosts /\ task[u].version \in Versions
    BY <1>4, TaskTypes DEF Uploaded, At
  <2>2. \/ dir' = dir
        \/ /\ dir' = [dir EXCEPT ![Host(u)][task[u].version] = "whole"]
           /\ dir[Host(u)][task[u].version] # "none"
    BY <1>4 DEF Uploaded
  <2>. QED BY <1>2, <1>3, <2>1, <2>2
<1>5. ASSUME NEW g \in Hosts, Remove(g) PROVE Stays(h)
  <2>1. PICK w \in todo[g] : w \in Versions /\ \E d \in {"none", "torn"} : dir' = [dir EXCEPT ![g][w] = d]
    BY <1>5, Removes
  <2>2. PICK d : dir' = [dir EXCEPT ![g][w] = d]
    BY <2>1
  <2>. QED BY <1>2, <2>1, <2>2 DEF Listed
<1>6. CASE Clear
  BY <1>3, <1>5, <1>6 DEF Clear, StartClear, List, EndClear
<1>7. CASE Operation(t) /\ (Upload(t) => h # Host(t))
  BY <1>1, <1>3, <1>4, <1>7 DEF Operation, Begin, Check, Free, Move, Link, Restore, End, Run
<1>. QED BY <1>6, <1>7

\* The clear lists what is there, and nobody else takes it away.
LEMMA ListedStep ==
  ASSUME TypeOK, Listed, [Next]_vars
  PROVE  Listed'
<1>1. CASE UNCHANGED vars
  BY <1>1 DEF vars, clearing, Listed
<1>. SUFFICES ASSUME Next, NEW h \in Hosts, NEW v \in todo'[h] PROVE dir'[h][v] # "none"
  BY <1>1 DEF Listed
<1>2. v \in Versions
  BY TypeNext DEF TypeOK
<1>3. v \in todo[h] \/ (List /\ dir'[h][v] # "none")
  <2>1. CASE List
    BY <2>1 DEF List, TypeOK
  <2>2. CASE \E t \in Tasks : Operation(t)
    BY <2>2 DEF Operation, Begin, Upload, Uploaded, Check, Free, Move, Link, Restore, End, Run, clearing
  <2>3. CASE StartClear \/ EndClear
    BY <2>3 DEF StartClear, EndClear
  <2>4. ASSUME NEW g \in Hosts, Remove(g) PROVE v \in todo[h]
    BY <2>4 DEF Remove, TypeOK
  <2>. QED BY <2>1, <2>2, <2>3, <2>4 DEF Next, Clear
<1>4. CASE v \in todo[h]
  <2>1. dir[h][v] # "none"
    BY <1>4 DEF Listed
  <2>2. ASSUME NEW g \in Hosts, NEW w \in todo[g], todo' = [todo EXCEPT ![g] = @ \ {w}],
               \A k \in Hosts, u \in Versions : (k # g \/ u # w) => dir'[k][u] = dir[k][u]
        PROVE  dir'[h][v] # "none"
    <3>1. h # g \/ v # w
      BY <2>2 DEF TypeOK
    <3>. QED BY <1>2, <2>1, <2>2, <3>1
  <2>. QED BY <1>2, <2>1, <2>2, DirSteps
<1>. QED BY <1>3, <1>4

\* A task writes nothing else to its shells.
LEMMA ShellsOwnStep ==
  ASSUME TypeOK, LinksBehind, ShellsOwn, [Next]_vars
  PROVE  ShellsOwn'
<1>1. CASE UNCHANGED <<task, shell>>
  BY <1>1 DEF ShellsOwn, Given, Spare, Upgrades
<1>. SUFFICES ASSUME NEW t \in Tasks, Operation(t) PROVE ShellsOwn'
  BY <1>1 DEF Next, vars, Clear, StartClear, List, Remove, EndClear
<1>. SUFFICES ASSUME NEW u \in Tasks, NEW h \in Hosts, NEW i \in 1..Len(shell'[u][h])
              PROVE  Given(u, shell[u][h][i])'
  BY DEF ShellsOwn
<1>2. ASSUME NEW j \in 1..Len(shell[u][h]), shell[u][h][j] = shell'[u][h][i],
             task'[u].version = task[u].version
      PROVE  Given(u, shell[u][h][i])'
  <2>1. Given(u, shell[u][h][j])
    BY <1>2 DEF ShellsOwn
  <2>. QED BY <1>2, <2>1 DEF Given, Spare, Upgrades
<1>3. ASSUME shell'[u] = shell[u], task'[u].version = task[u].version PROVE Given(u, shell[u][h][i])'
  BY <1>2, <1>3
<1>4. ASSUME NEW r, Become(t, r), GoesOn(t, r) PROVE task'[u].version = task[u].version
  BY <1>4 DEF Become, GoesOn, TypeOK
<1>5. CASE \E v \in MayBe : Begin(t, v)
  <2>1. shell' = shell /\ u # t
    BY <1>5 DEF Begin, LinksBehind
  <2>. QED BY <1>3, <1>5, <2>1, Begins
<1>6. CASE Disconnect(t)
  <2>1. u # t
    BY <1>6, EmptySeq DEF Disconnect, TypeOK
  <2>. QED BY <1>3, <1>6, <2>1 DEF Disconnect, Become, TypeOK
<1>7. ASSUME NEW g \in Hosts, Run(t, g) PROVE Given(u, shell[u][h][i])'
  <2>1. PICK j \in 1..Len(shell[u][h]) : shell[u][h][j] = shell'[u][h][i]
    BY <1>7, RunTakes
  <2>. QED BY <1>2, <1>7, <2>1 DEF Run
<1>8. ASSUME NEW r, Become(t, r), GoesOn(t, r), NEW c \in Commands, Write(t, c), Host(t) \in Hosts, Given(t, c)
      PROVE  Given(u, shell[u][h][i])'
  <2>1. CASE u = t /\ shell'[u][h][i] = c
    BY <1>4, <1>8, <2>1 DEF Given, Spare, Upgrades
  <2>. QED BY <1>2, <1>4, <1>8, <2>1, WriteAdds
<1>9. CASE Upload(t) \/ Uploaded(t) \/ Move(t) \/ Restore(t) \/ (Check(t) /\ ~Disconnect(t))
  <2>1. shell' = shell
    BY <1>9 DEF Upload, Uploaded, Move, Restore, Check
  <2>. QED BY <1>3, <1>4, <1>9, <2>1, Works
<1>10. CASE Free(t)
  <2>1. PICK r : Become(t, r) /\ GoesOn(t, r)
    BY <1>10, Works
  <2>2. Rm(Spare(t)) \in Commands /\ Given(t, Rm(Spare(t))) /\ Host(t) \in Hosts
    BY <1>10, TaskTypes DEF Rm, Commands, Spare, Links, Given, Free, At
  <2>3. shell' = shell \/ Write(t, Rm(Spare(t)))
    BY <1>10 DEF Free
  <2>. QED BY <1>3, <1>4, <1>8, <2>1, <2>2, <2>3
<1>11. CASE Link(t)
  <2>1. PICK r : Become(t, r) /\ GoesOn(t, r)
    BY <1>11, Works
  <2>2. task[t].version \in Versions /\ Host(t) \in Hosts /\ Write(t, Ln(task[t].version))
    BY <1>11, TaskTypes DEF Link, At
  <2>3. Ln(task[t].version) \in Commands /\ Given(t, Ln(task[t].version))
    BY <2>2 DEF Ln, Commands, Given, Upgrades, Versions, None
  <2>. QED BY <1>8, <2>1, <2>2, <2>3
<1>. QED BY <1>5, <1>6, <1>7, <1>9, <1>10, <1>11 DEF Operation, End, MayBe

\* What is not there does not come to be there.
LEMMA HasStays ==
  ASSUME NEW h \in Hosts, Stays(h), NEW v \in MayBe, Has(h, v)'
  PROVE  Has(h, v)
  BY DEF Has, Stays, MayBe

\* A host passed is left as it is.
LEMMA BehindStays ==
  ASSUME TypeOK, NEW t \in Tasks, NEW h \in Hosts, Behind(t, h), Stays(h),
         link'[h] = link[h], shell'[t][h] = shell[t][h], task'[t].version = task[t].version,
         task'[t].goal[h] = task[t].goal[h], task'[t].prev[h] = task[t].prev[h],
         h \in task[t].blind => h \in task'[t].blind
  PROVE  Behind(t, h)'
<1>1. link[h]["latest"] \in MayBe /\ task[t].goal[h] \in MayBe /\ task[t].prev[h] \in MayBe
  BY TaskTypes DEF TypeOK, Links, MayBe
<1>2. /\ Stat(h, "latest")' => Stat(h, "latest")
      /\ Has(h, task[t].goal[h])' => Has(h, task[t].goal[h])
      /\ Has(h, task[t].prev[h])' => Has(h, task[t].prev[h])
  <2>. PICK g, p, l : g = task[t].goal[h] /\ p = task[t].prev[h] /\ l = link[h]["latest"]
    OBVIOUS
  <2>1. (Has(h, g)' => Has(h, g)) /\ (Has(h, p)' => Has(h, p)) /\ (Has(h, l)' => Has(h, l))
    BY <1>1, HasStays
  <2>2. Stat(h, "latest")' = Has(h, l)' /\ Stat(h, "latest") = Has(h, l)
    BY DEF Stat
  <2>3. task'[t].goal[h] = g /\ task'[t].prev[h] = p
    OBVIOUS
  <2>. QED BY <2>1, <2>2, <2>3 DEF Has
<1>3. LnToRun(t, h)' = LnToRun(t, h)
  BY DEF LnToRun
<1>4. Leads(t, h)'
  BY <1>2, <1>3 DEF Behind, Leads, Has
<1>5. OldKept(t, h)'
  BY <1>2 DEF Behind, OldKept, Upgrades, Has
<1>6. LnToRun(t, h)' => LinkFree(t, h)'
  BY <1>2, <1>3 DEF Behind, LinkFree
<1>. QED BY <1>4, <1>5, <1>6 DEF Behind

\* Somebody begins.
LEMMA SeesBegun ==
  ASSUME TypeOK, NEW t \in Tasks, NEW v \in MayBe, Begin(t, v), task'[t].alone
  PROVE  Sees(t)'
<1>1. task'[t].version = v /\ task'[t].host = 1 /\ \A h \in Hosts : task'[t].goal[h] = v
  BY Begins
<1>2. \A h \in Hosts : ~(h < task'[t].host)
  BY <1>1 DEF Hosts
<1>3. task'[t].pc \in {"check", "upload"}
  BY Begins
<1>. QED BY <1>1, <1>2, <1>3 DEF Sees, Around, At, Host, Upgrades

\* The clear removes directories, and changes nothing else.
LEMMA SeesCleared ==
  ASSUME TypeOK, Listed, NEW t \in Tasks, Sees(t), Clear, UNCHANGED <<task, link, shell>>
  PROVE  Sees(t)'
<1>. SUFFICES ASSUME NEW h \in Hosts
              PROVE  (Behind(t, h) => Behind(t, h)') /\ (Around(t, h) => Around(t, h)')
  BY DEF Sees, Upgrades, Host
<1>1. Stays(h)
  BY DirStays
<1>2. Behind(t, h) => Behind(t, h)'
  BY <1>1, BehindStays
<1>3. ASSUME Around(t, h) PROVE Around(t, h)'
  <2>. PICK g, p, l : g = task[t].goal[h] /\ p = task[t].prev[h] /\ l = link[h]["latest"]
    OBVIOUS
  <2>1. g \in MayBe /\ p \in MayBe /\ l \in MayBe
    BY TaskTypes DEF TypeOK, Links, MayBe
  <2>2. (Has(h, g)' => Has(h, g)) /\ (Has(h, p)' => Has(h, p)) /\ (Has(h, l)' => Has(h, l))
    BY <1>1, <2>1, HasStays
  <2>3. Stat(h, "latest")' = Has(h, l)' /\ Stat(h, "latest") = Has(h, l)
    BY DEF Stat
  <2>4. task'[t] = task[t] /\ link'[h] = link[h]
    OBVIOUS
  <2>. QED BY <1>3, <2>2, <2>3, <2>4 DEF Around, At, Upgrades, OldKept, LinkFree, Has
<1>. QED BY <1>2, <1>3

\* The links of a host after its shell ran a command of a task.
LEMMA RunLinks ==
  ASSUME TypeOK, NEW t \in Tasks, NEW g \in Hosts, Run(t, g), Given(t, Head(shell[t][g]))
  PROVE  \/ link'[g]["latest"] = link[g]["latest"] /\ link'[g]["old"] = link[g]["old"]
            /\ (Head(shell[t][g]).cmd = "ln" => link[g]["latest"] # None)
         \/ /\ Head(shell[t][g]).cmd = "rm" /\ link'[g]["latest"] = link[g]["latest"]
            /\ Upgrades(t) /\ link'[g]["old"] = None
         \/ /\ Upgrades(t) /\ link[g]["latest"] = None
            /\ link'[g]["latest"] = task[t].version /\ link'[g]["old"] = link[g]["old"]
<1>1. PICK c : c = Head(shell[t][g])
  OBVIOUS
<1>2. link \in [Hosts -> [Links -> MayBe]] /\ link[g] \in [Links -> MayBe]
  BY DEF TypeOK, MayBe
<1>3. CASE c = Rm(Spare(t))
  <2>1. PICK s \in {"old", "bak"} : s = Spare(t) /\ (s = "old" => Upgrades(t))
    BY DEF Spare
  <2>0. c.cmd = "rm" /\ c.arg = s
    BY <1>3, <2>1 DEF Rm
  <2>2. link' = [link EXCEPT ![g][s] = None] /\ c.cmd = "rm"
    BY <1>1, <2>0 DEF Run
  <2>3. link'[g] = [link[g] EXCEPT ![s] = None]
    BY <1>2, <2>2
  <2>4. link'[g]["latest"] = link[g]["latest"] /\ link'[g]["old"] = IF s = "old" THEN None ELSE link[g]["old"]
    BY <1>2, <2>3 DEF Links
  <2>. QED BY <1>1, <2>1, <2>2, <2>4
<1>4. CASE Upgrades(t) /\ c = Ln(task[t].version)
  <2>1. c.cmd = "ln" /\ c.arg = task[t].version
    BY <1>4 DEF Ln
  <2>2. CASE link[g]["latest"] = None
    <3>1. link' = [link EXCEPT ![g]["latest"] = task[t].version]
      BY <1>1, <2>1, <2>2 DEF Run
    <3>2. link'[g] = [link[g] EXCEPT !["latest"] = task[t].version]
      BY <1>2, <3>1
    <3>. QED BY <1>2, <1>4, <2>2, <3>2 DEF Links
  <2>3. CASE link[g]["latest"] # None
    <3>1. link' = link
      BY <1>1, <2>1, <2>3 DEF Run
    <3>. QED BY <1>1, <2>3, <3>1
  <2>. QED BY <2>2, <2>3
<1>. QED BY <1>1, <1>3, <1>4 DEF Given

\* Which ln are left after a shell ran a command.
LEMMA RunLns ==
  ASSUME TypeOK, NEW t \in Tasks, NEW g \in Hosts, Run(t, g)
  PROVE  /\ LnToRun(t, g)' => LnToRun(t, g)
         /\ LnToRun(t, g) => LnToRun(t, g)' \/ Head(shell[t][g]).cmd = "ln"
         /\ \E j \in 1..Len(shell[t][g]) : shell[t][g][j] = Head(shell[t][g])
         /\ \A h \in Hosts : h # g => shell'[t][h] = shell[t][h] /\ link'[h] = link[h]
<1>1. shell[t][g] \in Seq(Commands) /\ shell[t] \in [Hosts -> Seq(Commands)] /\ shell[t][g] # <<>>
  BY DEF TypeOK, Run
<1>2. shell' = [shell EXCEPT ![t] = [shell[t] EXCEPT ![g] = Tail(shell[t][g])]]
  BY DEF Run
<1>3. shell'[t] = [shell[t] EXCEPT ![g] = Tail(shell[t][g])]
  BY <1>2 DEF TypeOK
<1>4. shell'[t][g] = Tail(shell[t][g])
  BY <1>1, <1>3
<1>5. /\ Len(Tail(shell[t][g])) = Len(shell[t][g]) - 1 /\ Len(shell[t][g]) \in Nat \ {0}
      /\ \A i \in 1..Len(Tail(shell[t][g])) : Tail(shell[t][g])[i] = shell[t][g][i + 1]
      /\ Head(shell[t][g]) = shell[t][g][1]
  BY <1>1, HeadTailProperties, LenProperties, EmptySeq
<1>6. LnToRun(t, g)' => LnToRun(t, g)
  BY RunTakes DEF LnToRun
<1>7. ASSUME LnToRun(t, g), Head(shell[t][g]).cmd # "ln" PROVE LnToRun(t, g)'
  <2>1. PICK i \in 1..Len(shell[t][g]) : shell[t][g][i].cmd = "ln"
    BY <1>7 DEF LnToRun
  <2>2. i # 1
    BY <1>5, <1>7, <2>1
  <2>3. i - 1 \in 1..Len(shell'[t][g]) /\ shell'[t][g][i - 1] = shell[t][g][i]
    BY <1>4, <1>5, <2>1, <2>2
  <2>. QED BY <2>1, <2>3 DEF LnToRun
<1>8. ASSUME NEW h \in Hosts, h # g PROVE shell'[t][h] = shell[t][h] /\ link'[h] = link[h]
  <2>1. shell'[t][h] = shell[t][h]
    BY <1>1, <1>3, <1>8
  <2>2. link' = link \/ (\E l : link' = [link EXCEPT ![g][l] = None])
        \/ \E v : link' = [link EXCEPT ![g]["latest"] = v]
    BY DEF Run
  <2>3. link'[h] = link[h]
    BY <1>8, <2>2 DEF TypeOK
  <2>. QED BY <2>1, <2>3
<1>. QED BY <1>6, <1>7, <1>8, RunTakes

\* The shell of a task that is alone runs a command: an rm frees the new name of latest, an ln
\* finds no latest that leads anywhere else.
LEMMA SeesRun ==
  ASSUME TypeOK, ReachInv, NEW t \in Tasks, Sees(t), NEW g \in Hosts, Run(t, g)
  PROVE  Sees(t)'
<1>0. UNCHANGED <<task, dir>>
  BY DEF Run
<1>. SUFFICES ASSUME NEW h \in Hosts
              PROVE  (Behind(t, h) => Behind(t, h)') /\ (Around(t, h) => Around(t, h)')
  BY <1>0 DEF Sees, Upgrades, Host
<1>1. /\ LnToRun(t, g)' => LnToRun(t, g)
      /\ LnToRun(t, g) => LnToRun(t, g)' \/ Head(shell[t][g]).cmd = "ln"
      /\ h # g => shell'[t][h] = shell[t][h] /\ link'[h] = link[h]
  BY RunLns
<1>2. Given(t, Head(shell[t][g]))
  <2>1. PICK j \in 1..Len(shell[t][g]) : shell[t][g][j] = Head(shell[t][g])
    BY RunLns
  <2>2. Given(t, shell[t][g][j])
    BY DEF ReachInv, ShellsOwn
  <2>. QED BY <2>1, <2>2
<1>3. Stays(h)
  BY <1>0 DEF Stays
<1>4. CASE h # g
  <2>1. Behind(t, h) => Behind(t, h)'
    BY <1>0, <1>1, <1>3, <1>4, BehindStays
  <2>2. Around(t, h) => Around(t, h)'
    BY <1>0, <1>1, <1>4 DEF Around, At, Upgrades, OldKept, LinkFree, Stat, Has
  <2>. QED BY <2>1, <2>2
<1>5. CASE h = g
  <2>1. \/ link'[g]["latest"] = link[g]["latest"] /\ link'[g]["old"] = link[g]["old"]
           /\ (Head(shell[t][g]).cmd = "ln" => link[g]["latest"] # None)
        \/ /\ Head(shell[t][g]).cmd = "rm" /\ link'[g]["latest"] = link[g]["latest"]
           /\ Upgrades(t) /\ link'[g]["old"] = None
        \/ /\ Upgrades(t) /\ link[g]["latest"] = None
           /\ link'[g]["latest"] = task[t].version /\ link'[g]["old"] = link[g]["old"]
    BY <1>2, RunLinks
  <2>2. OldKept(t, g) => OldKept(t, g)'
    BY <1>0, <2>1 DEF OldKept, Has, Upgrades
  <2>3. LinkFree(t, g) => LinkFree(t, g)'
    BY <1>0, <2>1 DEF LinkFree, Stat, Has
  <2>4. ASSUME Behind(t, g) PROVE Leads(t, g)'
    <3>1. task[t].goal[g] # None /\ (LnToRun(t, g) => LinkFree(t, g)) /\ Leads(t, g)
      BY <2>4 DEF Behind, Leads
    <3>2. Upgrades(t) => task[t].goal[g] = task[t].version
      BY DEF Sees
    <3>3. CASE link'[g]["latest"] = link[g]["latest"]
      <4>1. CASE LnToRun(t, g) /\ ~LnToRun(t, g)'
        <5>1. Head(shell[t][g]).cmd = "ln" /\ LinkFree(t, g)
          BY <1>1, <3>1, <4>1
        <5>2. Upgrades(t)
          BY <1>2, <5>1 DEF Given, Rm
        <5>3. link[g]["latest"] # None
          BY <2>1, <3>2, <5>1, <5>2, <3>3, <3>1
        <5>. QED BY <1>0, <3>1, <3>2, <3>3, <5>1, <5>2, <5>3 DEF LinkFree, Leads, Stat, Has
      <4>2. CASE LnToRun(t, g)' \/ ~LnToRun(t, g)
        BY <1>0, <3>1, <3>3, <4>2 DEF Leads, Stat, Has
      <4>. QED BY <4>1, <4>2
    <3>4. CASE Upgrades(t) /\ link'[g]["latest"] = task[t].version
      BY <1>0, <3>1, <3>2, <3>4 DEF Leads
    <3>. QED BY <2>1, <3>3, <3>4
  <2>5. Behind(t, g) => Behind(t, g)'
    BY <1>1, <2>2, <2>3, <2>4 DEF Behind
  <2>6. ASSUME Around(t, g) PROVE Around(t, g)'
    <3>1. At(t, "move") /\ Upgrades(t) /\ Has(g, task[t].prev[g]) => link'[g]["latest"] = task[t].prev[g]
      BY <2>1, <2>6 DEF Around, Has
    <3>2. At(t, "link") => OldKept(t, g)' /\ LinkFree(t, g)'
      BY <2>2, <2>3, <2>6 DEF Around
    <3>3. task[t].pc \in {"free", "move", "restore"} /\ ~Upgrades(t) =>
            task[t].goal[g] # None /\ (link'[g]["old"] = task[t].goal[g] \/ ~Has(g, task[t].goal[g]))
      BY <2>1, <2>6 DEF Around
    <3>. QED BY <1>0, <3>1, <3>2, <3>3 DEF Around, At, Upgrades, Has
  <2>. QED BY <1>5, <2>5, <2>6
<1>. QED BY <1>4, <1>5

\* The call of a task leaves the hosts alone that it is not at.
LEMMA BehindGoesOn ==
  ASSUME TypeOK, Listed, NEW t \in Tasks, Operation(t), NEW h \in Hosts, h # Host(t), Behind(t, h),
         Upload(t) \/ Uploaded(t) \/ (Check(t) /\ ~Disconnect(t)) \/ Free(t) \/ Move(t) \/ Link(t) \/ Restore(t)
  PROVE  Behind(t, h)'
<1>1. task[t] \in Task /\ task \in [Tasks -> Task] /\ Host(t) \in Hosts
  <2>1. ~At(t, "done")
    BY DEF Upload, Uploaded, Check, Free, Move, Link, Restore, At
  <2>. QED BY <2>1, TaskTypes DEF At, TypeOK
<1>2. Stays(h)
  BY DirStays
<1>3. link'[h] = link[h]
  <2>1. link' = link \/ \E a, b : Rename(Host(t), a, b)
    BY DEF Upload, Uploaded, Check, Free, Move, Link, Restore
  <2>. QED BY <2>1 DEF Rename, TypeOK
<1>4. shell'[t][h] = shell[t][h]
  <2>1. shell' = shell \/ \E c : Write(t, c)
    BY DEF Upload, Uploaded, Check, Free, Move, Link, Restore
  <2>2. ASSUME NEW c, Write(t, c) PROVE shell'[t][h] = shell[t][h]
    <3>1. shell' = [shell EXCEPT ![t] = [shell[t] EXCEPT ![Host(t)] = Append(shell[t][Host(t)], c)]]
      BY <2>2 DEF Write
    <3>2. shell'[t] = [shell[t] EXCEPT ![Host(t)] = Append(shell[t][Host(t)], c)]
      BY <3>1 DEF TypeOK
    <3>. QED BY <3>2 DEF TypeOK
  <2>. QED BY <2>1, <2>2
<1>5. ASSUME NEW r, Become(t, r) PROVE task'[t] = r
  BY <1>1, <1>5 DEF Become
<1>6. task'[t].version = task[t].version
  BY <1>5, Works DEF GoesOn
<1>7. /\ task'[t].goal[h] = task[t].goal[h] /\ task'[t].prev[h] = task[t].prev[h]
      /\ h \in task[t].blind => h \in task'[t].blind
  <2>1. CASE \E p : Goto(t, p)
    <3>1. PICK p : Become(t, [task[t] EXCEPT !.pc = p])
      BY <2>1 DEF Goto
    <3>2. task'[t] = [task[t] EXCEPT !.pc = p]
      BY <1>5, <3>1
    <3>. QED BY <1>1, <3>2, Aims
  <2>2. CASE Check(t) /\ ~Disconnect(t)
    <3>1. PICK g : Become(t, [task[t] EXCEPT !.pc = "free", !.goal[Host(t)] = g])
      BY <2>2 DEF Check
    <3>2. task'[t] = [task[t] EXCEPT !.pc = "free", !.goal[Host(t)] = g]
      BY <1>5, <3>1
    <3>3. task'[t].prev = task[t].prev /\ task'[t].goal[h] = task[t].goal[h] /\ task'[t].blind = task[t].blind
      BY <1>1, <3>2, Aims
    <3>. QED BY <3>3
  <2>3. CASE Free(t)
    <3>1. PICK g : Become(t, [task[t] EXCEPT !.pc = "move", !.prev[Host(t)] = g])
      BY <2>3 DEF Free
    <3>2. task'[t] = [task[t] EXCEPT !.pc = "move", !.prev[Host(t)] = g]
      BY <1>5, <3>1
    <3>3. task'[t].goal = task[t].goal /\ task'[t].prev[h] = task[t].prev[h] /\ task'[t].blind = task[t].blind
      BY <1>1, <3>2, Aims
    <3>. QED BY <3>3
  <2>4. CASE Link(t)
    <3>1. Become(t, Passed(task[t]))
      BY <2>4 DEF Link
    <3>. QED BY <1>1, <1>5, <3>1, PassedKeeps
  <2>5. CASE Move(t) \/ Restore(t)
    BY <2>5, MoveWays, RestoreWays
  <2>. QED BY <2>1, <2>2, <2>3, <2>4, <2>5 DEF Upload, Uploaded
<1>. QED BY <1>2, <1>3, <1>4, <1>6, <1>7, BehindStays

\* A task goes on at its host, or to the next.
LEMMA SeesGoesOn ==
  ASSUME TypeOK, ReachInv, NEW t \in Tasks, Operation(t), task[t].alone, Sees(t),
         Upload(t) \/ Uploaded(t) \/ (Check(t) /\ ~Disconnect(t)) \/ Free(t) \/ Move(t) \/ Link(t) \/ Restore(t)
  PROVE  Sees(t)'
<1>. PICK k : k = Host(t)
  OBVIOUS
<1>0. task[t] \in Task /\ task \in [Tasks -> Task] /\ k \in Hosts /\ task[t].host = k
  <2>1. ~At(t, "done")
    BY DEF Upload, Uploaded, Check, Free, Move, Link, Restore, At
  <2>. QED BY <2>1, TaskTypes DEF At, TypeOK, Host
<1>1. Around(t, k) /\ (Upgrades(t) => \A h \in Hosts : task[t].goal[h] = task[t].version)
  BY <1>0 DEF Sees
<1>2. ASSUME NEW r, Become(t, r) PROVE task'[t] = r
  BY <1>0, <1>2 DEF Become
<1>3. \A h \in Hosts : h < k => Behind(t, h)'
  <2>1. ASSUME NEW h \in Hosts, h < k PROVE Behind(t, h)'
    <3>1. h # k /\ Behind(t, h)
      BY <1>0, <2>1 DEF Sees, Hosts
    <3>. QED BY <3>1, BehindGoesOn DEF ReachInv
  <2>. QED BY <2>1
<1>4. link \in [Hosts -> [Links -> MayBe]] /\ link[k] \in [Links -> MayBe]
  BY <1>0 DEF TypeOK, MayBe
<1>5. ASSUME task'[t].host = k, Around(t, k)',
             Upgrades(t)' => \A h \in Hosts : task'[t].goal[h] = task'[t].version
      PROVE  Sees(t)'
  BY <1>3, <1>5 DEF Sees, Host
<1>6. ASSUME task'[t].host = k + 1, task'[t].version = task[t].version, task'[t].goal = task[t].goal,
             task'[t].pc \in {"done", "check", "upload"}, Behind(t, k)'
      PROVE  Sees(t)'
  <2>1. /\ task'[t].host = k + 1 /\ task'[t].version = task[t].version /\ task'[t].goal = task[t].goal
        /\ task'[t].pc \in {"done", "check", "upload"}
    BY <1>6
  <2>2. \A h \in Hosts : h < k + 1 => h < k \/ h = k
    BY <1>0 DEF Hosts
  <2>3. \A h \in Hosts : h < Host(t)' => Behind(t, h)'
    BY <1>3, <1>6, <2>1, <2>2 DEF Host
  <2>4. \A h \in Hosts : Around(t, h)'
    BY <2>1 DEF Around, At
  <2>. QED BY <1>1, <2>1, <2>3, <2>4 DEF Sees, Upgrades
<1>7. ASSUME NEW p, Goto(t, p)
      PROVE  /\ task'[t].pc = p /\ task'[t].host = k /\ task'[t].version = task[t].version
             /\ task'[t].goal = task[t].goal /\ task'[t].prev = task[t].prev
  <2>1. task'[t] = [task[t] EXCEPT !.pc = p]
    BY <1>2, <1>7 DEF Goto
  <2>. QED BY <1>0, <2>1, Keeps, Aims
<1>8. CASE Upload(t) \/ Uploaded(t)
  <2>1. PICK p \in {"put", "free"} : Goto(t, p)
    BY <1>8 DEF Upload, Uploaded
  <2>2. Upgrades(t)
    BY <1>8, EachTask DEF Upload, Uploaded, At
  <2>3. Around(t, k)'
    BY <1>7, <2>1, <2>2 DEF Around, At, Upgrades
  <2>. QED BY <1>1, <1>5, <1>7, <2>1, <2>2, <2>3
<1>9. CASE Check(t) /\ ~Disconnect(t)
  <2>1. Become(t, [task[t] EXCEPT !.pc = "free", !.goal[k] = link[k]["old"]]) /\ Stat(k, "old")
        /\ UNCHANGED <<link, dir>>
    <3>1. PICK g : /\ g = (IF task[t].alone THEN link[k]["old"] ELSE None)
                   /\ Become(t, [task[t] EXCEPT !.pc = "free", !.goal[k] = g]) /\ Stat(k, "old")
                   /\ UNCHANGED <<link, dir>>
      BY <1>9 DEF Check
    <3>. QED BY <3>1
  <2>2. task'[t] = [task[t] EXCEPT !.pc = "free", !.goal[k] = link[k]["old"]]
    BY <1>2, <2>1
  <2>3. /\ task'[t].pc = "free" /\ task'[t].host = k /\ task'[t].version = task[t].version
        /\ task'[t].goal[k] = link[k]["old"]
    <3>1. task'[t].pc = "free" /\ task'[t].host = k /\ task'[t].version = task[t].version
      BY <1>0, <2>2, Keeps
    <3>. PICK g : g = link[k]["old"]
      OBVIOUS
    <3>2. [task[t] EXCEPT !.pc = "free", !.goal[k] = g].goal[k] = g
      <4>1. [task[t] EXCEPT !.pc = "free", !.goal[k] = g].goal = [task[t].goal EXCEPT ![k] = g]
        BY <1>0 DEF Task
      <4>2. task[t].goal \in [Hosts -> MayBe]
        BY <1>0 DEF Task, MayBe
      <4>. QED BY <1>0, <4>1, <4>2
    <3>. QED BY <2>2, <3>1, <3>2
  <2>4. ~Upgrades(t) /\ link[k]["old"] # None
    BY <1>9, <2>1, EachTask DEF Check, At, Stat, Has
  <2>5. Around(t, k)'
    BY <2>1, <2>3, <2>4 DEF Around, At, Upgrades
  <2>. QED BY <1>5, <2>3, <2>4, <2>5 DEF Upgrades
<1>10. CASE Free(t)
  <2>1. PICK p : /\ p = (IF task[t].alone /\ Upgrades(t) /\ Stat(k, "latest") THEN link[k]["latest"] ELSE None)
                 /\ Become(t, [task[t] EXCEPT !.pc = "move", !.prev[k] = p])
    BY <1>10 DEF Free
  <2>2. task'[t] = [task[t] EXCEPT !.pc = "move", !.prev[k] = p]
    BY <1>2, <2>1
  <2>3. /\ task'[t].pc = "move" /\ task'[t].host = k /\ task'[t].version = task[t].version
        /\ task'[t].goal = task[t].goal /\ task'[t].prev[k] = p
    <3>1. task'[t].pc = "move" /\ task'[t].host = k /\ task'[t].version = task[t].version
      BY <1>0, <2>2, Keeps
    <3>2. [task[t] EXCEPT !.pc = "move", !.prev[k] = p].goal = task[t].goal
      BY <1>0 DEF Task
    <3>3. [task[t] EXCEPT !.pc = "move", !.prev[k] = p].prev[k] = p
      <4>1. [task[t] EXCEPT !.pc = "move", !.prev[k] = p].prev = [task[t].prev EXCEPT ![k] = p]
        BY <1>0 DEF Task
      <4>2. task[t].prev \in [Hosts -> MayBe]
        BY <1>0 DEF Task, MayBe
      <4>. QED BY <1>0, <4>1, <4>2
    <3>. QED BY <2>2, <3>1, <3>2, <3>3
  <2>4. UNCHANGED <<dir, link>> /\ task[t].pc = "free"
    BY <1>10 DEF Free, At
  <2>5. p # None => p = link[k]["latest"]
    BY <2>1
  <2>6. Around(t, k)'
    BY <1>1, <2>3, <2>4, <2>5 DEF Around, At, Upgrades, Has
  <2>. QED BY <1>1, <1>5, <2>3, <2>6 DEF Upgrades
<1>11. CASE Move(t)
  <2>1. task[t].pc = "move" /\ dir' = dir
    BY <1>11, MoveWays DEF At
  <2>2. /\ task'[t].pc = After(t) /\ task'[t].host = k /\ task'[t].version = task[t].version
        /\ task'[t].goal = task[t].goal /\ task'[t].prev = task[t].prev
    BY <1>11, MoveWays
  <2>3. \/ Stat(k, "latest") /\ Rename(k, "latest", Spare(t))
        \/ link' = link /\ ~Stat(k, "latest")
        \/ link' = link /\ k \in task'[t].blind
    BY <1>11, MoveWays DEF Unseen
  <2>4. ASSUME Rename(k, "latest", Spare(t))
        PROVE  /\ link'[k]["latest"] = None
               /\ link'[k]["old"] = IF Upgrades(t) THEN link[k]["latest"] ELSE link[k]["old"]
    <3>1. PICK s \in {"old", "bak"} : s = Spare(t) /\ (s = "old" <=> Upgrades(t))
      BY DEF Spare
    <3>2. link'[k] = [link[k] EXCEPT !["latest"] = None, ![s] = link[k]["latest"]]
      BY <1>0, <1>4, <2>4, <3>1 DEF Rename
    <3>. QED BY <1>4, <3>1, <3>2 DEF Links
  <2>5. CASE Upgrades(t)
    <3>1. LinkFree(t, k)'
      BY <2>1, <2>3, <2>4 DEF LinkFree, Stat, Has
    <3>2. OldKept(t, k)'
      <4>1. ASSUME Has(k, task[t].prev[k]), k \notin task'[t].blind PROVE link'[k]["old"] = task[t].prev[k]
        <5>1. link[k]["latest"] = task[t].prev[k]
          BY <1>1, <2>1, <2>5, <4>1 DEF Around, At
        <5>. QED BY <2>3, <2>4, <2>5, <4>1, <5>1 DEF Stat
      <4>. QED BY <2>1, <2>2, <4>1 DEF OldKept, Has
    <3>3. Around(t, k)'
      BY <2>2, <2>5, <3>1, <3>2 DEF Around, At, After, Upgrades
    <3>. QED BY <1>1, <1>5, <2>2, <2>5, <3>3
  <2>6. CASE ~Upgrades(t)
    <3>1. link'[k]["old"] = link[k]["old"]
      BY <2>3, <2>4, <2>6
    <3>2. Around(t, k)'
      BY <1>1, <2>1, <2>2, <2>6, <3>1 DEF Around, At, After, Upgrades, Has
    <3>. QED BY <1>5, <2>2, <2>6, <3>2 DEF Upgrades
  <2>. QED BY <2>5, <2>6
<1>12. CASE Link(t)
  <2>1. task[t].pc = "link" /\ UNCHANGED <<dir, link>> /\ task'[t] = Passed(task[t])
        /\ Write(t, Ln(task[t].version))
    BY <1>2, <1>12 DEF Link, At
  <2>2. /\ task'[t].version = task[t].version /\ task'[t].goal = task[t].goal
        /\ task'[t].prev = task[t].prev /\ task'[t].blind = task[t].blind
        /\ task'[t].host = k + 1 /\ task'[t].pc \in {"done", "check", "upload"}
    BY <1>0, <2>1, PassedKeeps
  <2>3. LnToRun(t, k)'
    <3>1. shell[t] \in [Hosts -> Seq(Commands)] /\ shell[t][k] \in Seq(Commands)
      BY <1>0 DEF TypeOK
    <3>2. shell' = [shell EXCEPT ![t] = [shell[t] EXCEPT ![k] = Append(shell[t][k], Ln(task[t].version))]]
      BY <2>1 DEF Write
    <3>3. shell'[t][k] = Append(shell[t][k], Ln(task[t].version))
      BY <1>0, <3>1, <3>2 DEF TypeOK
    <3>4. /\ Len(shell'[t][k]) = Len(shell[t][k]) + 1 /\ Len(shell[t][k]) \in Nat
          /\ shell'[t][k][Len(shell[t][k]) + 1] = Ln(task[t].version)
      BY <3>1, <3>3, AppendProperties, LenProperties
    <3>. QED BY <3>4 DEF LnToRun, Ln
  <2>4. Upgrades(t) /\ task[t].goal[k] # None
    BY <1>0, <1>1, <2>1, EachTask DEF Upgrades
  <2>5. OldKept(t, k)' /\ LinkFree(t, k)'
    BY <1>1, <2>1, <2>2 DEF Around, At, OldKept, LinkFree, Stat, Has, Upgrades
  <2>6. Leads(t, k)'
    BY <2>2, <2>3, <2>4 DEF Leads
  <2>. QED BY <1>6, <2>2, <2>3, <2>5, <2>6 DEF Behind
<1>13. CASE Restore(t)
  <2>1. task[t].pc = "restore" /\ UNCHANGED <<dir, shell>>
    BY <1>13, RestoreWays DEF At
  <2>2. /\ task'[t].version = task[t].version /\ task'[t].goal = task[t].goal
        /\ task'[t].host = k + 1 /\ task'[t].pc \in {"done", "check", "upload"}
    BY <1>13, RestoreWays
  <2>3. ~Upgrades(t) /\ task[t].goal[k] # None
        /\ (link[k]["old"] = task[t].goal[k] \/ ~Has(k, task[t].goal[k]))
    BY <1>1, <2>1, EachTask DEF Around
  <2>4. ASSUME Stat(k, "old"), k \notin task'[t].blind PROVE link'[k]["latest"] = link[k]["old"]
    <3>1. Rename(k, "old", "latest")
      BY <1>13, <2>4, RestoreWays DEF Unseen
    <3>2. link'[k] = [link[k] EXCEPT !["old"] = None, !["latest"] = link[k]["old"]]
      BY <1>0, <1>4, <3>1 DEF Rename
    <3>. QED BY <1>4, <3>2 DEF Links
  <2>5. link'[k]["latest"] = task[t].goal[k] \/ ~Has(k, task[t].goal[k]) \/ k \in task'[t].blind
    BY <2>3, <2>4 DEF Stat
  <2>6. Leads(t, k)'
    BY <2>1, <2>2, <2>3, <2>5 DEF Leads, Has
  <2>7. ~LnToRun(t, k)'
    <3>1. SUFFICES ASSUME NEW i \in 1..Len(shell[t][k]), shell[t][k][i].cmd = "ln" PROVE FALSE
      BY <2>1 DEF LnToRun
    <3>2. Given(t, shell[t][k][i])
      BY <1>0 DEF ReachInv, ShellsOwn
    <3>. QED BY <2>3, <3>1, <3>2 DEF Given, Rm
  <2>. QED BY <1>6, <2>2, <2>3, <2>6, <2>7 DEF Behind, OldKept, Upgrades
<1>. QED BY <1>8, <1>9, <1>10, <1>11, <1>12, <1>13

\* Whatever a step does, what a task alone at work sees and relies on goes on to hold.
LEMMA ReachStep ==
  ASSUME TypeOK, ReachInv, [Next]_vars
  PROVE  ReachInv'
<1>1. Alone' /\ LinksBehind' /\ ShellsOwn' /\ Listed'
  BY AloneStep, LinksBehindStep, ShellsOwnStep, ListedStep DEF ReachInv
<1>2. ASSUME NEW t \in Tasks, task'[t].pc # "idle", task'[t].alone PROVE Sees(t)'
  <2>1. ASSUME ~At(t, "idle"), task[t].alone PROVE Sees(t)
    BY <2>1 DEF ReachInv, Working
  <2>2. CASE UNCHANGED vars
    BY <1>2, <2>1, <2>2 DEF vars, Sees, Behind, Around, Leads, OldKept, LinkFree, LnToRun, Stat, Has,
                            Upgrades, At, Host
  <2>3. CASE \E v \in MayBe : Begin(t, v)
    BY <1>2, <2>3, SeesBegun
  <2>4. ASSUME Sees(t), task[t].alone, NEW r, Become(t, r), GoesOn(t, r), Operation(t) PROVE Sees(t)'
    <3>1. r = task'[t]
      BY <2>4 DEF Become, TypeOK
    <3>2. ~Disconnect(t)
      BY <1>2, NoTaskFits DEF Disconnect, Become, TypeOK
    <3>3. CASE \E g \in Hosts : Run(t, g)
      BY <2>4, <3>3, SeesRun
    <3>4. CASE \E v \in MayBe : Begin(t, v)
      BY <1>2, <3>4, SeesBegun
    <3>. QED BY <2>4, <3>2, <3>3, <3>4, SeesGoesOn DEF Operation, End, MayBe
  <2>5. CASE Next
    BY <1>2, <2>1, <2>3, <2>4, <2>5, AloneActs, SeesRun, SeesCleared DEF ReachInv
  <2>. QED BY <2>2, <2>5
<1>. QED BY <1>1, <1>2 DEF ReachInv, Working, At

\* Nobody is at work at first, and no shell has a command.
LEMMA ReachInit == Init => ReachInv
<1>. SUFFICES ASSUME Init PROVE ReachInv
  OBVIOUS
<1>1. \A t \in Tasks : At(t, "idle") /\ \A h \in Hosts : Len(shell[t][h]) = 0
  BY NoTaskFits, EmptySeq DEF Init, At
<1>2. \A h \in Hosts : todo[h] = {}
  BY DEF Init
<1>. QED BY <1>1, <1>2 DEF ReachInv, Alone, LinksBehind, ShellsOwn, Listed, Working

\* For any number of hosts, versions and tasks: a task that is alone at work leaves latest of
\* every host it has passed where it wants it, unless the shell has yet to come to the ln, the
\* clear took a version away, or a link was not seen at that host.
THEOREM HostsReached == Spec => []Reached
<1>1. TypeOK /\ ReachInv => Reached
  <2>1. ASSUME TypeOK, ReachInv, NEW t \in Working, task[t].alone, NEW h \in 1..Host(t) - 1
        PROVE  Leads(t, h) /\ DOMAIN shell[t][h] = 1..Len(shell[t][h])
    <3>0. t \in Tasks
      BY DEF Working
    <3>1. t \in Tasks /\ task[t].host \in 1..HostCount + 1
      <4>1. task[t] \in Task
        BY <2>1, <3>0, TaskTypes
      <4>. QED BY <3>0, <4>1 DEF Task
    <3>2. h \in Hosts /\ h < Host(t)
      BY <2>1, <3>1, ProxyMachineAssumption DEF Hosts, Host
    <3>3. Leads(t, h)
      BY <2>1, <3>1, <3>2 DEF ReachInv, Sees, Behind
    <3>4. shell[t][h] \in Seq(Commands)
      <4>1. shell[t] \in [Hosts -> Seq(Commands)]
        BY <2>1, <3>0 DEF TypeOK
      <4>. QED BY <3>2, <4>1
    <3>. QED BY <3>3, <3>4, LenProperties
  <2>. QED BY <2>1 DEF Reached, Leads, LnToRun
<1>. QED BY <1>1, TypeInit, TypeNext, ReachInit, ReachStep, PTL DEF Spec

\* For any number of hosts, versions and tasks: an upgrade that is alone at work and sees latest
\* leaves as old what that led to, or nothing, so that a rollback goes back one version and never
\* further.
THEOREM OldStaysPrevious == Spec => []OldIsPrevious
<1>1. TypeOK /\ ReachInv => OldIsPrevious
  <2>1. ASSUME TypeOK, ReachInv, NEW t \in Working, task[t].alone, NEW h \in Hosts,
               Host(t) > h \/ (Host(t) = h /\ At(t, "link"))
        PROVE  OldKept(t, h)
    <3>0. t \in Tasks
      BY DEF Working
    <3>1. t \in Tasks /\ task[t].host \in 1..HostCount + 1
      <4>1. task[t] \in Task
        BY <2>1, <3>0, TaskTypes
      <4>. QED BY <3>0, <4>1 DEF Task
    <3>2. h < Host(t) \/ (h = Host(t) /\ At(t, "link"))
      BY <2>1, <3>1 DEF Hosts, Host
    <3>. QED BY <2>1, <3>1, <3>2 DEF ReachInv, Sees, Behind, Around
  <2>. QED BY <2>1 DEF OldIsPrevious, OldKept
<1>. QED BY <1>1, TypeInit, TypeNext, ReachInit, ReachStep, PTL DEF Spec
=============================================================================
