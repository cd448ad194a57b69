----------------------------- MODULE ProxyMachine -----------------------------
(***************************************************************************)
(* The pages of a project on the hosts of a ProxyMachine (SshStategy): on  *)
(* each host a directory for each version, and the links latest, old and   *)
(* bak.  Tasks upgrade and roll back host after host, over sftp and a      *)
(* shell; the hourly clear removes the oldest directories.  Nothing holds  *)
(* a lock, and a task may end at any call.  An upgrade first pulls its     *)
(* files into a local directory that all tasks of the version share.       *)
(*                                                                         *)
(* sftp calls take effect when they are made.  A command is only written   *)
(* to the shell: the loop that waits for a prompt is content with the one  *)
(* of the login, so the task goes on while the command is still to run,    *)
(* and one that has not run when the sessions are closed never does.  A    *)
(* stat that fails is read as "not there", and the task goes on.           *)
(***************************************************************************)
EXTENDS Naturals, Sequences, FiniteSets

CONSTANTS
    Tasks,                  \* threads of the executor
    HostCount,              \* hosts of the machine
    MaxVersion,             \* bound: versions, in the order of _BY_REVEISION
    Served,                 \* the versions served before, one after the other: 1 to Served
    MaxHistory,             \* versions the clear keeps
    MaxTasks,               \* bound: operations asked for
    MaxClears               \* bound: runs of the clear

ASSUME ProxyMachineAssumption ==
    /\ HostCount \in Nat \ {0} /\ MaxVersion \in Nat \ {0} /\ MaxHistory \in Nat \ {0}
    /\ Served \in 0..MaxVersion
    /\ MaxTasks \in Nat /\ MaxClears \in Nat

Hosts == 1..HostCount
Versions == 1..MaxVersion
None == 0
Links == {"latest", "old", "bak"}

VARIABLES
    dir,                    \* of a version at a host
    link,                   \* the version a link leads to
    task,
    shell,                  \* of a task at a host: the commands written and not run
    todo,                   \* at a host: the versions the clear has still to remove
    clear,                  \* the host the clear comes to, None: it does not run
    asked, clears,
    inPlace                 \* history: versions put at a host when they were linked there,
                            \* another task was at work, or their local files were pulled
                            \* again, since they were last put whole

vars == <<dir, link, task, shell, todo, clear, asked, clears, inPlace>>
clearing == <<todo, clear, clears>>

\* torn: files of it were removed while others were put
Dir == {"none", "part", "torn", "whole"}
Commands == [cmd: {"rm"}, arg: Links] \union [cmd: {"ln"}, arg: Versions]
Rm(l) == [cmd |-> "rm", arg |-> l]
Ln(v) == [cmd |-> "ln", arg |-> v]

Task == [pc: {"idle", "upload", "put", "check", "free", "move", "link", "restore", "done"},
         version: Versions \union {None},       \* None: a rollback
         host: 1..HostCount + 1,
         alone: BOOLEAN,                        \* history: no other task since its start
         \* histories, kept while it is alone:
         blind: SUBSET Hosts,                       \* where a link was not seen, and not moved
         goal: [Hosts -> Versions \union {None}],   \* what latest is to lead to
         prev: [Hosts -> Versions \union {None}]]   \* what latest led to before
NoTask == [pc |-> "idle", version |-> None, host |-> 1, alone |-> TRUE,
           blind |-> {}, goal |-> [h \in Hosts |-> None], prev |-> [h \in Hosts |-> None]]

-----------------------------------------------------------------------------
At(t, l) == task[t].pc = l
Become(t, r) == task' = [task EXCEPT ![t] = r]
Goto(t, l) == Become(t, [task[t] EXCEPT !.pc = l])
Host(t) == task[t].host
Upgrades(t) == task[t].version # None
Working == {t \in Tasks : ~At(t, "idle")}

\* stat follows a link: one that leads nowhere is not there.
Has(h, v) == v # None /\ dir[h][v] # "none"
Stat(h, l) == Has(h, link[h][l])
\* The host, if the link is there and the stat of it fails: any exception is "not there".
Unseen(t, l) == IF task[t].alone /\ Stat(Host(t), l) THEN {Host(t)} ELSE {}
Linked(h, v) == \E l \in Links : link[h][l] = v

First(v) == IF v = None THEN "check" ELSE "upload"
\* Slip: the end is missed.
PassedOver(r) == [r EXCEPT !.host = @ + 1, !.pc = First(r.version)]

\* The next host, or the end.
Passed(r) == [r EXCEPT !.host = @ + 1, !.pc = IF r.host = HostCount THEN "done" ELSE First(r.version)]

\* rename replaces what has the new name.
Rename(h, a, b) == link' = [link EXCEPT ![h] = [@ EXCEPT ![a] = None, ![b] = link[h][a]]]
Write(t, c) == shell' = [shell EXCEPT ![t][Host(t)] = Append(@, c)]
Disconnect(t) ==
    /\ Become(t, NoTask)
    /\ shell' = [shell EXCEPT ![t] = [h \in Hosts |-> <<>>]]

-----------------------------------------------------------------------------
(* A task *)

\* A task when another begins.
Joined(r) == [NoTask EXCEPT !.pc = r.pc, !.version = r.version, !.host = r.host, !.alone = r.pc = "idle"]

\* Its files are pulled and all hosts connected to before it changes any.
Begin(t, v) ==
    /\ At(t, "idle") /\ asked < MaxTasks
    /\ asked' = asked + 1
    /\ task' = [u \in Tasks |->
         IF u = t THEN [NoTask EXCEPT !.pc = First(v), !.version = v, !.alone = Working = {},
                                      !.goal = [h \in Hosts |-> IF Working = {} THEN v ELSE None]]
                  ELSE Joined(task[u])]
    /\ UNCHANGED <<dir, link, shell, clearing, inPlace>>

\* The directory is made if need be, its files written over those it has.
Upload(t) ==
    LET h == Host(t)  v == task[t].version IN
    /\ At(t, "upload")
    /\ dir' = [dir EXCEPT ![h][v] = "part"]
    /\ inPlace' = IF Linked(h, v) \/ ~task[t].alone THEN [inPlace EXCEPT ![h] = @ \union {v}] ELSE inPlace
    /\ Goto(t, "put")
    /\ UNCHANGED <<link, shell, clearing, asked>>

\* Slip: the version is linked before its files are there.
UploadedEarly(t) ==
    /\ At(t, "put")
    /\ Goto(t, "free")
    /\ UNCHANGED <<dir, link, shell, clearing, asked, inPlace>>

\* The last file is put; the directory is whole if none was removed, nor another task is at it.
\* But a part of a file is put if the local one was just written again: all tasks of the version,
\* those of other machines, too, pull it into the same place, at any time.  (The directory may
\* be gone: only the next file could not be put.)
Uploaded(t) ==
    LET h == Host(t)
        v == task[t].version
        other == \E u \in Tasks \ {t} : At(u, "put") /\ Host(u) = h /\ task[u].version = v
    IN  /\ At(t, "put")
        /\ \/ /\ dir[h][v] = "part" /\ ~other
              /\ dir' = [dir EXCEPT ![h][v] = "whole"]
              /\ inPlace' = [inPlace EXCEPT ![h] = @ \ {v}]
           \/ /\ dir[h][v] = "part"
              /\ inPlace' = [inPlace EXCEPT ![h] = @ \union {v}]
              /\ UNCHANGED dir
           \/ /\ dir[h][v] # "part"
              /\ UNCHANGED <<dir, inPlace>>
        /\ Goto(t, "free")
        /\ UNCHANGED <<link, shell, clearing, asked>>

\* Slip: a rollback goes back without looking for old.
CheckNothing(t) ==
    LET h == Host(t) IN
    /\ At(t, "check")
    /\ Become(t, [task[t] EXCEPT !.pc = "free", !.goal[h] = IF task[t].alone THEN link[h]["old"] ELSE None])
    /\ UNCHANGED <<dir, link, shell, clearing, asked, inPlace>>

\* A rollback ends at a host where it sees no old.
Check(t) ==
    LET h == Host(t) IN
    /\ At(t, "check")
    /\ \/ /\ Stat(h, "old")
          /\ Become(t, [task[t] EXCEPT !.pc = "free",
               !.goal[h] = IF task[t].alone THEN link[h]["old"] ELSE None])
          /\ UNCHANGED shell
       \/ Disconnect(t)
    /\ UNCHANGED <<dir, link, clearing, asked, inPlace>>

\* What latest is renamed to.
Spare(t) == IF Upgrades(t) THEN "old" ELSE "bak"

\* rmdirIfExists: of the link only, by the shell.
Free(t) ==
    /\ At(t, "free")
    /\ (Stat(Host(t), Spare(t)) /\ Write(t, Rm(Spare(t)))) \/ UNCHANGED shell
    /\ Become(t, [task[t] EXCEPT !.pc = "move",
         !.prev[Host(t)] = IF task[t].alone /\ Upgrades(t) /\ Stat(Host(t), "latest")
                             THEN link[Host(t)]["latest"] ELSE None])
    /\ UNCHANGED <<dir, link, clearing, asked, inPlace>>

After(t) == IF Upgrades(t) THEN "link" ELSE "restore"

\* Slip: latest is moved only if nothing has the new name.
MoveIfFree(t) ==
    LET h == Host(t) IN
    /\ At(t, "move")
    /\ IF Stat(h, "latest") /\ ~Stat(h, Spare(t)) THEN Rename(h, "latest", Spare(t)) ELSE UNCHANGED link
    /\ Goto(t, After(t))
    /\ UNCHANGED <<dir, shell, clearing, asked, inPlace>>

\* renameIfExists: latest makes way, if it is seen.
Move(t) ==
    LET h == Host(t) IN
    /\ At(t, "move")
    /\ \/ /\ Stat(h, "latest")
          /\ Rename(h, "latest", Spare(t))
          /\ Goto(t, After(t))
       \/ /\ UNCHANGED link
          /\ Become(t, [task[t] EXCEPT !.pc = After(t), !.blind = @ \union Unseen(t, "latest")])
    /\ UNCHANGED <<dir, shell, clearing, asked, inPlace>>

\* lnIfExists, by the shell
Link(t) ==
    /\ At(t, "link")
    /\ Write(t, Ln(task[t].version))
    /\ Become(t, Passed(task[t]))
    /\ UNCHANGED <<dir, link, clearing, asked, inPlace>>

\* A rollback renames old to latest, if it is seen.
Restore(t) ==
    LET h == Host(t) IN
    /\ At(t, "restore")
    /\ \/ /\ Stat(h, "old")
          /\ Rename(h, "old", "latest")
          /\ Become(t, Passed(task[t]))
       \/ /\ UNCHANGED link
          /\ Become(t, Passed([task[t] EXCEPT !.blind = @ \union Unseen(t, "old")]))
    /\ UNCHANGED <<dir, shell, clearing, asked, inPlace>>

\* It ends after the last host, or at any call that fails.
End(t) ==
    /\ ~At(t, "idle")
    /\ Disconnect(t)
    /\ UNCHANGED <<dir, link, clearing, asked, inPlace>>

\* The shell runs a command: rm -r of a link removes the link, ln -s leaves one that is there.
Run(t, h) ==
    /\ shell[t][h] # <<>>
    /\ LET c == Head(shell[t][h]) IN
         link' = CASE c.cmd = "rm" -> [link EXCEPT ![h][c.arg] = None]
                   [] c.cmd = "ln" /\ link[h]["latest"] = None -> [link EXCEPT ![h]["latest"] = c.arg]
                   [] OTHER -> link
    /\ shell' = [shell EXCEPT ![t][h] = Tail(@)]
    /\ UNCHANGED <<dir, task, clearing, asked, inPlace>>

-----------------------------------------------------------------------------
(* The clear *)

StartClear ==
    /\ clear = None /\ clears < MaxClears
    /\ clear' = 1 /\ clears' = clears + 1
    /\ UNCHANGED <<dir, link, task, shell, todo, asked, inPlace>>

Newer(h, v) == {w \in Versions : w > v /\ dir[h][w] # "none"}

\* Slip: one version too few is kept.
ListTooMany ==
    /\ clear \in Hosts
    /\ todo' = [todo EXCEPT ![clear] =
         {v \in Versions : dir[clear][v] # "none" /\ Cardinality(Newer(clear, v)) >= MaxHistory - 1}]
    /\ clear' = clear + 1
    /\ UNCHANGED <<dir, link, task, shell, clears, asked, inPlace>>

\* The versions past the newest ones, whatever links to them.
List ==
    /\ clear \in Hosts
    /\ todo' = [todo EXCEPT ![clear] =
         {v \in Versions : dir[clear][v] # "none" /\ Cardinality(Newer(clear, v)) >= MaxHistory}]
    /\ clear' = clear + 1
    /\ UNCHANGED <<dir, link, task, shell, clears, asked, inPlace>>

\* rmdirIfExists, by the shell, in any order with what is done at other hosts.  Files put while
\* it runs stay, or their put fails.
Remove(h) ==
    /\ \E v \in todo[h] :
         /\ \A w \in todo[h] : w <= v
         /\ \/ dir' = [dir EXCEPT ![h][v] = "none"]
            \/ /\ \E t \in Tasks : At(t, "put") /\ Host(t) = h /\ task[t].version = v
               /\ dir' = [dir EXCEPT ![h][v] = "torn"]
         /\ todo' = [todo EXCEPT ![h] = @ \ {v}]
    /\ inPlace' = [inPlace EXCEPT ![h] = {v \in @ : dir'[h][v] # "none"}]
    /\ UNCHANGED <<link, task, shell, clear, clears, asked>>

\* It ends after the last host, or at any call that fails.
EndClear ==
    /\ clear # None
    /\ clear' = None
    /\ todo' = [h \in Hosts |-> {}]
    /\ UNCHANGED <<dir, link, task, shell, clears, asked, inPlace>>

-----------------------------------------------------------------------------
\* Where the links lead after the upgrades to 1, 2 and so on.
Before(l) ==
    CASE l = "latest" -> Served
      [] l = "old" /\ Served > 1 -> Served - 1
      [] OTHER -> None

Init ==
    /\ dir = [h \in Hosts |-> [v \in Versions |-> IF v <= Served THEN "whole" ELSE "none"]]
    /\ link = [h \in Hosts |-> [l \in Links |-> Before(l)]]
    /\ task = [t \in Tasks |-> NoTask]
    /\ shell = [t \in Tasks |-> [h \in Hosts |-> <<>>]]
    /\ todo = [h \in Hosts |-> {}]
    /\ clear = None /\ asked = 0 /\ clears = 0
    /\ inPlace = [h \in Hosts |-> {}]

Operation(t) ==
    \/ \E v \in Versions \union {None} : Begin(t, v)
    \/ Upload(t) \/ Uploaded(t) \/ Check(t)
    \/ Free(t) \/ Move(t) \/ Link(t) \/ Restore(t) \/ End(t)
    \/ \E h \in Hosts : Run(t, h)

Clear == StartClear \/ List \/ EndClear \/ \E h \in Hosts : Remove(h)

Next == (\E t \in Tasks : Operation(t)) \/ Clear

Spec == Init /\ [][Next]_vars

-----------------------------------------------------------------------------
(* Properties *)

\* Every variable has its type; a task past the last host has nothing left to call.
TypeOK ==
    /\ dir \in [Hosts -> [Versions -> Dir]]
    /\ link \in [Hosts -> [Links -> Versions \union {None}]]
    /\ task \in [Tasks -> Task]
    /\ shell \in [Tasks -> [Hosts -> Seq(Commands)]]
    /\ todo \in [Hosts -> SUBSET Versions]
    /\ clear \in 0..HostCount + 1
    /\ asked \in 0..MaxTasks /\ clears \in 0..MaxClears
    /\ inPlace \in [Hosts -> SUBSET Versions]
    /\ \A t \in Tasks : /\ At(t, "done") <=> Host(t) > HostCount
                        /\ task[t].pc \in {"upload", "put", "link"} => Upgrades(t)
                        /\ task[t].pc \in {"check", "restore"} => ~Upgrades(t)

\* A link leads to a version that the clear has removed only if the host has enough newer ones:
\* however uploads, rollbacks and clears interleave, the newest versions stay.
ClearedOnlyOld ==
    \A h \in Hosts, l \in Links :
      LET v == link[h][l] IN
      v # None /\ dir[h][v] \in {"none", "torn"} => Cardinality(Newer(h, v)) >= MaxHistory

\* The hosts a task has passed lead to the version it brings, an upgrade its own and a rollback
\* what old led to, unless another task is at work or a link was not seen there: or the shell has
\* not come to the ln yet, or the clear removed that version, or the one latest led to before,
\* where the ln then fails.
Reached ==
    \A t \in Working : task[t].alone =>
      \A h \in 1..Host(t) - 1 :
        /\ task[t].goal[h] # None
        /\ \/ link[h]["latest"] = task[t].goal[h]
           \/ \E i \in DOMAIN shell[t][h] : shell[t][h][i].cmd = "ln"
           \/ ~Has(h, task[t].goal[h]) \/ (link[h]["latest"] # None /\ ~Stat(h, "latest"))
           \/ h \in task[t].blind

\* After an upgrade without another task at work that saw latest, old leads to what that led to
\* before, or nowhere, if the shell came to the rm after the rename: a rollback never goes back
\* further.
OldIsPrevious ==
    \A t \in Working : task[t].alone /\ Upgrades(t) =>
      \A h \in Hosts : (Host(t) > h \/ (Host(t) = h /\ At(t, "link"))) /\ h \notin task[t].blind
                      /\ Has(h, task[t].prev[h]) => link[h]["old"] \in {task[t].prev[h], None}

\* A version that is there in part is served only where it was put over a version linked before,
\* by two tasks at a time, or from local files that were pulled again: never otherwise by the
\* upgrade that puts it, nor after one that failed.
PartOnlyInPlace ==
    \A h \in Hosts : LET v == link[h]["latest"] IN
      v # None /\ dir[h][v] = "part" => v \in inPlace[h]
=============================================================================
