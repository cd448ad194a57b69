------------------------------- MODULE OpTask -------------------------------
(***************************************************************************)
(* The life of an operation task (SimpleOpTask): the request that makes    *)
(* it, the executor's thread that runs it, the persister that stores it,   *)
(* the page that polls it, and the script run at its end, whose            *)
(* environment all tasks share (ProjectDiImpl.taskCompleted).  What the    *)
(* operation does on its machine is another module's, and the progress it  *)
(* reports is left out.                                                    *)
(***************************************************************************)
EXTENDS Naturals

CONSTANTS
    Tasks,
    Instances,              \* running instances tasks are asked for
    Kinds,                  \* the operations asked for
    Command,                \* whether devops.taskAfterCmd is set
    Findings,               \* bound: what may be found of an instance at a task's end
    MaxCrashes,             \* bound: crashes of the service
    NoTask

AllKinds == {"upgrade", "rollback", "start", "stop", "restart", "build", "print"}
Versioned == {"upgrade", "build", "print"}              \* m_Version is not empty
Again == {"upgrade", "rollback", "build", "print"}      \* run looks the instance up once more

\* What an instance may have or lack: the groups and the organization are the project's.
Found == {"machine", "project", "groups", "org"}

ASSUME TaskAssumption ==
    /\ Findings \subseteq {S \in SUBSET Found : S \intersect {"groups", "org"} # {} => "project" \in S}
    /\ Instances # {} /\ Kinds # {} /\ Kinds \subseteq AllKinds
    /\ Command \in BOOLEAN
    /\ MaxCrashes \in Nat
    /\ NoTask \notin Tasks

VARIABLES
    instances,              \* the instances that are not deleted
    task,                   \* what each task is at
    stored,                 \* the tasks the persister has written
    pb,                     \* m_ProcessBuilder: the task that made it
    env,                    \* of the builder each task made: whose values it has
    script,                 \* what the script of each task was started with
    page,                   \* the page that asked for each task
    crashes

vars == <<instances, task, stored, pb, env, script, page, crashes>>
scripting == <<pb, env, script>>

Someone == Tasks \union {NoTask}
Names == {"action", "version", "running"} \union Found
Env == [Names -> Someone]
Blank == [n \in Names |-> NoTask]

Inside == {"builder", "new", "action", "version", "inst", "exec"}
Ended == Inside \union {"over", "killed", "lost"}
Before == {"queued", "machine", "given", "work", "clear"}

Task == [pc: {"none", "thrown"} \union Before \union Ended,
         inst: Instances, kind: Kinds,
         lock: BOOLEAN,     \* start holds the task's monitor
         handle: BOOLEAN,   \* m_Task is not null
         b: Someone,        \* taskCompleted's pb
         found: SUBSET Found,   \* history: what it found of its instance, for its script
         met: BOOLEAN]      \* history: another task was in taskCompleted at the same time
Page == {"none", "polling", "stopped"}

NewTask == [pc |-> "none", inst |-> CHOOSE i \in Instances : TRUE, kind |-> CHOOSE k \in Kinds : TRUE,
            lock |-> FALSE, handle |-> FALSE, b |-> NoTask,
            found |-> {}, met |-> FALSE]

-----------------------------------------------------------------------------
Become(t, r) == task' = [task EXCEPT ![t] = r]
Goto(t, l) == Become(t, [task[t] EXCEPT !.pc = l])
At(t, l) == task[t].pc = l
There(t) == task[t].inst \in instances

-----------------------------------------------------------------------------
(* The request *)

\* The constructor marks the task to be stored, and starts it: inside the monitor, the
\* executor is given the task before m_Task is set.
Create(t) ==
    /\ At(t, "none")
    /\ \E i \in instances, k \in Kinds :
         Become(t, [NewTask EXCEPT !.pc = "queued", !.inst = i, !.kind = k, !.lock = TRUE])
    /\ UNCHANGED <<instances, stored, scripting, page, crashes>>

\* m_Task is set, the monitor released, and the id answered to the page, which sets a timer.
Start(t) ==
    /\ task[t].lock
    /\ Become(t, [task[t] EXCEPT !.lock = FALSE, !.handle = TRUE])
    /\ page' = [page EXCEPT ![t] = "polling"]
    /\ UNCHANGED <<instances, stored, scripting, crashes>>

-----------------------------------------------------------------------------
(* The executor's thread *)

AfterLook(t) ==
    CASE At(t, "queued") -> "machine"
      [] At(t, "machine") /\ task[t].kind \in Again -> "given"
      [] OTHER -> "work"

\* Slip: m_Task is set to null when run begins.
LookDone(t) ==
    /\ task[t].pc \in {"queued", "machine", "given"} /\ ~task[t].lock
    /\ Become(t, [task[t] EXCEPT !.pc = IF There(t) THEN AfterLook(t) ELSE "thrown", !.handle = FALSE])
    /\ UNCHANGED <<instances, stored, scripting, page, crashes>>

\* run asks for the machine, the project and, mostly, the instance again.  Each time the
\* instance may be gone: a null pointer nobody catches ends run.
Look(t) ==
    /\ task[t].pc \in {"queued", "machine", "given"}
    /\ Goto(t, IF There(t) THEN AfterLook(t) ELSE "thrown")
    /\ UNCHANGED <<instances, stored, scripting, page, crashes>>

\* The machine's method returns, having told in the progress what failed, or ends by an
\* exception it does not catch (no client, no machine, an answer that is not JSON): so does run.
Finish(t) ==
    /\ At(t, "work")
    /\ \E l \in {"clear", "thrown"} : Goto(t, l)
    /\ UNCHANGED <<instances, stored, scripting, page, crashes>>

\* Slip: m_Task is set to null without the monitor.
ClearUnlocked(t) ==
    /\ At(t, "clear")
    /\ Become(t, [task[t] EXCEPT !.pc = IF Command THEN "builder" ELSE "over", !.handle = FALSE])
    /\ UNCHANGED <<instances, stored, scripting, page, crashes>>

\* synchronized: m_Task = null.
Clear(t) ==
    /\ At(t, "clear") /\ ~task[t].lock
    /\ Become(t, [task[t] EXCEPT !.pc = IF Command THEN "builder" ELSE "over", !.handle = FALSE])
    /\ UNCHANGED <<instances, stored, scripting, page, crashes>>

-----------------------------------------------------------------------------
(* taskCompleted: no monitor *)

Others(t) == {u \in Tasks \ {t} : task[u].pc \in Inside \ {"builder"}}

\* Slip: the builder is taken for there.
TakeNoBuilder(t) ==
    /\ At(t, "builder")
    /\ Become(t, [task[t] EXCEPT !.pc = "action", !.b = pb])
    /\ UNCHANGED <<instances, stored, scripting, page, crashes>>

\* The builder all tasks share is read; those inside meet.
TakeBuilder(t) ==
    /\ At(t, "builder")
    /\ task' = [u \in Tasks |->
         IF u = t THEN [task[t] EXCEPT !.pc = IF pb = NoTask THEN "new" ELSE "action",
                                       !.b = pb, !.met = Others(t) # {}]
         ELSE IF u \in Others(t) THEN [task[u] EXCEPT !.met = TRUE] ELSE task[u]]
    /\ UNCHANGED <<instances, stored, scripting, page, crashes>>

NewBuilder(t) ==
    /\ At(t, "new")
    /\ pb' = t
    /\ env' = [env EXCEPT ![t] = Blank]
    /\ Become(t, [task[t] EXCEPT !.pc = "action", !.b = t])
    /\ UNCHANGED <<instances, stored, script, page, crashes>>

\* The names in S get the values of t, in the environment of the builder it has.
Put(t, S) == env' = [env EXCEPT ![task[t].b] = [n \in Names |-> IF n \in S THEN t ELSE @[n]]]

PutAction(t) ==
    /\ At(t, "action")
    /\ Put(t, {"action"})
    /\ Goto(t, "version")
    /\ UNCHANGED <<instances, stored, pb, script, page, crashes>>

\* Slip: the version is put for the first script only.
PutFirstVersion(t) ==
    /\ At(t, "version")
    /\ Put(t, {n \in {"version"} : task[t].kind \in Versioned /\ env[task[t].b][n] = NoTask})
    /\ Goto(t, "inst")
    /\ UNCHANGED <<instances, stored, pb, script, page, crashes>>

\* Only a task with a version puts one.
PutVersion(t) ==
    /\ At(t, "version")
    /\ Put(t, {n \in {"version"} : task[t].kind \in Versioned})
    /\ Goto(t, "inst")
    /\ UNCHANGED <<instances, stored, pb, script, page, crashes>>

\* The id of the instance, unless it was deleted, and what is found of it: its machine, which
\* may have been deleted, its project, too, whose groups and organization may be none.  A
\* name that is not found keeps the value an earlier task gave it.
PutInstance(t) ==
    /\ At(t, "inst")
    /\ \E S \in IF There(t) THEN Findings ELSE {{}} :
         /\ Put(t, {n \in {"running"} : There(t)} \union S)
         /\ Become(t, [task[t] EXCEPT !.pc = "exec", !.found = S])
    /\ UNCHANGED <<instances, stored, pb, script, page, crashes>>

\* The script gets a copy of the environment; the thread waits for it for 10 s at most.
Exec(t) ==
    /\ At(t, "exec")
    /\ script' = [script EXCEPT ![t] = env[task[t].b]]
    /\ Become(t, [task[t] EXCEPT !.pc = "over", !.b = NoTask])
    /\ UNCHANGED <<instances, stored, pb, env, page, crashes>>

\* Or cannot be started: the builder is given up.
ExecFails(t) ==
    /\ At(t, "exec")
    /\ pb' = NoTask
    /\ Become(t, [task[t] EXCEPT !.pc = "over", !.b = NoTask])
    /\ UNCHANGED <<instances, stored, env, script, page, crashes>>

-----------------------------------------------------------------------------
(* The page *)

\* The timer's request is answered that the task is done: the timer is cleared.  (Other
\* answers, and the failure to answer for a task that is lost, change only what is shown.)
Poll(t) ==
    /\ page[t] = "polling"
    /\ ~At(t, "lost") /\ ~task[t].handle
    /\ page' = [page EXCEPT ![t] = "stopped"]
    /\ UNCHANGED <<instances, task, stored, scripting, crashes>>

-----------------------------------------------------------------------------
(* Around them *)

Delete(i) ==
    /\ instances' = instances \ {i}
    /\ UNCHANGED <<task, stored, scripting, page, crashes>>

\* The persister writes a task that was marked, some time after.
Flush(t) ==
    /\ ~At(t, "none") /\ ~At(t, "lost")
    /\ stored' = stored \union {t}
    /\ UNCHANGED <<instances, task, scripting, page, crashes>>

\* Slip: m_Task is stored as well.
ReloadedRunning(t) ==
    IF At(t, "none") THEN task[t]
    ELSE [task[t] EXCEPT !.pc = IF t \in stored THEN "killed" ELSE "lost", !.lock = FALSE, !.b = NoTask]

\* Tasks that were written come back without a thread, the others are lost.
Reloaded(t) ==
    IF At(t, "none") THEN task[t]
    ELSE [task[t] EXCEPT !.pc = IF t \in stored THEN "killed" ELSE "lost",
                         !.lock = FALSE, !.handle = FALSE, !.b = NoTask]

Crash ==
    /\ crashes < MaxCrashes
    /\ crashes' = crashes + 1
    /\ task' = [t \in Tasks |-> Reloaded(t)]
    /\ pb' = NoTask /\ env' = [t \in Tasks |-> Blank]
    /\ UNCHANGED <<instances, stored, script, page>>

-----------------------------------------------------------------------------
Init ==
    /\ instances = Instances
    /\ task = [t \in Tasks |-> NewTask]
    /\ stored = {}
    /\ pb = NoTask /\ env = [t \in Tasks |-> Blank] /\ script = [t \in Tasks |-> Blank]
    /\ page = [t \in Tasks |-> "none"]
    /\ crashes = 0

Completed(t) ==
    \/ TakeBuilder(t) \/ NewBuilder(t) \/ PutAction(t) \/ PutVersion(t) \/ PutInstance(t)
    \/ Exec(t) \/ ExecFails(t)
Run(t) == Look(t) \/ Finish(t) \/ Clear(t) \/ Completed(t)

Next ==
    \/ \E t \in Tasks : Create(t) \/ Start(t) \/ Run(t) \/ Poll(t) \/ Flush(t)
    \/ \E i \in Instances : Delete(i)
    \/ Crash

Spec == Init /\ [][Next]_vars

\* A request that was begun is served, the executor runs what it is given, an operation on
\* a machine ends, a script is waited for 10 s, and the network answers at some time.
FairSpec ==
    /\ Spec
    /\ \A t \in Tasks : WF_vars(Start(t)) /\ WF_vars(Run(t)) /\ WF_vars(Poll(t))

-----------------------------------------------------------------------------
(* Properties *)

\* Every variable has its type; a task in taskCompleted has its builder.
TypeOK ==
    /\ instances \subseteq Instances
    /\ task \in [Tasks -> Task]
    /\ stored \subseteq Tasks
    /\ pb \in Someone /\ env \in [Tasks -> Env] /\ script \in [Tasks -> Env]
    /\ page \in [Tasks -> Page]
    /\ crashes \in 0..MaxCrashes
    /\ \A t \in Tasks : task[t].pc \in Inside \ {"builder", "new"} => task[t].b \in Tasks

\* isDone, "is it over" (OpTask.java), is believed: when a task that was started has no
\* thread, or its page was told that it is done, its operation is no longer at work.
DoneMeansEnded ==
    \A t \in Tasks :
      \/ ~At(t, "none") /\ ~task[t].lock /\ ~task[t].handle
      \/ page[t] = "stopped"
      => task[t].pc \in Ended

\* A script is given nothing of a task that has not ended, and a task that met no other in
\* taskCompleted gives it its own action, its own version if it has one, the id of its
\* instance unless that was deleted, and of the machine, project, groups and organization
\* those it has found.  (The others may be an earlier task's: nothing takes a value away.)
ScriptOwn ==
    \A t \in Tasks :
      /\ \A n \in Names : script[t][n] # NoTask => task[script[t][n]].pc \in Ended
      /\ script[t] # Blank /\ ~task[t].met =>
           /\ script[t]["action"] = t
           /\ task[t].kind \in Versioned => script[t]["version"] = t
           /\ There(t) => script[t]["running"] = t
           /\ \A n \in task[t].found : script[t][n] = t

\* A task that is running is done some time, unless an exception it does not catch ends run.
TaskEnds ==
    \A t \in Tasks : task[t].handle ~> (~task[t].handle \/ At(t, "thrown"))

\* A page that polls a task stops, unless an exception ended run or a crash lost the task.
PageStops ==
    \A t \in Tasks : page[t] = "polling"
                     ~> (page[t] # "polling" \/ task[t].pc \in {"thrown", "lost"})
=============================================================================
