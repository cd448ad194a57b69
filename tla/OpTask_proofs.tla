---------------------------- MODULE OpTask_proofs ----------------------------
(***************************************************************************)
(* What holds of operation tasks for any number of them, any instances and *)
(* crashes: types, that a task shown as done has ended its operation, and  *)
(* whose values a script is started with.                                  *)
(***************************************************************************)
EXTENDS OpTask, TLAPS

Steps(t) == Create(t) \/ Start(t) \/ Run(t)

-----------------------------------------------------------------------------
(* Types *)

\* A task that was not made is described by a task like any other.
LEMMA NewIsTask == NewTask \in Task
<1>1. (CHOOSE i \in Instances : TRUE) \in Instances /\ (CHOOSE k \in Kinds : TRUE) \in Kinds
  BY TaskAssumption
<1>. QED BY <1>1, TaskAssumption DEF NewTask, Task, Someone

\* The initial states have the types of TypeOK.
LEMMA TypeInit == Init => TypeOK
<1>1. NewTask.pc = "none"
  BY DEF NewTask
<1>. QED BY <1>1, TaskAssumption, NewIsTask DEF Init, TypeOK, Blank, Env, Names, Found, Someone, Page, Inside

\* A reloaded task is one.
LEMMA TypeReloaded ==
  ASSUME TypeOK, NEW t \in Tasks
  PROVE  Reloaded(t) \in Task /\ Reloaded(t).pc \notin Inside
<1>1. task[t] \in Task
  BY DEF TypeOK
<1>2. CASE At(t, "none")
  BY <1>1, <1>2 DEF Reloaded, At, Inside
<1>3. CASE ~At(t, "none")
  <2>1. \A p \in {"killed", "lost"} :
          [task[t] EXCEPT !.pc = p, !.lock = FALSE, !.handle = FALSE, !.b = NoTask] \in Task
    BY <1>1 DEF Task, Ended, Someone
  <2>. QED BY <1>3, <1>1, <2>1 DEF Reloaded, Inside, Task
<1>. QED BY <1>2, <1>3

\* Putting names gives those their task, in the environment of its builder only.
LEMMA PutPuts ==
  ASSUME TypeOK, NEW t \in Tasks, NEW S, task[t].b \in Tasks, Put(t, S)
  PROVE  /\ env' \in [Tasks -> Env]
         /\ \A n \in Names : env'[task[t].b][n] = IF n \in S THEN t ELSE env[task[t].b][n]
         /\ \A e \in Tasks \ {task[t].b} : env'[e] = env[e]
<1>. DEFINE e == [n \in Names |-> IF n \in S THEN t ELSE env[task[t].b][n]]
<1>1. env \in [Tasks -> [Names -> Someone]] /\ t \in Someone
  BY DEF TypeOK, Env, Someone
<1>2. e \in [Names -> Someone]
  BY <1>1
<1>3. env' = [env EXCEPT ![task[t].b] = e]
  BY DEF Put
<1>4. env'[task[t].b] = e
  BY <1>1, <1>3
<1>5. \A n \in Names : e[n] = IF n \in S THEN t ELSE env[task[t].b][n]
  OBVIOUS
<1>. HIDE DEF e
<1>. QED BY <1>1, <1>2, <1>3, <1>4, <1>5 DEF Env

\* Each step that puts values does so in the builder the task has, and takes it on.
LEMMA PutGoes ==
  ASSUME TypeOK, NEW t \in Tasks, PutAction(t) \/ PutVersion(t) \/ PutInstance(t)
  PROVE  /\ task[t].b \in Tasks /\ task[t].pc \in {"action", "version", "inst"}
         /\ \E S \in SUBSET Names : Put(t, S)
         /\ \E l \in {"version", "inst", "exec"}, F \in SUBSET Found :
              Become(t, [task[t] EXCEPT !.pc = l, !.found = F])
<1>1. task[t] \in Task /\ (task[t].pc \in Inside \ {"builder", "new"} => task[t].b \in Tasks)
  BY DEF TypeOK
<1>2. task[t].pc \in {"action", "version", "inst"}
  BY DEF PutAction, PutVersion, PutInstance, At
<1>3. task[t].b \in Tasks
  BY <1>1, <1>2 DEF Inside
<1>4. ASSUME NEW l \in {"version", "inst", "exec"}, Goto(t, l)
      PROVE  \E F \in SUBSET Found : Become(t, [task[t] EXCEPT !.pc = l, !.found = F])
  <2>1. task[t].found \in SUBSET Found
    BY <1>1 DEF Task
  <2>2. [task[t] EXCEPT !.pc = l] = [task[t] EXCEPT !.pc = l, !.found = task[t].found]
    BY <1>1 DEF Task
  <2>. QED BY <1>4, <2>1, <2>2 DEF Goto
<1>5. CASE PutAction(t)
  <2>1. {"action"} \in SUBSET Names
    BY DEF Names
  <2>. QED BY <1>2, <1>3, <1>4, <1>5, <2>1 DEF PutAction
<1>6. CASE PutVersion(t)
  <2>1. {n \in {"version"} : task[t].kind \in Versioned} \in SUBSET Names
    BY DEF Names
  <2>. QED BY <1>2, <1>3, <1>4, <1>6, <2>1 DEF PutVersion
<1>7. CASE PutInstance(t)
  <2>1. PICK S \in IF There(t) THEN Findings ELSE {{}} :
          /\ Put(t, {n \in {"running"} : There(t)} \union S)
          /\ Become(t, [task[t] EXCEPT !.pc = "exec", !.found = S])
    BY <1>7 DEF PutInstance
  <2>2. S \in SUBSET Found
    BY TaskAssumption
  <2>3. ({n \in {"running"} : There(t)} \union S) \in SUBSET Names
    BY <2>2 DEF Names
  <2>. QED BY <1>2, <1>3, <2>1, <2>2, <2>3
<1>. QED BY <1>5, <1>6, <1>7

\* What a task that puts values has then.
LEMMA PutTask ==
  ASSUME TypeOK, NEW t \in Tasks, PutAction(t) \/ PutVersion(t) \/ PutInstance(t)
  PROVE  /\ task[t].b \in Tasks /\ task[t].pc \in {"action", "version", "inst"}
         /\ env' \in [Tasks -> Env]
         /\ task'[t] \in Task /\ task'[t].pc \in {"version", "inst", "exec"} /\ task'[t].b = task[t].b
         /\ task'[t].kind = task[t].kind /\ task'[t].inst = task[t].inst /\ task'[t].met = task[t].met
         /\ task'[t].lock = task[t].lock /\ task'[t].handle = task[t].handle
<1>1. task[t] \in Task /\ task \in [Tasks -> Task]
  BY DEF TypeOK
<1>2. PICK l \in {"version", "inst", "exec"}, F \in SUBSET Found :
        Become(t, [task[t] EXCEPT !.pc = l, !.found = F])
  BY PutGoes
<1>3. task'[t] = [task[t] EXCEPT !.pc = l, !.found = F]
  BY <1>1, <1>2 DEF Become
<1>4. /\ task'[t].pc = l /\ task'[t].b = task[t].b /\ task'[t].kind = task[t].kind
      /\ task'[t].inst = task[t].inst /\ task'[t].met = task[t].met
      /\ task'[t].lock = task[t].lock /\ task'[t].handle = task[t].handle
  BY <1>1, <1>3 DEF Task
<1>5. [task[t] EXCEPT !.pc = l, !.found = F] \in Task
  BY <1>1, <1>2 DEF Task, Ended, Inside
<1>6. PICK S \in SUBSET Names : Put(t, S)
  BY PutGoes
<1>. QED BY <1>2, <1>3, <1>4, <1>5, <1>6, PutGoes, PutPuts

\* Every step of a task keeps the types.
LEMMA TypeSteps ==
  ASSUME TypeOK, NEW t \in Tasks, Steps(t)
  PROVE  TypeOK'
<1>. USE TaskAssumption DEF TypeOK
<1>1. task[t] \in Task
  OBVIOUS
<1>2. ASSUME NEW r \in Task, Become(t, r), r.pc \in Inside \ {"builder", "new"} => r.b \in Tasks
      PROVE  /\ task' \in [Tasks -> Task]
             /\ \A u \in Tasks : task'[u].pc \in Inside \ {"builder", "new"} => task'[u].b \in Tasks
  BY <1>2 DEF Become
<1>3. ASSUME NEW l \in {"thrown"} \union Before \union Ended, Goto(t, l),
             l \in Inside \ {"builder", "new"} => task[t].b \in Tasks
      PROVE  /\ task' \in [Tasks -> Task]
             /\ \A u \in Tasks : task'[u].pc \in Inside \ {"builder", "new"} => task'[u].b \in Tasks
  <2>1. [task[t] EXCEPT !.pc = l] \in Task
    BY <1>1 DEF Task
  <2>2. [task[t] EXCEPT !.pc = l].pc = l /\ [task[t] EXCEPT !.pc = l].b = task[t].b
    BY <1>1 DEF Task
  <2>. QED BY <1>3, <2>1, <2>2, <1>2 DEF Goto
<1>4. CASE Create(t)
  <2>1. PICK i \in instances, k \in Kinds :
          Become(t, [NewTask EXCEPT !.pc = "queued", !.inst = i, !.kind = k, !.lock = TRUE])
    BY <1>4 DEF Create
  <2>2. [NewTask EXCEPT !.pc = "queued", !.inst = i, !.kind = k, !.lock = TRUE] \in Task
    BY NewIsTask DEF Task, Before
  <2>3. [NewTask EXCEPT !.pc = "queued", !.inst = i, !.kind = k, !.lock = TRUE].pc = "queued"
    BY NewIsTask DEF Task
  <2>. QED BY <1>4, <2>1, <2>2, <2>3, <1>2 DEF Create, scripting, Inside
<1>5. CASE Start(t)
  <2>1. [task[t] EXCEPT !.lock = FALSE, !.handle = TRUE] \in Task
    BY <1>1 DEF Task
  <2>2. page' \in [Tasks -> Page]
    BY <1>5 DEF Start, Page
  <2>. QED BY <1>5, <2>1, <2>2, <1>2, <1>1 DEF Start, scripting, Task
<1>6. CASE Look(t)
  <2>1. AfterLook(t) \in Before \ Inside
    BY DEF AfterLook, Before, Inside
  <2>. QED BY <1>6, <2>1, <1>3 DEF Look, scripting, Inside
<1>7. CASE Finish(t)
  <2>1. PICK l \in {"clear", "thrown"} : Goto(t, l)
    BY <1>7 DEF Finish
  <2>. QED BY <1>7, <2>1, <1>3 DEF Finish, scripting, Before, Inside
<1>8. CASE Clear(t)
  <2>1. \A p \in {"builder", "over"} : [task[t] EXCEPT !.pc = p, !.handle = FALSE] \in Task
    BY <1>1 DEF Task, Ended, Inside
  <2>. QED BY <1>8, <2>1, <1>2, <1>1 DEF Clear, scripting, Inside, Task
<1>9. CASE TakeBuilder(t)
  <2>1. \A p \in {"new", "action"}, c \in BOOLEAN : [task[t] EXCEPT !.pc = p, !.b = pb, !.met = c] \in Task
    BY <1>1 DEF Task, Ended, Inside, Someone
  <2>2. ASSUME NEW u \in Tasks PROVE [task[u] EXCEPT !.met = TRUE] \in Task
    <3>1. task[u] \in Task
      OBVIOUS
    <3>. QED BY <3>1 DEF Task
  <2>3. (IF pb = NoTask THEN "new" ELSE "action") \in {"new", "action"} /\ (Others(t) # {}) \in BOOLEAN
    OBVIOUS
  <2>4. task' \in [Tasks -> Task]
    BY <1>9, <2>1, <2>2, <2>3 DEF TakeBuilder
  <2>5. task'[t].pc \notin {"builder", "new"} => task'[t].b \in Tasks
    <3>1. task'[t].pc = (IF pb = NoTask THEN "new" ELSE "action") /\ task'[t].b = pb
      BY <1>9, <1>1 DEF TakeBuilder, Task
    <3>. QED BY <3>1 DEF Someone
  <2>6. ASSUME NEW u \in Tasks \ {t} PROVE task'[u].pc = task[u].pc /\ task'[u].b = task[u].b
    <3>1. task'[u] = IF u \in Others(t) THEN [task[u] EXCEPT !.met = TRUE] ELSE task[u]
      BY <1>9 DEF TakeBuilder
    <3>2. task[u] \in Task
      OBVIOUS
    <3>. QED BY <3>1, <3>2 DEF Task
  <2>. QED BY <1>9, <2>4, <2>5, <2>6 DEF TakeBuilder, scripting
<1>10. CASE NewBuilder(t)
  <2>1. [task[t] EXCEPT !.pc = "action", !.b = t] \in Task
    BY <1>1 DEF Task, Ended, Inside, Someone
  <2>2. env' \in [Tasks -> Env] /\ pb' \in Someone
    BY <1>10 DEF NewBuilder, Blank, Env, Someone
  <2>. QED BY <1>10, <2>1, <2>2, <1>2, <1>1 DEF NewBuilder, Task
<1>11. CASE PutAction(t) \/ PutVersion(t) \/ PutInstance(t)
  <2>1. PICK l \in {"version", "inst", "exec"}, F \in SUBSET Found :
          Become(t, [task[t] EXCEPT !.pc = l, !.found = F])
    BY <1>11, PutGoes
  <2>2. task'[t] = [task[t] EXCEPT !.pc = l, !.found = F]
    BY <2>1 DEF Become
  <2>3. task[t].b \in Tasks /\ env' \in [Tasks -> Env] /\ task'[t] \in Task /\ task'[t].b = task[t].b
    BY <1>11, PutTask
  <2>. QED BY <1>11, <2>1, <2>2, <2>3, <1>2 DEF PutAction, PutVersion, PutInstance
<1>12. [task[t] EXCEPT !.pc = "over", !.b = NoTask] \in Task
  BY <1>1 DEF Task, Ended, Someone
<1>13. CASE Exec(t)
  <2>1. task[t].b \in Tasks /\ script' \in [Tasks -> Env]
    BY <1>13 DEF Exec, At, Inside
  <2>. QED BY <1>13, <2>1, <1>12, <1>2, <1>1 DEF Exec, Inside, Task
<1>14. CASE ExecFails(t)
  BY <1>14, <1>12, <1>2, <1>1 DEF ExecFails, Inside, Someone, Task
<1>. QED
  BY <1>4, <1>5, <1>6, <1>7, <1>8, <1>9, <1>10, <1>11, <1>13, <1>14
     DEF Steps, Run, Completed

\* Every step keeps the types.
LEMMA TypeStep ==
  ASSUME TypeOK, [Next]_vars
  PROVE  TypeOK'
<1>1. ASSUME NEW t \in Tasks, Poll(t) PROVE TypeOK'
  BY <1>1 DEF Poll, TypeOK, scripting, Page
<1>2. ASSUME NEW t \in Tasks, Flush(t) PROVE TypeOK'
  BY <1>2 DEF Flush, TypeOK, scripting
<1>3. ASSUME NEW i \in Instances, Delete(i) PROVE TypeOK'
  BY <1>3 DEF Delete, TypeOK, scripting
<1>4. CASE Crash
  <2>1. task' \in [Tasks -> Task] /\ \A u \in Tasks : task'[u].pc \notin Inside
    BY <1>4, TypeReloaded DEF Crash
  <2>2. crashes' \in 0..MaxCrashes
    BY <1>4, TaskAssumption DEF Crash, TypeOK
  <2>. QED BY <1>4, <2>1, <2>2 DEF Crash, TypeOK, Blank, Env, Someone
<1>5. CASE UNCHANGED vars
  BY <1>5 DEF TypeOK, vars
<1>. QED BY TypeSteps, <1>1, <1>2, <1>3, <1>4, <1>5 DEF Next, Steps

\* Every reachable state has its types.
THEOREM TypeCorrect == Spec => []TypeOK
  BY TypeInit, TypeStep, PTL DEF Spec

-----------------------------------------------------------------------------
(* A task shown as done has ended its operation *)

\* Until it ends, a task is held by start or has its handle; a page is told of a task that
\* start has left.
DoneInv ==
    \A t \in Tasks :
      /\ task[t].lock => task[t].pc \in Before \union {"thrown"}
      /\ task[t].pc \in Before \union {"thrown"} => task[t].lock \/ task[t].handle
      /\ page[t] # "none" => ~task[t].lock /\ ~At(t, "none")
      /\ page[t] = "stopped" => task[t].pc \in Ended

\* A step of a task leaves the others where they are.
LEMMA OthersStay ==
  ASSUME TypeOK, NEW t \in Tasks, Steps(t), NEW u \in Tasks \ {t}
  PROVE  /\ task'[u].pc = task[u].pc /\ task'[u].lock = task[u].lock /\ task'[u].handle = task[u].handle
         /\ task'[u].inst = task[u].inst /\ task'[u].kind = task[u].kind /\ task'[u].b = task[u].b
         /\ task'[u].found = task[u].found
         /\ task[u].met => task'[u].met
         /\ task'[u].met # task[u].met => task[u].pc \in Inside \ {"builder"}
<1>1. task[u] \in Task
  BY DEF TypeOK
<1>2. CASE TakeBuilder(t)
  <2>1. task'[u] = IF u \in Others(t) THEN [task[u] EXCEPT !.met = TRUE] ELSE task[u]
    BY <1>2 DEF TakeBuilder
  <2>. QED BY <2>1, <1>1 DEF Task, Others
<1>3. CASE ~TakeBuilder(t)
  <2>1. task'[u] = task[u]
    BY <1>3 DEF TypeOK, Steps, Run, Completed, Create, Start, Look, Finish, Clear, NewBuilder, PutAction, PutVersion,
         PutInstance, Exec, ExecFails, Goto, Become
  <2>. QED BY <2>1
<1>. QED BY <1>2, <1>3

\* The initial states satisfy DoneInv.
LEMMA DoneInit == Init => DoneInv
<1>1. NewTask.pc = "none" /\ NewTask.lock = FALSE
  BY DEF NewTask
<1>. QED BY <1>1 DEF Init, DoneInv, At, Before, Ended, Inside

\* Every step of a task keeps it.
LEMMA DoneSteps ==
  ASSUME TypeOK, DoneInv, NEW t \in Tasks, Steps(t)
  PROVE  DoneInv'
<1>1. task[t] \in Task /\ task \in [Tasks -> Task] /\ page \in [Tasks -> Page]
  BY DEF TypeOK
<1>2. page' = page \/ page' = [page EXCEPT ![t] = "polling"]
  BY DEF Steps, Run, Completed, Create, Start, Look, Finish, Clear, TakeBuilder, NewBuilder, PutAction,
       PutVersion, PutInstance, Exec, ExecFails
<1>3. ASSUME NEW u \in Tasks \ {t}
      PROVE  /\ task'[u].lock => task'[u].pc \in Before \union {"thrown"}
             /\ task'[u].pc \in Before \union {"thrown"} => task'[u].lock \/ task'[u].handle
             /\ page'[u] # "none" => ~task'[u].lock /\ task'[u].pc # "none"
             /\ page'[u] = "stopped" => task'[u].pc \in Ended
  <2>1. task'[u].pc = task[u].pc /\ task'[u].lock = task[u].lock /\ task'[u].handle = task[u].handle
    BY OthersStay
  <2>2. page'[u] = page[u]
    BY <1>1, <1>2
  <2>. QED BY <2>1, <2>2 DEF DoneInv, At
<1>4. /\ task[t].lock => task[t].pc \in Before \union {"thrown"}
      /\ task[t].pc \in Before \union {"thrown"} => task[t].lock \/ task[t].handle
      /\ page[t] # "none" => ~task[t].lock /\ task[t].pc # "none"
      /\ page[t] = "stopped" => task[t].pc \in Ended
  BY DEF DoneInv, At
<1>. DEFINE Fine == /\ task'[t].lock => task'[t].pc \in Before \union {"thrown"}
                    /\ task'[t].pc \in Before \union {"thrown"} => task'[t].lock \/ task'[t].handle
                    /\ page'[t] # "none" => ~task'[t].lock /\ task'[t].pc # "none"
                    /\ page'[t] = "stopped" => task'[t].pc \in Ended
<1>5. ASSUME Create(t) PROVE Fine
  <2>1. PICK i \in instances, k \in Kinds :
          task'[t] = [NewTask EXCEPT !.pc = "queued", !.inst = i, !.kind = k, !.lock = TRUE]
    BY <1>5, <1>1 DEF Create, Become
  <2>2. task'[t].pc = "queued" /\ task'[t].lock
    BY <2>1, NewIsTask DEF Task
  <2>3. page'[t] = "none"
    BY <1>5, <1>4 DEF Create, At
  <2>. QED BY <2>2, <2>3 DEF Before
<1>6. ASSUME Start(t) PROVE Fine
  <2>1. task'[t] = [task[t] EXCEPT !.lock = FALSE, !.handle = TRUE] /\ page'[t] = "polling" /\ task[t].lock
    BY <1>6, <1>1 DEF Start, Become
  <2>2. ~task'[t].lock /\ task'[t].handle /\ task'[t].pc = task[t].pc
    BY <2>1, <1>1 DEF Task
  <2>. QED BY <2>1, <2>2, <1>4 DEF Before
<1>7. ASSUME NEW l \in Before \union {"thrown"}, Goto(t, l), task[t].pc \in Before, UNCHANGED page
      PROVE  Fine
  <2>1. task'[t] = [task[t] EXCEPT !.pc = l]
    BY <1>7, <1>1 DEF Goto, Become
  <2>2. task'[t].pc = l /\ task'[t].lock = task[t].lock /\ task'[t].handle = task[t].handle
    BY <2>1, <1>1 DEF Task
  <2>. QED BY <2>2, <1>4, <1>7 DEF Before, Ended, Inside
<1>8. ASSUME Look(t) PROVE Fine
  <2>1. AfterLook(t) \in Before
    BY DEF AfterLook, Before
  <2>. QED BY <1>8, <2>1, <1>7 DEF Look, Before
<1>9. ASSUME Finish(t) PROVE Fine
  BY <1>9, <1>7 DEF Finish, Before, At
<1>10. ASSUME Clear(t) \/ Completed(t) PROVE Fine
  <2>1. ~task'[t].lock /\ task'[t].pc \in Ended
    <3>1. task[t].lock => task[t].pc \notin Inside
      BY <1>4 DEF Before, Inside
    <3>2. CASE Clear(t)
      BY <3>2, <1>1 DEF Clear, Become, Task, Ended, Inside
    <3>3. CASE TakeBuilder(t)
      BY <3>3, <3>1, <1>1 DEF TakeBuilder, Task, Ended, Inside, At
    <3>4. CASE NewBuilder(t)
      BY <3>4, <3>1, <1>1 DEF NewBuilder, Become, Task, Ended, Inside, At
    <3>5. CASE PutAction(t) \/ PutVersion(t) \/ PutInstance(t)
      <4>1. task[t].pc \in Inside /\ task'[t].pc \in Inside /\ task'[t].lock = task[t].lock
        BY <3>5, PutTask DEF Inside
      <4>. QED BY <3>1, <4>1 DEF Ended
    <3>6. CASE Exec(t) \/ ExecFails(t)
      BY <3>6, <3>1, <1>1 DEF Exec, ExecFails, Become, Task, Ended, Inside, At
    <3>. QED BY <1>10, <3>2, <3>3, <3>4, <3>5, <3>6 DEF Completed
  <2>2. UNCHANGED page
    BY <1>10 DEF Completed, Clear, TakeBuilder, NewBuilder, PutAction, PutVersion, PutInstance, Exec, ExecFails
  <2>. QED BY <2>1, <2>2, <1>4 DEF Before, Ended, Inside
<1>11. Fine
  BY <1>5, <1>6, <1>8, <1>9, <1>10 DEF Steps, Run
<1>. QED BY <1>3, <1>11 DEF DoneInv, At

\* Every step keeps it.
LEMMA DoneStep ==
  ASSUME TypeOK, DoneInv, [Next]_vars
  PROVE  DoneInv'
<1>1. ASSUME NEW t \in Tasks, Poll(t) PROVE DoneInv'
  <2>1. task' = task /\ page' = [page EXCEPT ![t] = "stopped"] /\ task[t] \in Task /\ page \in [Tasks -> Page]
    BY <1>1 DEF Poll, TypeOK
  <2>2. task[t].pc \in Ended
    BY <1>1, <2>1 DEF Poll, DoneInv, Task, At
  <2>3. ~task[t].lock /\ ~At(t, "none")
    BY <1>1 DEF Poll, DoneInv
  <2>. QED BY <2>1, <2>2, <2>3 DEF DoneInv, At
<1>2. ASSUME NEW t \in Tasks, Flush(t) PROVE DoneInv'
  BY <1>2 DEF Flush, DoneInv, At
<1>3. ASSUME NEW i \in Instances, Delete(i) PROVE DoneInv'
  BY <1>3 DEF Delete, DoneInv, At
<1>4. CASE Crash
  <2>1. ASSUME NEW t \in Tasks
        PROVE  IF task[t].pc = "none" THEN task'[t] = task[t]
               ELSE task'[t].pc \in {"killed", "lost"} /\ ~task'[t].lock
    <3>1. task[t] \in Task /\ task'[t] = Reloaded(t)
      BY <1>4 DEF TypeOK, Crash
    <3>. QED BY <3>1 DEF Reloaded, Task, At
  <2>2. page' = page
    BY <1>4 DEF Crash
  <2>. QED BY <2>1, <2>2 DEF DoneInv, At, Before, Ended, Inside
<1>5. CASE UNCHANGED vars
  BY <1>5 DEF vars, DoneInv, At
<1>. QED BY DoneSteps, <1>1, <1>2, <1>3, <1>4, <1>5 DEF Next, Steps

\* What isDone answers (SimpleOpTask.isDone) is believed: a task without a thread, or whose
\* page was told that it is done, has no operation at work.
THEOREM DoneCorrect == Spec => []DoneMeansEnded
<1>1. TypeOK /\ DoneInv => DoneMeansEnded
  BY DEF TypeOK, DoneInv, DoneMeansEnded, At, Task
<1>. QED BY <1>1, TypeInit, TypeStep, DoneInit, DoneStep, PTL DEF Spec

-----------------------------------------------------------------------------
(* Whose values a script is started with *)

\* Past the look at the shared builder.
Busy == Inside \ {"builder"}

Gone(v) == v # NoTask => task[v].pc \in Ended
AllGone(e) == \A n \in Names : Gone(e[n])

\* What is put so far of a task's own values.
OwnEnv(t) ==
    /\ task[t].pc \in {"version", "inst", "exec"} => env[task[t].b]["action"] = t
    /\ task[t].pc \in {"inst", "exec"} /\ task[t].kind \in Versioned => env[task[t].b]["version"] = t
    /\ task[t].pc = "exec" /\ There(t) => env[task[t].b]["running"] = t
    /\ task[t].pc = "exec" => \A n \in task[t].found : env[task[t].b][n] = t

OwnScript(t) ==
    /\ script[t]["action"] = t
    /\ task[t].kind \in Versioned => script[t]["version"] = t
    /\ There(t) => script[t]["running"] = t
    /\ \A n \in task[t].found : script[t][n] = t

\* The environments hold values of ended tasks; of two tasks inside each has met the other;
\* who met none finds the own values put so far.
ScriptInv ==
    /\ \A t \in Tasks : AllGone(env[t]) /\ AllGone(script[t])
    /\ \A t, u \in Tasks : t # u /\ task[t].pc \in Busy /\ task[u].pc \in Busy => task[t].met
    /\ \A t \in Tasks : ~task[t].met => OwnEnv(t)
    /\ \A t \in Tasks : script[t] # Blank =>
         task[t].pc \in {"over", "killed", "lost"} /\ (~task[t].met => OwnScript(t))

\* The initial states satisfy ScriptInv.
LEMMA ScriptInit == Init => ScriptInv
<1>1. NewTask.pc = "none" /\ NewTask.met = FALSE
  BY DEF NewTask
<1>. QED BY <1>1 DEF Init, ScriptInv, AllGone, Gone, OwnEnv, Blank, Busy, Inside

\* A task that has ended its operation does not take it up again.
LEMMA EndedStay ==
  ASSUME TypeOK, NEW t \in Tasks, Steps(t), NEW v \in Tasks, task[v].pc \in Ended
  PROVE  task'[v].pc \in Ended
<1>1. task[t] \in Task /\ task \in [Tasks -> Task]
  BY DEF TypeOK
<1>2. CASE v # t
  BY <1>2, OthersStay
<1>3. CASE v = t
  <2>1. ~Create(t) /\ ~Look(t) /\ ~Finish(t)
    BY <1>3 DEF Create, Look, Finish, At, Ended, Inside
  <2>2. CASE Start(t)
    BY <1>1, <1>3, <2>2 DEF Start, Become, Task
  <2>3. ASSUME NEW l \in Ended, Goto(t, l) PROVE task'[t].pc \in Ended
    BY <1>1, <2>3 DEF Goto, Become, Task
  <2>4. CASE PutAction(t) \/ PutVersion(t) \/ PutInstance(t)
    BY <1>3, <2>4, PutTask DEF Ended, Inside
  <2>5. CASE Clear(t) \/ Exec(t) \/ ExecFails(t) \/ NewBuilder(t)
    <3>1. ~Clear(t)
      BY <1>3 DEF Clear, At, Ended, Inside
    <3>2. task'[t].pc \in {"over", "action"}
      BY <1>1, <2>5, <3>1 DEF Exec, ExecFails, NewBuilder, Become, Task
    <3>. QED BY <1>3, <3>2 DEF Ended, Inside
  <2>6. CASE TakeBuilder(t)
    BY <1>1, <1>3, <2>6 DEF TakeBuilder, Task, Ended, Inside
  <2>. QED BY <2>1, <2>2, <2>4, <2>5, <2>6 DEF Steps, Run, Completed
<1>. QED BY <1>2, <1>3

\* Environments are written by a task that is inside, which puts its own values or clears.
LEMMA EnvWritten ==
  ASSUME TypeOK, NEW t \in Tasks, Steps(t)
  PROVE  \/ env' = env
         \/ /\ task[t].pc \in Busy
            /\ \A e \in Tasks : \A n \in Names : env'[e][n] \in {env[e][n], t, NoTask}
<1>1. env \in [Tasks -> Env] /\ (task[t].pc \in Busy \ {"new"} => task[t].b \in Tasks)
  BY DEF TypeOK, Busy
<1>2. CASE NewBuilder(t)
  <2>1. \A e \in Tasks : env'[e] = IF e = t THEN Blank ELSE env[e]
    BY <1>1, <1>2 DEF NewBuilder
  <2>. QED BY <1>2, <2>1 DEF NewBuilder, Busy, Inside, At, Blank
<1>3. CASE PutAction(t) \/ PutVersion(t) \/ PutInstance(t)
  <2>1. PICK S \in SUBSET Names : Put(t, S)
    BY <1>3, PutGoes
  <2>2. task[t].b \in Tasks /\ task[t].pc \in Busy
    BY <1>3, PutTask DEF Busy, Inside
  <2>3. \A n \in Names : env'[task[t].b][n] = IF n \in S THEN t ELSE env[task[t].b][n]
    BY <2>1, <2>2, PutPuts
  <2>4. \A e \in Tasks \ {task[t].b} : env'[e] = env[e]
    BY <2>1, <2>2, PutPuts
  <2>. QED BY <2>2, <2>3, <2>4
<1>. QED
  BY <1>2, <1>3 DEF Steps, Run, Completed, Create, Start, Look, Finish, Clear, TakeBuilder,
       Exec, ExecFails, scripting

\* A script is started with what the task's builder has.
LEMMA ScriptWritten ==
  ASSUME TypeOK, NEW t \in Tasks, Steps(t)
  PROVE  script' = script \/ Exec(t)
  BY DEF Steps, Run, Completed, Create, Start, Look, Finish, Clear, TakeBuilder, NewBuilder, PutAction,
       PutVersion, PutInstance, ExecFails, scripting

\* No step of a task deletes an instance.
LEMMA InstancesStay ==
  ASSUME NEW t \in Tasks, Steps(t)
  PROVE  instances' = instances
  BY DEF Steps, Run, Completed, Create, Start, Look, Finish, Clear, TakeBuilder, NewBuilder, PutAction,
       PutVersion, PutInstance, Exec, ExecFails, scripting

\* What a step of t does to t itself, as far as its script is concerned.
LEMMA OwnStep ==
  ASSUME TypeOK, ScriptInv, NEW t \in Tasks, Steps(t)
  PROVE  /\ task'[t].pc \in Busy => task[t].pc \in Busy \/ TakeBuilder(t)
         /\ ~Create(t) => task'[t].kind = task[t].kind /\ task'[t].inst = task[t].inst
         /\ ~Create(t) /\ ~TakeBuilder(t) => task'[t].met = task[t].met
         /\ Create(t) => task'[t].pc = "queued"
<1>1. task[t] \in Task /\ task \in [Tasks -> Task]
  BY DEF TypeOK
<1>2. CASE Create(t)
  <2>1. PICK i \in instances, k \in Kinds :
          task'[t] = [NewTask EXCEPT !.pc = "queued", !.inst = i, !.kind = k, !.lock = TRUE]
    BY <1>2, <1>1 DEF Create, Become
  <2>2. task'[t].pc = "queued"
    BY <2>1, NewIsTask DEF Task
  <2>. QED BY <1>2, <2>2 DEF Busy, Inside
<1>3. ASSUME NEW l, Goto(t, l), ~Create(t), l \in Busy => task[t].pc \in Busy
      PROVE  /\ task'[t].pc = l /\ task'[t].kind = task[t].kind /\ task'[t].inst = task[t].inst
             /\ task'[t].met = task[t].met
  BY <1>1, <1>3 DEF Goto, Become, Task
<1>4. CASE Look(t)
  <2>1. AfterLook(t) \in Before /\ ~Create(t)
    BY <1>4 DEF AfterLook, Before, Look, Create, At
  <2>. QED BY <1>4, <2>1, <1>3 DEF Look, Before, Busy, Inside
<1>5. CASE Finish(t)
  <2>1. ~Create(t)
    BY <1>5 DEF Finish, Create, At
  <2>2. PICK l \in {"clear", "thrown"} : Goto(t, l)
    BY <1>5 DEF Finish
  <2>. QED BY <1>5, <2>1, <2>2, <1>3 DEF Busy, Inside
<1>10. CASE PutAction(t) \/ PutVersion(t) \/ PutInstance(t)
  <2>1. ~Create(t)
    BY <1>10 DEF PutAction, PutVersion, PutInstance, Create, At
  <2>. QED BY <1>10, <2>1, PutTask DEF Busy, Inside
<1>6. CASE Start(t)
  <2>1. task'[t].pc = task[t].pc /\ task'[t].kind = task[t].kind /\ task'[t].inst = task[t].inst
        /\ task'[t].met = task[t].met
    BY <1>1, <1>6 DEF Start, Become, Task
  <2>. QED BY <1>2, <2>1
<1>7. CASE Clear(t) \/ Exec(t) \/ ExecFails(t)
  <2>1. task'[t].pc \in {"builder", "over"} /\ task'[t].kind = task[t].kind /\ task'[t].inst = task[t].inst
        /\ task'[t].met = task[t].met
    BY <1>1, <1>7 DEF Clear, Exec, ExecFails, Become, Task
  <2>. QED BY <1>2, <2>1 DEF Busy, Inside
<1>8. CASE NewBuilder(t)
  <2>1. task[t].pc \in Busy /\ task'[t].kind = task[t].kind /\ task'[t].inst = task[t].inst
        /\ task'[t].met = task[t].met
    BY <1>1, <1>8 DEF NewBuilder, Become, Task, At, Busy, Inside
  <2>. QED BY <1>2, <2>1
<1>9. CASE TakeBuilder(t)
  <2>1. task'[t].kind = task[t].kind /\ task'[t].inst = task[t].inst
    BY <1>1, <1>9 DEF TakeBuilder, Task
  <2>. QED BY <1>2, <1>9, <2>1
<1>. QED BY <1>2, <1>4, <1>5, <1>6, <1>7, <1>8, <1>9, <1>10 DEF Steps, Run, Completed

\* What a step of t puts of its own values.
LEMMA OwnPut ==
  ASSUME TypeOK, ScriptInv, NEW t \in Tasks, Steps(t), ~task'[t].met
  PROVE  OwnEnv(t)'
<1>1. task[t] \in Task /\ task \in [Tasks -> Task] /\ env \in [Tasks -> Env]
  BY DEF TypeOK
<1>2. CASE Create(t) \/ TakeBuilder(t) \/ task'[t].pc \notin Busy
  <2>1. task'[t].pc \notin {"version", "inst", "exec"}
    <3>1. CASE TakeBuilder(t)
      BY <3>1, <1>1 DEF TakeBuilder, Task
    <3>. QED BY <1>2, <3>1, OwnStep DEF Busy, Inside
  <2>. QED BY <2>1 DEF OwnEnv
<1>3. CASE ~Create(t) /\ ~TakeBuilder(t) /\ task'[t].pc \in Busy
  <2>1. /\ task[t].pc \in Busy /\ ~task[t].met /\ OwnEnv(t) /\ instances' = instances
        /\ task'[t].kind = task[t].kind /\ task'[t].inst = task[t].inst
    BY <1>3, OwnStep, InstancesStay DEF ScriptInv
  <2>2. CASE Start(t)
    <3>1. task'[t].pc = task[t].pc /\ task'[t].b = task[t].b /\ task'[t].found = task[t].found /\ env' = env
      BY <1>1, <2>2 DEF Start, Become, Task, scripting
    <3>. QED BY <2>1, <3>1 DEF OwnEnv, There
  <2>3. CASE NewBuilder(t)
    <3>1. task'[t].pc = "action"
      BY <1>1, <2>3 DEF NewBuilder, Become, Task
    <3>. QED BY <3>1 DEF OwnEnv
  <2>4. ASSUME NEW l, Goto(t, l) PROVE task'[t].pc = l /\ task'[t].b = task[t].b
    BY <1>1, <2>4 DEF Goto, Become, Task
  <2>5. task[t].pc # "new" => task[t].b \in Tasks
    BY <2>1 DEF TypeOK, Busy
  <2>6. CASE PutAction(t)
    <3>1. task'[t].pc = "version" /\ task'[t].b = task[t].b /\ Put(t, {"action"})
      BY <1>1, <2>4, <2>6 DEF PutAction
    <3>2. env'[task[t].b]["action"] = t
      BY <2>5, <2>6, <3>1, PutPuts DEF Names, PutAction, At
    <3>. QED BY <3>1, <3>2 DEF OwnEnv
  <2>7. CASE PutVersion(t)
    <3>1. /\ task'[t].pc = "inst" /\ task'[t].b = task[t].b
          /\ Put(t, {n \in {"version"} : task[t].kind \in Versioned})
      BY <2>4, <2>7 DEF PutVersion
    <3>2. env[task[t].b]["action"] = t
      BY <2>1, <2>7 DEF OwnEnv, PutVersion, At
    <3>3. \A n \in Names : env'[task[t].b][n] =
            IF n \in {m \in {"version"} : task[t].kind \in Versioned} THEN t ELSE env[task[t].b][n]
      BY <2>5, <2>7, <3>1, PutPuts DEF PutVersion, At
    <3>4. env'[task[t].b]["action"] = t /\ (task[t].kind \in Versioned => env'[task[t].b]["version"] = t)
      BY <3>2, <3>3 DEF Names
    <3>. QED BY <2>1, <3>1, <3>4 DEF OwnEnv
  <2>8. CASE PutInstance(t)
    <3>1. PICK S \in IF There(t) THEN Findings ELSE {{}} :
            /\ Put(t, {n \in {"running"} : There(t)} \union S)
            /\ Become(t, [task[t] EXCEPT !.pc = "exec", !.found = S])
      BY <2>8 DEF PutInstance
    <3>2. task'[t] = [task[t] EXCEPT !.pc = "exec", !.found = S]
      BY <1>1, <3>1 DEF Become
    <3>3. task'[t].pc = "exec" /\ task'[t].b = task[t].b /\ task'[t].found = S
      BY <1>1, <3>2 DEF Task
    <3>4. env[task[t].b]["action"] = t /\ (task[t].kind \in Versioned => env[task[t].b]["version"] = t)
      BY <2>1, <2>8 DEF OwnEnv, PutInstance, At
    <3>5. \A n \in Names : env'[task[t].b][n] =
            IF n \in {m \in {"running"} : There(t)} \union S THEN t ELSE env[task[t].b][n]
      BY <2>5, <2>8, <3>1, PutPuts DEF PutInstance, At
    <3>6. S \subseteq Found
      BY <3>1, TaskAssumption
    <3>7. /\ env'[task[t].b]["action"] = t
          /\ task[t].kind \in Versioned => env'[task[t].b]["version"] = t
          /\ There(t) => env'[task[t].b]["running"] = t
          /\ \A n \in S : env'[task[t].b][n] = t
      BY <3>4, <3>5, <3>6 DEF Names
    <3>. QED BY <2>1, <3>3, <3>7 DEF OwnEnv, There
  <2>9. CASE Exec(t) \/ ExecFails(t)
    <3>1. task'[t].pc = "over"
      BY <1>1, <2>9 DEF Exec, ExecFails, Become, Task
    <3>. QED BY <3>1 DEF OwnEnv
  <2>10. CASE Look(t) \/ Finish(t) \/ Clear(t)
    BY <2>1, <2>10 DEF Look, Finish, Clear, At, Busy, Inside
  <2>. QED BY <1>3, <2>2, <2>3, <2>6, <2>7, <2>8, <2>9, <2>10 DEF Steps, Run, Completed
<1>. QED BY <1>2, <1>3

\* Every step of a task keeps ScriptInv.
LEMMA ScriptSteps ==
  ASSUME TypeOK, ScriptInv, NEW t \in Tasks, Steps(t)
  PROVE  ScriptInv'
<1>1. task[t] \in Task /\ task \in [Tasks -> Task] /\ script \in [Tasks -> Env]
  BY DEF TypeOK
<1>2. env \in [Tasks -> Env]
  BY DEF TypeOK
<1>3. ASSUME NEW v \in Someone, Gone(v) PROVE Gone(v)'
  BY <1>3, EndedStay DEF Gone, Someone
<1>4. task[t].pc \in Busy => Gone(t)'
  BY EndedStay DEF Gone, Busy, Ended
<1>5. ASSUME NEW e \in Tasks PROVE AllGone(env[e])'
  <2>1. env[e] \in Env /\ AllGone(env[e])
    BY <1>2 DEF ScriptInv
  <2>2. Gone(NoTask)'
    BY DEF Gone
  <2>3. \A n \in Names : Gone(env[e][n]) /\ env[e][n] \in Someone
    BY <2>1 DEF AllGone, Env
  <2>4. \A v : v \in Someone /\ Gone(v) => (v # NoTask => task'[v].pc \in Ended)
    BY <1>3 DEF Gone
  <2>5. task[t].pc \in Busy => task'[t].pc \in Ended
    BY EndedStay DEF Busy, Ended
  <2>. QED BY EnvWritten, <2>3, <2>4, <2>5 DEF AllGone, Gone
<1>6. ASSUME NEW e \in Tasks PROVE AllGone(script[e])'
  <2>1. script'[e] = script[e] \/ script'[e] \in {env[f] : f \in Tasks}
    <3>1. CASE Exec(t)
      BY <3>1, <1>1 DEF Exec, TypeOK, At, Inside
    <3>. QED BY <3>1, ScriptWritten
  <2>2. script'[e] \in Env /\ AllGone(script'[e])
    BY <2>1, <1>1, <1>2 DEF ScriptInv
  <2>3. PICK r \in Env : r = script'[e] /\ AllGone(r)
    BY <2>2
  <2>4. \A v \in Someone : (v # NoTask => task[v].pc \in Ended) => (v # NoTask => task'[v].pc \in Ended)
    BY <1>3 DEF Gone
  <2>5. \A n \in Names : r[n] # NoTask => task'[r[n]].pc \in Ended
    BY <2>3, <2>4 DEF AllGone, Gone, Env
  <2>. QED BY <2>3, <2>5 DEF AllGone, Gone
<1>7. ASSUME NEW u \in Tasks, NEW w \in Tasks, u # w, task'[u].pc \in Busy, task'[w].pc \in Busy
      PROVE  task'[u].met
  <2>1. CASE u # t /\ w # t
    BY <1>7, <2>1, OthersStay DEF ScriptInv
  <2>2. CASE ~TakeBuilder(t) /\ (u = t \/ w = t)
    <3>1. task[u].pc \in Busy /\ task[w].pc \in Busy
      BY <1>7, <2>2, OthersStay, OwnStep
    <3>2. task[u].met
      BY <1>7, <3>1 DEF ScriptInv
    <3>3. ~Create(t)
      BY <1>7, <2>2, OwnStep DEF Busy, Inside
    <3>. QED BY <2>2, <3>2, <3>3, OthersStay, OwnStep
  <2>3. CASE TakeBuilder(t) /\ u = t
    <3>1. w \in Others(t)
      BY <1>7, <2>3, OthersStay DEF Others, Busy
    <3>. QED BY <1>1, <2>3, <3>1 DEF TakeBuilder, Task
  <2>4. CASE TakeBuilder(t) /\ u # t
    <3>1. u \in Others(t) /\ task[u] \in Task
      BY <1>1, <1>7, <2>4, OthersStay DEF Others, Busy
    <3>. QED BY <2>4, <3>1 DEF TakeBuilder, Task
  <2>. QED BY <2>1, <2>2, <2>3, <2>4
<1>8. ASSUME NEW u \in Tasks, ~task'[u].met PROVE OwnEnv(u)'
  <2>1. CASE u = t
    BY <1>8, <2>1, OwnPut
  <2>2. CASE u # t
    <3>1. /\ task'[u].pc = task[u].pc /\ task'[u].b = task[u].b /\ task'[u].kind = task[u].kind
          /\ task'[u].inst = task[u].inst /\ task'[u].found = task[u].found
          /\ ~task[u].met /\ instances' = instances
      BY <1>8, <2>2, OthersStay, InstancesStay
    <3>2. task[u].pc \in Busy => env' = env
      BY <2>2, <3>1, EnvWritten DEF ScriptInv
    <3>. QED BY <3>1, <3>2 DEF ScriptInv, OwnEnv, There, Busy, Inside
  <2>. QED BY <2>1, <2>2
<1>9. ASSUME NEW u \in Tasks, script'[u] # Blank
      PROVE  task'[u].pc \in {"over", "killed", "lost"} /\ (~task'[u].met => OwnScript(u)')
  <2>1. instances' = instances
    BY InstancesStay
  <2>2. CASE u # t
    <3>1. /\ task'[u].pc = task[u].pc /\ task'[u].kind = task[u].kind /\ task'[u].inst = task[u].inst
          /\ task'[u].found = task[u].found
          /\ ~task'[u].met => ~task[u].met
      BY <2>2, OthersStay
    <3>2. script'[u] = script[u]
      BY <2>2, <1>1, ScriptWritten DEF Exec
    <3>. QED BY <1>9, <2>1, <3>1, <3>2 DEF ScriptInv, OwnScript, There
  <2>3. CASE u = t /\ Exec(t)
    <3>1. task'[t].pc = "over" /\ task'[t].met = task[t].met /\ task'[t].kind = task[t].kind
          /\ task'[t].inst = task[t].inst /\ task'[t].found = task[t].found
      BY <1>1, <2>3 DEF Exec, Become, Task
    <3>2. script'[t] = env[task[t].b] /\ task[t].pc = "exec"
      BY <1>1, <2>3 DEF Exec, At
    <3>3. ~task[t].met => OwnEnv(t)
      BY DEF ScriptInv
    <3>. QED BY <2>1, <2>3, <3>1, <3>2, <3>3 DEF OwnEnv, OwnScript, There
  <2>4. CASE u = t /\ ~Exec(t)
    <3>1. script'[t] = script[t] /\ task[t].pc \in {"over", "killed", "lost"}
          /\ (~task[t].met => OwnScript(t))
      BY <1>9, <2>4, ScriptWritten DEF ScriptInv
    <3>2. Start(t)
      BY <3>1, <2>4 DEF Steps, Run, Completed, Create, Look, Finish, Clear, TakeBuilder, NewBuilder,
           PutAction, PutVersion, PutInstance, ExecFails, At
    <3>3. task'[t].pc = task[t].pc /\ task'[t].met = task[t].met /\ task'[t].kind = task[t].kind
          /\ task'[t].inst = task[t].inst /\ task'[t].found = task[t].found
      BY <1>1, <3>2 DEF Start, Become, Task
    <3>. QED BY <2>1, <2>4, <3>1, <3>3 DEF OwnScript, There
  <2>. QED BY <2>2, <2>3, <2>4
<1>. QED BY <1>5, <1>6, <1>7, <1>8, <1>9 DEF ScriptInv

\* Every step keeps it.
LEMMA ScriptStep ==
  ASSUME TypeOK, ScriptInv, [Next]_vars
  PROVE  ScriptInv'
<1>1. ASSUME NEW t \in Tasks, Poll(t) \/ Flush(t) PROVE ScriptInv'
  BY <1>1 DEF Poll, Flush, scripting, ScriptInv, AllGone, Gone, OwnEnv, OwnScript, There
<1>2. ASSUME NEW i \in Instances, Delete(i) PROVE ScriptInv'
  <2>1. \A t \in Tasks : There(t)' => There(t)
    BY <1>2 DEF Delete, There
  <2>2. UNCHANGED <<task, env, script>>
    BY <1>2 DEF Delete, scripting
  <2>. QED BY <2>1, <2>2 DEF ScriptInv, AllGone, Gone, OwnEnv, OwnScript
<1>3. CASE Crash
  <2>1. ASSUME NEW t \in Tasks
        PROVE  /\ task'[t].kind = task[t].kind /\ task'[t].inst = task[t].inst /\ task'[t].met = task[t].met
               /\ task'[t].found = task[t].found
               /\ IF task[t].pc = "none" THEN task'[t].pc = "none" ELSE task'[t].pc \in {"killed", "lost"}
    <3>1. task[t] \in Task /\ task'[t] = Reloaded(t)
      BY <1>3 DEF TypeOK, Crash
    <3>. QED BY <3>1 DEF Reloaded, Task, At
  <2>2. env' = [t \in Tasks |-> Blank] /\ script' = script /\ instances' = instances
    BY <1>3 DEF Crash
  <2>3. \A t \in Tasks : task'[t].pc \notin Inside
    BY <2>1 DEF Inside
  <2>4. ASSUME NEW t \in Tasks PROVE AllGone(env[t])' /\ AllGone(script[t])'
    <3>1. AllGone(script[t]) /\ script[t] \in Env
      BY DEF ScriptInv, TypeOK
    <3>2. \A v \in Someone : (v # NoTask => task[v].pc \in Ended) => (v # NoTask => task'[v].pc \in Ended)
      BY <2>1 DEF Someone, Ended, Inside
    <3>. QED BY <2>2, <3>1, <3>2 DEF AllGone, Gone, Blank, Env
  <2>5. ASSUME NEW t \in Tasks, script[t] # Blank, ~task[t].met PROVE OwnScript(t)'
    BY <2>1, <2>2, <2>5 DEF ScriptInv, OwnScript, There
  <2>. QED BY <2>1, <2>2, <2>3, <2>4, <2>5 DEF ScriptInv, OwnEnv, Busy, Inside
<1>4. CASE UNCHANGED vars
  BY <1>4 DEF vars, scripting, ScriptInv, AllGone, Gone, OwnEnv, OwnScript, There
<1>. QED BY ScriptSteps, <1>1, <1>2, <1>3, <1>4 DEF Next, Steps

\* The script of ProjectDiImpl.taskCompleted is told only of tasks that have ended, and of its
\* own task if no other was in taskCompleted with it.
THEOREM ScriptCorrect == Spec => []ScriptOwn
<1>1. TypeOK /\ ScriptInv => ScriptOwn
  <2>. SUFFICES ASSUME ScriptInv, NEW t \in Tasks
                PROVE  /\ \A n \in Names : script[t][n] # NoTask => task[script[t][n]].pc \in Ended
                       /\ script[t] # Blank /\ ~task[t].met => OwnScript(t)
    BY DEF ScriptOwn, OwnScript
  <2>1. \A n \in Names : Gone(script[t][n])
    BY DEF ScriptInv, AllGone
  <2>. QED BY <2>1 DEF Gone, ScriptInv
<1>. QED BY <1>1, TypeInit, TypeStep, ScriptInit, ScriptStep, PTL DEF Spec
=============================================================================
