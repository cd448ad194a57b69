----------------------- MODULE RunningRegistry_proofs -----------------------
(***************************************************************************)
(* What the register of instances guarantees for every number of machines, *)
(* projects, requests and stops.  FoundWhereItIs rests on FoundInv: the    *)
(* index has what it does not miss where the persister has written it.     *)
(* The two guarantees of the service's monitor, NoAddedTwin and            *)
(* ProjectKept, rest on what a request that holds the monitor has learnt   *)
(* from its search of the index.                                           *)
(***************************************************************************)
EXTENDS RunningRegistry, TLAPS

-----------------------------------------------------------------------------
(* Types *)

\* A thread without a request is described by a request like any other.
LEMMA IdleIsRequest == Idle \in Request
  BY RegistryAssumption DEF Idle, Request, OfInstance, Points, AllKinds

\* The initial states have the types of TypeOK.
LEMMA TypeInit == Init => TypeOK
  BY RegistryAssumption, IdleIsRequest
     DEF Init, TypeOK, Instances, Places, Idle, Request

\* Every request asked for is one.
LEMMA TypeAsk ==
  ASSUME TypeOK, NEW r \in Requests, Ask(r)
  PROVE  TypeOK'
<1>1. ASSUME NEW q \in Request, Become(r, q) PROVE request' \in [Requests -> Request]
  BY <1>1 DEF TypeOK, Become
<1>2. request' \in [Requests -> Request]
  <2>1. CASE AskAdd(r)
    BY <2>1, <1>1, IdleIsRequest DEF AskAdd, TypeOK, Request, OfInstance, Points, AllKinds
  <2>2. CASE AskMove(r)
    <3>1. PICK i \in Instances, m \in machines, p \in projects, l \in {"setMachine", "setProject"} :
            Become(r, [pc |-> l, kind |-> "move", m |-> m, p |-> p, i |-> i])
      BY <2>2 DEF AskMove
    <3>2. i # NewId
      BY DEF Instances, NewId
    <3>3. [pc |-> l, kind |-> "move", m |-> m, p |-> p, i |-> i] \in Request
      BY <3>1, <3>2 DEF TypeOK, Request, OfInstance, Points, AllKinds
    <3>. QED BY <3>1, <3>3, <1>1
  <2>3. CASE AskDelete(r)
    <3>1. PICK i \in Instances :
            Become(r, [Idle EXCEPT !.pc = "containers", !.kind = "delete", !.i = i])
      BY <2>3 DEF AskDelete
    <3>2. i # NewId /\ "containers" \in Points /\ "delete" \in AllKinds
      BY DEF Instances, NewId, Points, AllKinds
    <3>3. [Idle EXCEPT !.pc = "containers", !.kind = "delete", !.i = i] \in Request
      BY <3>2, IdleIsRequest DEF Request
    <3>. QED BY <3>1, <3>3, <1>1
  <2>4. CASE AskDeleteMachine(r)
    BY <2>4, <1>1, IdleIsRequest 
       DEF AskDeleteMachine, TypeOK, Request, OfInstance, Points, AllKinds
  <2>5. CASE AskDeleteProject(r)
    BY <2>5, <1>1, IdleIsRequest 
       DEF AskDeleteProject, TypeOK, Request, OfInstance, Points, AllKinds
  <2>. QED BY <2>1, <2>2, <2>3, <2>4, <2>5 DEF Ask
<1>. QED
  BY <1>2, RegistryAssumption DEF Ask, TypeOK, registry

\* Every step of a request, and of the persister, keeps the types.
LEMMA TypeStep ==
  ASSUME TypeOK, [Next]_vars
  PROVE  TypeOK'
<1>. USE RegistryAssumption, IdleIsRequest DEF TypeOK
<1>1. ASSUME NEW r \in Requests, NEW l \in Points, Goto(r, l),
             l \in OfInstance => request[r].i # NewId
      PROVE  request' \in [Requests -> Request]
  BY <1>1 DEF Goto, Become, Request
<1>2. ASSUME NEW r \in Requests, Done(r)
      PROVE  request' \in [Requests -> Request]
  BY <1>2 DEF Done, Become
<1>3. ASSUME NEW r \in Requests, Step(r) PROVE TypeOK'
  <2>1. CASE Check(r)
    BY <2>1, <1>1, <1>2 DEF Check, registry, Points, OfInstance
  <2>2. CASE Create(r)
    <3>1. added + 1 \in Instances /\ added + 1 \in Nat
      BY <2>2, SMTT(30) DEF Create, Instances
    <3>2. added + 1 # NewId /\ "index" \in Points
      BY DEF NewId, Points
    <3>3. request[r] \in Request
      OBVIOUS
    <3>4. [request[r] EXCEPT !.pc = "index", !.i = added + 1] \in Request
      BY <3>1, <3>2, <3>3 DEF Request
    <3>5. request' \in [Requests -> Request]
      BY <2>2, <3>4 DEF Create, Become
    <3>6. place' \in [Instances -> Places] /\ written' \in [Instances -> Places]
      BY <2>2, <3>1 DEF Create, Places, Request
    <3>. QED BY <2>2, <3>1, <3>5, <3>6 DEF Create, Instances
  <2>3. CASE Index(r)
    <3>1. request[r].i \in Instances
      BY <2>3 DEF Index, Request, OfInstance
    <3>2. place[request[r].i] \in Places
      BY <3>1
    <3>3. Keywords(request[r].i) \subseteq Machines \union Projects
      BY <3>2 DEF Keywords, Places
    <3>4. entry' \in [Instances -> SUBSET (Machines \union Projects)]
      BY <2>3, <3>1, <3>3 DEF Index
    <3>. QED BY <2>3, <3>1, <3>4, <1>2 DEF Index
  <2>4. CASE SearchMachine(r)
    BY <2>4, <1>1, <1>2 DEF SearchMachine, registry, Points, OfInstance
  <2>5. CASE RemoveMachine(r)
    BY <2>5, <1>2 DEF RemoveMachine
  <2>6. CASE SearchProject(r)
    BY <2>6, <1>1, <1>2 DEF SearchProject, registry, Points, OfInstance
  <2>7. CASE RemoveProject(r)
    BY <2>7, <1>2 DEF RemoveProject
  <2>8. CASE RemoveContainers(r)
    BY <2>8, <1>1, <1>2 DEF RemoveContainers, registry, Points, OfInstance
  <2>9. CASE RemoveInstance(r)
    BY <2>9, <1>2 DEF RemoveInstance
  <2>10. CASE SetMachine(r)
    <3>1. place' \in [Instances -> Places]
      BY <2>10 DEF SetMachine, Places, Request
    <3>2. request' \in [Requests -> Request]
      BY <2>10, <1>1, <1>2 DEF SetMachine, Points, OfInstance, Request
    <3>3. dirty' \subseteq Instances /\ moved' \subseteq Instances
      BY <2>10 DEF SetMachine, Request, OfInstance
    <3>. QED BY <2>10, <3>1, <3>2, <3>3 DEF SetMachine
  <2>11. CASE SetProject(r)
    BY <2>11, <1>2 DEF SetProject, Places, Request, OfInstance
  <2>. QED
    BY <1>3, <2>1, <2>2, <2>3, <2>4, <2>5, <2>6, <2>7, <2>8, <2>9, <2>10, <2>11 DEF Step
<1>4. ASSUME NEW r \in Requests, Ask(r) PROVE TypeOK'
  BY <1>4, TypeAsk
<1>5. ASSUME NEW i \in Instances, Flush(i) PROVE TypeOK'
  <2>1. Keywords(i) \subseteq Machines \union Projects
    BY DEF Keywords, Places
  <2>2. entry' \in [Instances -> SUBSET (Machines \union Projects)] /\ missed' \subseteq Instances
    BY <1>5, <2>1 DEF Flush
  <2>3. written' \in [Instances -> Places]
    BY <1>5 DEF Flush
  <2>. QED BY <1>5, <2>2, <2>3 DEF Flush
<1>6. CASE UNCHANGED vars
  BY <1>6 DEF vars, registry
<1>7. CASE Stop
  <2>1. \A r \in Requests : request[r].pc = "index" => request[r].i \in Instances
    BY DEF Request, OfInstance
  <2>2. missed' \subseteq Instances
    BY <1>7, <2>1 DEF Stop
  <2>. QED BY <1>7, <2>2 DEF Stop
<1>. QED BY <1>3, <1>4, <1>5, <1>6, <1>7 DEF Next, Quiet

\* Every reachable state has the types of TypeOK, so the instances the persister holds
\* are among those that were added.
THEOREM TypeCorrect == Spec => []TypeOK
  BY TypeInit, TypeStep, PTL DEF Spec

-----------------------------------------------------------------------------
(* The index *)

\* What the persister has written is where an instance is, or it is to be written.
Written == \A i \in Instances \ dirty : written[i] = place[i]

\* An instance that is still to be indexed for the first time is its request's own: nobody can ask
\* for what no page shows.
Unseen ==
    /\ \A i \in Instances : i > added => entry[i] = {}
    /\ \A i \in dirty : entry[i] # {}
    /\ \A r \in Requests :
         /\ request[r].pc \in {"setMachine", "setProject"} => entry[request[r].i] # {}
         /\ request[r].pc = "index" => entry[request[r].i] = {} /\ request[r].i \in 1..added
    /\ \A r, s \in Requests :
         request[r].pc = "index" /\ request[s].pc = "index" /\ request[r].i = request[s].i => r = s

\* The index has an instance where the persister has written it.
WrittenFound ==
    \A i \in stored \ missed :
      (\A r \in Requests : request[r].pc = "index" => request[r].i # i)
      => written[i].m \in entry[i] /\ written[i].p \in entry[i]

FoundInv == TypeOK /\ Written /\ Unseen /\ WrittenFound

\* No thread has been asked anything, and nothing is stored, at first.
LEMMA FoundInit == Init => FoundInv
  BY TypeInit DEF Init, FoundInv, Written, Unseen, WrittenFound, Idle

\* A step that does not touch what is placed, and after which its request is not at the instance.
LEMMA FoundElsewhere ==
  ASSUME FoundInv, NEW r \in Requests, TypeOK',
         \A s \in Requests \ {r} : request'[s] = request[s],
         request[r].pc # "index", request'[r].pc # "index",
         request'[r].pc \in {"setMachine", "setProject"} => entry[request'[r].i] # {},
         stored' \subseteq stored, UNCHANGED <<place, written, entry, dirty, missed, added>>
  PROVE  FoundInv'
<1>1. Written'
  BY DEF FoundInv, Written
<1>2. Unseen'
  BY DEF FoundInv, Unseen
<1>3. WrittenFound'
  BY DEF FoundInv, WrittenFound
<1>. QED BY <1>1, <1>2, <1>3 DEF FoundInv

\* The instance stored is new to the index.
LEMMA FoundCreate ==
  ASSUME FoundInv, TypeOK', NEW r \in Requests, Create(r)
  PROVE  FoundInv'
<1>. PICK new : new = added + 1
  OBVIOUS
<1>0. TypeOK
  BY DEF FoundInv
<1>1. /\ added \in Nat /\ new \in Instances /\ new \notin 1..added /\ added' = new
      /\ request[r].pc = "create" /\ request[r] \in Request
  BY <1>0, RegistryAssumption DEF Create, TypeOK, Instances
<1>2. /\ request'[r].pc = "index" /\ request'[r].i = new
      /\ \A s \in Requests \ {r} : request'[s] = request[s]
  BY <1>0, <1>1 DEF Create, Become, TypeOK, Request
<1>3. /\ written'[new] = place'[new] /\ stored' = stored \union {new}
      /\ \A i \in Instances \ {new} : written'[i] = written[i] /\ place'[i] = place[i]
      /\ UNCHANGED <<entry, dirty, missed>> /\ stored \subseteq Instances /\ new \notin stored
  BY <1>0, <1>1, RegistryAssumption DEF Create, TypeOK, Instances
<1>4. Written'
  BY <1>3 DEF FoundInv, Written
<1>5. Unseen'
  <2>1. entry[new] = {} /\ \A i \in Instances : i > added' => entry'[i] = {}
    BY <1>1, <1>3 DEF FoundInv, Unseen, Instances
  <2>2. \A s \in Requests \ {r} : request[s].pc = "index" =>
          entry[request[s].i] = {} /\ request[s].i \in 1..added' /\ request[s].i # new
    BY <1>1 DEF FoundInv, Unseen
  <2>. QED BY <1>1, <1>2, <1>3, <2>1, <2>2 DEF FoundInv, Unseen
<1>6. WrittenFound'
  <2>. SUFFICES ASSUME NEW i \in stored' \ missed',
                       \A s \in Requests : request'[s].pc = "index" => request'[s].i # i
                PROVE  written'[i].m \in entry'[i] /\ written'[i].p \in entry'[i]
    BY DEF WrittenFound
  <2>1. i \in stored \ missed /\ i # new
    BY <1>2, <1>3
  <2>2. \A s \in Requests : request[s].pc = "index" => request[s].i # i
    BY <1>1, <1>2
  <2>. QED BY <1>3, <2>1, <2>2 DEF FoundInv, WrittenFound
<1>. QED BY <1>4, <1>5, <1>6 DEF FoundInv

\* The index gets the place of an instance that was not moved yet, or misses it.
LEMMA FoundIndex ==
  ASSUME FoundInv, TypeOK', NEW r \in Requests, Index(r)
  PROVE  FoundInv'
<1>0. TypeOK
  BY DEF FoundInv
<1>. PICK i \in Instances : i = request[r].i
  BY <1>0 DEF Index, TypeOK, Request, OfInstance
<1>1. /\ request[r].pc = "index" /\ entry[i] = {} /\ i \in 1..added /\ i \notin dirty /\ added \in Nat
      /\ written[i] = place[i]
  BY <1>0 DEF Index, FoundInv, Unseen, Written, TypeOK
<1>2. /\ request'[r].pc = "idle" /\ \A s \in Requests \ {r} : request'[s] = request[s]
      /\ UNCHANGED <<stored, place, written, dirty, added>>
      /\ \A j \in Instances \ {i} : entry'[j] = entry[j] /\ (j \in missed' <=> j \in missed)
  BY <1>0 DEF Index, Done, Become, Idle, TypeOK
<1>3. \A s \in Requests \ {r} : request[s].pc = "index" => request[s].i # i
  BY <1>1 DEF FoundInv, Unseen
<1>4. (i \in missed' /\ entry'[i] = {}) \/ entry'[i] = Keywords(i)
  BY <1>0, <1>1 DEF Index, TypeOK
<1>5. Written'
  BY <1>2 DEF FoundInv, Written
<1>6. Unseen'
  <2>1. \A j \in Instances : entry[j] # {} => entry'[j] # {}
    BY <1>1, <1>2
  <2>2. /\ \A s \in Requests : request[s].pc \in {"setMachine", "setProject", "index"} =>
              request[s].i \in Instances
        /\ dirty \subseteq Instances
    BY <1>0 DEF TypeOK, Request, OfInstance
  <2>3. \A j \in Instances : j > added => j # i
    BY <1>1
  <2>. QED BY <1>2, <1>3, <2>1, <2>2, <2>3 DEF FoundInv, Unseen
<1>7. WrittenFound'
  <2>. SUFFICES ASSUME NEW j \in stored' \ missed',
                       \A s \in Requests : request'[s].pc = "index" => request'[s].i # j
                PROVE  written'[j].m \in entry'[j] /\ written'[j].p \in entry'[j]
    BY DEF WrittenFound
  <2>1. CASE j = i
    BY <1>1, <1>2, <1>4, <2>1 DEF Keywords
  <2>2. CASE j # i
    <3>1. j \in Instances
      BY <1>0, <1>2, RegistryAssumption DEF TypeOK, Instances
    <3>2. \A s \in Requests : request[s].pc = "index" => request[s].i # j
      BY <1>2, <2>2
    <3>. QED BY <1>2, <2>2, <3>1, <3>2 DEF FoundInv, WrittenFound
  <2>. QED BY <2>1, <2>2
<1>. QED BY <1>5, <1>6, <1>7 DEF FoundInv

\* A move marks the instance to be written and indexed again.
LEMMA FoundMove ==
  ASSUME FoundInv, TypeOK', NEW r \in Requests, SetMachine(r) \/ SetProject(r)
  PROVE  FoundInv'
<1>0. TypeOK
  BY DEF FoundInv
<1>. PICK i \in Instances : i = request[r].i
  BY <1>0 DEF SetMachine, SetProject, TypeOK, Request, OfInstance
<1>1. /\ request[r].pc \in {"setMachine", "setProject"} /\ entry[i] # {}
      /\ UNCHANGED <<stored, written, entry, missed, added>> /\ dirty' = dirty \union {i}
  BY DEF SetMachine, SetProject, FoundInv, Unseen
<1>2. \A j \in Instances \ {i} : place'[j] = place[j]
  <2>1. CASE SetMachine(r)
    BY <1>0, <2>1 DEF SetMachine, TypeOK
  <2>2. CASE SetProject(r)
    BY <1>0, <2>2 DEF SetProject, TypeOK
  <2>. QED BY <2>1, <2>2
<1>3. /\ request'[r].pc \in {"idle", "setProject"}
      /\ request'[r].pc = "setProject" => request'[r].i = i
      /\ \A s \in Requests \ {r} : request'[s] = request[s]
  <2>. USE <1>0 DEF TypeOK, Goto, Done, Become, Idle, Request
  <2>1. CASE SetMachine(r)
    BY <2>1 DEF SetMachine
  <2>2. CASE SetProject(r)
    BY <2>2 DEF SetProject
  <2>. QED BY <2>1, <2>2
<1>4. Written'
  BY <1>1, <1>2 DEF FoundInv, Written
<1>5. Unseen'
  BY <1>1, <1>3 DEF FoundInv, Unseen
<1>6. WrittenFound'
  BY <1>1, <1>3 DEF FoundInv, WrittenFound
<1>. QED BY <1>4, <1>5, <1>6 DEF FoundInv

\* The persister writes an instance where it is, and indexes it there or misses it.
LEMMA FoundFlush ==
  ASSUME FoundInv, TypeOK', NEW i \in Instances, Flush(i)
  PROVE  FoundInv'
<1>0. TypeOK
  BY DEF FoundInv
<1>1. /\ i \in dirty /\ entry[i] # {} /\ entry'[i] # {} /\ written'[i] = place[i]
      /\ dirty' = dirty \ {i} /\ UNCHANGED <<stored, place, added, request>>
      /\ \A j \in Instances \ {i} : /\ entry'[j] = entry[j] /\ (j \in missed' <=> j \in missed)
                                     /\ written'[j] = written[j]
      /\ i \in missed' \/ entry'[i] = Keywords(i)
  BY <1>0 DEF Flush, FoundInv, Unseen, TypeOK, Keywords
<1>2. Written'
  BY <1>1 DEF FoundInv, Written
<1>3. Unseen'
  <2>1. \A s \in Requests : request[s].pc \in {"setMachine", "setProject", "index"} =>
          request[s].i \in Instances
    BY <1>0 DEF TypeOK, Request, OfInstance
  <2>2. dirty \subseteq Instances
    BY <1>0 DEF TypeOK
  <2>. QED BY <1>1, <2>1, <2>2 DEF FoundInv, Unseen
<1>4. WrittenFound'
  <2>1. stored \subseteq Instances
    BY <1>0, RegistryAssumption DEF TypeOK, Instances
  <2>. QED BY <1>1, <2>1 DEF FoundInv, WrittenFound, Keywords
<1>. QED BY <1>2, <1>3, <1>4 DEF FoundInv

\* After a stop, the instances are where the persister has written them, and the index has those
\* there that it did not miss.
LEMMA FoundStop ==
  ASSUME FoundInv, TypeOK', Stop
  PROVE  FoundInv'
<1>1. /\ place' = written /\ dirty' = {} /\ UNCHANGED <<stored, written, entry, added>>
      /\ \A s \in Requests : request'[s].pc = "idle"
      /\ \A s \in Requests : request[s].pc = "index" => request[s].i \in missed'
      /\ missed \subseteq missed'
  BY DEF Stop, Idle
<1>2. Written' /\ Unseen'
  BY <1>1 DEF FoundInv, Written, Unseen
<1>3. WrittenFound'
  BY <1>1 DEF FoundInv, WrittenFound
<1>. QED BY <1>2, <1>3 DEF FoundInv

\* The index goes on having the instances where they are written.
LEMMA FoundStep ==
  ASSUME FoundInv, [Next]_vars
  PROVE  FoundInv'
<1>0. TypeOK /\ TypeOK'
  BY TypeStep DEF FoundInv
<1>3. ASSUME NEW r \in Requests, Step(r)
      PROVE  FoundInv'
  <2>3. CASE Check(r)
    BY <1>0, <2>3, FoundElsewhere DEF Check, Goto, Done, Become, Idle, registry, TypeOK, Request
  <2>6. CASE SearchMachine(r)
    BY <1>0, <2>6, FoundElsewhere DEF SearchMachine, Goto, Done, Become, Idle, registry, TypeOK, Request
  <2>7. CASE RemoveMachine(r)
    BY <1>0, <2>7, FoundElsewhere DEF RemoveMachine, Done, Become, Idle, TypeOK
  <2>8. CASE SearchProject(r)
    BY <1>0, <2>8, FoundElsewhere DEF SearchProject, Goto, Done, Become, Idle, registry, TypeOK, Request
  <2>9. CASE RemoveProject(r)
    BY <1>0, <2>9, FoundElsewhere DEF RemoveProject, Done, Become, Idle, TypeOK
  <2>10. CASE RemoveContainers(r)
    BY <1>0, <2>10, FoundElsewhere
       DEF RemoveContainers, Goto, Done, Become, Idle, registry, TypeOK, Request
  <2>11. CASE RemoveInstance(r)
    BY <1>0, <2>11, FoundElsewhere DEF RemoveInstance, Done, Become, Idle, TypeOK
  <2>. QED
    BY <1>0, <1>3, <2>3, <2>6, <2>7, <2>8, <2>9, <2>10, <2>11, FoundCreate, FoundIndex, FoundMove DEF Step
<1>4. ASSUME NEW r \in Requests, Ask(r)
      PROVE  FoundInv'
  <2>1. request[r].pc # "index" /\ UNCHANGED registry
    BY <1>4 DEF Ask
  <2>2. /\ \A s \in Requests \ {r} : request'[s] = request[s]
        /\ request'[r].pc # "index"
        /\ request'[r].pc \in {"setMachine", "setProject"} => entry[request'[r].i] # {}
    <3>. USE <1>0 DEF TypeOK, Become, Idle
    <3>1. CASE AskAdd(r)
      BY <3>1 DEF AskAdd
    <3>2. CASE AskMove(r)
      <4>1. PICK i \in Instances, m \in machines, p \in projects, l \in {"setMachine", "setProject"} :
              /\ Shown(i)
              /\ request' = [request EXCEPT ![r] = [pc |-> l, kind |-> "move", m |-> m, p |-> p, i |-> i]]
        BY <3>2 DEF AskMove
      <4>2. request'[r].pc = l /\ request'[r].i = i
        BY <4>1
      <4>. QED BY <4>1, <4>2 DEF Shown
    <3>3. CASE AskDelete(r)
      BY <3>3 DEF AskDelete
    <3>4. CASE AskDeleteMachine(r)
      BY <3>4 DEF AskDeleteMachine
    <3>5. CASE AskDeleteProject(r)
      BY <3>5 DEF AskDeleteProject
    <3>. QED BY <1>4, <3>1, <3>2, <3>3, <3>4, <3>5 DEF Ask
  <2>. QED BY <1>0, <2>1, <2>2, FoundElsewhere DEF registry
<1>6. CASE UNCHANGED vars
  BY <1>0, <1>6 DEF vars, registry, FoundInv, Written, Unseen, WrittenFound
<1>. QED BY <1>0, <1>3, <1>4, <1>6, FoundFlush, FoundStop DEF Next, Quiet

\* The searches look for where an instance is, which is where it is written, if it is not to be
\* written again.
LEMMA FoundSearch == FoundInv => FoundWhereItIs
<1>1. FoundInv => stored \subseteq Instances
  BY RegistryAssumption DEF FoundInv, TypeOK, Instances
<1>. QED BY <1>1 DEF FoundInv, Written, WrittenFound, FoundWhereItIs, Hits

\* Whatever is added, moved and deleted, and wherever the service stops, a search of the index
\* finds an instance for its machine and its project, if it was not missed, from the end of its
\* addition on, but for the time between a move and the persister's next write.
THEOREM SearchFinds == Spec => []FoundWhereItIs
  BY FoundInit, FoundStep, FoundSearch, PTL DEF Spec

-----------------------------------------------------------------------------
(* What the monitor of the service guarantees *)

\* An instance that waits to be indexed again was moved, an instance to be moved was
\* added, and containers are removed for a deletion of their instance.
Moves ==
    /\ dirty \subseteq moved /\ moved \subseteq 1..added /\ missed \subseteq 1..added
    /\ \A r \in Requests :
         /\ request[r].pc \in {"setMachine", "setProject"} => request[r].i \in 1..added
         /\ request[r].pc = "containers" => request[r].kind = "delete"

\* The instance a request indexes has been added; the index holds the keywords of its
\* place for an instance that was not moved, or nothing.
IndexSound ==
    /\ \A r \in Requests : request[r].pc = "index" => request[r].i \in 1..added
    /\ \A i \in Instances : i > added => entry[i] = {}
    /\ \A i \in Instances \ moved : entry[i] \in {{}, Keywords(i)}

\* A request holds the monitor from its search to the end.
Inside(r) ==
    \/ request[r].pc \in {"create", "index"}
    \/ request[r].pc = "remove" /\ request[r].kind = "deleteProject"
HoldsMonitor == \A r \in Requests : Inside(r) => monitor = r

\* What addRunning has learnt: the machine has no instance of the project.
Vacant ==
    \A r \in Requests : request[r].pc = "create" =>
      \A i \in Counted : place[i] = [m |-> request[r].m, p |-> request[r].p]
                               => place[i].p \notin projects

\* What delete(Project) has learnt: no instance the index knows of is one of it.
Unwanted ==
    \A r \in Requests : request[r].pc = "remove" /\ request[r].kind = "deleteProject" =>
      \A i \in Counted : place[i].p = request[r].p => entry[i] = {}

MonitorInv ==
    /\ TypeOK /\ FoundInv
    /\ Moves /\ IndexSound /\ HoldsMonitor /\ Vacant /\ Unwanted /\ NoAddedTwin

\* Nothing is stored at first, and no request holds the monitor.
LEMMA MonitorInit == Init => MonitorInv
  BY TypeInit, FoundInit, RegistryAssumption
     DEF Init, MonitorInv, Moves, IndexSound, HoldsMonitor, Inside, Vacant, Unwanted, NoAddedTwin,
         Counted, Idle, Instances

\* A request that holds the monitor is the only one inside.
LEMMA OthersOutside ==
  ASSUME MonitorInv, NEW r \in Requests, monitor \in {r, Nobody}
  PROVE  \A s \in Requests \ {r} : ~Inside(s)
  BY RegistryAssumption DEF MonitorInv, HoldsMonitor

\* What a step may change outside: the place and the entry of moved instances, and which the index
\* misses.
Outside ==
    /\ Counted' \subseteq Counted /\ projects' \subseteq projects /\ added' = added
    /\ moved \subseteq moved' /\ moved' \subseteq 1..added /\ dirty' \subseteq moved'
    /\ missed' \subseteq 1..added
    /\ \A i \in Instances \ moved' : place'[i] = place[i] /\ entry'[i] = entry[i]
    /\ \A i \in Instances : i > added => entry'[i] = entry[i]

\* A step after which the request is outside, and that adds nothing, keeps the invariant.
LEMMA OutsideKeeps ==
  ASSUME MonitorInv, TypeOK', FoundInv', NEW r \in Requests,
         \A s \in Requests \ {r} : request'[s] = request[s],
         request'[r].pc \notin {"create", "index"},
         request'[r].pc \in {"setMachine", "setProject"} => request'[r].i \in 1..added,
         request'[r].pc = "containers" => request'[r].kind = "delete",
         ~(request'[r].pc = "remove" /\ request'[r].kind = "deleteProject"),
         monitor' = monitor \/ monitor = r,
         Outside
  PROVE  MonitorInv'
<1>1. Counted' \subseteq Instances \ moved'
  BY RegistryAssumption DEF TypeOK, Counted, Instances
<1>2. Moves' /\ IndexSound'
  BY DEF MonitorInv, Moves, IndexSound, Keywords, Outside
<1>3. HoldsMonitor'
  BY OthersOutside DEF MonitorInv, HoldsMonitor, Inside
<1>4. /\ \A i \in Counted' :
           i \in Counted /\ place'[i] = place[i] /\ entry'[i] = entry[i]
      /\ projects' \subseteq projects
  BY <1>1 DEF Outside
<1>5. Vacant'
  BY <1>4 DEF MonitorInv, Vacant
<1>6. Unwanted'
  BY <1>4 DEF MonitorInv, Unwanted
<1>7. NoAddedTwin'
  BY <1>4 DEF MonitorInv, NoAddedTwin
<1>. QED BY <1>2, <1>3, <1>5, <1>6, <1>7 DEF MonitorInv

\* Most steps outside leave the register, but for what is stored, as it is.
LEMMA StillOutside ==
  ASSUME MonitorInv, stored' \subseteq stored, projects' \subseteq projects,
         UNCHANGED <<place, entry, dirty, moved, missed, added>>
  PROVE  Outside
  BY DEF Outside, MonitorInv, Moves, Counted

\* addRunning lets a request in only when the machine has no instance of the project.
LEMMA CheckKeeps ==
  ASSUME MonitorInv, TypeOK', FoundInv', NEW r \in Requests, Check(r)
  PROVE  MonitorInv'
<1>1. request[r] \in Request /\ request' = [request EXCEPT ![r] = request'[r]]
  BY DEF MonitorInv, TypeOK, Check, Goto, Done, Become
<1>2. CASE Done(r) /\ UNCHANGED monitor
  BY <1>2, OutsideKeeps, StillOutside DEF MonitorInv, TypeOK, Check, Done, Become, Idle, registry
<1>4. CASE ~Refused(r) /\ Goto(r, "create") /\ monitor' = r
  <2>1. /\ monitor = Nobody /\ monitor' = r /\ UNCHANGED registry
        /\ \A s \in Requests \ {r} : request'[s] = request[s] /\ ~Inside(s)
    BY <1>4, OthersOutside DEF Check, Goto, Become, MonitorInv, TypeOK
  <2>2. request'[r].pc = "create" /\ request'[r].m = request[r].m /\ request'[r].p = request[r].p
    BY <1>4 DEF Check, Goto, Become, MonitorInv, TypeOK, Request
  <2>3. ASSUME NEW i \in Counted, place[i] = [m |-> request[r].m, p |-> request[r].p],
               place[i].p \in projects
        PROVE  FALSE
    <3>1. \A s \in Requests : request[s].pc # "index"
      BY <2>1 DEF Inside, Check
    <3>2. i \in Hits(place[i].m)
      BY <2>3, <3>1, FoundSearch DEF MonitorInv, FoundWhereItIs, Moves, Counted
    <3>. QED BY <1>4, <2>3, <3>2 DEF Refused
  <2>4. Moves' /\ IndexSound' /\ NoAddedTwin'
    BY <2>1, <2>2 DEF MonitorInv, Moves, IndexSound, NoAddedTwin, Counted, Keywords, registry
  <2>5. HoldsMonitor' /\ Unwanted'
    BY <2>1, <2>2 DEF HoldsMonitor, Unwanted, Inside
  <2>6. Vacant'
    BY <2>1, <2>2, <2>3 DEF Vacant, Inside, Counted, registry
  <2>. QED BY <2>4, <2>5, <2>6 DEF MonitorInv
<1>. QED BY <1>2, <1>4 DEF Check

\* The instance stored is the first of its project on its machine.
LEMMA CreateKeeps ==
  ASSUME MonitorInv, TypeOK', FoundInv', NEW r \in Requests, Create(r)
  PROVE  MonitorInv'
<1>. DEFINE new == added + 1
<1>1. /\ request[r] \in Request /\ request[r].pc = "create" /\ monitor = r /\ monitor' = r
      /\ new \notin stored /\ new \in Instances
  BY RegistryAssumption DEF MonitorInv, TypeOK, Create, HoldsMonitor, Inside, Instances
<1>2. /\ request'[r].pc = "index" /\ request'[r].i = new
      /\ \A s \in Requests \ {r} : request'[s] = request[s] /\ ~Inside(s)
  BY <1>1, OthersOutside DEF Create, Become, MonitorInv, TypeOK, Request
<1>3. /\ place'[new] = [m |-> request[r].m, p |-> request[r].p]
      /\ \A i \in Instances \ {new} : place'[i] = place[i]
      /\ stored' = stored \union {new} /\ stored \subseteq Instances \ {new}
      /\ UNCHANGED <<projects, entry, dirty, moved, missed>>
  BY <1>1, RegistryAssumption DEF Create, MonitorInv, TypeOK, Instances
<1>4. Moves'
  <2>1. added' = new /\ added \in Nat
    BY DEF Create, MonitorInv, TypeOK
  <2>2. 1..added \subseteq 1..added'
    BY <2>1
  <2>. QED BY <1>2, <1>3, <2>2 DEF MonitorInv, Moves
<1>5. IndexSound'
  <2>1. added' = new /\ added \in Nat
    BY DEF Create, MonitorInv, TypeOK
  <2>2. entry[new] = {}
    BY <1>1, <2>1 DEF MonitorInv, IndexSound
  <2>3. \A i \in Instances \ moved' : entry'[i] \in {{}, Keywords(i)'}
    BY <1>3, <2>2 DEF MonitorInv, IndexSound, Keywords
  <2>4. \A i \in Instances : i > added' => entry'[i] = {}
    BY <1>3, <2>1 DEF MonitorInv, IndexSound, Instances
  <2>5. \A s \in Requests : request'[s].pc = "index" => request'[s].i \in 1..added'
    BY <1>2, <2>1 DEF Inside
  <2>. QED BY <2>3, <2>4, <2>5 DEF IndexSound
<1>6. HoldsMonitor' /\ Vacant' /\ Unwanted'
  BY <1>1, <1>2 DEF HoldsMonitor, Vacant, Unwanted, Inside
<1>7. NoAddedTwin'
  <2>1. \A i \in Counted : place[i] = place'[new] => place[i].p \notin projects
    BY <1>1, <1>3 DEF MonitorInv, Vacant
  <2>2. \A i \in Counted' : i = new \/ (i \in Counted /\ place'[i] = place[i])
    BY <1>3 DEF Counted
  <2>. QED BY <1>3, <2>1, <2>2 DEF MonitorInv, NoAddedTwin
<1>. QED BY <1>4, <1>5, <1>6, <1>7 DEF MonitorInv

\* The index gets the keywords of the place of the instance, or misses it.
LEMMA IndexKeeps ==
  ASSUME MonitorInv, TypeOK', FoundInv', NEW r \in Requests, Index(r)
  PROVE  MonitorInv'
<1>1. /\ monitor = r /\ request'[r] = Idle
      /\ \A s \in Requests \ {r} : request'[s] = request[s] /\ ~Inside(s)
  BY OthersOutside DEF Index, Done, Become, MonitorInv, TypeOK, HoldsMonitor, Inside
<1>2. /\ UNCHANGED <<projects, stored, place, dirty, moved, added>>
      /\ missed \subseteq missed' /\ missed' \subseteq missed \union {request[r].i}
      /\ request[r].i \in 1..added
  BY DEF Index, MonitorInv, IndexSound
<1>6. Counted' \subseteq Counted
  BY <1>2 DEF Counted
<1>3. Moves' /\ NoAddedTwin'
  BY <1>1, <1>2, <1>6 DEF MonitorInv, Moves, NoAddedTwin, Idle
<1>4. HoldsMonitor' /\ Vacant' /\ Unwanted'
  BY <1>1 DEF HoldsMonitor, Vacant, Unwanted, Inside, Idle
<1>5. IndexSound'
  <2>1. request[r].i \in 1..added /\ added \in Nat
    BY DEF Index, MonitorInv, TypeOK, IndexSound
  <2>2. \A i \in Instances : entry'[i] \in {entry[i], Keywords(i)}
    BY DEF Index, MonitorInv, TypeOK
  <2>3. \A i \in Instances : i > added => entry'[i] = entry[i]
    BY <2>1 DEF Index, MonitorInv, TypeOK, Instances
  <2>4. \A s \in Requests : request'[s].pc # "index"
    BY <1>1 DEF Idle, Inside
  <2>. QED BY <1>2, <2>2, <2>3, <2>4 DEF MonitorInv, IndexSound, Keywords
<1>. QED BY <1>3, <1>4, <1>5 DEF MonitorInv

\* delete(Project) lets a request in only when the index knows no instance of the project.
LEMMA SearchProjectKeeps ==
  ASSUME MonitorInv, TypeOK', FoundInv', NEW r \in Requests, SearchProject(r)
  PROVE  MonitorInv'
<1>1. CASE Done(r) /\ UNCHANGED monitor
  BY <1>1, OutsideKeeps, StillOutside
     DEF MonitorInv, TypeOK, SearchProject, Done, Become, Idle, registry
<1>2. CASE Hits(request[r].p) = {} /\ Goto(r, "remove") /\ monitor' = r
  <2>1. /\ monitor = Nobody /\ monitor' = r /\ UNCHANGED registry
        /\ \A s \in Requests \ {r} : request'[s] = request[s] /\ ~Inside(s)
    BY <1>2, OthersOutside DEF SearchProject, Goto, Become, MonitorInv, TypeOK
  <2>2. request'[r].pc = "remove" /\ request'[r].p = request[r].p
    BY <1>2 DEF SearchProject, Goto, Become, MonitorInv, TypeOK, Request
  <2>3. \A i \in Counted : place[i].p = request[r].p => entry[i] = {}
    <3>1. Counted \subseteq (Instances \ moved) \cap stored
      BY RegistryAssumption DEF MonitorInv, TypeOK, Instances, Counted
    <3>. QED BY <1>2, <3>1 DEF Hits, MonitorInv, IndexSound, Keywords
  <2>4. Moves' /\ IndexSound' /\ NoAddedTwin'
    BY <2>1, <2>2 DEF MonitorInv, Moves, IndexSound, NoAddedTwin, Counted, Keywords, registry
  <2>5. HoldsMonitor' /\ Vacant'
    BY <2>1, <2>2 DEF HoldsMonitor, Vacant, Inside
  <2>6. Unwanted'
    BY <2>1, <2>2, <2>3 DEF Unwanted, Inside, Counted, registry
  <2>. QED BY <2>4, <2>5, <2>6 DEF MonitorInv
<1>. QED BY <1>1, <1>2 DEF SearchProject

\* A move marks the instance, and is made outside.
LEMMA MoveKeeps ==
  ASSUME MonitorInv, TypeOK', FoundInv', NEW r \in Requests, SetMachine(r) \/ SetProject(r)
  PROVE  MonitorInv'
<1>. DEFINE i == request[r].i
<1>1. request[r] \in Request /\ i \in 1..added /\ ~Inside(r)
  BY DEF MonitorInv, TypeOK, Moves, SetMachine, SetProject, Inside
<1>2. /\ request'[r].pc \in {"idle", "setProject"}
      /\ request'[r].pc = "setProject" => request'[r].i = i
      /\ \A s \in Requests \ {r} : request'[s] = request[s]
  <2>. USE DEF MonitorInv, TypeOK, Goto, Done, Become, Idle, Request
  <2>1. CASE SetMachine(r)
    BY <2>1 DEF SetMachine
  <2>2. CASE SetProject(r)
    BY <2>2 DEF SetProject
  <2>. QED BY <2>1, <2>2
<1>3. /\ UNCHANGED <<stored, projects, entry, missed, added, monitor>>
      /\ moved' = moved \union {i} /\ dirty' = dirty \union {i}
      /\ \A j \in Instances \ {i} : place'[j] = place[j]
  <2>1. CASE SetMachine(r)
    BY <2>1 DEF SetMachine, MonitorInv, TypeOK
  <2>2. CASE SetProject(r)
    BY <2>2 DEF SetProject, MonitorInv, TypeOK
  <2>. QED BY <2>1, <2>2
<1>. HIDE DEF i
<1>4. Outside
  BY <1>1, <1>3 DEF Outside, MonitorInv, Moves, Counted
<1>. QED BY <1>1, <1>2, <1>3, <1>4, OutsideKeeps

\* What the persister writes in the index is the place of an instance that was moved.
LEMMA FlushKeeps ==
  ASSUME MonitorInv, TypeOK', FoundInv', NEW i \in Instances, Flush(i)
  PROVE  MonitorInv'
<1>1. /\ i \in moved /\ moved \subseteq 1..added /\ added \in Nat
      /\ dirty' \subseteq dirty /\ \A j \in Instances \ {i} : entry'[j] = entry[j]
      /\ UNCHANGED <<projects, stored, place, moved, added, monitor, request>>
      /\ missed' \subseteq missed \union {i} /\ missed \subseteq missed' \union {i}
  BY DEF Flush, MonitorInv, Moves, TypeOK
<1>6. Counted' = Counted
  BY <1>1 DEF Counted
<1>2. Moves'
  BY <1>1 DEF MonitorInv, Moves
<1>3. IndexSound'
  <2>1. \A j \in Instances : j > added \/ j \notin moved => j # i
    BY <1>1
  <2>. QED BY <1>1, <2>1 DEF MonitorInv, IndexSound, Keywords
<1>4. HoldsMonitor' /\ Vacant' /\ NoAddedTwin'
  BY <1>1, <1>6 DEF MonitorInv, HoldsMonitor, Inside, Vacant, NoAddedTwin
<1>5. Unwanted'
  <2>1. Counted \subseteq Instances \ {i}
    BY <1>1, RegistryAssumption DEF MonitorInv, TypeOK, Instances, Counted
  <2>. QED BY <1>1, <1>6, <2>1 DEF MonitorInv, Unwanted
<1>. QED BY <1>2, <1>3, <1>4, <1>5 DEF MonitorInv

\* Nobody is inside after a stop; instances that were not moved are where they were.
LEMMA StopKeeps ==
  ASSUME MonitorInv, TypeOK', FoundInv', Stop
  PROVE  MonitorInv'
<1>1. /\ place' = written /\ dirty' = {} /\ UNCHANGED <<projects, stored, entry, moved, added>>
      /\ \A s \in Requests : request'[s].pc = "idle"
      /\ missed \subseteq missed' /\ missed' \subseteq 1..added
  BY DEF Stop, Idle, MonitorInv, IndexSound, Moves
<1>2. \A i \in Instances \ moved : place'[i] = place[i]
  BY <1>1 DEF MonitorInv, FoundInv, Written, Moves
<1>3. Counted' \subseteq Counted /\ Counted \subseteq Instances \ moved
  BY <1>1, RegistryAssumption DEF Counted, MonitorInv, TypeOK, Instances
<1>4. Moves' /\ HoldsMonitor' /\ Vacant' /\ Unwanted'
  BY <1>1 DEF MonitorInv, Moves, HoldsMonitor, Inside, Vacant, Unwanted
<1>5. IndexSound' /\ NoAddedTwin'
  BY <1>1, <1>2, <1>3 DEF MonitorInv, IndexSound, NoAddedTwin, Keywords
<1>. QED BY <1>4, <1>5 DEF MonitorInv

\* Every request starts outside.
LEMMA AskKeeps ==
  ASSUME MonitorInv, TypeOK', FoundInv', NEW r \in Requests, Ask(r)
  PROVE  MonitorInv'
<1>1. UNCHANGED <<registry, monitor>>
  BY DEF Ask
<1>2. \A s \in Requests \ {r} : request'[s] = request[s]
  BY DEF Ask, AskAdd, AskMove, AskDelete, AskDeleteMachine, AskDeleteProject, Become,
         MonitorInv, TypeOK
<1>3. /\ request'[r].pc \in {"check", "containers", "search", "setMachine", "setProject"}
      /\ request'[r].pc \in {"setMachine", "setProject"} => request'[r].i \in 1..added
      /\ request'[r].pc = "containers" => request'[r].kind = "delete"
  <2>. USE DEF MonitorInv, TypeOK, Become, Idle
  <2>1. CASE AskAdd(r)
    BY <2>1 DEF AskAdd
  <2>2. CASE AskDelete(r)
    BY <2>2 DEF AskDelete
  <2>3. CASE AskDeleteMachine(r)
    BY <2>3 DEF AskDeleteMachine
  <2>4. CASE AskDeleteProject(r)
    BY <2>4 DEF AskDeleteProject
  <2>5. CASE AskMove(r)
    <3>1. PICK i \in Instances, m \in machines, p \in projects, l \in {"setMachine", "setProject"} :
            /\ i \in stored
            /\ request' = [request EXCEPT ![r] = [pc |-> l, kind |-> "move", m |-> m, p |-> p, i |-> i]]
      BY <2>5 DEF AskMove, Shown, Visible
    <3>2. request'[r].pc = l /\ request'[r].i = i
      BY <3>1
    <3>. QED BY <3>1, <3>2
  <2>. QED BY <2>1, <2>2, <2>3, <2>4, <2>5 DEF Ask
<1>. QED
  BY <1>1, <1>2, <1>3, OutsideKeeps, StillOutside DEF registry

\* Every step keeps what the requests inside the monitor have learnt.
LEMMA MonitorStep ==
  ASSUME MonitorInv, [Next]_vars
  PROVE  MonitorInv'
<1>1. TypeOK' /\ FoundInv'
  BY TypeStep, FoundStep DEF MonitorInv
<1>2. ASSUME NEW r \in Requests, Step(r) PROVE MonitorInv'
  <2>1. CASE Check(r) \/ Create(r) \/ Index(r) \/ SearchProject(r)
    BY <1>1, <2>1, CheckKeeps, CreateKeeps, IndexKeeps, SearchProjectKeeps
  <2>2. CASE SearchMachine(r)
    BY <1>1, <2>2, OutsideKeeps, StillOutside
       DEF SearchMachine, Goto, Done, Become, MonitorInv, TypeOK, Request, Idle, registry
  <2>3. CASE RemoveMachine(r)
    BY <1>1, <2>3, OutsideKeeps, StillOutside DEF RemoveMachine, Done, Become, MonitorInv, TypeOK, Idle
  <2>4. CASE RemoveProject(r)
    <3>1. monitor = r
      BY <2>4 DEF RemoveProject, MonitorInv, HoldsMonitor, Inside
    <3>. QED
      BY <1>1, <2>4, <3>1, OutsideKeeps, StillOutside DEF RemoveProject, Done, Become, MonitorInv, TypeOK, Idle
  <2>5. CASE RemoveContainers(r)
    <3>1. request[r].kind = "delete"
      BY <2>5 DEF RemoveContainers, MonitorInv, Moves
    <3>. QED
      BY <1>1, <2>5, <3>1, OutsideKeeps, StillOutside
         DEF RemoveContainers, Goto, Done, Become, MonitorInv, TypeOK, Request, Idle, registry
  <2>6. CASE RemoveInstance(r)
    BY <1>1, <2>6, OutsideKeeps, StillOutside DEF RemoveInstance, Done, Become, MonitorInv, TypeOK, Idle
  <2>7. CASE SetMachine(r) \/ SetProject(r)
    BY <1>1, <2>7, MoveKeeps
  <2>. QED BY <1>2, <2>1, <2>2, <2>3, <2>4, <2>5, <2>6, <2>7 DEF Step
<1>3. ASSUME NEW r \in Requests, Ask(r) PROVE MonitorInv'
  BY <1>1, <1>3, AskKeeps
<1>4. ASSUME NEW i \in Instances, Flush(i) PROVE MonitorInv'
  BY <1>1, <1>4, FlushKeeps
<1>5. CASE UNCHANGED vars
  BY <1>1, <1>5
     DEF vars, registry, MonitorInv, Moves, IndexSound, Keywords, HoldsMonitor, Inside, Vacant,
         Unwanted, NoAddedTwin, Counted
<1>. QED BY <1>1, <1>2, <1>3, <1>4, <1>5, StopKeeps DEF Next, Quiet

\* A request that removes a project is alone inside, and has found no instance of it but moved
\* ones: the index knows all the others.
LEMMA NoneLeft ==
  ASSUME MonitorInv, NEW r \in Requests, RemoveProject(r), request[r].p \in projects,
         NEW i \in Counted
  PROVE  place[i].p # request[r].p
<1>1. /\ request[r].pc = "remove" /\ request[r].kind = "deleteProject"
      /\ monitor = r
  BY DEF RemoveProject, MonitorInv, HoldsMonitor, Inside
<1>2. \A s \in Requests : request[s].pc # "index"
  BY <1>1, OthersOutside DEF Inside
<1>3. i \in stored \ (dirty \union missed)
  BY DEF MonitorInv, Moves, Counted
<1>4. entry[i] # {}
  BY <1>2, <1>3, FoundSearch DEF MonitorInv, FoundWhereItIs, Hits
<1>. QED BY <1>1, <1>4 DEF MonitorInv, Unwanted

\* A project goes only when delete(Project), inside the monitor, has found none of it.
LEMMA ProjectStep ==
  ASSUME MonitorInv, [Next]_vars
  PROVE  \A p \in projects \ projects' : \A i \in Counted : place[i].p # p
<1>1. CASE projects' = projects
  BY <1>1
<1>2. ASSUME NEW r \in Requests, RemoveProject(r)
      PROVE  \A p \in projects \ projects' : \A i \in Counted : place[i].p # p
  <2>1. projects' = projects \ {request[r].p}
    BY <1>2 DEF RemoveProject
  <2>. QED BY <1>2, <2>1, NoneLeft
<1>. QED
  BY <1>1, <1>2
     DEF Next, Step, Ask, Check, Create, Index, SearchMachine, RemoveMachine, SearchProject,
         RemoveContainers, RemoveInstance, SetMachine, SetProject, Flush, Stop, Quiet, vars, registry

\* "no two equal instances on one machine" (ProjectServiceImpl.java:219): however many
\* requests add, move, delete and retry, and however often the service stops, of the instances
\* that were not moved, nor missed by the index, a machine has one of a project at most.
THEOREM OnePerMachine == Spec => []NoAddedTwin
<1>1. MonitorInv /\ [Next]_vars => MonitorInv'
  BY MonitorStep
<1>2. MonitorInv => NoAddedTwin
  BY DEF MonitorInv
<1>. QED BY MonitorInit, <1>1, <1>2, PTL DEF Spec

\* A project with an instance that was not moved, nor missed by the index, is never removed.
THEOREM ProjectsKept == Spec => ProjectKept
<1>1. MonitorInv /\ [Next]_vars => MonitorInv'
  BY MonitorStep
<1>2. MonitorInv /\ [Next]_vars
      => [\A p \in projects \ projects' : \A i \in Counted : place[i].p # p]_vars
  BY ProjectStep
<1>. QED BY MonitorInit, <1>1, <1>2, PTL DEF Spec, ProjectKept

-----------------------------------------------------------------------------
(* Every request takes effect at one step *)

\* What the register counts on after a step that leaves it where it is.
LEMMA PlacedAfter ==
  ASSUME NEW i, \A j \in Counted \ {i} : Placement(j)' = Placement(j)
  PROVE  /\ i \notin Counted /\ Counted' = Counted => PlacedNow' = PlacedNow
         /\ i \notin Counted /\ Counted' = Counted \union {i}
              => PlacedNow' = PlacedNow \union {Placement(i)'}
         /\ i \in Counted /\ Counted' = Counted \ {i} => PlacedNow' = PlacedNow \ {Placement(i)}
<1>1. \A j : Placement(j).i = j
  BY DEF Placement
<1>2. \A j \in Counted \ {i} : Placement(j) # Placement(i)
  BY <1>1
<1>3. PlacedNow = {Placement(j) : j \in Counted} /\ PlacedNow' = {Placement(j)' : j \in Counted'}
  BY DEF PlacedNow
<1>. QED BY <1>2, <1>3

\* Most steps change nothing that counts.
LEMMA NothingPlaced ==
  ASSUME UNCHANGED <<projects, stored, place, moved, missed, added>>
  PROVE  UNCHANGED Abs!placeVars
<1>1. PlacedNow' = PlacedNow
  BY DEF PlacedNow, Placement, Counted
<1>. QED BY <1>1 DEF Abs!placeVars

\* What addRunning found when it checked still holds when the instance is stored.
LEMMA CreatePlaces ==
  ASSUME MonitorInv, NEW r \in Requests, Create(r)
  PROVE  Abs!PlaceNext
<1>. PICK new, m, p : new = added + 1 /\ m = request[r].m /\ p = request[r].p
  OBVIOUS
<1>1. /\ request[r].pc = "create" /\ m \in Machines /\ p \in Projects
      /\ new \in Instances /\ new \notin stored /\ new \notin moved \union missed
      /\ added \in Nat /\ added < MaxAsked
  BY RegistryAssumption DEF Create, MonitorInv, TypeOK, Request, Moves, Instances
<1>2. /\ Counted' = Counted \union {new} /\ new \notin Counted
      /\ added' = new /\ projects' = projects
      /\ place'[new] = [m |-> m, p |-> p]
      /\ \A j \in Counted : place'[j] = place[j]
  BY <1>1 DEF Create, MonitorInv, TypeOK, Counted
<1>3. /\ Placement(new)' = [i |-> new, m |-> m, p |-> p]
      /\ \A j \in Counted \ {new} : Placement(j)' = Placement(j)
  <2>1. place'[new].m = m /\ place'[new].p = p
    BY <1>2
  <2>2. Placement(new)' = [i |-> new, m |-> place'[new].m, p |-> place'[new].p]
    BY DEF Placement
  <2>3. \A j \in Counted \ {new} : Placement(j)' = Placement(j)
    BY <1>2 DEF Placement
  <2>. QED BY <2>1, <2>2, <2>3
<1>4. PlacedNow' = PlacedNow \union {[i |-> new, m |-> m, p |-> p]}
  BY <1>1, <1>2, <1>3, PlacedAfter
<1>5. ASSUME p \in projects, NEW x \in PlacedNow PROVE <<x.m, x.p>> # <<m, p>>
  <2>1. PICK j \in Counted : x = Placement(j)
    BY DEF PlacedNow
  <2>2. x.m = place[j].m /\ x.p = place[j].p
    BY <2>1 DEF Placement
  <2>3. place[j] = [m |-> m, p |-> p] => place[j].p \notin projects
    BY <1>1 DEF MonitorInv, Vacant
  <2>4. place[j] = [m |-> place[j].m, p |-> place[j].p]
    BY RegistryAssumption DEF MonitorInv, TypeOK, Places, Instances, Counted
  <2>. QED BY <1>5, <2>2, <2>3, <2>4
<1>6. Abs!Place(m, p)
  BY <1>1, <1>2, <1>4, <1>5 DEF Abs!Place
<1>. QED BY <1>1, <1>6 DEF Abs!PlaceNext

\* What delete(Project) found when it searched still holds when the project is removed.
LEMMA RemoveDrops ==
  ASSUME MonitorInv, NEW r \in Requests, RemoveProject(r)
  PROVE  Abs!PlaceNext \/ UNCHANGED Abs!placeVars
<1>. PICK p : p = request[r].p
  OBVIOUS
<1>1. /\ p \in Projects /\ projects' = projects \ {p}
      /\ UNCHANGED <<stored, place, moved, missed, added>>
  BY DEF RemoveProject, MonitorInv, TypeOK, Request
<1>2. CASE p \notin projects
  BY <1>1, <1>2, NothingPlaced
<1>3. CASE p \in projects
  <2>1. PlacedNow' = PlacedNow
    BY <1>1 DEF PlacedNow, Placement, Counted
  <2>2. ASSUME NEW x \in PlacedNow PROVE x.p # p
    <3>1. PICK j \in Counted : x = Placement(j)
      BY DEF PlacedNow
    <3>2. x.p = place[j].p
      BY <3>1 DEF Placement
    <3>. QED BY <1>3, <3>2, NoneLeft
  <2>3. Abs!DropProject(p)
    BY <1>1, <1>3, <2>1, <2>2 DEF Abs!DropProject
  <2>. QED BY <1>1, <2>3 DEF Abs!PlaceNext
<1>. QED BY <1>2, <1>3

\* A step after which an instance counts no longer, and the others stay, removes it, if it counted.
LEMMA LessCounted ==
  ASSUME NEW i, Counted' = Counted \ {i}, UNCHANGED <<projects, added>>,
         \A j \in Counted \ {i} : place'[j] = place[j]
  PROVE  Abs!PlaceNext \/ UNCHANGED Abs!placeVars
<1>1. \A j \in Counted \ {i} : Placement(j)' = Placement(j)
  BY DEF Placement
<1>2. CASE i \notin Counted
  <2>1. PlacedNow' = PlacedNow
    BY <1>1, <1>2, PlacedAfter
  <2>. QED BY <2>1 DEF Abs!placeVars
<1>3. CASE i \in Counted
  <2>2. PlacedNow' = PlacedNow \ {Placement(i)} /\ Placement(i) \in PlacedNow
    BY <1>1, <1>3, PlacedAfter DEF PlacedNow
  <2>3. Abs!Remove(Placement(i))
    BY <2>2 DEF Abs!Remove
  <2>. QED BY <2>2, <2>3 DEF Abs!PlaceNext
<1>. QED BY <1>2, <1>3

\* An instance that is deleted, moved or missed by the index counts no longer.
LEMMA StepRemoves ==
  ASSUME MonitorInv, NEW r \in Requests,
         RemoveInstance(r) \/ SetMachine(r) \/ SetProject(r) \/ Index(r)
  PROVE  Abs!PlaceNext \/ UNCHANGED Abs!placeVars
<1>. PICK i : i = request[r].i
  OBVIOUS
<1>1. /\ UNCHANGED <<projects, added>>
      /\ \A j \in Instances \ {i} : place'[j] = place[j]
  <2>1. CASE SetMachine(r)
    BY <2>1 DEF SetMachine, MonitorInv, TypeOK
  <2>2. CASE SetProject(r)
    BY <2>2 DEF SetProject, MonitorInv, TypeOK
  <2>3. CASE RemoveInstance(r) \/ Index(r)
    BY <2>3 DEF RemoveInstance, Index
  <2>. QED BY <2>1, <2>2, <2>3
<1>2. Counted \subseteq Instances
  BY RegistryAssumption DEF Counted, MonitorInv, TypeOK, Instances
<1>3. CASE RemoveInstance(r)
  <2>1. Counted' = Counted \ {i}
    BY <1>3 DEF RemoveInstance, Counted
  <2>. QED BY <1>1, <1>2, <2>1, LessCounted
<1>4. CASE SetMachine(r) \/ SetProject(r)
  <2>1. Counted' = Counted \ {i}
    BY <1>4 DEF SetMachine, SetProject, Counted
  <2>. QED BY <1>1, <1>2, <2>1, LessCounted
<1>5. CASE Index(r)
  <2>1. CASE UNCHANGED missed
    BY <1>5, <2>1, NothingPlaced DEF Index
  <2>2. CASE missed' = missed \union {i}
    <3>1. Counted' = Counted \ {i}
      BY <1>5, <2>2 DEF Index, Counted
    <3>. QED BY <1>1, <1>2, <3>1, LessCounted
  <2>. QED BY <1>5, <2>1, <2>2 DEF Index
<1>. QED BY <1>3, <1>4, <1>5

\* When the service stops, one request at most was inside, and so at its indexing.
LEMMA StopRemoves ==
  ASSUME MonitorInv, Stop
  PROVE  Abs!PlaceNext \/ UNCHANGED Abs!placeVars
<1>1. /\ place' = written /\ UNCHANGED <<projects, stored, moved, added>>
      /\ missed' = missed \union {request[r].i : r \in {s \in Requests : request[s].pc = "index"}}
  BY DEF Stop
<1>2. \A j \in Counted : place'[j] = place[j]
  BY <1>1, RegistryAssumption
     DEF Counted, MonitorInv, TypeOK, FoundInv, Written, Moves, Instances
<1>3. CASE \A s \in Requests : request[s].pc # "index"
  <2>1. Counted' = Counted
    BY <1>1, <1>3 DEF Counted
  <2>2. PlacedNow' = PlacedNow
    BY <1>2, <2>1 DEF PlacedNow, Placement
  <2>. QED BY <1>1, <2>2 DEF Abs!placeVars
<1>4. ASSUME NEW r \in Requests, request[r].pc = "index"
      PROVE  Abs!PlaceNext \/ UNCHANGED Abs!placeVars
  <2>1. \A s \in Requests : request[s].pc = "index" => s = r
    BY <1>4 DEF MonitorInv, HoldsMonitor, Inside
  <2>2. Counted' = Counted \ {request[r].i}
    BY <1>1, <1>4, <2>1 DEF Counted
  <2>. QED BY <1>1, <1>2, <2>2, LessCounted
<1>. QED BY <1>3, <1>4

\* The persister indexes instances that were moved, which do not count.
LEMMA FlushNothing ==
  ASSUME MonitorInv, NEW i \in Instances, Flush(i)
  PROVE  UNCHANGED Abs!placeVars
<1>1. i \in moved /\ UNCHANGED <<projects, stored, place, moved, added>>
      /\ missed' \subseteq missed \union {i} /\ missed \subseteq missed' \union {i}
  BY DEF Flush, MonitorInv, Moves
<1>2. Counted' = Counted
  BY <1>1 DEF Counted
<1>3. PlacedNow' = PlacedNow
  BY <1>1, <1>2 DEF PlacedNow, Placement
<1>. QED BY <1>1, <1>3 DEF Abs!placeVars

\* Each step of the register is one of Placements, or none.
LEMMA PlacementStep ==
  ASSUME MonitorInv, [Next]_vars
  PROVE  Abs!PlaceNext \/ UNCHANGED Abs!placeVars
<1>1. ASSUME NEW r \in Requests, Step(r) PROVE Abs!PlaceNext \/ UNCHANGED Abs!placeVars
  <2>1. CASE Check(r) \/ SearchMachine(r) \/ RemoveMachine(r) \/ SearchProject(r)
             \/ RemoveContainers(r)
    BY <2>1, NothingPlaced
       DEF Check, SearchMachine, RemoveMachine, SearchProject, RemoveContainers, registry
  <2>. QED BY <1>1, <2>1, CreatePlaces, RemoveDrops, StepRemoves DEF Step
<1>2. ASSUME NEW r \in Requests, Ask(r) PROVE UNCHANGED Abs!placeVars
  BY <1>2, NothingPlaced DEF Ask, registry
<1>3. CASE UNCHANGED vars
  BY <1>3, NothingPlaced DEF vars, registry
<1>. QED BY <1>1, <1>2, <1>3, FlushNothing, StopRemoves DEF Next, Quiet

\* For any number of machines, projects, threads and requests of all kinds, wherever indexing fails
\* and the service stops: additions and deletions, which check first and change later, each take
\* effect at one step, as Placements has it, where what they checked holds.
THEOREM PlacementsImplemented == Spec => ImplementsPlacements
<1>1. Init => Abs!PlaceInit
  BY DEF Init, Abs!PlaceInit, PlacedNow, Counted
<1>2. MonitorInv /\ [Next]_vars => MonitorInv'
  BY MonitorStep
<1>3. MonitorInv /\ [Next]_vars => [Abs!PlaceNext]_(Abs!placeVars)
  BY PlacementStep
<1>. QED BY MonitorInit, <1>1, <1>2, <1>3, PTL DEF Spec, ImplementsPlacements, Abs!PlaceSpec
=============================================================================
