-------------------------- MODULE RemoteLog_proofs --------------------------
(***************************************************************************)
(* What holds of a server's log for any number of threads, days, entries   *)
(* and restarts: types, that entries written one at a time read back, that *)
(* no stream of theirs is left open, and that no offset is past its file.  *)
(***************************************************************************)
EXTENDS RemoteLog, FiniteSetTheorems, SequenceTheorems, TLAPS

Steps(w) == Post(w) \/ Hit(w) \/ Write(w)

-----------------------------------------------------------------------------
(* Streams and bytes *)

\* What an entry adds to a file.
LEMMA BytesAre ==
  ASSUME NEW e \in Entries, NEW n \in Nat
  PROVE  Bytes(e, n) \in Seq(Entries) /\ Len(Bytes(e, n)) = n /\ \A k \in 1..n : Bytes(e, n)[k] = e
  BY DEF Bytes

\* A file keeps what it had, and gets the entry at its end.
LEMMA FileAppended ==
  ASSUME NEW f \in Seq(Entries), NEW e \in Entries, NEW n \in Nat
  PROVE  /\ f \o Bytes(e, n) \in Seq(Entries)
         /\ Len(f \o Bytes(e, n)) = Len(f) + n
         /\ \A k \in 1..Len(f) : (f \o Bytes(e, n))[k] = f[k]
         /\ \A k \in 1..n : (f \o Bytes(e, n))[Len(f) + k] = e
<1>1. Bytes(e, n) \in Seq(Entries) /\ Len(Bytes(e, n)) = n /\ \A k \in 1..n : Bytes(e, n)[k] = e
  BY BytesAre
<1>2. Len(f) \in Nat
  BY LenProperties
<1>3. PICK b \in Seq(Entries) : b = Bytes(e, n) /\ Len(b) = n /\ \A k \in 1..n : b[k] = e
  BY <1>1
<1>4. /\ f \o b \in Seq(Entries) /\ Len(f \o b) = Len(f) + n
      /\ \A i \in 1..Len(f) + n : (f \o b)[i] = IF i <= Len(f) THEN f[i] ELSE b[i - Len(f)]
  BY <1>3, ConcatProperties
<1>5. \A k \in 1..Len(f) : (f \o b)[k] = f[k]
  BY <1>2, <1>4
<1>6. ASSUME NEW k \in 1..n PROVE (f \o b)[Len(f) + k] = e
  <2>1. Len(f) + k \in 1..Len(f) + n /\ ~(Len(f) + k <= Len(f)) /\ Len(f) + k - Len(f) = k
    BY <1>2
  <2>. QED BY <1>3, <1>4, <2>1
<1>. QED BY <1>3, <1>4, <1>5, <1>6

\* Closing a stream changes nothing else of it, nor of others.
LEMMA Closing ==
  ASSUME NEW s \in Seq(Out), NEW i \in 1..Len(s)
  PROVE  /\ Closed(s, i) \in Seq(Out) /\ Len(Closed(s, i)) = Len(s)
         /\ \A j \in 1..Len(s) : /\ Closed(s, i)[j].name = s[j].name /\ Closed(s, i)[j].offset = s[j].offset
                                 /\ Closed(s, i)[j].open = IF j = i THEN FALSE ELSE s[j].open
<1>1. s[i] \in Out
  BY LenProperties
<1>. DEFINE o == [s[i] EXCEPT !.open = FALSE]
<1>2. o \in Out
  BY <1>1 DEF Out
<1>3. o.name = s[i].name /\ o.offset = s[i].offset /\ o.open = FALSE
  BY <1>1 DEF Out
<1>4. Closed(s, i) = [s EXCEPT ![i] = o]
  BY DEF Closed
<1>. HIDE DEF o
<1>5. /\ [s EXCEPT ![i] = o] \in Seq(Out) /\ Len([s EXCEPT ![i] = o]) = Len(s)
      /\ \A j \in 1..Len(s) : [s EXCEPT ![i] = o][j] = IF j = i THEN o ELSE s[j]
  BY <1>2, ExceptSeq
<1>. QED BY <1>3, <1>4, <1>5

\* So does storing its offset.
LEMMA Storing ==
  ASSUME NEW s \in Seq(Out), NEW i \in 1..Len(s), NEW n \in Nat
  PROVE  /\ Stored(s, i, n) \in Seq(Out) /\ Len(Stored(s, i, n)) = Len(s)
         /\ \A j \in 1..Len(s) : /\ Stored(s, i, n)[j].name = s[j].name /\ Stored(s, i, n)[j].open = s[j].open
                                 /\ Stored(s, i, n)[j].offset = IF j = i THEN n ELSE s[j].offset
<1>1. s[i] \in Out
  BY LenProperties
<1>. DEFINE o == [s[i] EXCEPT !.offset = n]
<1>2. o \in Out
  BY <1>1 DEF Out
<1>3. o.name = s[i].name /\ o.open = s[i].open /\ o.offset = n
  BY <1>1 DEF Out
<1>4. Stored(s, i, n) = [s EXCEPT ![i] = o]
  BY DEF Stored
<1>. HIDE DEF o
<1>5. /\ [s EXCEPT ![i] = o] \in Seq(Out) /\ Len([s EXCEPT ![i] = o]) = Len(s)
      /\ \A j \in 1..Len(s) : [s EXCEPT ![i] = o][j] = IF j = i THEN o ELSE s[j]
  BY <1>2, ExceptSeq
<1>. QED BY <1>3, <1>4, <1>5

-----------------------------------------------------------------------------
(* Types *)

\* What TypeOK says of a thread.
WriterOK(r, n) ==
    /\ r \in Writer
    /\ r.saw \in 0..n /\ r.out \in 0..n
    /\ r.pc = "close" => r.saw # 0
    /\ r.pc \in {"close", "put"} \union Holding => r.out # 0
    /\ r.pc \in Working => r.entry \in Entries

\* A thread that is idle is one.
LEMMA IdleOK == \A n \in Nat : WriterOK(Idle, n)
  BY RemoteLogAssumption DEF WriterOK, Idle, Writer, Step, Days, Holding, Working

\* The type of the threads, by thread.
LEMMA TypeOfWriters ==
  TypeOK <=> /\ today \in Days
             /\ file \in [Days -> Seq(Entries)]
             /\ outs \in Seq(Out) /\ cache \in 0..Len(outs)
             /\ index \subseteq Subject
             /\ posted \in 0..MaxEntries /\ restarts \in 0..MaxRestarts
             /\ overlapped \subseteq Days
             /\ writer \in [Writers -> Writer]
             /\ \A w \in Writers : WriterOK(writer[w], Len(outs))
  BY DEF TypeOK, WriterOK, At

\* The initial states have the types of TypeOK.
LEMMA TypeInit == Init => TypeOK
<1>. SUFFICES ASSUME Init PROVE TypeOK
  OBVIOUS
<1>1. outs \in Seq(Out) /\ Len(outs) = 0 /\ \A d \in Days : file[d] \in Seq(Entries)
  BY EmptySeq DEF Init
<1>2. WriterOK(Idle, 0)
  BY IdleOK
<1>. QED BY <1>1, <1>2, TypeOfWriters, RemoteLogAssumption DEF Init, Days, WriterOK

\* Every step of a thread keeps the types.
LEMMA TypeSteps ==
  ASSUME TypeOK, NEW w \in Writers, Steps(w)
  PROVE  TypeOK'
<1>. USE RemoteLogAssumption
<1>1. /\ today \in Days /\ file \in [Days -> Seq(Entries)] /\ outs \in Seq(Out) /\ cache \in 0..Len(outs)
      /\ index \subseteq Subject /\ posted \in 0..MaxEntries /\ restarts \in 0..MaxRestarts
      /\ overlapped \subseteq Days /\ writer \in [Writers -> Writer] /\ Len(outs) \in Nat
      /\ \A v \in Writers : WriterOK(writer[v], Len(outs))
  BY TypeOfWriters, LenProperties
<1>2. /\ writer[w] \in Writer /\ WriterOK(writer[w], Len(outs))
      /\ writer[w].pc \in {"close", "put"} \union Holding => writer[w].out \in 1..Len(outs)
  BY <1>1 DEF WriterOK
<1>12. writer[w].out \in 1..Len(outs) =>
         MyOut(w) \in Out /\ MyOut(w).name \in Days /\ MyOut(w).offset \in Nat
  <2>1. ASSUME writer[w].out \in 1..Len(outs) PROVE outs[writer[w].out] \in Out
    BY <1>1, <2>1, LenProperties
  <2>. QED BY <2>1 DEF MyOut, Out
<1>13. /\ writer[w].day \in Days /\ writer[w].entry \in Nat /\ writer[w].off \in Nat /\ writer[w].at \in Nat
       /\ writer[w].len \in Nat /\ (writer[w].pc \in Working => writer[w].entry \in Entries)
  BY <1>2 DEF WriterOK, Writer
<1>14. cache \in Nat /\ Len(outs) + 1 \in Nat /\ Days \subseteq Nat /\ Entries \subseteq Nat
  BY <1>1 DEF Days, Entries
<1>3. ASSUME NEW r, Become(w, r), Len(outs') \in Nat, Len(outs') >= Len(outs), WriterOK(r, Len(outs'))
      PROVE  writer' \in [Writers -> Writer] /\ \A v \in Writers : WriterOK(writer'[v], Len(outs'))
  <2>1. \A v \in Writers : WriterOK(writer[v], Len(outs'))
    BY <1>1, <1>3 DEF WriterOK
  <2>. QED BY <1>1, <1>3, <2>1 DEF Become, WriterOK
<1>4. WriterOK(Idle, Len(outs))
  BY <1>1, IdleOK
<1>. DEFINE Kept == /\ today' \in Days /\ index' \subseteq Subject /\ posted' \in 0..MaxEntries
                    /\ restarts' \in 0..MaxRestarts /\ overlapped' \subseteq Days
            Streams == outs' \in Seq(Out) /\ Len(outs') = Len(outs) /\ cache' \in 0..Len(outs)
            Files == file' \in [Days -> Seq(Entries)]
            Threads == writer' \in [Writers -> Writer] /\ \A v \in Writers : WriterOK(writer'[v], Len(outs'))
<1>5. ASSUME Kept, Streams, Files, Threads PROVE TypeOK'
  BY <1>5 DEF WriterOK, TypeOK, At
<1>. HIDE DEF Kept, Streams, Files, Threads
<1>6. ASSUME UNCHANGED <<outs, cache>> PROVE Streams
  BY <1>1, <1>6 DEF Streams
<1>7. ASSUME Streams, NEW r, Become(w, r), WriterOK(r, Len(outs)) PROVE Threads
  BY <1>1, <1>3, <1>7 DEF Streams, Threads
<1>8. CASE Post(w)
  <2>1. PICK n \in Lengths :
          Become(w, [Idle EXCEPT !.pc = "get", !.day = today, !.entry = posted + 1, !.len = n])
    BY <1>8 DEF Post
  <2>2. posted + 1 \in Entries /\ n \in Nat
    BY <1>1, <1>8 DEF Post, Entries
  <2>3. WriterOK([Idle EXCEPT !.pc = "get", !.day = today, !.entry = posted + 1, !.len = n], Len(outs))
    <3>. DEFINE r == [Idle EXCEPT !.pc = "get", !.day = today, !.entry = posted + 1, !.len = n]
    <3>1. r \in Writer
      BY <1>1, <1>14, <2>2 DEF Idle, Writer, Step
    <3>2. r.pc = "get" /\ r.saw = 0 /\ r.out = 0 /\ r.entry = posted + 1
      BY DEF Idle
    <3>. QED BY <1>1, <2>2, <3>1, <3>2 DEF WriterOK, Holding
  <2>4. \A v \in Writers : writer[v].day \in Days
    BY <1>1 DEF Writer
  <2>5. Kept
    BY <1>1, <1>8, <2>2, <2>4 DEF Post, Kept, Entries, Others
  <2>6. Files
    BY <1>1, <1>8 DEF Post, Files
  <2>. QED BY <1>5, <1>6, <1>7, <1>8, <2>1, <2>3, <2>5, <2>6 DEF Post
<1>9. CASE \/ Get(w) \/ Open(w) \/ OpenFails(w) \/ CloseOld(w) \/ Put(w)
           \/ ReadOffset(w) \/ AppendEntry(w) \/ AppendFails(w) \/ Reread(w) \/ Store(w)
  <2>1. Kept
    BY <1>1, <1>9 DEF Kept, counters, Get, Open, OpenFails, CloseOld, Put, ReadOffset, AppendEntry,
         AppendFails, Reread, Store
  <2>2. CASE Get(w)
    <3>1. WriterOK([writer[w] EXCEPT !.pc = "open", !.saw = cache], Len(outs))
      <4>. DEFINE r == [writer[w] EXCEPT !.pc = "open", !.saw = cache]
      <4>1. r \in Writer
        BY <1>2, <1>14 DEF Writer, Step, Holding
      <4>2. r.pc = "open" /\ r.saw = cache /\ r.out = writer[w].out /\ r.entry = writer[w].entry
        BY <1>2 DEF Writer
      <4>. QED BY <1>1, <1>2, <2>2, <4>1, <4>2 DEF Get, WriterOK, Holding, Working, Step, At
    <3>2. cache # 0 => WriterOK([writer[w] EXCEPT !.pc = "off", !.out = cache], Len(outs))
      <4>. DEFINE r == [writer[w] EXCEPT !.pc = "off", !.out = cache]
      <4>1. r \in Writer
        BY <1>2, <1>14 DEF Writer, Step, Holding
      <4>2. r.pc = "off" /\ r.saw = writer[w].saw /\ r.out = cache /\ r.entry = writer[w].entry
        BY <1>2 DEF Writer
      <4>. QED BY <1>1, <1>2, <2>2, <4>1, <4>2 DEF Get, WriterOK, Holding, Working, Step, At
    <3>3. Files
      BY <1>1, <2>2 DEF Get, Files
    <3>. QED BY <1>5, <1>6, <1>7, <2>1, <2>2, <3>1, <3>2, <3>3 DEF Get
  <2>3. CASE Open(w)
    <3>. DEFINE o == [name |-> writer[w].day, offset |-> Len(file[writer[w].day]), open |-> TRUE]
                r == [writer[w] EXCEPT !.pc = IF writer[w].saw = 0 THEN "put" ELSE "close", !.out = Len(outs) + 1]
    <3>1. o \in Out
      BY <1>1, <1>2, LenProperties DEF Out, Writer
    <3>2. outs' \in Seq(Out) /\ Len(outs') = Len(outs) + 1
      BY <1>1, <2>3, <3>1, AppendProperties DEF Open
    <3>3. WriterOK(r, Len(outs) + 1)
      <4>1. \A l \in {"put", "close"} : [writer[w] EXCEPT !.pc = l, !.out = Len(outs) + 1] \in Writer
        BY <1>2, <1>14 DEF Writer, Step
      <4>2. r \in Writer
        BY <4>1
      <4>3. /\ r.pc = (IF writer[w].saw = 0 THEN "put" ELSE "close") /\ r.saw = writer[w].saw
            /\ r.out = Len(outs) + 1 /\ r.entry = writer[w].entry
        BY <1>2 DEF Writer
      <4>. QED BY <1>1, <1>2, <2>3, <4>2, <4>3 DEF Open, WriterOK, Holding, Working, Step, At
    <3>4. Threads
      <4>1. Become(w, r)
        BY <2>3 DEF Open
      <4>. HIDE DEF r
      <4>2. Len(outs') \in Nat /\ Len(outs') >= Len(outs) /\ WriterOK(r, Len(outs'))
        BY <1>1, <3>2, <3>3
      <4>. QED BY <1>3, <4>1, <4>2 DEF Threads
    <3>5. Files /\ cache' \in 0..Len(outs')
      BY <1>1, <2>3, <3>2 DEF Open, Files
    <3>. QED BY <2>1, <3>2, <3>4, <3>5 DEF Kept, Threads, Files, WriterOK, TypeOK, At
  <2>4. CASE OpenFails(w) \/ AppendFails(w)
    <3>1. Files
      BY <1>1, <2>4 DEF OpenFails, AppendFails, Files
    <3>. QED BY <1>4, <1>5, <1>6, <1>7, <2>1, <2>4, <3>1 DEF OpenFails, AppendFails, Leave
  <2>5. ASSUME NEW l \in Holding \union {"put"}, Goto(w, l), writer[w].out # 0, writer[w].pc \in Working, Streams
        PROVE  Threads
    <3>1. WriterOK([writer[w] EXCEPT !.pc = l], Len(outs))
      BY <1>1, <1>2, <2>5 DEF WriterOK, Writer, Step, Holding, Working
    <3>. QED BY <1>7, <2>5, <3>1 DEF Goto
  <2>6. CASE CloseOld(w)
    <3>1. writer[w].saw \in 1..Len(outs) /\ writer[w].out # 0 /\ writer[w].pc \in Working
      BY <1>2, <2>6 DEF CloseOld, WriterOK, At, Working, Step
    <3>2. Streams
      BY <1>1, <2>6, <3>1, Closing DEF CloseOld, Streams
    <3>3. Files
      BY <1>1, <2>6 DEF CloseOld, Files
    <3>. QED BY <1>5, <2>1, <2>5, <2>6, <3>1, <3>2, <3>3 DEF CloseOld
  <2>7. CASE Put(w)
    <3>1. writer[w].out \in 1..Len(outs) /\ writer[w].pc \in Working
      BY <1>2, <2>7 DEF Put, At, Working, Step
    <3>2. Files
      BY <1>1, <2>7 DEF Put, Files
    <3>3. CASE writer[w].saw # 0 \/ cache = 0
      <4>1. Streams
        BY <1>1, <2>7, <3>1, <3>3 DEF Put, Streams
      <4>. QED BY <1>5, <2>1, <2>5, <2>7, <3>1, <3>2, <3>3, <4>1 DEF Put, Holding
    <3>4. CASE ~(writer[w].saw # 0 \/ cache = 0)
      <4>1. Streams
        <5>1. outs' = Closed(outs, writer[w].out) /\ cache' = cache
          BY <2>7, <3>4 DEF Put
        <5>. QED BY <1>1, <3>1, <5>1, Closing DEF Streams
      <4>2. WriterOK([writer[w] EXCEPT !.pc = "off", !.out = cache], Len(outs))
        <5>. DEFINE r == [writer[w] EXCEPT !.pc = "off", !.out = cache]
        <5>1. r \in Writer
          BY <1>2, <1>14 DEF Writer, Step, Holding
        <5>2. r.pc = "off" /\ r.saw = writer[w].saw /\ r.out = cache /\ r.entry = writer[w].entry
          BY <1>2 DEF Writer
        <5>. QED BY <1>1, <1>2, <3>1, <3>4, <5>1, <5>2 DEF WriterOK, Holding, Working, Step
      <4>. QED BY <1>5, <1>7, <2>1, <2>7, <3>2, <3>4, <4>1, <4>2 DEF Put
    <3>. QED BY <3>3, <3>4
  <2>8. CASE ReadOffset(w) \/ Reread(w)
    <3>1. MyOut(w).offset \in Nat
      BY <1>2, <1>12, <2>8 DEF ReadOffset, Reread, At, Holding
    <3>2. /\ ReadOffset(w) => WriterOK([writer[w] EXCEPT !.pc = "append", !.off = MyOut(w).offset], Len(outs))
          /\ Reread(w) => WriterOK([writer[w] EXCEPT !.pc = "store", !.at = MyOut(w).offset], Len(outs))
      BY <1>2, <3>1 DEF ReadOffset, Reread, WriterOK, Writer, Step, Holding, Working, At
    <3>3. Files
      BY <1>1, <2>8 DEF ReadOffset, Reread, Files
    <3>. QED BY <1>5, <1>6, <1>7, <2>1, <2>8, <3>2, <3>3 DEF ReadOffset, Reread
  <2>9. CASE AppendEntry(w)
    <3>1. /\ MyOut(w).name \in Days /\ writer[w].entry \in Entries /\ writer[w].len \in Nat
          /\ writer[w].out # 0 /\ writer[w].pc \in Working
      BY <1>2, <1>12, <1>13, <2>9 DEF AppendEntry, At, Holding, Working, Step
    <3>2. Files
      BY <1>1, <2>9, <3>1, FileAppended DEF AppendEntry, Files
    <3>. QED BY <1>5, <1>6, <2>1, <2>5, <2>9, <3>1, <3>2 DEF AppendEntry, Holding
  <2>10. CASE Store(w)
    <3>1. writer[w].out \in 1..Len(outs) /\ writer[w].at + writer[w].len \in Nat /\ writer[w].pc \in Working
      BY <1>2, <2>10 DEF Store, At, Holding, Working, Step, Writer
    <3>2. Streams
      BY <1>1, <2>10, <3>1, Storing DEF Store, Streams
    <3>3. Files
      BY <1>1, <2>10 DEF Store, Files
    <3>. QED BY <1>5, <2>1, <2>5, <2>10, <3>1, <3>2, <3>3 DEF Store, Holding
  <2>. QED BY <1>9, <2>2, <2>3, <2>4, <2>6, <2>7, <2>8, <2>9, <2>10
<1>10. CASE Break(w)
  <2>1. MyOut(w).name \in Days /\ writer[w].entry \in Entries /\ writer[w].len \in Nat
    BY <1>2, <1>12, <1>13, <1>10 DEF Break, At, Holding, Working, Step
  <2>2. PICK n \in 0..writer[w].len - 1 :
          file' = [file EXCEPT ![MyOut(w).name] = @ \o Bytes(writer[w].entry, n)]
    BY <1>10 DEF Break
  <2>3. Files
    <3>1. file[MyOut(w).name] \o Bytes(writer[w].entry, n) \in Seq(Entries)
      <4>1. file[MyOut(w).name] \in Seq(Entries) /\ writer[w].entry \in Entries /\ n \in Nat
        BY <1>1, <2>1
      <4>. QED BY <4>1, FileAppended
    <3>. QED BY <1>1, <2>2, <3>1 DEF Files
  <2>4. Kept
    BY <1>1, <1>10, <2>1 DEF Break, Kept, counters
  <2>. QED BY <1>4, <1>5, <1>6, <1>7, <1>10, <2>3, <2>4 DEF Break, Leave
<1>11. CASE AddSubject(w)
  <2>1. /\ MyOut(w).name \in Days
        /\ writer[w].entry \in Nat /\ writer[w].off \in Nat /\ writer[w].len \in Nat /\ writer[w].day \in Days
    BY <1>2, <1>12, <1>13, <1>11 DEF AddSubject, At, Holding
  <2>2. [day |-> writer[w].day, name |-> MyOut(w).name, entry |-> writer[w].entry, off |-> writer[w].off,
         len |-> writer[w].len, sound |-> writer[w].day \notin overlapped] \in Subject
    BY <2>1 DEF Subject
  <2>3. Kept
    BY <1>1, <1>11, <2>2 DEF AddSubject, Kept, counters
  <2>4. Files
    BY <1>1, <1>11 DEF AddSubject, Files
  <2>. QED BY <1>4, <1>5, <1>6, <1>7, <1>11, <2>3, <2>4 DEF AddSubject, Leave
<1>. QED
  BY <1>8, <1>9, <1>10, <1>11 DEF Steps, Hit, Write

\* Every step keeps the types.
LEMMA TypeStep ==
  ASSUME TypeOK, [Next]_vars
  PROVE  TypeOK'
<1>1. CASE Tick
  <2>1. today' \in Days
    BY <1>1, RemoteLogAssumption DEF Tick, TypeOK, Days
  <2>. QED BY <1>1, <2>1 DEF Tick, TypeOK, counters, At
<1>2. CASE Destroy
  <2>1. cache \in 1..Len(outs) /\ outs \in Seq(Out)
    BY <1>2, LenProperties DEF Destroy, TypeOK
  <2>2. outs' \in Seq(Out) /\ Len(outs') = Len(outs)
    <3>1. outs' = Closed(outs, cache)
      BY <1>2 DEF Destroy
    <3>. QED BY <2>1, <3>1, Closing
  <2>. QED BY <1>2, <2>2 DEF Destroy, TypeOK, counters, At
<1>3. CASE Restart
  <2>1. outs' \in Seq(Out) /\ Len(outs') = 0
    BY <1>3, EmptySeq DEF Restart
  <2>2. WriterOK(Idle, 0)
    BY IdleOK
  <2>3. restarts' \in 0..MaxRestarts
    BY <1>3, RemoteLogAssumption DEF Restart, TypeOK
  <2>. QED BY <1>3, <2>1, <2>2, <2>3 DEF Restart, TypeOK, At, WriterOK
<1>4. CASE UNCHANGED vars
  BY <1>4 DEF vars, TypeOK, counters, At
<1>. QED BY TypeSteps, <1>1, <1>2, <1>3, <1>4 DEF Next, Steps

\* Every reachable state of a log has its types.
THEOREM TypeCorrect == Spec => []TypeOK
  BY TypeInit, TypeStep, PTL DEF Spec

-----------------------------------------------------------------------------
(* An entry written while no other request was at the log reads back *)

Clean(d) == d \notin overlapped
Deciding == {"open", "close", "put"}

\* An entry is at its place in the file of a day.
Stands(d, off, len, e) ==
    /\ off + len <= Len(file[d])
    /\ \A k \in 1..len : file[d][off + k] = e

\* Two threads at work have overlapped.
Apart ==
    \A w, v \in Writers :
      w # v /\ writer[w].pc \in Working /\ writer[v].pc \in Working => ~Clean(writer[w].day)

\* A stream that was put since a thread found none was put by one that overlapped with it.
Decides(w) ==
    writer[w].pc \in Deciding /\ writer[w].saw = 0 /\ cache # 0
      => ~Clean(writer[w].day) /\ ~Clean(outs[cache].name)

Named(w) == writer[w].pc \in {"close", "put"} => MyOut(w).name = writer[w].day

\* A thread has the cached stream of its day, unless it overlapped: then it has not one of a
\* day that was not.
Held(w) ==
    writer[w].pc \in Holding =>
      IF Clean(writer[w].day) THEN MyOut(w).name = writer[w].day /\ writer[w].out = cache
                              ELSE ~Clean(MyOut(w).name)

\* A thread that did not overlap knows where the file ends.
Knows(w) ==
    /\ writer[w].pc \in {"close", "put"} => MyOut(w).offset = Len(file[writer[w].day])
    /\ writer[w].pc = "append" => writer[w].off = MyOut(w).offset
    /\ writer[w].pc \in {"reread", "store"} => MyOut(w).offset = writer[w].off
    /\ writer[w].pc = "store" => writer[w].at = writer[w].off
    /\ writer[w].pc \in {"reread", "store", "index"} =>
         /\ writer[w].off + writer[w].len = Len(file[writer[w].day])
         /\ Stands(writer[w].day, writer[w].off, writer[w].len, writer[w].entry)

Thread(w) == Decides(w) /\ Named(w) /\ Held(w) /\ (Clean(writer[w].day) => Knows(w))

Counting(w, o) == writer[w].pc \in {"reread", "store"} /\ writer[w].out = o

\* So does the cached stream, unless a thread is about to count what it wrote to it.
CacheKnows ==
    cache # 0 /\ outs[cache].open /\ Clean(outs[cache].name) /\ (\A w \in Writers : ~Counting(w, cache))
      => outs[cache].offset = Len(file[outs[cache].name])

IndexStands == \A s \in index : s.sound => Stands(s.day, s.off, s.len, s.entry)

ReadInv == Apart /\ (\A w \in Writers : Thread(w)) /\ CacheKnows /\ IndexStands

\* The initial states satisfy ReadInv.
LEMMA ReadInit == Init => ReadInv
  BY DEF Init, ReadInv, Apart, Thread, Decides, Named, Held, Knows, CacheKnows, IndexStands, Idle, Working,
       Deciding, Holding

\* What TypeOK says of a thread and of the stream it has.
LEMMA ThreadTypes ==
  ASSUME TypeOK, NEW w \in Writers
  PROVE  /\ writer \in [Writers -> Writer] /\ writer[w] \in Writer
         /\ writer[w].day \in Days /\ writer[w].off \in Nat /\ writer[w].len \in Nat /\ writer[w].at \in Nat
         /\ writer[w].pc \in Working => writer[w].entry \in Entries
         /\ writer[w].saw \in 0..Len(outs) /\ (writer[w].pc = "close" => writer[w].saw \in 1..Len(outs))
         /\ writer[w].pc \in {"close", "put"} \union Holding =>
              /\ writer[w].out \in 1..Len(outs) /\ MyOut(w) \in Out
              /\ MyOut(w).name \in Days /\ MyOut(w).offset \in Nat
         /\ \A d \in Days : file[d] \in Seq(Entries) /\ Len(file[d]) \in Nat
         /\ outs \in Seq(Out) /\ Len(outs) \in Nat /\ cache \in 0..Len(outs)
<1>1. /\ file \in [Days -> Seq(Entries)] /\ outs \in Seq(Out) /\ cache \in 0..Len(outs)
      /\ writer \in [Writers -> Writer] /\ WriterOK(writer[w], Len(outs)) /\ Len(outs) \in Nat
  BY TypeOfWriters, LenProperties
<1>2. \A d \in Days : file[d] \in Seq(Entries) /\ Len(file[d]) \in Nat
  BY <1>1, LenProperties
<1>3. \A o \in 1..Len(outs) : outs[o] \in Out
  BY <1>1, LenProperties
<1>4. writer[w] \in Writer
  BY <1>1
<1>5. writer[w].pc \in {"close", "put"} \union Holding => writer[w].out \in 1..Len(outs)
  BY <1>1 DEF WriterOK
<1>6. writer[w].pc \in {"close", "put"} \union Holding => MyOut(w) \in Out
  BY <1>3, <1>5 DEF MyOut
<1>7. \A o \in Out : o.name \in Days /\ o.offset \in Nat
  BY DEF Out
<1>. QED BY <1>1, <1>2, <1>4, <1>5, <1>6, <1>7 DEF WriterOK, Writer

\* A step of a thread keeps the other threads, the names of the streams, what the files have
\* and that a day was overlapped; and opens no stream again.
LEMMA Effects ==
  ASSUME TypeOK, NEW w \in Writers, Steps(w)
  PROVE  /\ overlapped \subseteq overlapped'
         /\ \A v \in Writers \ {w} : writer'[v] = writer[v]
         /\ \A o \in 1..Len(outs) : outs'[o].name = outs[o].name /\ (outs'[o].open => outs[o].open)
         /\ \A d \in Days : /\ Len(file[d]) \in Nat /\ Len(file'[d]) \in Nat /\ Len(file[d]) <= Len(file'[d])
                            /\ \A k \in 1..Len(file[d]) : file'[d][k] = file[d][k]
         /\ Post(w) \/ writer[w].pc \in Working
         /\ cache' = cache \/ Put(w)
<1>1. /\ writer \in [Writers -> Writer] /\ outs \in Seq(Out)
      /\ \A d \in Days : file[d] \in Seq(Entries) /\ Len(file[d]) \in Nat
      /\ file \in [Days -> Seq(Entries)]
      /\ writer[w].saw \in 0..Len(outs) /\ (writer[w].pc = "close" => writer[w].saw \in 1..Len(outs))
      /\ writer[w].pc \in {"close", "put"} \union Holding => writer[w].out \in 1..Len(outs) /\ MyOut(w).name \in Days
      /\ writer[w].pc \in Working => writer[w].entry \in Entries
      /\ writer[w].len \in Nat /\ writer[w].at \in Nat /\ writer[w].day \in Days
  BY ThreadTypes DEF TypeOK
<1>2. overlapped \subseteq overlapped'
  BY DEF Steps, Hit, Write, Post, Get, Open, OpenFails, CloseOld, Put, ReadOffset, AppendEntry, AppendFails,
       Break, Reread, Store, AddSubject
<1>3. \A v \in Writers \ {w} : writer'[v] = writer[v]
  BY <1>1 DEF Steps, Hit, Write, Post, Get, Open, OpenFails, CloseOld, Put, ReadOffset, AppendEntry, AppendFails,
       Break, Reread, Store, AddSubject, Become, Goto, Leave
<1>4. \A o \in 1..Len(outs) : outs'[o].name = outs[o].name /\ (outs'[o].open => outs[o].open)
  <2>1. CASE outs' = outs
    BY <2>1
  <2>2. CASE Open(w)
    <3>. DEFINE o == [name |-> writer[w].day, offset |-> Len(file[writer[w].day]), open |-> TRUE]
    <3>1. o \in Out
      BY <1>1 DEF Out
    <3>2. outs' = Append(outs, o)
      BY <2>2 DEF Open
    <3>. HIDE DEF o
    <3>3. \A i \in 1..Len(outs) : outs'[i] = outs[i]
      BY <1>1, <3>1, <3>2, AppendProperties
    <3>. QED BY <3>3
  <2>3. CASE \E i \in 1..Len(outs) : outs' = Closed(outs, i)
    <3>1. PICK i \in 1..Len(outs) : outs' = Closed(outs, i)
      BY <2>3
    <3>2. \A o \in 1..Len(outs) : /\ Closed(outs, i)[o].name = outs[o].name
                                 /\ Closed(outs, i)[o].open = IF o = i THEN FALSE ELSE outs[o].open
      BY <1>1, Closing
    <3>. QED BY <3>1, <3>2
  <2>4. CASE Store(w)
    <3>1. writer[w].out \in 1..Len(outs) /\ writer[w].at + writer[w].len \in Nat
      BY <1>1, <2>4 DEF Store, At, Holding
    <3>2. outs' = Stored(outs, writer[w].out, writer[w].at + writer[w].len)
      BY <2>4 DEF Store
    <3>. QED BY <1>1, <3>1, <3>2, Storing
  <2>5. CASE CloseOld(w)
    BY <1>1, <2>3, <2>5 DEF CloseOld, At
  <2>6. CASE Put(w)
    BY <1>1, <2>1, <2>3, <2>6 DEF Put, At
  <2>. QED BY <2>1, <2>2, <2>4, <2>5, <2>6 DEF Steps, Hit, Write, Post, Get, OpenFails, ReadOffset,
         AppendEntry, AppendFails, Break, Reread, AddSubject
<1>5. ASSUME NEW d \in Days
      PROVE  /\ Len(file[d]) \in Nat /\ Len(file'[d]) \in Nat /\ Len(file[d]) <= Len(file'[d])
             /\ \A k \in 1..Len(file[d]) : file'[d][k] = file[d][k]
  <2>1. CASE file' = file
    BY <1>1, <2>1
  <2>2. CASE \E n \in Nat : file' = [file EXCEPT ![MyOut(w).name] = @ \o Bytes(writer[w].entry, n)]
             /\ writer[w].entry \in Entries /\ MyOut(w).name \in Days
    <3>1. PICK n \in Nat : file' = [file EXCEPT ![MyOut(w).name] = @ \o Bytes(writer[w].entry, n)]
      BY <2>2
    <3>2. file'[d] = file[d] \/ file'[d] = file[d] \o Bytes(writer[w].entry, n)
      BY <1>1, <2>2, <3>1
    <3>3. writer[w].entry \in Entries
      BY <2>2
    <3>. QED BY <1>1, <3>2, <3>3, FileAppended
  <2>3. CASE AppendEntry(w)
    BY <1>1, <2>2, <2>3 DEF AppendEntry, At, Holding, Working, Step
  <2>4. CASE Break(w)
    <3>1. writer[w].entry \in Entries /\ MyOut(w).name \in Days
      BY <1>1, <2>4 DEF Break, At, Holding, Working, Step
    <3>2. 0..writer[w].len - 1 \subseteq Nat
      BY <1>1
    <3>. QED BY <2>2, <2>4, <3>1, <3>2 DEF Break
  <2>. QED BY <2>1, <2>3, <2>4 DEF Steps, Hit, Write, Post, Get, Open, OpenFails, CloseOld, Put, ReadOffset,
         AppendFails, Reread, Store, AddSubject
<1>6. Post(w) \/ writer[w].pc \in Working
  BY DEF Steps, Hit, Write, Get, Open, OpenFails, CloseOld, Put, ReadOffset, AppendEntry, AppendFails,
       Break, Reread, Store, AddSubject, At, Working, Step
<1>7. cache' = cache \/ Put(w)
  BY DEF Steps, Hit, Write, Post, Get, Open, OpenFails, CloseOld, ReadOffset, AppendEntry, AppendFails,
       Break, Reread, Store, AddSubject
<1>. QED BY <1>2, <1>3, <1>4, <1>5, <1>6, <1>7

\* What stands in a file stays.
LEMMA StandsStays ==
  ASSUME TypeOK, NEW w \in Writers, Steps(w), NEW d \in Days, NEW off \in Nat, NEW len \in Nat, NEW e,
         Stands(d, off, len, e)
  PROVE  Stands(d, off, len, e)'
<1>1. /\ Len(file[d]) \in Nat /\ Len(file'[d]) \in Nat /\ Len(file[d]) <= Len(file'[d])
      /\ \A k \in 1..Len(file[d]) : file'[d][k] = file[d][k]
  BY Effects
<1>2. \A k \in 1..len : off + k \in 1..Len(file[d])
  BY <1>1 DEF Stands
<1>3. off + len <= Len(file[d]) /\ \A k \in 1..len : file[d][off + k] = e
  BY DEF Stands
<1>4. off + len <= Len(file'[d])
  BY <1>1, <1>3
<1>5. \A k \in 1..len : file'[d][off + k] = e
  BY <1>1, <1>2, <1>3
<1>. QED BY <1>4, <1>5 DEF Stands

\* A step of a thread leaves what is known of the others: they have overlapped with it.
LEMMA OthersKept ==
  ASSUME TypeOK, ReadInv, NEW w \in Writers, Steps(w), NEW v \in Writers \ {w}
  PROVE  Thread(v)'
<1>1. /\ writer'[v] = writer[v] /\ overlapped \subseteq overlapped'
      /\ \A o \in 1..Len(outs) : outs'[o].name = outs[o].name
  BY Effects
<1>2. CASE writer[v].pc \notin Working
  BY <1>1, <1>2 DEF Thread, Decides, Named, Held, Knows, Working, Step, Deciding, Holding
<1>3. CASE Post(w)
  <2>1. outs' = outs /\ file' = file /\ cache' = cache
    BY <1>3 DEF Post
  <2>2. Thread(v)
    BY DEF ReadInv
  <2>3. writer[v].pc \in Working => ~Clean(writer[v].day)'
    <3>1. ASSUME writer[v].pc \in Working PROVE v \in Others(w)
      BY <3>1 DEF Others
    <3>2. Others(w) # {} => overlapped' = overlapped \union {today} \union {writer[u].day : u \in Others(w)}
      BY <1>3 DEF Post
    <3>. QED BY <1>1, <3>1, <3>2 DEF Clean
  <2>4. writer[v].pc \in Holding => ~Clean(MyOut(v).name)'
    <3>1. CASE Clean(writer[v].day)
      BY <1>1, <2>1, <2>2, <2>3, <3>1 DEF Thread, Held, MyOut, Working, Holding, Step
    <3>2. CASE ~Clean(writer[v].day)
      BY <1>1, <2>1, <2>2, <3>2 DEF Thread, Held, MyOut, Clean
    <3>. QED BY <3>1, <3>2
  <2>5. Decides(v)' /\ Named(v)'
    BY <1>1, <2>1, <2>2 DEF Thread, Decides, Named, MyOut, Clean
  <2>6. Held(v)' /\ (Clean(writer[v].day)' => Knows(v)')
    BY <1>1, <2>3, <2>4, <1>2 DEF Held, Knows, Working, Step, Holding, MyOut
  <2>. QED BY <2>5, <2>6 DEF Thread
<1>4. CASE writer[v].pc \in Working /\ writer[w].pc \in Working
  <2>1. ~Clean(writer[v].day) /\ ~Clean(writer[w].day)
    BY <1>4 DEF ReadInv, Apart
  <2>2. Thread(v) /\ Thread(w)
    BY DEF ReadInv
  <2>3. \A d : ~Clean(d) => ~Clean(d)'
    BY <1>1 DEF Clean
  <2>4. writer[v].pc \in {"close", "put"} \union Holding => writer[v].out \in 1..Len(outs)
    BY ThreadTypes
  <2>5. Named(v)'
    BY <1>1, <2>2, <2>4 DEF Thread, Named, MyOut
  <2>6. Held(v)'
    BY <1>1, <2>1, <2>2, <2>3, <2>4 DEF Thread, Held, MyOut
  <2>7. Decides(v)'
    <3>1. cache \in 0..Len(outs) /\ Len(outs) \in Nat
      BY ThreadTypes
    <3>2. CASE cache' = cache
      BY <1>1, <2>2, <2>3, <3>1, <3>2 DEF Thread, Decides
    <3>3. CASE Put(w) /\ cache' # cache
      <4>1. cache' = writer[w].out /\ writer[w].out \in 1..Len(outs) /\ outs[writer[w].out].name = writer[w].day
        BY <2>2, <3>3, ThreadTypes DEF Put, At, Thread, Named, MyOut
      <4>. QED BY <1>1, <2>1, <2>3, <4>1 DEF Decides
    <3>. QED BY <3>2, <3>3, Effects
  <2>. QED BY <1>1, <2>1, <2>3, <2>5, <2>6, <2>7 DEF Thread
<1>. QED BY <1>2, <1>3, <1>4, Effects

\* Threads at work have overlapped after a step as before it.
LEMMA ApartKept ==
  ASSUME TypeOK, ReadInv, NEW w \in Writers, Steps(w)
  PROVE  Apart'
<1>1. /\ overlapped \subseteq overlapped' /\ (\A v \in Writers \ {w} : writer'[v] = writer[v])
      /\ Post(w) \/ writer[w].pc \in Working
  BY Effects
<1>2. writer \in [Writers -> Writer] /\ writer[w] \in Writer
  BY ThreadTypes
<1>3. CASE Post(w)
  <2>1. PICK n \in Lengths :
          writer'[w] = [Idle EXCEPT !.pc = "get", !.day = today, !.entry = posted + 1, !.len = n]
    BY <1>2, <1>3 DEF Post, Become
  <2>2. writer'[w].day = today
    BY <2>1 DEF Idle
  <2>3. \A v \in Writers \ {w} : writer[v].pc \in Working => v \in Others(w)
    BY DEF Others
  <2>4. Others(w) # {} => overlapped' = overlapped \union {today} \union {writer[u].day : u \in Others(w)}
    BY <1>3 DEF Post
  <2>5. \A v \in Writers \ {w} : writer[v].pc \in Working => ~Clean(writer[v].day)' /\ ~Clean(today)'
    BY <1>1, <2>3, <2>4, <1>3 DEF Clean, Post
  <2>6. \A v, u \in Writers \ {w} : v # u /\ writer[v].pc \in Working /\ writer[u].pc \in Working
                                  => ~Clean(writer[v].day)'
    BY <1>1 DEF ReadInv, Apart, Clean
  <2>7. ASSUME NEW u \in Writers, NEW v \in Writers, u # v, writer'[u].pc \in Working, writer'[v].pc \in Working
        PROVE  ~Clean(writer[u].day)'
    <3>1. CASE u = w
      BY <1>1, <1>3, <2>2, <2>5, <2>7, <3>1 DEF Clean, Post
    <3>2. CASE u # w /\ v = w
      BY <1>1, <2>5, <2>7, <3>2 DEF Clean
    <3>3. CASE u # w /\ v # w
      BY <1>1, <2>6, <2>7, <3>3 DEF Clean
    <3>. QED BY <3>1, <3>2, <3>3
  <2>. QED BY <2>7 DEF Apart
<1>4. CASE writer[w].pc \in Working /\ ~Post(w)
  <2>1. writer'[w].pc \in Working => writer'[w].day = writer[w].day
    <3>1. ASSUME NEW l, Goto(w, l) PROVE writer'[w].day = writer[w].day
      BY <1>2, <3>1 DEF Goto, Become, Writer
    <3>2. CASE Leave(w)
      BY <1>2, <3>2 DEF Leave, Become, Idle, Working
    <3>3. CASE Get(w) \/ Open(w)
      BY <1>2, <3>3 DEF Get, Open, Become, Writer
    <3>4. CASE ReadOffset(w) \/ Reread(w)
      BY <1>2, <3>4 DEF ReadOffset, Reread, Become, Writer
    <3>5. CASE Put(w)
      BY <1>2, <3>1, <3>5 DEF Put, Become, Writer
    <3>. QED BY <1>4, <3>1, <3>2, <3>3, <3>4, <3>5 DEF Steps, Hit, Write, OpenFails, CloseOld, AppendEntry,
           AppendFails, Break, Store, AddSubject
  <2>. QED BY <1>1, <1>4, <2>1 DEF ReadInv, Apart, Clean
<1>. QED BY <1>1, <1>3, <1>4

\* A thread that did not overlap is alone at work.
LEMMA Alone ==
  ASSUME ReadInv, NEW w \in Writers, writer[w].pc \in Working, Clean(writer[w].day), NEW v \in Writers \ {w}
  PROVE  writer[v].pc \notin Working
  BY DEF ReadInv, Apart

\* At the append, the offset it has read is the end of the file.
LEMMA AtTheEnd ==
  ASSUME TypeOK, ReadInv, NEW w \in Writers, writer[w].pc = "append", Clean(writer[w].day), MyOut(w).open
  PROVE  writer[w].off = Len(file[writer[w].day]) /\ MyOut(w).name = writer[w].day /\ writer[w].out = cache
<1>1. Thread(w)
  BY DEF ReadInv
<1>2. MyOut(w).name = writer[w].day /\ writer[w].out = cache /\ writer[w].off = MyOut(w).offset
  BY <1>1 DEF Thread, Held, Knows, Holding
<1>3. cache # 0
  BY <1>2, ThreadTypes DEF Holding
<1>4. \A v \in Writers : ~Counting(v, cache)
  BY Alone DEF Counting, Working, Step
<1>. QED BY <1>2, <1>3, <1>4 DEF ReadInv, CacheKnows, MyOut

\* A step of a thread keeps what is known of it.
LEMMA OwnKept ==
  ASSUME TypeOK, ReadInv, NEW w \in Writers, Steps(w)
  PROVE  Thread(w)'
<1>1. /\ writer \in [Writers -> Writer] /\ writer[w] \in Writer
      /\ writer[w].day \in Days /\ writer[w].off \in Nat /\ writer[w].len \in Nat /\ writer[w].at \in Nat
      /\ outs \in Seq(Out) /\ Len(outs) \in Nat /\ cache \in 0..Len(outs)
      /\ file \in [Days -> Seq(Entries)] /\ Len(file[writer[w].day]) \in Nat
  BY ThreadTypes DEF TypeOK
<1>2. Thread(w)
  BY DEF ReadInv
<1>3. ASSUME writer'[w].pc \notin {"open", "close", "put"} \union Holding PROVE Thread(w)'
  BY <1>3 DEF Thread, Decides, Named, Held, Knows, Deciding, Holding
<1>4. CASE Post(w)
  <2>1. PICK n \in Lengths :
          writer'[w] = [Idle EXCEPT !.pc = "get", !.day = today, !.entry = posted + 1, !.len = n]
    BY <1>1, <1>4 DEF Post, Become
  <2>2. writer'[w].pc = "get"
    BY <2>1 DEF Idle
  <2>. QED BY <1>3, <2>2 DEF Holding
<1>5. CASE Leave(w)
  <2>1. writer'[w].pc = "idle"
    BY <1>1, <1>5 DEF Leave, Become, Idle
  <2>. QED BY <1>3, <2>1 DEF Holding
<1>6. CASE Get(w)
  <2>1. outs' = outs /\ file' = file /\ cache' = cache /\ overlapped' = overlapped
    BY <1>6 DEF Get
  <2>2. CASE cache # 0 /\ outs[cache].name = writer[w].day
    <3>1. writer'[w].pc = "off" /\ writer'[w].out = cache /\ writer'[w].day = writer[w].day
      BY <1>1, <1>6, <2>2 DEF Get, Become, Writer
    <3>. QED BY <2>1, <2>2, <3>1 DEF Thread, Decides, Named, Held, Knows, Deciding, MyOut, Clean
  <2>3. CASE ~(cache # 0 /\ outs[cache].name = writer[w].day)
    <3>1. writer'[w].pc = "open" /\ writer'[w].saw = cache
      BY <1>1, <1>6, <2>3 DEF Get, Become, Writer
    <3>. QED BY <2>1, <3>1 DEF Thread, Decides, Named, Held, Knows, Holding
  <2>. QED BY <2>2, <2>3
<1>7. CASE Open(w)
  <2>. DEFINE o == [name |-> writer[w].day, offset |-> Len(file[writer[w].day]), open |-> TRUE]
  <2>1. o \in Out /\ o.name = writer[w].day /\ o.offset = Len(file[writer[w].day])
    BY <1>1 DEF Out
  <2>2. outs' = Append(outs, o) /\ file' = file /\ cache' = cache /\ overlapped' = overlapped
    BY <1>7 DEF Open
  <2>. HIDE DEF o
  <2>3. outs'[Len(outs) + 1] = o /\ \A i \in 1..Len(outs) : outs'[i] = outs[i]
    BY <1>1, <2>1, <2>2, AppendProperties
  <2>4. /\ writer'[w].pc \in {"close", "put"} /\ writer'[w].out = Len(outs) + 1 /\ writer'[w].day = writer[w].day
        /\ writer'[w].saw = writer[w].saw /\ writer[w].pc = "open"
    BY <1>1, <1>7 DEF Open, Become, Writer, At
  <2>5. cache # 0 => outs'[cache].name = outs[cache].name
    BY <1>1, <2>3
  <2>6. Decides(w)'
    BY <1>2, <2>2, <2>4, <2>5 DEF Thread, Decides, Deciding, Clean
  <2>. QED BY <2>1, <2>2, <2>3, <2>4, <2>6 DEF Thread, Named, Held, Knows, Holding, MyOut
<1>8. CASE CloseOld(w)
  <2>1. writer[w].pc = "close" /\ writer[w].saw \in 1..Len(outs) /\ writer[w].out \in 1..Len(outs)
    BY <1>8, ThreadTypes DEF CloseOld, At
  <2>2. outs' = Closed(outs, writer[w].saw) /\ file' = file /\ cache' = cache /\ overlapped' = overlapped
    BY <1>8 DEF CloseOld
  <2>3. \A i \in 1..Len(outs) : outs'[i].name = outs[i].name /\ outs'[i].offset = outs[i].offset
    BY <1>1, <2>1, <2>2, Closing
  <2>4. /\ writer'[w].pc = "put" /\ writer'[w].out = writer[w].out /\ writer'[w].day = writer[w].day
        /\ writer'[w].saw = writer[w].saw
    BY <1>1, <1>8 DEF CloseOld, Goto, Become, Writer
  <2>5. cache # 0 => outs'[cache].name = outs[cache].name
    BY <1>1, <2>3
  <2>6. Decides(w)'
    BY <1>2, <2>1, <2>2, <2>4, <2>5 DEF Thread, Decides, Deciding, Clean
  <2>. QED BY <1>2, <2>1, <2>2, <2>3, <2>4, <2>6 DEF Thread, Named, Held, Knows, Holding, MyOut, Clean
<1>9. CASE Put(w)
  <2>1. writer[w].pc = "put" /\ writer[w].out \in 1..Len(outs)
    BY <1>9, ThreadTypes DEF Put, At
  <2>2. \A i \in 1..Len(outs) : outs'[i].name = outs[i].name
    BY <1>9, Effects
  <2>3. overlapped' = overlapped
    BY <1>9 DEF Put
  <2>4. CASE writer[w].saw # 0 \/ cache = 0
    <3>1. /\ writer'[w].pc = "off" /\ writer'[w].out = writer[w].out /\ writer'[w].day = writer[w].day
          /\ cache' = writer[w].out
      BY <1>1, <1>9, <2>4 DEF Put, Goto, Become, Writer
    <3>. QED BY <1>2, <2>1, <2>2, <2>3, <3>1 DEF Thread, Decides, Named, Held, Knows, Deciding, MyOut, Clean
  <2>5. CASE ~(writer[w].saw # 0 \/ cache = 0)
    <3>1. writer'[w].pc = "off" /\ writer'[w].out = cache /\ writer'[w].day = writer[w].day
      BY <1>1, <1>9, <2>5 DEF Put, Become, Writer
    <3>2. ~Clean(writer[w].day) /\ ~Clean(outs[cache].name) /\ cache \in 1..Len(outs)
      BY <1>1, <1>2, <2>1, <2>5 DEF Thread, Decides, Deciding
    <3>. QED BY <2>2, <2>3, <3>1, <3>2 DEF Thread, Decides, Named, Held, Deciding, MyOut, Clean
  <2>. QED BY <2>4, <2>5
<1>10. ASSUME writer[w].pc \in Holding, writer'[w].pc \in Holding, writer'[w].out = writer[w].out,
              writer'[w].day = writer[w].day, cache' = cache, overlapped' = overlapped,
              Clean(writer[w].day) => Knows(w)'
       PROVE  Thread(w)'
  <2>1. outs'[writer[w].out].name = outs[writer[w].out].name
    BY <1>10, Effects, ThreadTypes
  <2>2. Held(w)'
    BY <1>2, <1>10, <2>1 DEF Thread, Held, MyOut, Clean
  <2>. QED BY <1>10, <2>2 DEF Thread, Decides, Named, Deciding, Holding, Clean
<1>11. CASE ReadOffset(w)
  <2>1. /\ writer'[w].pc = "append" /\ writer'[w].out = writer[w].out /\ writer'[w].day = writer[w].day
        /\ writer'[w].off = MyOut(w).offset /\ writer[w].pc = "off"
    BY <1>1, <1>11 DEF ReadOffset, Become, Writer, At
  <2>2. outs' = outs /\ cache' = cache /\ overlapped' = overlapped
    BY <1>11 DEF ReadOffset
  <2>. QED BY <1>10, <2>1, <2>2 DEF Knows, Holding, MyOut
<1>12. CASE AppendEntry(w)
  <2>1. /\ writer'[w].pc = "reread" /\ writer'[w].out = writer[w].out /\ writer'[w].day = writer[w].day
        /\ writer'[w].off = writer[w].off /\ writer'[w].len = writer[w].len /\ writer'[w].entry = writer[w].entry
        /\ writer[w].pc = "append"
    BY <1>1, <1>12 DEF AppendEntry, Goto, Become, Writer, At
  <2>2. outs' = outs /\ cache' = cache /\ overlapped' = overlapped
    BY <1>12 DEF AppendEntry
  <2>3. ASSUME Clean(writer[w].day) PROVE Knows(w)'
    <3>1. writer[w].off = Len(file[writer[w].day]) /\ MyOut(w).name = writer[w].day
      BY <1>12, <2>1, <2>3, AtTheEnd DEF AppendEntry
    <3>2. file'[writer[w].day] = file[writer[w].day] \o Bytes(writer[w].entry, writer[w].len)
      BY <1>1, <1>12, <3>1 DEF AppendEntry
    <3>3. writer[w].entry \in Entries /\ file[writer[w].day] \in Seq(Entries)
      BY <1>1, <2>1, ThreadTypes DEF Working, Step
    <3>4. /\ writer[w].off + writer[w].len = Len(file'[writer[w].day])
          /\ \A k \in 1..writer[w].len : file'[writer[w].day][writer[w].off + k] = writer[w].entry
      <4>1. PICK f \in Seq(Entries), n \in Nat : f = file[writer[w].day] /\ n = writer[w].len
        BY <1>1, <3>3
      <4>2. /\ Len(f \o Bytes(writer[w].entry, n)) = Len(f) + n
            /\ \A k \in 1..n : (f \o Bytes(writer[w].entry, n))[Len(f) + k] = writer[w].entry
        BY <3>3, FileAppended
      <4>. QED BY <3>1, <3>2, <4>1, <4>2
    <3>5. MyOut(w).offset = writer[w].off
      BY <1>2, <2>1, <2>3 DEF Thread, Knows
    <3>. QED BY <1>1, <2>1, <2>2, <3>4, <3>5 DEF Knows, Stands, MyOut
  <2>. QED BY <1>10, <2>1, <2>2, <2>3 DEF Holding
<1>13. CASE Reread(w)
  <2>1. /\ writer'[w].pc = "store" /\ writer'[w].out = writer[w].out /\ writer'[w].day = writer[w].day
        /\ writer'[w].off = writer[w].off /\ writer'[w].len = writer[w].len /\ writer'[w].entry = writer[w].entry
        /\ writer'[w].at = MyOut(w).offset /\ writer[w].pc = "reread"
    BY <1>1, <1>13 DEF Reread, Become, Writer, At
  <2>2. outs' = outs /\ cache' = cache /\ overlapped' = overlapped /\ file' = file
    BY <1>13 DEF Reread
  <2>3. ASSUME Clean(writer[w].day) PROVE Knows(w)'
    BY <1>2, <2>1, <2>2, <2>3 DEF Thread, Knows, Stands, MyOut
  <2>. QED BY <1>10, <2>1, <2>2, <2>3 DEF Holding
<1>14. CASE Store(w)
  <2>1. /\ writer'[w].pc = "index" /\ writer'[w].out = writer[w].out /\ writer'[w].day = writer[w].day
        /\ writer'[w].off = writer[w].off /\ writer'[w].len = writer[w].len /\ writer'[w].entry = writer[w].entry
        /\ writer[w].pc = "store"
    BY <1>1, <1>14 DEF Store, Goto, Become, Writer, At
  <2>2. cache' = cache /\ overlapped' = overlapped /\ file' = file
    BY <1>14 DEF Store
  <2>3. ASSUME Clean(writer[w].day) PROVE Knows(w)'
    BY <1>2, <2>1, <2>2, <2>3 DEF Thread, Knows, Stands
  <2>. QED BY <1>10, <2>1, <2>2, <2>3 DEF Holding
<1>. QED BY <1>4, <1>5, <1>6, <1>7, <1>8, <1>9, <1>11, <1>12, <1>13, <1>14
       DEF Steps, Hit, Write, OpenFails, AppendFails, Break, AddSubject

\* Closing a stream keeps the offsets.
LEMMA ClosingKeeps ==
  ASSUME TypeOK, NEW k \in 1..Len(outs), outs' = Closed(outs, k)
  PROVE  \A o \in 1..Len(outs) : outs'[o].offset = outs[o].offset
<1>1. outs \in Seq(Out) /\ k \in 1..Len(outs)
  BY DEF TypeOK
<1>2. \A o \in 1..Len(outs) : /\ Closed(outs, k)[o].name = outs[o].name
                             /\ Closed(outs, k)[o].offset = outs[o].offset
  BY <1>1, Closing
<1>. QED BY <1>2

\* A step of a thread keeps what is known of the cached stream.
LEMMA CacheKept ==
  ASSUME TypeOK, ReadInv, NEW w \in Writers, Steps(w)
  PROVE  CacheKnows'
<1>. SUFFICES ASSUME cache' # 0, outs'[cache'].open, Clean(outs[cache].name)',
                     \A v \in Writers : ~Counting(v, cache)'
              PROVE  outs'[cache'].offset = Len(file'[outs'[cache'].name])
  BY DEF CacheKnows
<1>1. /\ writer \in [Writers -> Writer] /\ writer[w] \in Writer /\ writer[w].len \in Nat /\ writer[w].at \in Nat
      /\ outs \in Seq(Out) /\ Len(outs) \in Nat /\ cache \in 0..Len(outs) /\ file \in [Days -> Seq(Entries)]
      /\ \A o \in 1..Len(outs) : outs[o].name \in Days
  <2>1. \A o \in 1..Len(outs) : outs[o] \in Out
    BY LenProperties DEF TypeOK
  <2>. QED BY <2>1, ThreadTypes DEF TypeOK, Out
<1>2. /\ overlapped \subseteq overlapped' /\ (\A v \in Writers \ {w} : writer'[v] = writer[v])
      /\ \A o \in 1..Len(outs) : outs'[o].name = outs[o].name /\ (outs'[o].open => outs[o].open)
  BY Effects
<1>3. Thread(w) /\ CacheKnows
  BY DEF ReadInv
<1>4. ASSUME cache' = cache, outs'[cache].offset = outs[cache].offset, ~Counting(w, cache),
             file'[outs[cache].name] = file[outs[cache].name]
      PROVE  outs'[cache'].offset = Len(file'[outs'[cache'].name])
  <2>1. cache \in 1..Len(outs)
    BY <1>1, <1>4
  <2>2. outs'[cache].name = outs[cache].name /\ outs[cache].open /\ Clean(outs[cache].name)
    BY <1>2, <1>4, <2>1 DEF Clean
  <2>3. \A v \in Writers : ~Counting(v, cache)
    BY <1>2, <1>4 DEF Counting
  <2>. QED BY <1>3, <1>4, <2>1, <2>2, <2>3 DEF CacheKnows
<1>5. CASE Post(w) \/ Get(w) \/ OpenFails(w) \/ ReadOffset(w) \/ AppendFails(w) \/ AddSubject(w)
  <2>1. outs' = outs /\ file' = file /\ cache' = cache
    BY <1>5 DEF Post, Get, OpenFails, ReadOffset, AppendFails, AddSubject
  <2>2. ~Counting(w, cache)
    BY <1>5 DEF Post, Get, OpenFails, ReadOffset, AppendFails, AddSubject, At, Counting
  <2>. QED BY <1>4, <2>1, <2>2
<1>6. CASE Open(w)
  <2>. DEFINE o == [name |-> writer[w].day, offset |-> Len(file[writer[w].day]), open |-> TRUE]
  <2>1. o \in Out
    BY ThreadTypes DEF Out
  <2>2. outs' = Append(outs, o) /\ file' = file /\ cache' = cache /\ ~Counting(w, cache)
    BY <1>6 DEF Open, At, Counting
  <2>. HIDE DEF o
  <2>3. outs'[cache] = outs[cache]
    BY <1>1, <2>1, <2>2, AppendProperties
  <2>. QED BY <1>4, <2>2, <2>3
<1>7. ASSUME NEW k \in 1..Len(outs), outs' = Closed(outs, k), file' = file, cache' = cache, ~Counting(w, cache)
      PROVE  outs'[cache'].offset = Len(file'[outs'[cache'].name])
  <2>1. cache \in 1..Len(outs)
    BY <1>1, <1>7
  <2>2. \A o \in 1..Len(outs) : outs'[o].offset = outs[o].offset
    BY <1>7, ClosingKeeps
  <2>. QED BY <1>4, <1>7, <2>1, <2>2
<1>8. CASE CloseOld(w)
  <2>1. writer[w].saw \in 1..Len(outs) /\ ~Counting(w, cache)
    BY <1>8, ThreadTypes DEF CloseOld, At, Counting
  <2>. QED BY <1>7, <1>8, <2>1 DEF CloseOld
<1>9. CASE Put(w)
  <2>1. writer[w].pc = "put" /\ writer[w].out \in 1..Len(outs) /\ ~Counting(w, cache) /\ file' = file
        /\ overlapped' = overlapped
    BY <1>9, ThreadTypes DEF Put, At, Counting
  <2>2. CASE writer[w].saw # 0 \/ cache = 0
    <3>1. cache' = writer[w].out /\ outs' = outs
      BY <1>9, <2>2 DEF Put
    <3>2. MyOut(w).name = writer[w].day
      BY <1>3, <2>1 DEF Thread, Named
    <3>3. Clean(writer[w].day)
      BY <2>1, <3>1, <3>2 DEF MyOut, Clean
    <3>4. MyOut(w).offset = Len(file[writer[w].day])
      BY <1>3, <2>1, <3>3 DEF Thread, Knows
    <3>. QED BY <2>1, <3>1, <3>2, <3>4 DEF MyOut
  <2>3. CASE ~(writer[w].saw # 0 \/ cache = 0)
    BY <1>7, <1>9, <2>1, <2>3 DEF Put
  <2>. QED BY <2>2, <2>3
<1>10. CASE AppendEntry(w)
  <2>1. writer[w].pc = "append" /\ outs' = outs /\ cache' = cache /\ overlapped' = overlapped /\ MyOut(w).open
    BY <1>10 DEF AppendEntry, At
  <2>2. writer'[w].pc = "reread" /\ writer'[w].out = writer[w].out
    BY <1>1, <1>10 DEF AppendEntry, Goto, Become, Writer
  <2>3. writer[w].out # cache
    BY <2>1, <2>2 DEF Counting
  <2>4. ~Clean(writer[w].day)
    BY <2>1, <2>3, AtTheEnd
  <2>5. ~Clean(MyOut(w).name)
    BY <1>3, <2>1, <2>4 DEF Thread, Held, Holding
  <2>6. outs[cache].name # MyOut(w).name
    BY <2>1, <2>5 DEF Clean
  <2>7. file'[outs[cache].name] = file[outs[cache].name]
    <3>1. file' = [file EXCEPT ![MyOut(w).name] = @ \o Bytes(writer[w].entry, writer[w].len)]
      BY <1>10 DEF AppendEntry
    <3>2. outs[cache].name \in Days
      BY <1>1, <2>1
    <3>. QED BY <1>1, <2>6, <3>1, <3>2
  <2>. QED BY <1>4, <2>1, <2>7 DEF Counting
<1>11. CASE Break(w)
  <2>1. writer[w].pc = "append" /\ outs' = outs /\ cache' = cache /\ overlapped' = overlapped \union {MyOut(w).name}
    BY <1>11 DEF Break, At
  <2>2. PICK n \in 0..writer[w].len - 1 :
          file' = [file EXCEPT ![MyOut(w).name] = @ \o Bytes(writer[w].entry, n)]
    BY <1>11 DEF Break
  <2>3. outs[cache].name # MyOut(w).name /\ outs[cache].name \in Days
    BY <1>1, <2>1 DEF Clean
  <2>4. file'[outs[cache].name] = file[outs[cache].name]
    BY <1>1, <2>2, <2>3
  <2>. QED BY <1>4, <2>1, <2>4 DEF Counting
<1>12. CASE Reread(w)
  <2>1. outs' = outs /\ file' = file /\ cache' = cache
    BY <1>12 DEF Reread
  <2>2. writer'[w].pc = "store" /\ writer'[w].out = writer[w].out
    BY <1>1, <1>12 DEF Reread, Become, Writer
  <2>3. ~Counting(w, cache)
    BY <2>1, <2>2 DEF Counting
  <2>. QED BY <1>4, <2>1, <2>3
<1>13. CASE Store(w)
  <2>1. /\ writer[w].pc = "store" /\ file' = file /\ cache' = cache /\ overlapped' = overlapped
        /\ writer[w].out \in 1..Len(outs) /\ writer[w].at + writer[w].len \in Nat
    BY <1>1, <1>13, ThreadTypes DEF Store, At, Holding
  <2>2. outs' = Stored(outs, writer[w].out, writer[w].at + writer[w].len)
    BY <1>13 DEF Store
  <2>3. \A j \in 1..Len(outs) :
          outs'[j].offset = IF j = writer[w].out THEN writer[w].at + writer[w].len ELSE outs[j].offset
    BY <1>1, <2>1, <2>2, Storing
  <2>4. CASE Clean(writer[w].day)
    <3>1. MyOut(w).name = writer[w].day /\ writer[w].out = cache
      BY <1>3, <2>1, <2>4 DEF Thread, Held, Holding
    <3>2. writer[w].at + writer[w].len = Len(file[writer[w].day])
      BY <1>3, <2>1, <2>4 DEF Thread, Knows
    <3>. QED BY <1>2, <2>1, <2>3, <3>1, <3>2 DEF MyOut
  <2>5. CASE ~Clean(writer[w].day)
    <3>1. ~Clean(MyOut(w).name)
      BY <1>3, <2>1, <2>5 DEF Thread, Held, Holding
    <3>2. writer[w].out # cache
      BY <1>2, <2>1, <3>1 DEF MyOut, Clean
    <3>. QED BY <1>1, <1>4, <2>1, <2>3, <3>2 DEF Counting
  <2>. QED BY <2>4, <2>5
<1>. QED BY <1>5, <1>6, <1>8, <1>9, <1>10, <1>11, <1>12, <1>13 DEF Steps, Hit, Write

\* A step of a thread keeps the indexed entries at their places.
LEMMA IndexKept ==
  ASSUME TypeOK, ReadInv, NEW w \in Writers, Steps(w)
  PROVE  IndexStands'
<1>1. ASSUME NEW s \in index, s.sound PROVE Stands(s.day, s.off, s.len, s.entry)'
  <2>1. Stands(s.day, s.off, s.len, s.entry) /\ s.day \in Days /\ s.off \in Nat /\ s.len \in Nat
    BY <1>1 DEF ReadInv, IndexStands, TypeOK, Subject
  <2>. QED BY <2>1, StandsStays
<1>2. CASE index' = index
  BY <1>1, <1>2 DEF IndexStands
<1>3. CASE AddSubject(w)
  <2>. PICK s : s = [day |-> writer[w].day, name |-> MyOut(w).name, entry |-> writer[w].entry,
                     off |-> writer[w].off, len |-> writer[w].len, sound |-> writer[w].day \notin overlapped]
    OBVIOUS
  <2>1. index' = index \/ index' = index \union {s}
    BY <1>3 DEF AddSubject
  <2>2. ASSUME s.sound PROVE Stands(s.day, s.off, s.len, s.entry)'
    <3>1. Clean(writer[w].day) /\ writer[w].pc = "index" /\ Thread(w) /\ file' = file
      BY <1>3, <2>2 DEF Clean, AddSubject, At, ReadInv
    <3>2. Stands(writer[w].day, writer[w].off, writer[w].len, writer[w].entry)
      BY <3>1 DEF Thread, Knows
    <3>. QED BY <3>1, <3>2 DEF Stands
  <2>. QED BY <1>1, <2>1, <2>2 DEF IndexStands
<1>. QED BY <1>2, <1>3 DEF Steps, Hit, Write, Post, Get, Open, OpenFails, CloseOld, Put, ReadOffset,
       AppendEntry, AppendFails, Break, Reread, Store

\* Every step keeps ReadInv.
LEMMA ReadStep ==
  ASSUME TypeOK, ReadInv, [Next]_vars
  PROVE  ReadInv'
<1>1. ASSUME NEW w \in Writers, Steps(w) PROVE ReadInv'
  <2>1. \A v \in Writers : Thread(v)'
    BY <1>1, OthersKept, OwnKept
  <2>. QED BY <1>1, <2>1, ApartKept, CacheKept, IndexKept DEF ReadInv
<1>2. ASSUME UNCHANGED <<file, outs, cache, index, writer, overlapped>> PROVE ReadInv'
  BY <1>2 DEF ReadInv, Apart, Thread, Decides, Named, Held, Knows, CacheKnows, Counting, IndexStands, Stands,
       Clean, MyOut
<1>3. CASE Destroy
  <2>1. cache \in 1..Len(outs) /\ outs \in Seq(Out) /\ outs' = Closed(outs, cache)
    BY <1>3 DEF Destroy, TypeOK
  <2>2. \A j \in 1..Len(outs) : /\ outs'[j].name = outs[j].name /\ outs'[j].offset = outs[j].offset
                               /\ outs'[j].open = IF j = cache THEN FALSE ELSE outs[j].open
    BY <2>1, Closing
  <2>3. UNCHANGED <<file, cache, index, writer, overlapped>>
    BY <1>3 DEF Destroy
  <2>4. ASSUME NEW w \in Writers PROVE Thread(w)'
    <3>1. writer[w].pc \in {"close", "put"} \union Holding =>
            outs'[writer[w].out].name = MyOut(w).name /\ outs'[writer[w].out].offset = MyOut(w).offset
      BY <2>2, ThreadTypes DEF MyOut
    <3>2. Thread(w) /\ outs'[cache].name = outs[cache].name
      BY <2>1, <2>2 DEF ReadInv
    <3>. QED BY <2>3, <3>1, <3>2 DEF Thread, Decides, Named, Held, Knows, Stands, Clean, MyOut, Holding
  <2>. QED BY <2>1, <2>2, <2>3, <2>4 DEF ReadInv, Apart, CacheKnows, IndexStands, Stands, Clean
<1>4. CASE Restart
  <2>1. cache' = 0 /\ file' = file /\ index' = index /\ \A w \in Writers : writer'[w].pc = "idle"
    BY <1>4 DEF Restart, Idle
  <2>. QED BY <2>1 DEF ReadInv, Apart, Thread, Decides, Named, Held, Knows, CacheKnows, IndexStands, Stands,
         Working, Deciding, Holding
<1>. QED BY <1>1, <1>2, <1>3, <1>4 DEF Next, Steps, Tick, vars, counters

\* For any number of threads, days and restarts: getContent reads an error entry as it was
\* written, if no other request was at the log on its day since the start, nor a write broke off.
THEOREM EntriesReadBack == Spec => []ReadsBack
<1>1. TypeOK /\ ReadInv => ReadsBack
  <2>. SUFFICES ASSUME TypeOK, ReadInv, NEW s \in index, s.sound PROVE Content(s) = Bytes(s.entry, s.len)
    BY DEF ReadsBack
  <2>1. s.day \in Days /\ s.off \in Nat /\ s.len \in Nat /\ file[s.day] \in Seq(Entries)
    BY DEF TypeOK, Subject
  <2>2. Stands(s.day, s.off, s.len, s.entry)
    BY DEF ReadInv, IndexStands
  <2>3. Content(s) = SubSeq(file[s.day], s.off + 1, s.off + s.len)
    BY <2>2 DEF Content, Stands
  <2>. QED BY <2>1, <2>2, <2>3 DEF Stands, Bytes
<1>. QED BY <1>1, TypeInit, TypeStep, ReadInit, ReadStep, PTL DEF Spec

-----------------------------------------------------------------------------
(* No stream is left open *)

\* While no two requests have overlapped: the thread that decides about the stream found what
\* is cached still, and when it puts its own, that one is closed.
StreamInv ==
    overlapped = {} =>
      /\ \A o \in 1..Len(outs) : outs[o].open =>
           o = cache \/ \E w \in Writers : writer[w].pc \in {"close", "put"} /\ writer[w].out = o
      /\ \A w \in Writers : writer[w].pc \in Deciding => writer[w].saw = cache
      /\ \A w \in Writers : writer[w].pc = "put" /\ cache # 0 => ~outs[cache].open
      /\ \A w, v \in Writers : w # v => writer[w].pc \notin Working \/ writer[v].pc \notin Working

\* The initial states satisfy StreamInv.
LEMMA StreamInit == Init => StreamInv
  BY DEF Init, StreamInv, Idle, Working, Deciding

\* A step of a thread keeps it.
LEMMA StreamSteps ==
  ASSUME TypeOK, StreamInv, NEW w \in Writers, Steps(w)
  PROVE  StreamInv'
<1>. SUFFICES ASSUME overlapped' = {}
              PROVE  /\ \A o \in 1..Len(outs') : outs'[o].open =>
                          \/ o = cache'
                          \/ \E v \in Writers : writer'[v].pc \in {"close", "put"} /\ writer'[v].out = o
                     /\ \A v \in Writers : writer'[v].pc \in Deciding => writer'[v].saw = cache'
                     /\ \A v \in Writers : writer'[v].pc = "put" /\ cache' # 0 => ~outs'[cache'].open
                     /\ \A u, v \in Writers : u # v => writer'[u].pc \notin Working \/ writer'[v].pc \notin Working
  BY DEF StreamInv
<1>1. /\ overlapped = {} /\ (\A v \in Writers \ {w} : writer'[v] = writer[v]) /\ writer[w] \in Writer
      /\ writer \in [Writers -> Writer] /\ outs \in Seq(Out) /\ Len(outs) \in Nat /\ cache \in 0..Len(outs)
      /\ \A o \in 1..Len(outs) : outs'[o].open => outs[o].open
  BY Effects, ThreadTypes
<1>2. /\ \A o \in 1..Len(outs) : outs[o].open =>
           o = cache \/ \E v \in Writers : writer[v].pc \in {"close", "put"} /\ writer[v].out = o
      /\ \A v \in Writers : writer[v].pc \in Deciding => writer[v].saw = cache
      /\ \A v \in Writers : writer[v].pc = "put" /\ cache # 0 => ~outs[cache].open
      /\ \A u, v \in Writers : u # v => writer[u].pc \notin Working \/ writer[v].pc \notin Working
  BY <1>1 DEF StreamInv
<1>3. \A v \in Writers \ {w} : writer[v].pc \notin Working
  <2>1. CASE Post(w)
    <3>1. Others(w) = {}
      BY <1>1, <2>1 DEF Post
    <3>. QED BY <3>1 DEF Others
  <2>2. CASE writer[w].pc \in Working
    BY <1>2, <2>2
  <2>. QED BY <2>1, <2>2, Effects
<1>4. \A v \in Writers \ {w} : writer'[v].pc \notin Working /\ writer'[v].pc \notin Deciding
                              /\ writer'[v].pc \notin {"close", "put"}
  BY <1>1, <1>3 DEF Working, Step, Deciding
<1>5. \A o \in 1..Len(outs) : outs[o].open => o = cache \/ (writer[w].pc \in {"close", "put"} /\ writer[w].out = o)
  BY <1>2, <1>3 DEF Working, Step
<1>6. ASSUME cache' = cache, outs' = outs, writer[w].pc \notin {"close", "put"}, writer'[w].pc \notin Deciding
      PROVE  /\ \A o \in 1..Len(outs') : outs'[o].open => o = cache'
             /\ writer'[w].pc \notin Deciding
  BY <1>5, <1>6
<1>7. ASSUME \A o \in 1..Len(outs') : outs'[o].open =>
               o = cache' \/ (writer'[w].pc \in {"close", "put"} /\ writer'[w].out = o),
             writer'[w].pc \in Deciding => writer'[w].saw = cache',
             writer'[w].pc = "put" /\ cache' # 0 => ~outs'[cache'].open
      PROVE  /\ \A o \in 1..Len(outs') : outs'[o].open =>
                  \/ o = cache'
                  \/ \E v \in Writers : writer'[v].pc \in {"close", "put"} /\ writer'[v].out = o
             /\ \A v \in Writers : writer'[v].pc \in Deciding => writer'[v].saw = cache'
             /\ \A v \in Writers : writer'[v].pc = "put" /\ cache' # 0 => ~outs'[cache'].open
             /\ \A u, v \in Writers : u # v => writer'[u].pc \notin Working \/ writer'[v].pc \notin Working
  BY <1>4, <1>7
<1>8. CASE Post(w)
  <2>1. PICK n \in Lengths :
          writer'[w] = [Idle EXCEPT !.pc = "get", !.day = today, !.entry = posted + 1, !.len = n]
    BY <1>1, <1>8 DEF Post, Become
  <2>2. writer'[w].pc = "get"
    BY <2>1 DEF Idle
  <2>3. cache' = cache /\ outs' = outs /\ writer[w].pc = "idle"
    BY <1>8 DEF Post, At
  <2>. QED BY <1>6, <1>7, <2>2, <2>3 DEF Deciding
<1>9. CASE Get(w)
  <2>1. cache' = cache /\ outs' = outs /\ writer[w].pc = "get"
    BY <1>9 DEF Get, At
  <2>2. writer'[w].pc = "off" \/ (writer'[w].pc = "open" /\ writer'[w].saw = cache)
    BY <1>1, <1>9 DEF Get, Become, Writer
  <2>. QED BY <1>5, <1>7, <2>1, <2>2 DEF Deciding
<1>10. CASE Open(w)
  <2>. DEFINE o == [name |-> writer[w].day, offset |-> Len(file[writer[w].day]), open |-> TRUE]
  <2>1. o \in Out
    BY ThreadTypes DEF Out
  <2>2. outs' = Append(outs, o) /\ cache' = cache
    BY <1>10 DEF Open
  <2>. HIDE DEF o
  <2>3. Len(outs') = Len(outs) + 1 /\ \A i \in 1..Len(outs) : outs'[i] = outs[i]
    BY <1>1, <2>1, <2>2, AppendProperties
  <2>4. /\ writer'[w].pc = (IF writer[w].saw = 0 THEN "put" ELSE "close") /\ writer'[w].out = Len(outs) + 1
        /\ writer'[w].saw = writer[w].saw /\ writer[w].pc = "open"
    BY <1>1, <1>10 DEF Open, Become, Writer, At
  <2>5. writer[w].saw = cache
    BY <1>2, <2>4 DEF Deciding
  <2>6. \A i \in 1..Len(outs') : outs'[i].open =>
          i = cache' \/ (writer'[w].pc \in {"close", "put"} /\ writer'[w].out = i)
    BY <1>1, <1>5, <2>2, <2>3, <2>4
  <2>. QED BY <1>7, <2>2, <2>4, <2>5, <2>6
<1>11. CASE CloseOld(w)
  <2>1. writer[w].pc = "close" /\ writer[w].saw \in 1..Len(outs) /\ writer[w].saw = cache
    BY <1>2, <1>11, ThreadTypes DEF CloseOld, At, Deciding
  <2>2. outs' = Closed(outs, cache) /\ cache' = cache
    BY <1>11, <2>1 DEF CloseOld
  <2>3. Len(outs') = Len(outs) /\ ~outs'[cache].open
    BY <1>1, <2>1, <2>2, Closing
  <2>4. writer'[w].pc = "put" /\ writer'[w].out = writer[w].out /\ writer'[w].saw = writer[w].saw
    BY <1>1, <1>11 DEF CloseOld, Goto, Become, Writer
  <2>. QED BY <1>1, <1>5, <1>7, <2>1, <2>2, <2>3, <2>4
<1>12. CASE Put(w)
  <2>1. writer[w].pc = "put" /\ writer[w].out \in 1..Len(outs) /\ writer[w].saw = cache
    BY <1>2, <1>12, ThreadTypes DEF Put, At, Deciding
  <2>2. cache' = writer[w].out /\ outs' = outs
    BY <1>12, <2>1 DEF Put
  <2>3. writer'[w].pc = "off"
    BY <1>1, <1>12, <2>1 DEF Put, Goto, Become, Writer
  <2>4. cache # 0 => ~outs[cache].open
    BY <1>2, <2>1
  <2>5. \A i \in 1..Len(outs') : outs'[i].open => i = cache'
    BY <1>5, <2>2, <2>4
  <2>. QED BY <1>7, <2>3, <2>5 DEF Deciding
<1>13. CASE Store(w)
  <2>1. writer[w].out \in 1..Len(outs) /\ writer[w].at + writer[w].len \in Nat /\ writer[w].pc = "store"
    BY <1>13, ThreadTypes DEF Store, At, Holding
  <2>2. outs' = Stored(outs, writer[w].out, writer[w].at + writer[w].len) /\ cache' = cache
    BY <1>13 DEF Store
  <2>3. Len(outs') = Len(outs)
    BY <1>1, <2>1, <2>2, Storing
  <2>4. writer'[w].pc = "index"
    BY <1>1, <1>13 DEF Store, Goto, Become, Writer
  <2>. QED BY <1>1, <1>5, <1>7, <2>1, <2>2, <2>3, <2>4 DEF Deciding
<1>14. CASE OpenFails(w) \/ AppendFails(w) \/ Break(w) \/ AddSubject(w)
  <2>0. Leave(w)
    BY <1>14 DEF OpenFails, AppendFails, Break, AddSubject
  <2>1. writer'[w].pc = "idle"
    BY <1>1, <2>0 DEF Leave, Become, Idle
  <2>2. cache' = cache /\ outs' = outs /\ writer[w].pc \notin {"close", "put"}
    BY <1>14 DEF OpenFails, AppendFails, Break, AddSubject, At
  <2>. QED BY <1>6, <1>7, <2>1, <2>2 DEF Deciding
<1>15. CASE ReadOffset(w) \/ AppendEntry(w) \/ Reread(w)
  <2>1. writer'[w].pc \in {"append", "reread", "store"}
    BY <1>1, <1>15 DEF ReadOffset, AppendEntry, Reread, Goto, Become, Writer
  <2>2. cache' = cache /\ outs' = outs /\ writer[w].pc \notin {"close", "put"}
    BY <1>15 DEF ReadOffset, AppendEntry, Reread, At
  <2>. QED BY <1>6, <1>7, <2>1, <2>2 DEF Deciding
<1>. QED BY <1>8, <1>9, <1>10, <1>11, <1>12, <1>13, <1>14, <1>15 DEF Steps, Hit, Write

\* Every step keeps it.
LEMMA StreamStep ==
  ASSUME TypeOK, StreamInv, [Next]_vars
  PROVE  StreamInv'
<1>1. ASSUME UNCHANGED <<outs, cache, writer, overlapped>> PROVE StreamInv'
  BY <1>1 DEF StreamInv
<1>2. CASE Destroy
  <2>1. cache \in 1..Len(outs) /\ outs \in Seq(Out) /\ outs' = Closed(outs, cache)
    BY <1>2 DEF Destroy, TypeOK
  <2>2. /\ Len(outs') = Len(outs)
        /\ \A j \in 1..Len(outs) : outs'[j].open = IF j = cache THEN FALSE ELSE outs[j].open
    BY <2>1, Closing
  <2>3. UNCHANGED <<cache, writer, overlapped>>
    BY <1>2 DEF Destroy
  <2>. QED BY <2>1, <2>2, <2>3 DEF StreamInv
<1>3. CASE Restart
  <2>1. Len(outs') = 0 /\ \A w \in Writers : writer'[w].pc = "idle"
    BY <1>3, EmptySeq DEF Restart, Idle
  <2>. QED BY <2>1 DEF StreamInv, Deciding, Working
<1>. QED BY StreamSteps, <1>1, <1>2, <1>3 DEF Next, Steps, Tick, vars

\* Until two requests overlap, Out.hit leaves no stream open but the cached one.
THEOREM OneStreamOpen == Spec => []OneStream
<1>1. TypeOK /\ StreamInv => OneStream
  BY LenProperties DEF TypeOK, StreamInv, OneStream
<1>. QED BY <1>1, TypeInit, TypeStep, StreamInit, StreamStep, PTL DEF Spec

-----------------------------------------------------------------------------
(* However requests overlap, no offset is past the end of its file *)

Appended == {"reread", "store", "index"}

\* Entries get their numbers as they are posted.
Numbered ==
    /\ \A d \in Days : \A k \in 1..Len(file[d]) : file[d][k] <= posted
    /\ \A w \in Writers : writer[w].pc \in Working => writer[w].entry <= posted
    /\ \A w, v \in Writers : w # v /\ writer[w].pc \in Working /\ writer[v].pc \in Working
         => writer[w].entry # writer[v].entry

\* An entry is in no file before it is written ...
Fresh ==
    \A w \in Writers : writer[w].pc \in Working \ Appended =>
      \A d \in Days : \A k \in 1..Len(file[d]) : file[d][k] # writer[w].entry

\* ... and then in one place.
OwnBytes ==
    \A w \in Writers : writer[w].pc \in {"reread", "store"} =>
      \E p \in Nat : /\ p + writer[w].len <= Len(file[MyOut(w).name])
                     /\ \A k \in 1..Len(file[MyOut(w).name]) :
                          file[MyOut(w).name][k] = writer[w].entry <=> k \in p + 1..p + writer[w].len

\* The bytes of a stream's file but for those a thread has still to count: an offset, the
\* stream's or one that a thread is about to add to, is never more than these.
Pending(e, o) == \E v \in Writers : Counting(v, o) /\ writer[v].entry = e
Counted(o) == {k \in 1..Len(file[outs[o].name]) : ~Pending(file[outs[o].name][k], o)}

OffsetIn == \A o \in 1..Len(outs) : outs[o].offset <= Cardinality(Counted(o))
AtIn == \A w \in Writers : writer[w].pc = "store" => writer[w].at <= Cardinality(Counted(writer[w].out))

\* What a thread will index is inside of the file.
OffIn ==
    \A w \in Writers :
      /\ writer[w].pc = "append" => writer[w].off <= Len(file[MyOut(w).name])
      /\ writer[w].pc \in Appended => writer[w].off + writer[w].len <= Len(file[MyOut(w).name])

WithinInv == Numbered /\ Fresh /\ OwnBytes /\ OffsetIn /\ AtIn /\ OffIn /\ WithinFile

\* How a thread goes on.
Goes(w) ==
    LET r == writer[w]  s == writer'[w] IN
    /\ Post(w) => s.pc = "get" /\ s.entry = posted + 1 /\ posted' = posted + 1
    /\ ~Post(w) => posted' = posted /\ r.pc \in Working
                   /\ (s.pc \in Working => s.entry = r.entry /\ s.len = r.len)
    /\ s.pc \in Appended \union {"append"} => s.out = r.out
    /\ s.pc = "append" => ReadOffset(w) /\ s.off = MyOut(w).offset
    /\ s.pc = "reread" => AppendEntry(w) /\ s.off = r.off
    /\ s.pc = "store" => Reread(w) /\ s.off = r.off /\ s.at = MyOut(w).offset
    /\ s.pc = "index" => Store(w) /\ s.off = r.off
    /\ r.pc = "reread" => s.pc = "store"
    /\ r.pc = "store" => s.pc = "index"

LEMMA GoesOn ==
  ASSUME TypeOK, NEW w \in Writers, Steps(w)
  PROVE  Goes(w)
<1>1. writer \in [Writers -> Writer] /\ writer[w] \in Writer
  BY DEF TypeOK
<1>2. CASE Post(w)
  <2>1. PICK n \in Lengths : writer'[w] = [Idle EXCEPT !.pc = "get", !.day = today, !.entry = posted + 1, !.len = n]
    BY <1>1, <1>2 DEF Post, Become
  <2>2. writer'[w].pc = "get" /\ writer'[w].entry = posted + 1
    BY <2>1 DEF Idle
  <2>. QED BY <1>2, <2>2 DEF Post, Appended, Goes, At
<1>3. ASSUME writer'[w].pc = "idle", ~Post(w), posted' = posted,
             writer[w].pc \in Working \ {"reread", "store"}
      PROVE  Goes(w)
  BY <1>3 DEF Goes, Appended, Working
<1>4. ASSUME NEW p \in {"off", "open", "put", "close"}, writer'[w].pc = p, writer'[w].entry = writer[w].entry,
             writer'[w].len = writer[w].len, posted' = posted, ~Post(w), writer[w].pc \in Working \ {"reread", "store"}
      PROVE  Goes(w)
  BY <1>4 DEF Goes, Appended, Working
<1>5. CASE Get(w)
  <2>1. /\ writer[w].pc = "get" /\ posted' = posted
        /\ \/ writer' = [writer EXCEPT ![w] = [writer[w] EXCEPT !.pc = "off", !.out = cache]]
           \/ writer' = [writer EXCEPT ![w] = [writer[w] EXCEPT !.pc = "open", !.saw = cache]]
    BY <1>5 DEF Get, At, Become, counters
  <2>2. /\ writer'[w].pc \in {"off", "open"} /\ writer'[w].entry = writer[w].entry
        /\ writer'[w].len = writer[w].len
    BY <1>1, <2>1 DEF Writer
  <2>. QED BY <1>4, <2>1, <2>2 DEF Post, At, Working, Step
<1>6. CASE Open(w)
  <2>1. PICK p \in {"put", "close"} :
          /\ writer[w].pc = "open" /\ posted' = posted
          /\ writer' = [writer EXCEPT ![w] = [writer[w] EXCEPT !.pc = p, !.out = Len(outs) + 1]]
    BY <1>6 DEF Open, At, Become, counters
  <2>2. writer'[w].pc = p /\ writer'[w].entry = writer[w].entry /\ writer'[w].len = writer[w].len
    BY <1>1, <2>1 DEF Writer
  <2>. QED BY <1>4, <2>1, <2>2 DEF Post, At, Working, Step
<1>7. CASE OpenFails(w) \/ AppendFails(w) \/ Break(w) \/ AddSubject(w)
  <2>1. /\ writer[w].pc \in {"open", "append", "index"} /\ posted' = posted
        /\ writer' = [writer EXCEPT ![w] = Idle] /\ Idle.pc = "idle"
    BY <1>7 DEF OpenFails, AppendFails, Break, AddSubject, At, Leave, Become, counters, Idle
  <2>2. writer'[w].pc = "idle"
    BY <1>1, <2>1
  <2>. QED BY <1>3, <2>1, <2>2 DEF Post, At, Working, Step
<1>8. CASE CloseOld(w)
  <2>1. /\ writer[w].pc = "close" /\ posted' = posted
        /\ writer' = [writer EXCEPT ![w] = [writer[w] EXCEPT !.pc = "put"]]
    BY <1>8 DEF CloseOld, At, Become, Goto, counters
  <2>2. writer'[w].pc = "put" /\ writer'[w].entry = writer[w].entry /\ writer'[w].len = writer[w].len
    BY <1>1, <2>1 DEF Writer
  <2>. QED BY <1>4, <2>1, <2>2 DEF Post, At, Working, Step
<1>9. CASE Put(w)
  <2>1. /\ writer[w].pc = "put" /\ posted' = posted
        /\ \/ writer' = [writer EXCEPT ![w] = [writer[w] EXCEPT !.pc = "off"]]
           \/ writer' = [writer EXCEPT ![w] = [writer[w] EXCEPT !.pc = "off", !.out = cache]]
    BY <1>9 DEF Put, At, Become, Goto, counters
  <2>2. writer'[w].pc = "off" /\ writer'[w].entry = writer[w].entry /\ writer'[w].len = writer[w].len
    BY <1>1, <2>1 DEF Writer
  <2>. QED BY <1>4, <2>1, <2>2 DEF Post, At, Working, Step
<1>10. CASE ReadOffset(w)
  <2>1. /\ writer[w].pc = "off" /\ posted' = posted
        /\ writer' = [writer EXCEPT ![w] = [writer[w] EXCEPT !.pc = "append", !.off = MyOut(w).offset]]
    BY <1>10 DEF ReadOffset, At, Become, counters
  <2>2. /\ writer'[w].pc = "append" /\ writer'[w].off = MyOut(w).offset /\ writer'[w].out = writer[w].out
        /\ writer'[w].entry = writer[w].entry /\ writer'[w].len = writer[w].len
    BY <1>1, <2>1 DEF Writer
  <2>. QED BY <1>10, <2>1, <2>2 DEF Post, At, Working, Step, Goes, Appended
<1>11. CASE AppendEntry(w)
  <2>1. /\ writer[w].pc = "append" /\ posted' = posted
        /\ writer' = [writer EXCEPT ![w] = [writer[w] EXCEPT !.pc = "reread"]]
    BY <1>11 DEF AppendEntry, At, Become, Goto, counters
  <2>2. /\ writer'[w].pc = "reread" /\ writer'[w].off = writer[w].off /\ writer'[w].out = writer[w].out
        /\ writer'[w].entry = writer[w].entry /\ writer'[w].len = writer[w].len
    BY <1>1, <2>1 DEF Writer
  <2>. QED BY <1>11, <2>1, <2>2 DEF Post, At, Working, Step, Goes, Appended
<1>12. CASE Reread(w)
  <2>1. /\ writer[w].pc = "reread" /\ posted' = posted
        /\ writer' = [writer EXCEPT ![w] = [writer[w] EXCEPT !.pc = "store", !.at = MyOut(w).offset]]
    BY <1>12 DEF Reread, At, Become, counters
  <2>2. /\ writer'[w].pc = "store" /\ writer'[w].at = MyOut(w).offset /\ writer'[w].out = writer[w].out
        /\ writer'[w].entry = writer[w].entry /\ writer'[w].len = writer[w].len /\ writer'[w].off = writer[w].off
    BY <1>1, <2>1 DEF Writer
  <2>. QED BY <1>12, <2>1, <2>2 DEF Post, At, Working, Step, Goes, Appended
<1>13. CASE Store(w)
  <2>1. /\ writer[w].pc = "store" /\ posted' = posted
        /\ writer' = [writer EXCEPT ![w] = [writer[w] EXCEPT !.pc = "index"]]
    BY <1>13 DEF Store, At, Become, Goto, counters
  <2>2. /\ writer'[w].pc = "index" /\ writer'[w].off = writer[w].off /\ writer'[w].out = writer[w].out
        /\ writer'[w].entry = writer[w].entry /\ writer'[w].len = writer[w].len
    BY <1>1, <2>1 DEF Writer
  <2>. QED BY <1>13, <2>1, <2>2 DEF Post, At, Working, Step, Goes, Appended
<1>. QED BY <1>2, <1>5, <1>6, <1>7, <1>8, <1>9, <1>10, <1>11, <1>12, <1>13 DEF Steps, Hit, Write

\* What a file gains: bytes of the entry that is being written.
LEMMA Gains ==
  ASSUME TypeOK, NEW w \in Writers, Steps(w)
  PROVE  /\ \A d \in Days : \A k \in 1..Len(file'[d]) :
              \/ k \in 1..Len(file[d]) /\ file'[d][k] = file[d][k]
              \/ /\ k > Len(file[d]) /\ file'[d][k] = writer[w].entry
                 /\ writer[w].pc = "append" /\ d = MyOut(w).name
         /\ AppendEntry(w) => /\ Len(file'[MyOut(w).name]) = Len(file[MyOut(w).name]) + writer[w].len
<1>1. /\ file \in [Days -> Seq(Entries)] /\ \A d \in Days : file[d] \in Seq(Entries) /\ Len(file[d]) \in Nat
      /\ writer[w].pc \in Holding => MyOut(w).name \in Days
      /\ writer[w].pc \in Working => writer[w].entry \in Entries
      /\ writer[w].len \in Nat
  BY ThreadTypes DEF TypeOK
<1>2. CASE file' = file /\ ~AppendEntry(w)
  BY <1>2
<1>3. ASSUME NEW n \in Nat, writer[w].pc = "append",
             file' = [file EXCEPT ![MyOut(w).name] = file[MyOut(w).name] \o Bytes(writer[w].entry, n)],
             AppendEntry(w) => n = writer[w].len
      PROVE  /\ \A d \in Days : \A k \in 1..Len(file'[d]) :
                  \/ k \in 1..Len(file[d]) /\ file'[d][k] = file[d][k]
                  \/ /\ k > Len(file[d]) /\ file'[d][k] = writer[w].entry
                     /\ writer[w].pc = "append" /\ d = MyOut(w).name
             /\ AppendEntry(w) => /\ Len(file'[MyOut(w).name]) = Len(file[MyOut(w).name]) + writer[w].len
  <2>1. MyOut(w).name \in Days /\ writer[w].entry \in Entries
    BY <1>1, <1>3 DEF Holding, Working, Step
  <2>2. PICK e \in Entries : e = writer[w].entry
    BY <2>1
  <2>3. PICK f \in Seq(Entries) : f = file[MyOut(w).name] /\ Len(f) \in Nat
    BY <1>1, <2>1
  <2>. DEFINE g == f \o Bytes(e, n)
  <2>4. /\ Len(g) = Len(f) + n /\ \A k \in 1..Len(f) : g[k] = f[k]
        /\ \A k \in 1..n : g[Len(f) + k] = e
    BY FileAppended
  <2>5. \A d \in Days : file'[d] = IF d = MyOut(w).name THEN g ELSE file[d]
    BY <1>1, <1>3, <2>2, <2>3
  <2>. HIDE DEF g
  <2>6. ASSUME NEW k \in 1..Len(g), ~(k \in 1..Len(f)) PROVE k > Len(f) /\ g[k] = writer[w].entry
    <3>1. k - Len(f) \in 1..n /\ Len(f) + (k - Len(f)) = k /\ k > Len(f)
      BY <2>3, <2>4, <2>6
    <3>2. g[Len(f) + (k - Len(f))] = e
      BY <2>4, <3>1
    <3>. QED BY <2>2, <3>1, <3>2
  <2>7. ASSUME NEW d \in Days, NEW k \in 1..Len(file'[d])
        PROVE  \/ k \in 1..Len(file[d]) /\ file'[d][k] = file[d][k]
               \/ /\ k > Len(file[d]) /\ file'[d][k] = writer[w].entry
                  /\ writer[w].pc = "append" /\ d = MyOut(w).name
    <3>1. CASE d = MyOut(w).name
      <4>1. file'[d] = g /\ file[d] = f
        BY <2>3, <2>5, <3>1
      <4>. QED BY <1>3, <2>4, <2>6, <2>7, <3>1, <4>1
    <3>2. CASE d # MyOut(w).name
      BY <2>5, <2>7, <3>2
    <3>. QED BY <3>1, <3>2
  <2>. QED BY <1>3, <2>1, <2>3, <2>4, <2>5, <2>7
<1>4. CASE AppendEntry(w)
  BY <1>1, <1>3, <1>4 DEF AppendEntry, At
<1>5. CASE Break(w)
  <2>1. PICK n \in 0..writer[w].len - 1 :
          file' = [file EXCEPT ![MyOut(w).name] = file[MyOut(w).name] \o Bytes(writer[w].entry, n)]
    BY <1>5 DEF Break
  <2>2. n \in Nat /\ writer[w].pc = "append" /\ ~AppendEntry(w)
    <3>1. writer'[w].pc = "idle"
      BY <1>5 DEF Break, Leave, Become, Idle, TypeOK
    <3>2. AppendEntry(w) => writer'[w].pc = "reread"
      BY DEF AppendEntry, Goto, Become, TypeOK, Writer
    <3>. QED BY <1>1, <1>5, <2>1, <3>1, <3>2 DEF Break, At
  <2>. QED BY <1>3, <2>1, <2>2
<1>. QED BY <1>2, <1>4, <1>5 DEF Steps, Hit, Write, Post, Get, Open, OpenFails, CloseOld, Put, ReadOffset,
       AppendFails, Reread, Store, AddSubject

\* What becomes of the streams' offsets.
LEMMA Offsets ==
  ASSUME TypeOK, NEW w \in Writers, Steps(w), NEW o \in 1..Len(outs')
  PROVE  \/ o \in 1..Len(outs) /\ outs'[o].name = outs[o].name /\ outs'[o].offset = outs[o].offset
         \/ /\ o \in 1..Len(outs) /\ outs'[o].name = outs[o].name
            /\ Store(w) /\ o = writer[w].out /\ outs'[o].offset = writer[w].at + writer[w].len
         \/ /\ o \notin 1..Len(outs) /\ file' = file
            /\ outs'[o].name \in Days /\ outs'[o].offset = Len(file[outs'[o].name])
            /\ \A v \in Writers : writer'[v].pc \in {"reread", "store"} => writer'[v].out # o
<1>1. /\ outs \in Seq(Out) /\ Len(outs) \in Nat /\ writer[w].day \in Days
      /\ \A d \in Days : Len(file[d]) \in Nat
      /\ writer[w].pc = "close" => writer[w].saw \in 1..Len(outs)
      /\ writer[w].pc \in {"put", "store"} => writer[w].out \in 1..Len(outs)
      /\ writer[w].len \in Nat /\ writer[w].at \in Nat
  BY ThreadTypes DEF Holding
<1>2. CASE outs' = outs
  BY <1>2
<1>3. ASSUME NEW i \in 1..Len(outs), outs' = Closed(outs, i)
      PROVE  o \in 1..Len(outs) /\ outs'[o].name = outs[o].name /\ outs'[o].offset = outs[o].offset
  <2>1. /\ Len(Closed(outs, i)) = Len(outs)
        /\ \A j \in 1..Len(outs) : /\ Closed(outs, i)[j].name = outs[j].name
                                   /\ Closed(outs, i)[j].offset = outs[j].offset
    BY <1>1, Closing
  <2>. QED BY <1>3, <2>1
<1>4. CASE Open(w)
  <2>. DEFINE n == [name |-> writer[w].day, offset |-> Len(file[writer[w].day]), open |-> TRUE]
  <2>1. n \in Out /\ n.name = writer[w].day /\ n.offset = Len(file[writer[w].day])
    BY <1>1 DEF Out
  <2>2. outs' = Append(outs, n) /\ file' = file
    BY <1>4 DEF Open
  <2>. HIDE DEF n
  <2>3. /\ Len(outs') = Len(outs) + 1 /\ outs'[Len(outs) + 1] = n
        /\ \A i \in 1..Len(outs) : outs'[i] = outs[i]
    BY <1>1, <2>1, <2>2, AppendProperties
  <2>4. CASE o \in 1..Len(outs)
    BY <2>3, <2>4
  <2>5. CASE o \notin 1..Len(outs)
    <3>1. o = Len(outs) + 1
      BY <1>1, <2>3, <2>5
    <3>2. ASSUME NEW v \in Writers, writer'[v].pc \in {"reread", "store"} PROVE writer'[v].out # o
      <4>1. v # w
        <5>1. writer'[w].pc \in {"put", "close"}
          BY <1>4 DEF Open, Become, TypeOK, Writer
        <5>. QED BY <3>2, <5>1
      <4>2. writer'[v] = writer[v]
        BY <4>1, Effects
      <4>3. writer[v].out \in 1..Len(outs)
        BY <3>2, <4>2, ThreadTypes DEF Holding
      <4>. QED BY <1>1, <3>1, <4>2, <4>3
    <3>. QED BY <1>1, <2>1, <2>2, <2>3, <2>5, <3>1, <3>2
  <2>. QED BY <2>4, <2>5
<1>5. CASE Store(w)
  <2>1. outs' = Stored(outs, writer[w].out, writer[w].at + writer[w].len) /\ writer[w].out \in 1..Len(outs)
    BY <1>1, <1>5 DEF Store, At
  <2>2. writer[w].at + writer[w].len \in Nat
    BY <1>1
  <2>3. /\ Len(outs') = Len(outs)
        /\ \A i \in 1..Len(outs) : /\ outs'[i].name = outs[i].name
                                   /\ outs'[i].offset = IF i = writer[w].out THEN writer[w].at + writer[w].len
                                                        ELSE outs[i].offset
    BY <1>1, <2>1, <2>2, Storing
  <2>. QED BY <1>5, <2>3
<1>6. CASE CloseOld(w)
  BY <1>1, <1>3, <1>6 DEF CloseOld, At
<1>7. CASE Put(w)
  BY <1>1, <1>2, <1>3, <1>7 DEF Put, At
<1>. QED BY <1>2, <1>4, <1>5, <1>6, <1>7 DEF Steps, Hit, Write, Post, Get, OpenFails, ReadOffset,
       AppendEntry, AppendFails, Break, Reread, AddSubject

\* A new entry has a number of its own.
LEMMA NumberedSteps ==
  ASSUME TypeOK, Numbered, NEW w \in Writers, Steps(w)
  PROVE  Numbered'
<1>1. Goes(w) /\ \A v \in Writers \ {w} : writer'[v] = writer[v]
  BY GoesOn, Effects
<1>2. posted \in Nat /\ posted <= posted' /\ posted' \in {posted, posted + 1}
  BY <1>1, RemoteLogAssumption DEF TypeOK, Goes
<1>3. \A v \in Writers : writer[v].pc \in Working => writer[v].entry \in Nat /\ writer[v].entry <= posted
  BY ThreadTypes, RemoteLogAssumption DEF Numbered, Entries
<1>4. ASSUME NEW v \in Writers, writer'[v].pc \in Working PROVE writer'[v].entry <= posted'
  <2>1. CASE v = w
    BY <1>1, <1>2, <1>3, <1>4, <2>1 DEF Goes
  <2>2. CASE v # w
    BY <1>1, <1>2, <1>3, <1>4, <2>2
  <2>. QED BY <2>1, <2>2
<1>5. ASSUME NEW u \in Writers, NEW v \in Writers, u # v, writer'[u].pc \in Working, writer'[v].pc \in Working
      PROVE  writer'[u].entry # writer'[v].entry
  <2>1. \A x \in Writers \ {w} : writer'[x].pc \in Working => /\ writer[x].pc \in Working
                                                              /\ writer'[x].entry = writer[x].entry
    BY <1>1
  <2>2. writer'[w].pc \in Working => \/ writer'[w].entry = posted + 1
                                     \/ writer[w].pc \in Working /\ writer'[w].entry = writer[w].entry
    BY <1>1 DEF Goes
  <2>. QED BY <1>2, <1>3, <1>5, <2>1, <2>2 DEF Numbered
<1>6. ASSUME NEW d \in Days, NEW k \in 1..Len(file'[d]) PROVE file'[d][k] <= posted'
  <2>1. CASE k \in 1..Len(file[d]) /\ file'[d][k] = file[d][k]
    <3>1. file[d][k] <= posted /\ file[d][k] \in Nat
      <4>1. file[d] \in Seq(Entries)
        BY ThreadTypes
      <4>. QED BY <2>1, <4>1, LenProperties, RemoteLogAssumption DEF Numbered, Entries
    <3>. QED BY <1>2, <2>1, <3>1
  <2>2. CASE file'[d][k] = writer[w].entry /\ writer[w].pc = "append"
    BY <1>2, <1>3, <2>2 DEF Working, Step
  <2>. QED BY <1>6, <2>1, <2>2, Gains
<1>. QED BY <1>4, <1>5, <1>6 DEF Numbered

\* Only the thread of an entry writes it, once.
LEMMA FreshSteps ==
  ASSUME TypeOK, Numbered, Fresh, NEW w \in Writers, Steps(w)
  PROVE  Fresh'
<1>1. Goes(w) /\ \A v \in Writers \ {w} : writer'[v] = writer[v]
  BY GoesOn, Effects
<1>2. SUFFICES ASSUME NEW v \in Writers, writer'[v].pc \in Working \ Appended,
                      NEW d \in Days, NEW k \in 1..Len(file'[d])
               PROVE  file'[d][k] # writer'[v].entry
  BY DEF Fresh
<1>3. CASE Post(w) /\ v = w
  <2>1. file' = file /\ writer'[v].entry = posted + 1
    BY <1>1, <1>3 DEF Post, Goes
  <2>2. file[d][k] <= posted /\ file[d][k] \in Nat
    <3>1. file[d] \in Seq(Entries)
      BY ThreadTypes
    <3>. QED BY <1>2, <2>1, <3>1, LenProperties, RemoteLogAssumption DEF Numbered, Entries
  <2>3. posted \in Nat
    BY RemoteLogAssumption DEF TypeOK
  <2>. QED BY <2>1, <2>2, <2>3
<1>4. CASE ~(Post(w) /\ v = w)
  <2>1. writer[v].pc \in Working /\ writer'[v].entry = writer[v].entry
    BY <1>1, <1>2, <1>4 DEF Goes
  <2>2. writer[v].pc \notin Appended
    <3>1. CASE v = w
      <4>1. writer[w].pc # "index"
        <5>1. writer[w].pc = "index" => AddSubject(w)
          BY <1>4, <3>1 DEF Steps, Hit, Write, Get, Open, OpenFails, CloseOld, Put, ReadOffset, AppendEntry,
               AppendFails, Break, Reread, Store, At
        <5>2. AddSubject(w) => writer'[w].pc = "idle"
          BY DEF AddSubject, Leave, Become, Idle, TypeOK
        <5>. QED BY <1>2, <3>1, <5>1, <5>2 DEF Working
      <4>. QED BY <1>1, <1>2, <3>1, <4>1 DEF Goes, Appended
    <3>2. CASE v # w
      BY <1>1, <1>2, <3>2
    <3>. QED BY <3>1, <3>2
  <2>3. CASE k \in 1..Len(file[d]) /\ file'[d][k] = file[d][k]
    BY <2>1, <2>2, <2>3 DEF Fresh
  <2>4. CASE file'[d][k] = writer[w].entry /\ writer[w].pc = "append"
    <3>1. CASE v # w
      BY <2>1, <2>4, <3>1 DEF Numbered, Working, Step
    <3>2. CASE v = w
      <4>1. AppendEntry(w) \/ AppendFails(w) \/ Break(w)
        BY <1>4, <2>4, <3>2 DEF Steps, Hit, Write, Get, Open, OpenFails, CloseOld, Put, ReadOffset,
             Reread, Store, AddSubject, At
      <4>2. writer'[w].pc \in {"reread", "idle"}
        <5>1. writer \in [Writers -> Writer] /\ writer[w] \in Writer
          BY DEF TypeOK
        <5>2. \/ writer' = [writer EXCEPT ![w] = [writer[w] EXCEPT !.pc = "reread"]]
              \/ writer' = [writer EXCEPT ![w] = Idle]
          BY <4>1 DEF AppendEntry, AppendFails, Break, Goto, Leave, Become
        <5>3. Idle.pc = "idle" /\ [writer[w] EXCEPT !.pc = "reread"].pc = "reread"
          BY <5>1 DEF Idle, Writer
        <5>. QED BY <5>1, <5>2, <5>3
      <4>. QED BY <1>2, <3>2, <4>2 DEF Working, Appended
    <3>. QED BY <3>1, <3>2
  <2>. QED BY <1>2, <2>3, <2>4, Gains
<1>. QED BY <1>3, <1>4

\* It writes it in one place, where it stays.
LEMMA OwnBytesSteps ==
  ASSUME TypeOK, Numbered, Fresh, OwnBytes, NEW w \in Writers, Steps(w)
  PROVE  OwnBytes'
<1>1. Goes(w) /\ \A v \in Writers \ {w} : writer'[v] = writer[v]
  BY GoesOn, Effects
<1>2. SUFFICES ASSUME NEW v \in Writers, writer'[v].pc \in {"reread", "store"}
               PROVE  \E p \in Nat :
                        /\ p + writer'[v].len <= Len(file'[MyOut(v)'.name])
                        /\ \A k \in 1..Len(file'[MyOut(v)'.name]) :
                             file'[MyOut(v)'.name][k] = writer'[v].entry <=> k \in p + 1..p + writer'[v].len
  BY DEF OwnBytes
<1>3. /\ writer[v].pc \in {"append", "reread", "store"}
      /\ writer'[v].entry = writer[v].entry /\ writer'[v].len = writer[v].len /\ writer'[v].out = writer[v].out
      /\ writer[v].pc = "append" => v = w /\ AppendEntry(w)
  <2>1. CASE v = w
    <3>1. AppendEntry(w) \/ Reread(w)
      BY <1>1, <1>2, <2>1 DEF Goes
    <3>2. ~Post(w)
      BY <1>1, <1>2, <2>1 DEF Goes
    <3>3. writer[w].pc \in {"append", "reread"} /\ (writer[w].pc = "append" => AppendEntry(w))
      BY <3>1 DEF AppendEntry, Reread, At
    <3>. QED BY <1>1, <1>2, <2>1, <3>2, <3>3 DEF Goes, Working, Step, Appended
  <2>2. CASE v # w
    BY <1>1, <1>2, <2>2
  <2>. QED BY <2>1, <2>2
<1>4. PICK d \in Days : d = MyOut(v).name /\ d = MyOut(v)'.name
  <2>1. writer[v].out \in 1..Len(outs) /\ MyOut(v).name \in Days
    BY <1>3, ThreadTypes DEF Holding
  <2>2. outs'[writer[v].out].name = outs[writer[v].out].name
    BY <2>1, Effects
  <2>. QED BY <1>3, <2>1, <2>2 DEF MyOut
<1>5. Len(file[d]) \in Nat /\ Len(file'[d]) \in Nat /\ Len(file[d]) <= Len(file'[d]) /\ writer[v].len \in Nat
  BY Effects, ThreadTypes
<1>6. CASE writer[v].pc = "append"
  <2>1. Len(file'[d]) = Len(file[d]) + writer[v].len
    BY <1>3, <1>4, <1>6, Gains
  <2>2. ASSUME NEW k \in 1..Len(file'[d])
        PROVE  file'[d][k] = writer[v].entry <=> k \in Len(file[d]) + 1..Len(file[d]) + writer[v].len
    <3>1. CASE k \in 1..Len(file[d]) /\ file'[d][k] = file[d][k]
      <4>1. file[d][k] # writer[v].entry
        BY <1>6, <3>1 DEF Fresh, Working, Step, Appended
      <4>. QED BY <1>5, <3>1, <4>1
    <3>2. CASE k > Len(file[d]) /\ file'[d][k] = writer[w].entry
      BY <1>3, <1>5, <1>6, <2>1, <2>2, <3>2
    <3>. QED BY <2>2, <3>1, <3>2, Gains
  <2>3. Len(file[d]) \in Nat /\ Len(file[d]) + writer[v].len <= Len(file'[d])
    BY <1>5, <2>1
  <2>. QED BY <1>3, <1>4, <2>2, <2>3
<1>7. CASE writer[v].pc # "append"
  <2>1. PICK p \in Nat : /\ p + writer[v].len <= Len(file[d])
                         /\ \A k \in 1..Len(file[d]) :
                              file[d][k] = writer[v].entry <=> k \in p + 1..p + writer[v].len
    BY <1>3, <1>4, <1>7 DEF OwnBytes
  <2>2. ASSUME NEW k \in 1..Len(file'[d])
        PROVE  file'[d][k] = writer[v].entry <=> k \in p + 1..p + writer[v].len
    <3>1. CASE k \in 1..Len(file[d]) /\ file'[d][k] = file[d][k]
      BY <2>1, <3>1
    <3>2. CASE k > Len(file[d]) /\ file'[d][k] = writer[w].entry /\ writer[w].pc = "append"
      <4>1. writer[w].entry # writer[v].entry
        BY <1>3, <1>7, <3>2 DEF Numbered, Working, Step
      <4>. QED BY <1>5, <2>1, <3>2, <4>1
    <3>. QED BY <2>2, <3>1, <3>2, Gains
  <2>3. p + writer[v].len <= Len(file'[d])
    BY <1>5, <2>1
  <2>. QED BY <1>3, <1>4, <2>2, <2>3
<1>. QED BY <1>6, <1>7

\* Sets of positions are finite.
LEMMA Positions ==
  ASSUME NEW n \in Nat, NEW S \in SUBSET (1..n)
  PROVE  IsFiniteSet(S) /\ Cardinality(S) \in Nat /\ Cardinality(S) <= n
<1>1. IsFiniteSet(1..n) /\ Cardinality(1..n) = n
  BY FS_Interval
<1>. QED BY <1>1, FS_Subset, FS_CardinalityType

\* More positions, no fewer of them.
LEMMA MorePositions ==
  ASSUME NEW n \in Nat, NEW T \in SUBSET (1..n), NEW S \in SUBSET T
  PROVE  Cardinality(S) <= Cardinality(T)
<1>1. IsFiniteSet(T)
  BY Positions
<1>. QED BY <1>1, FS_Subset

\* Positions and as many more, elsewhere.
LEMMA PositionsAdded ==
  ASSUME NEW n \in Nat, NEW T \in SUBSET (1..n), NEW S \in SUBSET T, NEW p \in Nat, NEW l \in Nat,
         p + 1..p + l \subseteq T, S \cap (p + 1..p + l) = {}
  PROVE  Cardinality(S) + l <= Cardinality(T)
<1>1. IsFiniteSet(S) /\ Cardinality(S) \in Nat /\ S \in SUBSET (1..n)
  BY Positions
<1>2. PICK I : I = p + 1..p + l
  OBVIOUS
<1>3. IsFiniteSet(I) /\ Cardinality(I) = l
  BY <1>2, FS_Interval
<1>4. Cardinality(S \cap I) = 0
  BY <1>2, FS_EmptySet
<1>5. Cardinality(S \cup I) = Cardinality(S) + Cardinality(I) - Cardinality(S \cap I)
  BY <1>1, <1>3, FS_Union
<1>6. Cardinality(S \cup I) = Cardinality(S) + l
  BY <1>1, <1>3, <1>4, <1>5
<1>7. S \cup I \in SUBSET T
  BY <1>2
<1>. QED BY <1>6, <1>7, MorePositions

\* A step takes no byte from those counted.
LEMMA CountedStays ==
  ASSUME TypeOK, Numbered, Fresh, NEW w \in Writers, Steps(w), NEW o \in 1..Len(outs)
  PROVE  /\ outs[o].name \in Days /\ Len(file'[outs[o].name]) \in Nat
         /\ Counted(o)' \in SUBSET (1..Len(file'[outs[o].name]))
         /\ Counted(o) \in SUBSET Counted(o)'
<1>1. Goes(w) /\ \A v \in Writers \ {w} : writer'[v] = writer[v]
  BY GoesOn, Effects
<1>2. outs'[o].name = outs[o].name /\ outs[o].name \in Days
  <2>1. outs[o] \in Out
    BY LenProperties DEF TypeOK
  <2>. QED BY <2>1, Effects DEF Out
<1>3. PICK d \in Days : d = outs[o].name
  BY <1>2
<1>4. Len(file[d]) \in Nat /\ Len(file'[d]) \in Nat /\ Len(file[d]) <= Len(file'[d])
      /\ \A k \in 1..Len(file[d]) : file'[d][k] = file[d][k]
  BY Effects
<1>5. ASSUME NEW k \in Counted(o) PROVE k \in Counted(o)'
  <2>1. k \in 1..Len(file[d]) /\ ~Pending(file[d][k], o)
    BY <1>3 DEF Counted
  <2>0. PICK e : e = file[d][k]
    OBVIOUS
  <2>2. ASSUME NEW v \in Writers, writer'[v].pc \in {"reread", "store"}, writer'[v].out = o,
               writer'[v].entry = e
        PROVE  FALSE
    <3>1. CASE v # w
      BY <1>1, <2>0, <2>1, <2>2, <3>1 DEF Pending, Counting
    <3>2. CASE v = w
      <4>1. /\ writer[w].pc \in {"append", "reread"} /\ ~Post(w)
            /\ writer'[w].entry = writer[w].entry /\ writer'[w].out = writer[w].out
        BY <1>1, <2>2, <3>2 DEF Goes, AppendEntry, Reread, At, Working, Step, Appended
      <4>2. writer[w].pc = "reread" => FALSE
        BY <2>0, <2>1, <2>2, <3>2, <4>1 DEF Pending, Counting
      <4>3. writer[w].pc = "append" => file[d][k] # writer[w].entry
        BY <2>1 DEF Fresh, Working, Step, Appended
      <4>. QED BY <2>0, <2>2, <3>2, <4>1, <4>2, <4>3
    <3>. QED BY <3>1, <3>2
  <2>3. k \in 1..Len(file'[d]) /\ file'[d][k] = e
    BY <1>4, <2>0, <2>1
  <2>4. ~Pending(e, o)'
    BY <2>2 DEF Pending, Counting
  <2>. QED BY <1>2, <1>3, <2>3, <2>4 DEF Counted
<1>6. Counted(o)' \in SUBSET (1..Len(file'[outs[o].name]))
  BY <1>2 DEF Counted
<1>. QED BY <1>2, <1>3, <1>4, <1>5, <1>6

\* When a thread stores an offset, what it wrote is counted.
LEMMA CountedAdds ==
  ASSUME TypeOK, Numbered, Fresh, OwnBytes, NEW w \in Writers, Store(w), Steps(w),
         NEW o \in 1..Len(outs), o = writer[w].out
  PROVE  Cardinality(Counted(o)) + writer[w].len <= Cardinality(Counted(o)')
<1>1. writer[w].pc = "store" /\ file' = file
  BY DEF Store, At
<1>2. o = writer[w].out
  OBVIOUS
<1>3. /\ outs[o].name \in Days /\ Len(file'[outs[o].name]) \in Nat
      /\ Counted(o)' \in SUBSET (1..Len(file'[outs[o].name]))
      /\ Counted(o) \in SUBSET Counted(o)'
  BY CountedStays
<1>4. PICK d \in Days : d = outs[o].name /\ d = outs'[o].name
  BY <1>3, Effects
<1>5. PICK p \in Nat : /\ p + writer[w].len <= Len(file[d])
                       /\ \A k \in 1..Len(file[d]) :
                            file[d][k] = writer[w].entry <=> k \in p + 1..p + writer[w].len
  BY <1>1, <1>2, <1>4 DEF OwnBytes, MyOut
<1>6. writer[w].len \in Nat /\ Len(file[d]) \in Nat
  BY ThreadTypes
<1>0. PICK e : e = writer[w].entry
  OBVIOUS
<1>7. ASSUME NEW k \in p + 1..p + writer[w].len PROVE k \in Counted(o)' /\ k \notin Counted(o)
  <2>1. k \in 1..Len(file[d]) /\ file[d][k] = e
    BY <1>0, <1>5, <1>6
  <2>2. Pending(e, o)
    BY <1>0, <1>1, <1>2 DEF Pending, Counting
  <2>3. ASSUME NEW v \in Writers, writer'[v].pc \in {"reread", "store"}, writer'[v].entry = e
        PROVE  FALSE
    <3>1. writer'[w].pc = "index"
      BY <1>1, GoesOn DEF Goes
    <3>2. v # w
      BY <2>3, <3>1
    <3>3. writer'[v] = writer[v]
      BY <3>2, Effects
    <3>. QED BY <1>0, <1>1, <2>3, <3>2, <3>3 DEF Numbered, Working, Step
  <2>4. ~Pending(e, o)'
    BY <2>3 DEF Pending, Counting
  <2>. QED BY <1>1, <1>4, <2>1, <2>2, <2>4 DEF Counted
<1>8. p + 1..p + writer[w].len \subseteq Counted(o)' /\ Counted(o) \cap (p + 1..p + writer[w].len) = {}
  BY <1>7
<1>9. PICK S, T : S = Counted(o) /\ T = Counted(o)'
  OBVIOUS
<1>10. PICK n \in Nat : T \in SUBSET (1..n)
  BY <1>3, <1>9
<1>11. Cardinality(S) + writer[w].len <= Cardinality(T)
  BY <1>3, <1>6, <1>8, <1>9, <1>10, PositionsAdded
<1>. QED BY <1>9, <1>11

\* The numbers of bytes counted.
LEMMA CountsAre ==
  ASSUME TypeOK, NEW o \in 1..Len(outs)
  PROVE  /\ Cardinality(Counted(o)) \in Nat /\ outs[o].name \in Days /\ outs[o].offset \in Nat
         /\ Cardinality(Counted(o)) <= Len(file[outs[o].name])
<1>1. outs[o] \in Out
  BY LenProperties DEF TypeOK
<1>2. outs[o].name \in Days /\ outs[o].offset \in Nat
  BY <1>1 DEF Out
<1>3. Len(file[outs[o].name]) \in Nat
  BY <1>2, LenProperties DEF TypeOK
<1>4. Counted(o) \in SUBSET (1..Len(file[outs[o].name]))
  BY DEF Counted
<1>. QED BY <1>2, <1>3, <1>4, Positions

\* So there are no fewer.
LEMMA CountsStay ==
  ASSUME TypeOK, Numbered, Fresh, NEW w \in Writers, Steps(w), NEW o \in 1..Len(outs)
  PROVE  /\ Cardinality(Counted(o)) \in Nat /\ Cardinality(Counted(o)') \in Nat
         /\ Cardinality(Counted(o)) <= Cardinality(Counted(o)')
<1>1. PICK S, T : S = Counted(o) /\ T = Counted(o)'
  OBVIOUS
<1>2. PICK n \in Nat : T \in SUBSET (1..n) /\ S \in SUBSET T
  BY <1>1, CountedStays
<1>. QED BY <1>1, <1>2, CountsAre, Positions, MorePositions

\* An offset that is stored grows by no more than what is counted from then on.
LEMMA OffsetInSteps ==
  ASSUME TypeOK, Numbered, Fresh, OwnBytes, OffsetIn, AtIn, NEW w \in Writers, Steps(w)
  PROVE  OffsetIn'
<1>. SUFFICES ASSUME NEW o \in 1..Len(outs') PROVE outs'[o].offset <= Cardinality(Counted(o)')
  BY DEF OffsetIn
<1>1. CASE o \in 1..Len(outs) /\ outs'[o].offset = outs[o].offset
  <2>1. outs[o].offset <= Cardinality(Counted(o)) /\ outs[o].offset \in Nat
    BY <1>1, CountsAre DEF OffsetIn
  <2>. QED BY <1>1, <2>1, CountsStay
<1>2. CASE o \in 1..Len(outs) /\ Store(w) /\ o = writer[w].out /\ outs'[o].offset = writer[w].at + writer[w].len
  <2>1. writer[w].at <= Cardinality(Counted(o))
    BY <1>2 DEF AtIn, Store, At
  <2>2. Cardinality(Counted(o)) + writer[w].len <= Cardinality(Counted(o)')
    BY <1>2, CountedAdds
  <2>3. writer[w].at \in Nat /\ writer[w].len \in Nat /\ Cardinality(Counted(o)) \in Nat
        /\ Cardinality(Counted(o)') \in Nat
    BY <1>2, CountsStay, ThreadTypes
  <2>. QED BY <1>2, <2>1, <2>2, <2>3
<1>3. CASE /\ file' = file /\ outs'[o].name \in Days /\ outs'[o].offset = Len(file[outs'[o].name])
           /\ \A v \in Writers : writer'[v].pc \in {"reread", "store"} => writer'[v].out # o
  <2>1. Counted(o)' = 1..Len(file[outs'[o].name])
    BY <1>3 DEF Counted, Pending, Counting
  <2>2. Len(file[outs'[o].name]) \in Nat
    BY <1>3, LenProperties DEF TypeOK
  <2>3. \A n \in Nat : Cardinality(1..n) = n
    BY FS_Interval
  <2>. QED BY <1>3, <2>1, <2>2, <2>3
<1>. QED BY <1>1, <1>2, <1>3, Offsets

\* One that is read again is one of its stream.
LEMMA AtInSteps ==
  ASSUME TypeOK, Numbered, Fresh, OffsetIn, AtIn, NEW w \in Writers, Steps(w)
  PROVE  AtIn'
<1>1. Goes(w) /\ \A v \in Writers \ {w} : writer'[v] = writer[v]
  BY GoesOn, Effects
<1>2. ASSUME NEW v \in Writers, writer'[v].pc = "store", NEW o, o = writer'[v].out
      PROVE  writer'[v].at <= Cardinality(Counted(o)')
  <2>1. o = writer[v].out /\ writer[v].pc \in {"reread", "store"}
    BY <1>1, <1>2 DEF Goes, Reread, At, Appended
  <2>2. o \in 1..Len(outs)
    BY <2>1, ThreadTypes DEF Holding
  <2>3. writer'[v].at <= Cardinality(Counted(o)) /\ writer'[v].at \in Nat
    <3>1. CASE v = w
      <4>1. writer'[v].at = outs[o].offset
        BY <1>1, <1>2, <2>1, <3>1 DEF Goes, MyOut
      <4>. QED BY <2>2, <4>1, CountsAre DEF OffsetIn
    <3>2. CASE v # w
      <4>1. writer'[v] = writer[v]
        BY <1>1, <3>2
      <4>. QED BY <1>2, <2>1, <4>1, ThreadTypes DEF AtIn
    <3>. QED BY <3>1, <3>2
  <2>. QED BY <2>2, <2>3, CountsStay
<1>3. ASSUME NEW v \in Writers, writer'[v].pc = "store"
      PROVE  writer'[v].at <= Cardinality(Counted(writer[v].out)')
  <2>1. PICK o : o = writer'[v].out
    OBVIOUS
  <2>2. writer'[v].at <= Cardinality(Counted(o)')
    BY <1>2, <1>3, <2>1
  <2>. QED BY <2>1, <2>2 DEF Counted
<1>. QED BY <1>3 DEF AtIn

\* One that is read is inside of the file, and so is what is written then.
LEMMA OffInSteps ==
  ASSUME TypeOK, Numbered, Fresh, OffsetIn, OffIn, NEW w \in Writers, Steps(w)
  PROVE  OffIn'
<1>1. Goes(w) /\ \A v \in Writers \ {w} : writer'[v] = writer[v]
  BY GoesOn, Effects
<1>2. SUFFICES ASSUME NEW v \in Writers, writer'[v].pc \in Appended \union {"append"}
               PROVE  /\ writer'[v].pc = "append" => writer'[v].off <= Len(file'[MyOut(v)'.name])
                      /\ writer'[v].pc \in Appended => writer'[v].off + writer'[v].len <= Len(file'[MyOut(v)'.name])
  BY DEF OffIn
<1>3. /\ writer[v].pc \in Appended \union {"append", "off"} /\ writer'[v].out = writer[v].out
      /\ writer'[v].len = writer[v].len
  <2>1. CASE v = w
    <3>1. writer[w].pc \in {"off", "append", "reread", "store"} /\ ~Post(w)
      BY <1>1, <1>2, <2>1 DEF Goes, ReadOffset, AppendEntry, Reread, Store, At, Appended
    <3>. QED BY <1>1, <1>2, <2>1, <3>1 DEF Goes, Appended, Working, Step
  <2>2. CASE v # w
    BY <1>1, <1>2, <2>2
  <2>. QED BY <2>1, <2>2
<1>4. writer[v].out \in 1..Len(outs) /\ MyOut(v).name \in Days
  BY <1>3, ThreadTypes DEF Holding, Appended
<1>5. PICK d \in Days : d = MyOut(v).name /\ d = MyOut(v)'.name
  <2>1. outs'[writer[v].out].name = outs[writer[v].out].name
    BY <1>4, Effects
  <2>. QED BY <1>3, <1>4, <2>1 DEF MyOut
<1>6. Len(file[d]) \in Nat /\ Len(file'[d]) \in Nat /\ Len(file[d]) <= Len(file'[d])
      /\ writer[v].len \in Nat /\ writer[v].off \in Nat
  BY Effects, ThreadTypes
<1>7. CASE v # w
  <2>1. writer'[v] = writer[v]
    BY <1>1, <1>7
  <2>2. /\ writer[v].pc = "append" => writer[v].off <= Len(file[d])
        /\ writer[v].pc \in Appended => writer[v].off + writer[v].len <= Len(file[d])
    BY <1>5 DEF OffIn
  <2>. QED BY <1>5, <1>6, <2>1, <2>2
<1>8. CASE v = w /\ writer'[w].pc = "append"
  <2>1. writer'[w].off = outs[writer[w].out].offset
    BY <1>1, <1>8 DEF Goes, MyOut
  <2>2. /\ outs[writer[w].out].offset <= Cardinality(Counted(writer[w].out))
        /\ Cardinality(Counted(writer[w].out)) <= Len(file[d]) /\ Cardinality(Counted(writer[w].out)) \in Nat
        /\ outs[writer[w].out].offset \in Nat
    BY <1>4, <1>5, <1>8, CountsAre DEF OffsetIn, MyOut
  <2>. QED BY <1>5, <1>6, <1>8, <2>1, <2>2 DEF Appended
<1>9. CASE v = w /\ writer'[w].pc = "reread"
  <2>1. AppendEntry(w) /\ writer'[w].off = writer[w].off /\ writer[w].pc = "append"
    BY <1>1, <1>9 DEF Goes, AppendEntry, At
  <2>2. writer[w].off <= Len(file[d]) /\ Len(file'[d]) = Len(file[d]) + writer[w].len
    BY <1>5, <1>9, <2>1, Gains DEF OffIn
  <2>. QED BY <1>3, <1>5, <1>6, <1>9, <2>1, <2>2
<1>10. CASE v = w /\ writer'[w].pc \in {"store", "index"}
  <2>1. writer'[w].off = writer[w].off /\ writer[w].pc \in {"reread", "store"}
    BY <1>1, <1>10 DEF Goes, Reread, Store, At
  <2>2. writer[w].off + writer[w].len <= Len(file[d])
    BY <1>5, <1>10, <2>1 DEF OffIn, Appended
  <2>. QED BY <1>3, <1>5, <1>6, <1>10, <2>1, <2>2
<1>. QED BY <1>2, <1>7, <1>8, <1>9, <1>10 DEF Appended

\* Files only grow.
LEMMA WithinFileSteps ==
  ASSUME TypeOK, OffIn, WithinFile, NEW w \in Writers, Steps(w)
  PROVE  WithinFile'
<1>. SUFFICES ASSUME NEW s \in index', s.name = s.day PROVE s.off + s.len <= Len(file'[s.day])
  BY DEF WithinFile
<1>1. CASE s \in index
  <2>1. s \in Subject
    BY <1>1 DEF TypeOK
  <2>2. s.day \in Days /\ s.off \in Nat /\ s.len \in Nat
    BY <2>1 DEF Subject
  <2>3. s.off + s.len <= Len(file[s.day])
    BY <1>1 DEF WithinFile
  <2>. QED BY <2>2, <2>3, Effects
<1>2. CASE s \notin index
  <2>1. AddSubject(w)
    BY <1>2 DEF Steps, Hit, Write, Post, Get, Open, OpenFails, CloseOld, Put, ReadOffset, AppendEntry,
         AppendFails, Break, Reread, Store
  <2>2. /\ s = [day |-> writer[w].day, name |-> MyOut(w).name, entry |-> writer[w].entry,
                off |-> writer[w].off, len |-> writer[w].len, sound |-> writer[w].day \notin overlapped]
        /\ file' = file /\ writer[w].pc = "index"
    BY <1>2, <2>1 DEF AddSubject, At
  <2>3. s.day = MyOut(w).name /\ s.off = writer[w].off /\ s.len = writer[w].len
    BY <2>2
  <2>. QED BY <2>2, <2>3 DEF OffIn, Appended
<1>. QED BY <1>1, <1>2

\* The initial states satisfy WithinInv, and every step keeps it.
LEMMA WithinInit == Init => WithinInv
<1>. SUFFICES ASSUME Init PROVE WithinInv
  OBVIOUS
<1>1. /\ \A d \in Days : Len(file[d]) = 0
      /\ Len(outs) = 0 /\ index = {}
      /\ \A w \in Writers : writer[w].pc = "idle"
  BY EmptySeq DEF Init, Idle
<1>. QED BY <1>1 DEF WithinInv, Numbered, Fresh, OwnBytes, OffsetIn, AtIn, OffIn, WithinFile, Working, Appended

LEMMA WithinStep ==
  ASSUME TypeOK, WithinInv, [Next]_vars
  PROVE  WithinInv'
<1>1. CASE UNCHANGED <<file, outs, index, writer, posted>>
  <2>1. Numbered' /\ Fresh' /\ WithinFile'
    BY <1>1 DEF WithinInv, Numbered, Fresh, WithinFile
  <2>2. OwnBytes' /\ OffIn'
    BY <1>1 DEF WithinInv, OwnBytes, OffIn, MyOut
  <2>3. OffsetIn'
    BY <1>1 DEF WithinInv, OffsetIn, Counted, Pending, Counting
  <2>4. AtIn'
    BY <1>1 DEF WithinInv, AtIn, Counted, Pending, Counting
  <2>. QED BY <2>1, <2>2, <2>3, <2>4 DEF WithinInv
<1>2. CASE Destroy
  <2>1. /\ UNCHANGED <<file, index, writer, posted>> /\ outs' = Closed(outs, cache) /\ cache \in 1..Len(outs)
        /\ outs \in Seq(Out)
    BY <1>2 DEF Destroy, TypeOK, counters
  <2>2. /\ Len(outs') = Len(outs)
        /\ \A o \in 1..Len(outs) : outs'[o].name = outs[o].name /\ outs'[o].offset = outs[o].offset
    BY <2>1, Closing
  <2>3. \A o \in 1..Len(outs) : Counted(o)' = Counted(o)
    BY <2>1, <2>2 DEF Counted, Pending, Counting
  <2>4. \A w \in Writers : writer[w].pc \in Holding => writer[w].out \in 1..Len(outs)
                                                       /\ MyOut(w)'.name = MyOut(w).name
    BY <2>1, <2>2, ThreadTypes DEF MyOut
  <2>5. Numbered' /\ Fresh' /\ WithinFile'
    BY <2>1 DEF WithinInv, Numbered, Fresh, WithinFile
  <2>6. OwnBytes' /\ OffIn'
    BY <2>1, <2>4 DEF WithinInv, OwnBytes, OffIn, Holding, Appended
  <2>7. OffsetIn'
    BY <2>2, <2>3 DEF WithinInv, OffsetIn
  <2>8. AtIn'
    <3>1. ASSUME NEW w \in Writers, writer[w].pc = "store", NEW o, o = writer[w].out
          PROVE  writer[w].at <= Cardinality(Counted(o)')
      <4>1. o \in 1..Len(outs)
        BY <2>4, <3>1 DEF Holding
      <4>. QED BY <2>3, <3>1, <4>1 DEF WithinInv, AtIn
    <3>. QED BY <2>1, <3>1 DEF AtIn, Counted
  <2>. QED BY <2>5, <2>6, <2>7, <2>8 DEF WithinInv
<1>3. CASE Restart
  <2>1. /\ UNCHANGED <<file, index, posted>> /\ outs' = <<>> /\ writer' = [w \in Writers |-> Idle]
        /\ Len(outs') = 0
    BY <1>3, EmptySeq DEF Restart
  <2>2. \A w \in Writers : writer'[w].pc = "idle"
    BY <2>1 DEF Idle
  <2>. QED BY <2>1, <2>2 DEF WithinInv, Numbered, Fresh, OwnBytes, OffsetIn, AtIn, OffIn, WithinFile, Working, Appended
<1>4. ASSUME NEW w \in Writers, Steps(w) PROVE WithinInv'
  BY <1>4, NumberedSteps, FreshSteps, OwnBytesSteps, OffsetInSteps, AtInSteps, OffInSteps, WithinFileSteps
     DEF WithinInv
<1>. QED BY <1>1, <1>2, <1>3, <1>4 DEF Next, vars, Steps, Tick, counters

\* For any number of threads, entries, days and restarts, requests overlapping and writes
\* breaking off as they may: an indexed entry that went to the file of its day is inside of it.
THEOREM EntriesWithin == Spec => []WithinFile
<1>1. WithinInv => WithinFile
  BY DEF WithinInv
<1>2. TypeOK /\ [Next]_vars => TypeOK'
  BY TypeStep
<1>3. TypeOK /\ WithinInv /\ [Next]_vars => WithinInv'
  BY WithinStep
<1>. QED BY <1>1, <1>2, <1>3, TypeInit, WithinInit, PTL DEF Spec
=============================================================================
