------------------------------ MODULE RemoteLog ------------------------------
(***************************************************************************)
(* The log of one server (RemoteLogServiceImpl): a file for each day, the  *)
(* stream that is kept open for it with the offset it is at (Out), and the *)
(* index of the entries that are errors, by which the page reads them      *)
(* back.  Requests write at the same time, without a monitor, across the   *)
(* change of day; a write may break off and the service start again.       *)
(***************************************************************************)
EXTENDS Naturals, Sequences

CONSTANTS
    Writers,                \* threads that serve requests
    Lengths,                \* bytes an entry may have
    MaxDay,                 \* bound: days
    MaxEntries,             \* bound: entries posted
    MaxRestarts             \* bound: restarts of the service

ASSUME RemoteLogAssumption ==
    /\ Lengths \subseteq Nat \ {0}
    /\ MaxDay \in Nat \ {0} /\ MaxEntries \in Nat /\ MaxRestarts \in Nat

Days == 1..MaxDay
Entries == 1..MaxEntries

VARIABLES
    today,
    file,                   \* of a day: for each byte the entry it is of
    outs,                   \* the streams made since the start, by number
    cache,                  \* CACHE's stream of the server, 0: none
    index,                  \* the entries of the label set
    writer,                 \* what each thread is at
    posted, restarts,
    overlapped              \* history: days written to since the start while two requests, or
                            \* a broken write, were at the log

vars == <<today, file, outs, cache, index, writer, posted, restarts, overlapped>>
counters == <<posted, restarts>>

Out == [name: Days, offset: Nat, open: BOOLEAN]

Step == {"idle", "get", "open", "close", "put", "off", "append", "reread", "store", "index"}
Working == Step \ {"idle"}
\* hit has returned a stream
Holding == {"off", "append", "reread", "store", "index"}

Writer == [pc: Step, day: Days, entry: Nat, len: Nat,
           saw: Nat,        \* the stream hit found in the cache
           out: Nat,        \* the stream made, or the one hit returns
           off: Nat, at: Nat]
Idle == [pc |-> "idle", day |-> 1, entry |-> 0, len |-> 0, saw |-> 0, out |-> 0, off |-> 0, at |-> 0]

Subject == [day: Days, name: Days, entry: Nat, off: Nat, len: Nat,
            sound: BOOLEAN] \* history: its day was not overlapped

-----------------------------------------------------------------------------
Become(w, r) == writer' = [writer EXCEPT ![w] = r]
Goto(w, l) == Become(w, [writer[w] EXCEPT !.pc = l])
At(w, l) == writer[w].pc = l
Leave(w) == Become(w, Idle)

MyOut(w) == outs[writer[w].out]
Closed(s, o) == [s EXCEPT ![o].open = FALSE]
Stored(s, o, n) == [s EXCEPT ![o].offset = n]
Others(w) == {v \in Writers \ {w} : writer[v].pc \in Working}

-----------------------------------------------------------------------------
(* A request *)

\* write takes the day first.  History: whoever overlaps overlaps with all that is at work.
Post(w) ==
    /\ At(w, "idle") /\ posted < MaxEntries
    /\ posted' = posted + 1
    /\ \E n \in Lengths :
         Become(w, [Idle EXCEPT !.pc = "get", !.day = today, !.entry = posted + 1, !.len = n])
    /\ overlapped' = IF Others(w) = {} THEN overlapped
                     ELSE overlapped \union {today} \union {writer[v].day : v \in Others(w)}
    /\ UNCHANGED <<today, file, outs, cache, index, restarts>>

-----------------------------------------------------------------------------
(* Out.hit *)

\* The cached stream if it is of the day.
Get(w) ==
    /\ At(w, "get")
    /\ IF cache # 0 /\ outs[cache].name = writer[w].day
         THEN Become(w, [writer[w] EXCEPT !.pc = "off", !.out = cache])
         ELSE Become(w, [writer[w] EXCEPT !.pc = "open", !.saw = cache])
    /\ UNCHANGED <<today, file, outs, cache, index, counters, overlapped>>

\* Slip: the offset of a new stream is 0.
OpenAtZero(w) ==
    /\ At(w, "open")
    /\ outs' = Append(outs, [name |-> writer[w].day, offset |-> 0, open |-> TRUE])
    /\ Become(w, [writer[w] EXCEPT !.pc = IF writer[w].saw = 0 THEN "put" ELSE "close", !.out = Len(outs) + 1])
    /\ UNCHANGED <<today, file, cache, index, counters, overlapped>>

\* Otherwise a new one, at the length of the file.
Open(w) ==
    /\ At(w, "open")
    /\ outs' = Append(outs, [name |-> writer[w].day, offset |-> Len(file[writer[w].day]), open |-> TRUE])
    /\ Become(w, [writer[w] EXCEPT !.pc = IF writer[w].saw = 0 THEN "put" ELSE "close", !.out = Len(outs) + 1])
    /\ UNCHANGED <<today, file, cache, index, counters, overlapped>>

\* The file cannot be opened: the entry is lost.
OpenFails(w) ==
    /\ At(w, "open")
    /\ Leave(w)
    /\ UNCHANGED <<today, file, outs, cache, index, counters, overlapped>>

\* Slip: the stream found is not closed.
CloseNothing(w) ==
    /\ At(w, "close")
    /\ Goto(w, "put")
    /\ UNCHANGED <<today, file, outs, cache, index, counters, overlapped>>

\* The stream that was found is closed ...
CloseOld(w) ==
    /\ At(w, "close")
    /\ outs' = Closed(outs, writer[w].saw)
    /\ Goto(w, "put")
    /\ UNCHANGED <<today, file, cache, index, counters, overlapped>>

\* Slip: hit returns what it found in the cache, not what putIfAbsent did.
PutStale(w) ==
    /\ At(w, "put")
    /\ IF writer[w].saw # 0 \/ cache = 0
         THEN /\ cache' = writer[w].out
              /\ Goto(w, "off")
              /\ UNCHANGED outs
         ELSE /\ outs' = Closed(outs, writer[w].out)
              /\ Become(w, [writer[w] EXCEPT !.pc = "off", !.out = writer[w].saw])
              /\ UNCHANGED cache
    /\ UNCHANGED <<today, file, index, counters, overlapped>>

\* ... and the new one put in its place; if none was found, only if there is none yet: else
\* the new one is closed, and the other used, whatever day it is of.
Put(w) ==
    /\ At(w, "put")
    /\ IF writer[w].saw # 0 \/ cache = 0
         THEN /\ cache' = writer[w].out
              /\ Goto(w, "off")
              /\ UNCHANGED outs
         ELSE /\ outs' = Closed(outs, writer[w].out)
              /\ Become(w, [writer[w] EXCEPT !.pc = "off", !.out = cache])
              /\ UNCHANGED cache
    /\ UNCHANGED <<today, file, index, counters, overlapped>>

-----------------------------------------------------------------------------
(* Out.write *)

ReadOffset(w) ==
    /\ At(w, "off")
    /\ Become(w, [writer[w] EXCEPT !.pc = "append", !.off = MyOut(w).offset])
    /\ UNCHANGED <<today, file, outs, cache, index, counters, overlapped>>

Bytes(e, n) == [k \in 1..n |-> e]

\* The stream appends to its file ...
AppendEntry(w) ==
    /\ At(w, "append") /\ MyOut(w).open
    /\ file' = [file EXCEPT ![MyOut(w).name] = @ \o Bytes(writer[w].entry, writer[w].len)]
    /\ Goto(w, "reread")
    /\ UNCHANGED <<today, outs, cache, index, counters, overlapped>>

\* ... unless it was closed: the entry is lost ...
AppendFails(w) ==
    /\ At(w, "append") /\ ~MyOut(w).open
    /\ Leave(w)
    /\ UNCHANGED <<today, file, outs, cache, index, counters, overlapped>>

\* Slip: what is written of an entry is counted, as if all of it were.
BreakCounted(w) ==
    /\ At(w, "append") /\ MyOut(w).open
    /\ \E n \in 0..writer[w].len - 1 :
         file' = [file EXCEPT ![MyOut(w).name] = @ \o Bytes(writer[w].entry, n)]
    /\ outs' = Stored(outs, writer[w].out, MyOut(w).offset + writer[w].len)
    /\ Leave(w)
    /\ overlapped' = overlapped \union {MyOut(w).name}
    /\ UNCHANGED <<today, cache, index, counters>>

\* ... or breaks off, the disk being full: a part is written, and not counted.
Break(w) ==
    /\ At(w, "append") /\ MyOut(w).open
    /\ \E n \in 0..writer[w].len - 1 :
         file' = [file EXCEPT ![MyOut(w).name] = @ \o Bytes(writer[w].entry, n)]
    /\ Leave(w)
    /\ overlapped' = overlapped \union {MyOut(w).name}
    /\ UNCHANGED <<today, outs, cache, index, counters>>

\* offset = offset + bytes.length: read again, and written.
Reread(w) ==
    /\ At(w, "reread")
    /\ Become(w, [writer[w] EXCEPT !.pc = "store", !.at = MyOut(w).offset])
    /\ UNCHANGED <<today, file, outs, cache, index, counters, overlapped>>

Store(w) ==
    /\ At(w, "store")
    /\ outs' = Stored(outs, writer[w].out, writer[w].at + writer[w].len)
    /\ Goto(w, "index")
    /\ UNCHANGED <<today, file, cache, index, counters, overlapped>>

\* An entry that is an error is added to the label of its day, others are not.
AddSubject(w) ==
    /\ At(w, "index")
    /\ \/ index' = index \union {[day |-> writer[w].day, name |-> MyOut(w).name, entry |-> writer[w].entry,
                                  off |-> writer[w].off, len |-> writer[w].len,
                                  sound |-> writer[w].day \notin overlapped]}
       \/ UNCHANGED index
    /\ Leave(w)
    /\ UNCHANGED <<today, file, outs, cache, counters, overlapped>>

-----------------------------------------------------------------------------
(* Around them *)

Tick ==
    /\ today < MaxDay
    /\ today' = today + 1
    /\ UNCHANGED <<file, outs, cache, index, writer, counters, overlapped>>

\* The service is stopped: the cached stream is closed, and stays in the cache.
Destroy ==
    /\ restarts < MaxRestarts
    /\ cache # 0 /\ outs[cache].open
    /\ outs' = Closed(outs, cache)
    /\ UNCHANGED <<today, file, cache, index, writer, counters, overlapped>>

\* It ends, or crashes, and starts: the files and the index stay.
Restart ==
    /\ restarts < MaxRestarts
    /\ restarts' = restarts + 1
    /\ outs' = <<>> /\ cache' = 0
    /\ writer' = [w \in Writers |-> Idle]
    /\ overlapped' = {}
    /\ UNCHANGED <<today, file, index, posted>>

-----------------------------------------------------------------------------
Init ==
    /\ today = 1
    /\ file = [d \in Days |-> <<>>]
    /\ outs = <<>> /\ cache = 0
    /\ index = {}
    /\ writer = [w \in Writers |-> Idle]
    /\ posted = 0 /\ restarts = 0
    /\ overlapped = {}

Hit(w) == Get(w) \/ Open(w) \/ OpenFails(w) \/ CloseOld(w) \/ Put(w)
Write(w) ==
    \/ ReadOffset(w) \/ AppendEntry(w) \/ AppendFails(w) \/ Break(w)
    \/ Reread(w) \/ Store(w) \/ AddSubject(w)

Next ==
    \/ \E w \in Writers : Post(w) \/ Hit(w) \/ Write(w)
    \/ Tick \/ Destroy \/ Restart

Spec == Init /\ [][Next]_vars

-----------------------------------------------------------------------------
(* Properties *)

\* Every variable has its type; who holds a stream has one that was made.
TypeOK ==
    /\ today \in Days
    /\ file \in [Days -> Seq(Entries)]
    /\ outs \in Seq(Out)
    /\ cache \in 0..Len(outs)
    /\ index \subseteq Subject
    /\ writer \in [Writers -> Writer]
    /\ posted \in 0..MaxEntries /\ restarts \in 0..MaxRestarts
    /\ overlapped \subseteq Days
    /\ \A w \in Writers :
         /\ writer[w].saw \in 0..Len(outs) /\ writer[w].out \in 0..Len(outs)
         /\ At(w, "close") => writer[w].saw # 0
         /\ writer[w].pc \in {"close", "put"} \union Holding => writer[w].out # 0
         /\ writer[w].pc \in Working => writer[w].entry \in Entries

\* What getContent reads for a subject: what there is.
Content(s) ==
    LET f == file[s.day]
        end == IF s.off + s.len <= Len(f) THEN s.off + s.len ELSE Len(f)
    IN  SubSeq(f, s.off + 1, end)

\* An entry reads back as it was written, if no two requests were at the log at once on its
\* day, and no write broke off, from the start of the service until it was written; whatever
\* happens after, at the change of day, and when the service was stopped in between.
ReadsBack ==
    \A s \in index : s.sound => Content(s) = Bytes(s.entry, s.len)

\* However requests overlap and writes break off, an entry that went to the file of its day is
\* found inside of it: the offset kept is never past the end.
WithinFile ==
    \A s \in index : s.name = s.day => s.off + s.len <= Len(file[s.day])

\* As long as no two requests were at the log at once, its only open stream is the cached
\* one, or the one being put: the stream of the day before is closed.
OneStream ==
    overlapped = {} =>
      \A o \in DOMAIN outs : outs[o].open =>
        o = cache \/ \E w \in Writers : writer[w].pc \in {"close", "put"} /\ writer[w].out = o
=============================================================================
