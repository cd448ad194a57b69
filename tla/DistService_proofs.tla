------------------------- MODULE DistService_proofs -------------------------
(***************************************************************************)
(* What the package store guarantees for all files, packages and threads:  *)
(* the locks are sound, and no two uploads mix in a file, whatever way     *)
(* uploads come and whatever breaks off; releases uploaded through /dist/  *)
(* only are published whole and at once, stay as they are until they are   *)
(* cleared, and are sent as published.                                     *)
(***************************************************************************)
EXTENDS DistService, FiniteSetTheorems, TLAPS

-----------------------------------------------------------------------------
(* Types *)

\* A thread without a request is described like any other.
LEMMA IdleTypes == IdleUpload \in Upload /\ IdleDownload \in Download
  BY DistAssumption
     DEF IdleUpload, IdleDownload, Upload, Download, AFile, AllWays, Content, Empty, NoInode

\* There is at most as much of a file as of a package.
LEMMA LengthType == \A c : Length(c) \in 0..Chunks
<1>. TAKE c
<1>. DEFINE S == {k \in Places : c[k] # Nothing}
<1>1. IsFiniteSet(Places) /\ Cardinality(Places) = Chunks
  BY FS_Interval, DistAssumption DEF Places
<1>2. IsFiniteSet(S) /\ Cardinality(S) <= Chunks
  BY <1>1, FS_Subset
<1>3. Cardinality(S) \in Nat
  BY <1>2, FS_CardinalityType
<1>. QED BY <1>2, <1>3, DistAssumption DEF Length

\* The ways a step changes what an upload is doing.
LEMMA UploadTypes ==
  ASSUME TypeOK, NEW u \in Uploads, NEW q \in Upload, Become(u, q)
  PROVE  upload' \in [Uploads -> Upload]
  BY DEF TypeOK, Types, Become

LEMMA GotoTypes ==
  ASSUME TypeOK, NEW u \in Uploads, NEW l \in {"open", "rename"}, Goto(u, l)
  PROVE  upload' \in [Uploads -> Upload]
<1>1. [upload[u] EXCEPT !.pc = l] \in Upload
  BY DEF TypeOK, Types, Upload
<1>. QED BY <1>1, UploadTypes DEF Goto

LEMMA DoneTypes ==
  ASSUME TypeOK, NEW u \in Uploads, Done(u)
  PROVE  upload' \in [Uploads -> Upload]
  BY IdleTypes, UploadTypes DEF Done

LEMMA TypeInit == Init => TypeOK
  <1>1. Init => Types
  BY IdleTypes, DistAssumption DEF Init, Types, Empty, Content
<1>2. Init => Handles
  BY DEF Init, Handles, IdleUpload, IdleDownload
<1>. QED BY <1>1, <1>2 DEF TypeOK

\* A step of an upload keeps the types...
LEMMA TypeUpload ==
  ASSUME TypeOK, NEW u \in Uploads, Uploading(u)
  PROVE  Types'
<1>. USE DistAssumption, IdleTypes DEF TypeOK, Types
<1>1. CASE Post(u)
  <2>1. PICK w \in AllWays \ {"__upload"}, f \in Files \ locked, p \in Packages :
          /\ locked' = locked \union {f}
          /\ Become(u, [IdleUpload EXCEPT !.pc = "check", !.way = w, !.file = f, !.package = p,
                                          !.number = count + 1])
    BY <1>1 DEF Post
  <2>2. count + 1 \in 0..MaxUploads /\ w \in AllWays
    BY <1>1 DEF Post
  <2>3. [IdleUpload EXCEPT !.pc = "check", !.way = w, !.file = f, !.package = p,
                           !.number = count + 1] \in Upload
    BY <2>2 DEF Upload
  <2>. QED BY <1>1, <2>1, <2>2, <2>3, UploadTypes DEF Post
<1>2. CASE PostBusy(u)
  BY <1>2 DEF PostBusy, vars, store
<1>3. CASE Check(u)
  BY <1>3, GotoTypes, DoneTypes DEF Check, Unlocked
<1>4. CASE Open(u)
  <2>. DEFINE f == upload[u].file
              i == IF Exists(f) THEN inode[f] ELSE upload[u].number
  <2>1. upload[u] \in Upload /\ f \in Files /\ i \in Inodes \union {NoInode}
    BY DEF Upload, Inodes, NoInode
  <2>2. [upload[u] EXCEPT !.pc = "write", !.ino = i] \in Upload
    BY <2>1 DEF Upload
  <2>3. Empty \in Content
    BY DEF Empty, Content
  <2>. HIDE DEF f, i
  <2>4. upload' \in [Uploads -> Upload]
    BY <1>4, <2>2, UploadTypes DEF Open, f, i
  <2>5. inode' = [inode EXCEPT ![f] = i] /\ data' = [data EXCEPT ![i] = Empty]
    BY <1>4 DEF Open, f, i
  <2>6. inode' \in [Files -> Inodes \union {NoInode}] /\ data' \in [Inodes -> Content]
    BY <2>1, <2>3, <2>5
  <2>. QED BY <1>4, <2>4, <2>6 DEF Open
<1>5. CASE NoFile(u)
  BY <1>5, DoneTypes DEF NoFile, Unlocked
<1>6. CASE PostTemporary(u)
  <2>1. PICK f \in Files, p \in Packages :
          Become(u, [IdleUpload EXCEPT !.pc = "write", !.way = "__upload", !.file = f, !.package = p,
                                       !.ino = count + 1, !.number = count + 1])
    BY <1>6 DEF PostTemporary
  <2>2. count + 1 \in 0..MaxUploads /\ count + 1 \in Inodes /\ "__upload" \in AllWays
    BY <1>6 DEF PostTemporary, Inodes, AllWays
  <2>3. [IdleUpload EXCEPT !.pc = "write", !.way = "__upload", !.file = f, !.package = p,
                           !.ino = count + 1, !.number = count + 1] \in Upload
    BY <2>2 DEF Upload
  <2>. QED BY <1>6, <2>1, <2>2, <2>3, UploadTypes DEF PostTemporary, store
<1>7. CASE Write(u)
  <2>1. upload[u] \in Upload /\ upload[u].done + 1 \in 0..Chunks
    BY <1>7 DEF Write, Upload
  <2>2. [upload[u] EXCEPT !.done = upload[u].done + 1] \in Upload
    BY <2>1 DEF Upload
  <2>3. upload' \in [Uploads -> Upload]
    BY <1>7, <2>2, UploadTypes DEF Write
  <2>4. upload[u].package \in Packages
    BY <2>1 DEF Upload
  <2>5. data' \in [Inodes -> Content]
    BY <1>7, <2>4 DEF Write, Content
  <2>. QED BY <1>7, <2>3, <2>5 DEF Write
<1>8. CASE Finish(u)
  BY <1>8, GotoTypes, DoneTypes DEF Finish, Unlocked
<1>9. CASE Rename(u)
  BY <1>9, DoneTypes DEF Rename, Upload
<1>10. CASE Break(u)
  BY <1>10, DoneTypes DEF Break, Unlocked
<1>. QED
  BY <1>1, <1>2, <1>3, <1>4, <1>5, <1>6, <1>7, <1>8, <1>9, <1>10 DEF Uploading

\* ... and so does one of a download.
LEMMA TypeDownload ==
  ASSUME TypeOK, NEW d \in Downloads, Downloading(d)
  PROVE  Types'
<1>. USE IdleTypes DEF TypeOK, Types
<1>1. UNCHANGED <<store, upload, aged, count>>
  BY DEF Downloading, Get, OpenInput, Send, Close
<1>2. ASSUME NEW q \in Download, download' = [download EXCEPT ![d] = q]
      PROVE  download' \in [Downloads -> Download]
  BY <1>2
<1>3. download' \in [Downloads -> Download]
  <2>1. CASE Get(d)
    <3>1. PICK g \in Files :
            download' = [download EXCEPT ![d] = [IdleDownload EXCEPT !.pc = "open", !.file = g]]
      BY <2>1, DistAssumption DEF Get
    <3>2. [IdleDownload EXCEPT !.pc = "open", !.file = g] \in Download
      BY DEF Download
    <3>. QED BY <1>2, <3>1, <3>2
  <2>2. CASE OpenInput(d)
    <3>. DEFINE i == inode[download[d].file]
    <3>1. download[d] \in Download /\ download[d].file \in Files
      BY DEF Download
    <3>2. [download[d] EXCEPT !.pc = "send", !.ino = i, !.size = Length(data[i])] \in Download
      BY <3>1, LengthType DEF Download
    <3>. QED BY <1>2, <2>2, <3>2 DEF OpenInput
  <2>3. CASE Send(d)
    <3>1. download[d] \in Download
      OBVIOUS
    <3>2. [download[d] EXCEPT !.pc = "sent"] \in Download
      BY <3>1 DEF Download
    <3>. DEFINE i == download[d].ino
                k == Length(download[d].got) + 1
    <3>3. CASE /\ k <= download[d].size /\ data[i][k] # Nothing
               /\ download' = [download EXCEPT ![d].got[k] = data[i][k]]
      <4>1. download[d].pc = "send"
        BY <2>3 DEF Send
      <4>2. i \in Inodes
        BY <3>1, <4>1 DEF Handles, Download
      <4>3. k \in Places
        BY <3>1, <3>3, LengthType, DistAssumption DEF Download, Places
      <4>4. data[i][k] \in Packages
        BY <3>3, <4>2, <4>3 DEF Content
      <4>. HIDE DEF i, k
      <4>5. [download[d].got EXCEPT ![k] = data[i][k]] \in Content
        BY <3>1, <4>3, <4>4 DEF Download, Content
      <4>6. [download[d] EXCEPT !.got[k] = data[i][k]] \in Download
        BY <3>1, <4>5 DEF Download
      <4>7. download' = [download EXCEPT ![d] = [download[d] EXCEPT !.got[k] = data[i][k]]]
        BY <3>3
      <4>. QED BY <1>2, <4>6, <4>7
    <3>4. CASE download' = [download EXCEPT ![d].pc = "sent"]
      BY <1>2, <3>2, <3>4
    <3>. QED BY <2>3, <3>3, <3>4 DEF Send
  <2>4. CASE Close(d)
    BY <2>4, <1>2 DEF Close
  <2>. QED BY <2>1, <2>2, <2>3, <2>4 DEF Downloading
<1>. QED BY <1>1, <1>3 DEF store

\* Nobody goes on without an inode.
LEMMA HandlesUpload ==
  ASSUME TypeOK, NEW u \in Uploads, Uploading(u)
  PROVE  Handles'
<1>1. UNCHANGED download /\ \A v \in Uploads \ {u} : upload'[v] = upload[v]
  BY DEF Uploading, Post, PostBusy, Check, Open, NoFile, PostTemporary, Write, Finish, Rename,
         Break, Goto, Done, Become, TypeOK, Types, vars, store
<1>2. /\ upload'[u].pc # "idle" => upload'[u].number # 0
      /\ upload'[u].pc \in {"write", "rename"} => upload'[u].ino # NoInode
  <2>. USE DEF TypeOK, Types, Handles, Become, Goto, Done, IdleUpload, NoInode
  <2>1. CASE Post(u)
    BY <2>1 DEF Post
  <2>2. CASE PostTemporary(u)
    BY <2>2 DEF PostTemporary
  <2>3. CASE PostBusy(u) \/ Rename(u) \/ NoFile(u) \/ Break(u)
    BY <2>3 DEF PostBusy, Rename, NoFile, Break, vars
  <2>4. CASE Check(u)
    BY <2>4 DEF Check, Upload
  <2>5. CASE Finish(u)
    BY <2>5 DEF Finish, Upload
  <2>6. CASE Open(u)
    BY <2>6 DEF Open, Exists, Upload
  <2>7. CASE Write(u)
    BY <2>7 DEF Write, Upload
  <2>. QED BY <2>1, <2>2, <2>3, <2>4, <2>5, <2>6, <2>7 DEF Uploading
<1>. QED
  BY <1>1, <1>2 DEF Handles, TypeOK, Types, Download

LEMMA HandlesDownload ==
  ASSUME TypeOK, NEW d \in Downloads, Downloading(d)
  PROVE  Handles'
<1>1. UNCHANGED <<store, upload, aged, count>> /\ \A e \in Downloads \ {d} : download'[e] = download[e]
  BY DEF Downloading, Get, OpenInput, Send, Close, TypeOK, Types
<1>2. download'[d].pc \in {"send", "sent"} => download'[d].ino # NoInode
  <2>. USE DEF TypeOK, Types, Handles, IdleDownload
  <2>1. CASE Get(d)
    BY <2>1 DEF Get
  <2>2. CASE OpenInput(d)
    BY <2>2 DEF OpenInput, Download
  <2>3. CASE Send(d)
    BY <2>3 DEF Send, Download
  <2>4. CASE Close(d)
    BY <2>4 DEF Close
  <2>. QED BY <2>1, <2>2, <2>3, <2>4 DEF Downloading
<1>. QED
  BY <1>1, <1>2 DEF Handles, Exists, store, TypeOK

LEMMA TypeStep ==
  ASSUME TypeOK, [Next]_vars
  PROVE  TypeOK'
<1>2. CASE Crash
  BY <1>2, IdleTypes DEF TypeOK, Types, Crash, Handles, IdleUpload, IdleDownload
<1>3. CASE UNCHANGED vars
  BY <1>3 DEF TypeOK, Types, vars, store, Handles, Exists
<1>4. ASSUME NEW u \in Uploads, Uploading(u) PROVE TypeOK'
  BY <1>4, TypeUpload, HandlesUpload DEF TypeOK, Types
<1>5. ASSUME NEW d \in Downloads, Downloading(d) PROVE TypeOK'
  BY <1>5, TypeDownload, HandlesDownload DEF TypeOK, Types
<1>6. ASSUME NEW f \in Files, Look(f) \/ Delete(f) PROVE TypeOK'
  BY <1>6 DEF TypeOK, Types, Handles, Look, Delete, store
<1>. QED BY <1>2, <1>3, <1>4, <1>5, <1>6 DEF Next

\* Every reachable state has the types of TypeOK, and every thread at work an inode.
THEOREM TypeCorrect == Spec => []TypeOK
  BY TypeInit, TypeStep, PTL DEF Spec

-----------------------------------------------------------------------------
(* The locks *)

\* The locks are those of the uploads that hold one, each of a file of its own.
LockInv ==
    /\ TypeOK
    /\ \A u \in Uploads : Holding(u) => upload[u].file \in locked
    /\ \A f \in locked : \E u \in Uploads : Holding(u) /\ upload[u].file = f
    /\ \A u, v \in Uploads : Holding(u) /\ Holding(v) /\ upload[u].file = upload[v].file => u = v
    /\ \A u \in Uploads : upload[u].pc = "rename" => upload[u].way = "__upload"

LEMMA LockInit == Init => LockInv
  BY TypeInit DEF Init, LockInv, Holding, IdleUpload

\* A step that neither takes nor gives up a lock.
LEMMA LockKept ==
  ASSUME LockInv, TypeOK', NEW u \in Uploads, locked' = locked,
         \A v \in Uploads \ {u} : upload'[v] = upload[v],
         Holding(u)' = Holding(u),
         Holding(u) => upload'[u].file = upload[u].file,
         upload'[u].pc = "rename" => upload'[u].way = "__upload"
  PROVE  LockInv'
<1>1. \A v \in Uploads : Holding(v)' = Holding(v) /\ (Holding(v) => upload'[v].file = upload[v].file)
  BY DEF Holding
<1>. QED BY <1>1 DEF LockInv

\* A step that gives up the lock the upload has, if it has one.
LEMMA LockLeft ==
  ASSUME LockInv, TypeOK', NEW u \in Uploads, upload[u].pc # "idle",
         \A v \in Uploads \ {u} : upload'[v] = upload[v],
         locked' = Unlocked(u), ~Holding(u)',
         upload'[u].pc = "rename" => upload'[u].way = "__upload"
  PROVE  LockInv'
<1>1. \A v \in Uploads \ {u} : Holding(v)' = Holding(v) /\ upload'[v].file = upload[v].file
  BY DEF Holding
<1>2. CASE Holding(u)
  BY <1>1, <1>2 DEF LockInv, Unlocked, Holding
<1>3. CASE ~Holding(u)
  BY <1>1, <1>3 DEF LockInv, Unlocked, Holding
<1>. QED BY <1>2, <1>3

\* Only putIfAbsent, and the finally clause of the same upload, change the locks.
LEMMA LockStep ==
  ASSUME LockInv, [Next]_vars
  PROVE  LockInv'
<1>. USE DEF TypeOK, Types
<1>1. TypeOK' /\ TypeOK
  BY TypeStep DEF LockInv
<1>2. ASSUME NEW u \in Uploads, Uploading(u) PROVE LockInv'
  <2>1. \A v \in Uploads \ {u} : upload'[v] = upload[v]
    BY <1>1, <1>2 DEF Uploading, Post, PostBusy, Check, Open, NoFile, PostTemporary, Write,
                      Finish, Rename, Break, Goto, Done, Become, vars, store
  <2>. USE DEF Become, Goto, Done
  <2>2. CASE Post(u)
    <3>1. PICK f \in Files \ locked : /\ locked' = locked \union {f} /\ upload'[u].file = f
                                   /\ Holding(u)' /\ upload'[u].pc = "check"
      <4>1. PICK w \in AllWays \ {"__upload"}, f \in Files \ locked, p \in Packages :
              /\ locked' = locked \union {f}
              /\ upload' = [upload EXCEPT ![u] =
                   [IdleUpload EXCEPT !.pc = "check", !.way = w, !.file = f, !.package = p,
                                      !.number = count + 1]]
        BY <2>2 DEF Post
      <4>2. upload'[u].file = f /\ upload'[u].pc = "check" /\ upload'[u].way = w
        BY <1>1, <4>1 DEF IdleUpload
      <4>. QED BY <4>1, <4>2 DEF Holding
    <3>2. ~Holding(u)
      BY <2>2 DEF Post, Holding
    <3>3. \A v \in Uploads \ {u} : Holding(v)' = Holding(v) /\ upload'[v].file = upload[v].file
      BY <2>1 DEF Holding
    <3>4. \A v \in Uploads \ {u} : Holding(v) => upload[v].file # f
      BY <3>1 DEF LockInv
    <3>5. \A v \in Uploads : Holding(v)' => upload'[v].file \in locked'
      BY <3>1, <3>3 DEF LockInv
    <3>6. \A g \in locked' : \E v \in Uploads : Holding(v)' /\ upload'[v].file = g
      <4>1. ASSUME NEW g \in locked PROVE \E v \in Uploads : Holding(v)' /\ upload'[v].file = g
        BY <3>2, <3>3 DEF LockInv
      <4>. QED BY <3>1, <4>1
    <3>7. \A v, w \in Uploads :
            Holding(v)' /\ Holding(w)' /\ upload'[v].file = upload'[w].file => v = w
      BY <3>1, <3>3, <3>4 DEF LockInv
    <3>8. \A v \in Uploads : upload'[v].pc = "rename" => upload'[v].way = "__upload"
      BY <2>1, <3>1 DEF LockInv
    <3>. HIDE DEF TypeOK, Types, Become, Goto, Done
    <3>. QED BY <1>1, <3>5, <3>6, <3>7, <3>8 DEF LockInv
  <2>3. CASE PostBusy(u)
    BY <1>1, <2>1, <2>3, LockKept DEF PostBusy, vars, store, Holding
  <2>4. CASE Check(u)
    <3>1. CASE Conflict(u)
      BY <1>1, <2>1, <2>4, <3>1, LockLeft DEF Check, Holding, IdleUpload
    <3>2. CASE ~Conflict(u)
      BY <1>1, <2>1, <2>4, <3>2, LockKept DEF Check, Holding, Upload
    <3>. QED BY <3>1, <3>2
  <2>5. CASE Open(u)
    BY <1>1, <2>1, <2>5, LockKept DEF Open, Holding, Upload
  <2>6. CASE NoFile(u) \/ Break(u)
    BY <1>1, <2>1, <2>6, LockLeft DEF NoFile, Break, Holding, IdleUpload
  <2>7. CASE PostTemporary(u)
    <3>1. upload'[u].way = "__upload" /\ locked' = locked /\ upload[u].pc = "idle"
      BY <1>1, <2>7 DEF PostTemporary, store, IdleUpload
    <3>2. ~Holding(u) /\ ~Holding(u)'
      BY <3>1 DEF Holding
    <3>3. Holding(u)' = Holding(u)
      BY <3>1 DEF Holding
    <3>. HIDE DEF TypeOK, Types, Become, Goto, Done
    <3>. QED BY <1>1, <2>1, <3>1, <3>2, <3>3, LockKept
  <2>8. CASE Write(u)
    <3>1. upload[u] \in Upload /\ upload'[u] = [upload[u] EXCEPT !.done = upload[u].done + 1]
      BY <1>1, <2>8 DEF Write
    <3>2. upload'[u].pc = "write" /\ upload[u].pc = "write" /\ upload'[u].way = upload[u].way
          /\ upload'[u].file = upload[u].file
      BY <2>8, <3>1 DEF Write, Upload
    <3>. QED BY <1>1, <2>1, <2>8, <3>2, LockKept DEF Write, Holding
  <2>9. CASE Finish(u)
    <3>1. upload[u].pc # "idle" /\ locked' = Unlocked(u)
      BY <2>9 DEF Finish
    <3>2. CASE upload[u].way = "__upload"
      <4>1. upload[u] \in Upload /\ upload'[u] = [upload[u] EXCEPT !.pc = "rename"]
        BY <1>1, <2>9, <3>2 DEF Finish
      <4>2. upload'[u].way = "__upload"
        BY <3>2, <4>1 DEF Upload
      <4>. QED BY <1>1, <2>1, <3>1, <4>2, LockLeft DEF Holding
    <3>3. CASE upload[u].way # "__upload"
      <4>1. upload'[u] = IdleUpload
        BY <1>1, <2>9, <3>3 DEF Finish
      <4>2. upload'[u].pc = "idle"
        BY <4>1 DEF IdleUpload
      <4>. QED BY <1>1, <2>1, <3>1, <4>2, LockLeft DEF Holding
    <3>. QED BY <3>2, <3>3
  <2>10. CASE Rename(u)
    BY <1>1, <2>1, <2>10, LockKept DEF Rename, Holding, IdleUpload, LockInv
  <2>. QED
    BY <1>2, <2>2, <2>3, <2>4, <2>5, <2>6, <2>7, <2>8, <2>9, <2>10 DEF Uploading
<1>3. ASSUME NEW d \in Downloads, Downloading(d) PROVE LockInv'
  <2>1. UNCHANGED <<locked, upload>>
    BY <1>3 DEF Downloading, Get, OpenInput, Send, Close, store
  <2>. QED BY <1>1, <2>1 DEF LockInv, Holding
<1>4. CASE Crash
  BY <1>1, <1>4 DEF Crash, LockInv, Holding, IdleUpload
<1>5. CASE UNCHANGED vars
  BY <1>1, <1>5 DEF vars, store, LockInv, Holding
<1>6. ASSUME NEW f \in Files, Look(f) \/ Delete(f) PROVE LockInv'
  BY <1>1, <1>6 DEF Look, Delete, store, LockInv, Holding
<1>. QED BY <1>2, <1>3, <1>4, <1>5, <1>6 DEF Next

\* Whatever way the uploads come, and whatever breaks off, an upload that took the lock of a
\* file is the only one at it, and no file stays locked that nobody uploads.
THEOREM LocksSound == Spec => []LockSound
<1>1. LockInv /\ [Next]_vars => LockInv'
  BY LockStep
<1>2. LockInv => LockSound
  BY DEF LockInv, LockSound
<1>. QED BY LockInit, <1>1, <1>2, PTL DEF Spec
-----------------------------------------------------------------------------
(* Releases are published whole and at once, and stay until they are cleared *)

\* Releases are uploaded through /dist/ only.
OnlyDist ==
    \A u \in Uploads : upload[u].pc # "idle" /\ upload[u].file \in Verified => upload[u].way = "dist"

\* The number an upload will give an inode is no other's, nor in use.
Numbered ==
    /\ \A f \in Files : inode[f] \in 0..count
    /\ \A u \in Uploads : upload[u].pc \in {"check", "open"} =>
         upload[u].number \in 1..count /\ \A f \in Files : inode[f] # upload[u].number
    /\ \A u, v \in Uploads :
         /\ upload[u].pc \in {"check", "open"} /\ upload[v].pc \in {"check", "open"}
         /\ upload[u].number = upload[v].number
         => u = v

\* So is the inode an upload writes to, which is not a release's unless it uploads that.
WritesApart ==
    \A u \in Uploads : upload[u].pc \in {"write", "rename"} =>
      /\ upload[u].ino \in 1..count
      /\ \A v \in Uploads : upload[v].pc \in {"check", "open"} => upload[v].number # upload[u].ino
      /\ \A f \in Verified : f # upload[u].file => inode[f] # upload[u].ino

OwnInode == \A f \in Verified, g \in Files : Exists(f) /\ inode[f] = inode[g] => f = g

\* An upload past the check does not find a release, and has written nothing yet.
OpenAbsent ==
    \A u \in Uploads :
      /\ upload[u].pc = "open" /\ upload[u].file \in Verified => ~Exists(upload[u].file)
      /\ upload[u].pc \in {"check", "open"} => upload[u].done = 0

\* What the upload of a release has written is in its file, and nothing else.
InPlace ==
    \A u \in Uploads : upload[u].pc = "write" /\ upload[u].file \in Verified =>
      /\ Exists(upload[u].file) /\ upload[u].ino = inode[upload[u].file]
      /\ \A k \in Places :
           data[upload[u].ino][k] = IF k <= upload[u].done THEN upload[u].package ELSE Nothing

StoreInv == LockInv /\ OnlyDist /\ Numbered /\ WritesApart /\ OwnInode /\ OpenAbsent /\ InPlace

LEMMA StoreInit == Init => StoreInv
  BY LockInit, DistAssumption
     DEF Init, StoreInv, OnlyDist, Numbered, WritesApart, OwnInode, OpenAbsent, InPlace, Exists,
         IdleUpload, NoInode

\* An upload that ends leaves the files as they are.
LEMMA StoreLeft ==
  ASSUME StoreInv, LockInv', NEW u \in Uploads, UNCHANGED <<inode, data, count>>,
         \A v \in Uploads \ {u} : upload'[v] = upload[v],
         upload'[u] = IdleUpload
  PROVE  StoreInv'
<1>1. upload'[u].pc = "idle"
  BY DEF IdleUpload
<1>. QED BY <1>1 DEF StoreInv, OnlyDist, Numbered, WritesApart, OwnInode, OpenAbsent, InPlace, Exists

\* Opening makes a file of its own, or empties the one that is there; of a release, it begins.
LEMMA StoreOpen ==
  ASSUME StoreInv, LockInv', NEW u \in Uploads, Open(u)
  PROVE  StoreInv' /\ [ReleaseStore!Next]_Published
<1>0. TypeOK /\ upload[u] \in Upload /\ upload[u].pc = "open" /\ upload[u].file \in Files
  BY DEF StoreInv, LockInv, TypeOK, Types, Open, Upload
<1>. PICK f \in Files : f = upload[u].file
  BY <1>0
<1>3. (IF Exists(f) THEN inode[f] ELSE upload[u].number) \in 1..count
  BY <1>0 DEF StoreInv, Numbered, Exists, NoInode
<1>. PICK i \in 1..count : i = IF Exists(f) THEN inode[f] ELSE upload[u].number
  BY <1>3
<1>1. /\ inode' = [inode EXCEPT ![f] = i] /\ data' = [data EXCEPT ![i] = Empty]
      /\ upload' = [upload EXCEPT ![u] = [upload[u] EXCEPT !.pc = "write", !.ino = i]]
      /\ count' = count /\ i \in Inodes /\ i # NoInode
  BY <1>0, DistAssumption DEF Open, Become, TypeOK, Types, Inodes, NoInode
<1>2. /\ upload'[u].pc = "write" /\ upload'[u].ino = i /\ upload'[u].file = f
      /\ upload'[u].way = upload[u].way /\ upload'[u].done = upload[u].done
      /\ \A v \in Uploads \ {u} : upload'[v] = upload[v]
  BY <1>0, <1>1 DEF TypeOK, Types, Upload
<1>4. /\ \A g \in Verified : g # f => inode[g] # i
      /\ f \in Verified => \A g \in Files : g # f => inode[g] # i
  BY <1>0, <1>1, DistAssumption DEF StoreInv, Numbered, OwnInode, Exists
<1>5. inode'[f] = i /\ \A g \in Files : g # f => inode'[g] = inode[g]
  BY <1>0, <1>1 DEF TypeOK, Types
<1>6. data'[i] = Empty /\ \A j \in Inodes : j # i => data'[j] = data[j]
  BY <1>0, <1>1, <1>3 DEF TypeOK, Types
<1>7. \A v \in Uploads \ {u} :
        upload[v].pc # "idle" /\ upload[v].file \in Verified => upload[v].file # f
  BY <1>0, <1>1 DEF StoreInv, LockInv, OnlyDist, Holding
<1>8. upload[u].done = 0 /\ (f \in Verified => ~Exists(f))
  BY <1>0, <1>1 DEF StoreInv, OpenAbsent
<1>9. \A v \in Uploads : upload[v] \in Upload /\ upload[v].file \in Files
  BY <1>0, <1>1 DEF TypeOK, Types, Upload
<1>10. OnlyDist'
  BY <1>0, <1>1, <1>2 DEF StoreInv, OnlyDist
<1>11. Numbered'
  <2>1. \A g \in Files : inode'[g] \in 0..count'
    BY <1>0, <1>1, <1>3, <1>5 DEF StoreInv, Numbered
  <2>2. \A v \in Uploads \ {u} : upload[v].pc \in {"check", "open"} => upload[v].number # i
    BY <1>0 DEF StoreInv, Numbered, Exists
  <2>3. \A v \in Uploads : upload'[v].pc \in {"check", "open"} =>
          upload'[v].number \in 1..count' /\ \A g \in Files : inode'[g] # upload'[v].number
    BY <1>0, <1>1, <1>2, <1>5, <2>2 DEF StoreInv, Numbered
  <2>4. \A v, w \in Uploads :
          /\ upload'[v].pc \in {"check", "open"} /\ upload'[w].pc \in {"check", "open"}
          /\ upload'[v].number = upload'[w].number
          => v = w
    BY <1>2 DEF StoreInv, Numbered
  <2>. QED BY <2>1, <2>3, <2>4 DEF Numbered
<1>12. OwnInode'
  BY <1>4, <1>5, DistAssumption DEF StoreInv, OwnInode, Exists
<1>16. WritesApart'
  <2>1. i \in 1..count' /\ \A g \in Verified : g # f => inode'[g] # i
    BY <1>1, <1>4, <1>5, DistAssumption
  <2>2. \A v \in Uploads \ {u} : upload[v].pc \in {"check", "open"} => upload[v].number # i
    BY <1>0 DEF StoreInv, Numbered, Exists
  <2>3. ASSUME NEW w \in Uploads \ {u}, upload[w].pc \in {"write", "rename"}
        PROVE  \A g \in Verified : g # upload[w].file => inode'[g] # upload[w].ino
    <3>1. CASE f \in Verified
      <4>1. i = upload[u].number
        BY <1>8, <3>1
      <4>. QED BY <1>0, <1>5, <2>3, <4>1, DistAssumption DEF StoreInv, WritesApart
    <3>2. CASE f \notin Verified
      BY <1>5, <2>3, <3>2, DistAssumption DEF StoreInv, WritesApart
    <3>. QED BY <3>1, <3>2
  <2>4. \A w \in Uploads \ {u} : upload[w].pc \in {"write", "rename"} =>
          /\ upload[w].ino \in 1..count'
          /\ \A v \in Uploads : upload'[v].pc \in {"check", "open"} => upload'[v].number # upload[w].ino
    BY <1>1, <1>2 DEF StoreInv, WritesApart
  <2>. QED BY <1>2, <2>1, <2>2, <2>3, <2>4 DEF WritesApart
<1>13. OpenAbsent'
  BY <1>2, <1>5, <1>7, <1>9 DEF StoreInv, OpenAbsent, Exists
<1>14. InPlace'
  <2>1. \A k \in Places : Empty[k] = Nothing /\ ~(k <= 0)
    BY DistAssumption DEF Empty, Places
  <2>2. ASSUME NEW v \in Uploads \ {u}, upload[v].pc = "write", upload[v].file \in Verified
        PROVE  /\ Exists(upload[v].file)' /\ upload[v].ino = inode'[upload[v].file]
               /\ data'[upload[v].ino] = data[upload[v].ino]
    <3>1. upload[v].file # f /\ upload[v].file \in Files
      BY <1>7, <1>9, <2>2
    <3>2. Exists(upload[v].file) /\ upload[v].ino = inode[upload[v].file]
      BY <2>2 DEF StoreInv, InPlace
    <3>3. upload[v].ino # i /\ upload[v].ino \in Inodes
      BY <1>0, <1>1, <1>4, <2>2, <3>1, <3>2 DEF TypeOK, Types, Exists
    <3>. QED BY <1>2, <1>5, <1>6, <3>1, <3>2, <3>3 DEF Exists
  <2>3. Exists(f)' /\ i = inode'[f]
    BY <1>0, <1>1, <1>5 DEF Exists
  <2>. QED BY <1>2, <1>6, <1>8, <2>1, <2>2, <2>3 DEF StoreInv, InPlace
<1>15. [ReleaseStore!Next]_Published
  <2>1. ASSUME NEW g \in Verified, g # f
        PROVE  /\ Exists(g)' = Exists(g)
               /\ Whole(g)' = Whole(g) /\ (Whole(g) => Contents(g)' = Contents(g))
    <3>1. g \in Files /\ inode'[g] = inode[g] /\ inode[g] # i
      BY <1>4, <1>5, <2>1, DistAssumption
    <3>2. Exists(g) => inode[g] \in Inodes
      BY <1>0, <1>1, <3>1 DEF TypeOK, Types, Exists
    <3>. QED BY <1>6, <3>1, <3>2 DEF Whole, Contents, Exists
  <2>2. f \in Verified => ~Exists(f) /\ Exists(f)' /\ ~Whole(f)'
    <3>1. 1 \in Places /\ Empty[1] = Nothing
      BY DistAssumption DEF Empty, Places
    <3>. QED BY <1>1, <1>5, <1>6, <1>8, <3>1 DEF Whole, Exists
  <2>3. CASE f \in Verified
    <3>1. Published[f] = Nothing /\ Published' = [Published EXCEPT ![f] = Part]
      BY <2>1, <2>2, <2>3 DEF Published
    <3>. QED BY <2>3, <3>1 DEF ReleaseStore!Next, ReleaseStore!Begin
  <2>4. CASE f \notin Verified
    BY <2>1, <2>4 DEF Published
  <2>. QED BY <2>3, <2>4
<1>. QED BY <1>10, <1>11, <1>12, <1>13, <1>14, <1>15, <1>16 DEF StoreInv

\* Only the last piece of a package publishes it.
LEMMA StoreWrite ==
  ASSUME StoreInv, LockInv', NEW u \in Uploads, Write(u)
  PROVE  StoreInv' /\ [ReleaseStore!Next]_Published
<1>0. TypeOK /\ upload[u] \in Upload /\ upload[u].pc = "write" /\ upload[u].done < Chunks
  BY DEF StoreInv, LockInv, TypeOK, Types, Write
<1>. PICK f \in Files, p \in Packages, n \in Places, i \in Inodes :
       /\ f = upload[u].file /\ p = upload[u].package /\ n = upload[u].done + 1
       /\ i = upload[u].ino
  BY <1>0, DistAssumption DEF Handles, Upload, TypeOK, NoInode, Places
<1>11. f \in Verified =>
         /\ i = inode[f] /\ Exists(f)
         /\ \A k \in Places : data[i][k] = IF k <= upload[u].done THEN p ELSE Nothing
  BY <1>0 DEF StoreInv, InPlace
<1>1. /\ data' = [data EXCEPT ![i] = [data[i] EXCEPT ![n] = p]]
      /\ upload' = [upload EXCEPT ![u] = [upload[u] EXCEPT !.done = n]]
      /\ UNCHANGED <<inode, count>>
  BY <1>0 DEF Write, Become
<1>2. /\ upload'[u].pc = "write" /\ upload'[u].ino = i /\ upload'[u].file = f
      /\ upload'[u].way = upload[u].way /\ upload'[u].done = n /\ upload'[u].package = p
      /\ \A v \in Uploads \ {u} : upload'[v] = upload[v]
  BY <1>0, <1>1 DEF TypeOK, Types, Upload
<1>3. \A g \in Verified : g # f => inode[g] # i
  BY <1>0 DEF StoreInv, WritesApart
<1>4. \A v \in Uploads \ {u} :
        upload[v].pc # "idle" /\ upload[v].file \in Verified => upload[v].file # f
  BY <1>0 DEF StoreInv, LockInv, OnlyDist, Holding
<1>5. \A j \in Inodes : j # i => data'[j] = data[j]
  BY <1>0, <1>1 DEF TypeOK, Types
<1>6. f \in Verified => \A k \in Places : data'[i][k] = IF k <= n THEN p ELSE Nothing
  <2>1. data[i] \in Content /\ data'[i] = [data[i] EXCEPT ![n] = p]
    BY <1>0, <1>1 DEF TypeOK, Types
  <2>2. \A k \in Places : k <= n <=> k <= upload[u].done \/ k = n
    BY <1>0, DistAssumption DEF Upload, Places
  <2>. QED BY <1>11, <2>1, <2>2 DEF Content
<1>7. \A v \in Uploads : upload[v].file \in Files
  BY <1>0 DEF TypeOK, Types, Upload
<1>8. OnlyDist' /\ Numbered' /\ WritesApart' /\ OwnInode' /\ OpenAbsent'
  BY <1>0, <1>1, <1>2 DEF StoreInv, OnlyDist, Numbered, WritesApart, OwnInode, OpenAbsent, Exists
<1>9. InPlace'
  <2>1. ASSUME NEW v \in Uploads \ {u}, upload[v].pc = "write", upload[v].file \in Verified
        PROVE  upload[v].ino \in Inodes /\ upload[v].ino # i
    BY <1>0, <1>3, <1>4, <1>7, <2>1 DEF StoreInv, InPlace, Exists, TypeOK, Types
  <2>. QED BY <1>1, <1>2, <1>5, <1>6, <1>11, <2>1 DEF StoreInv, InPlace, Exists
<1>10. [ReleaseStore!Next]_Published
  <2>1. ASSUME NEW g \in Verified, g # f
        PROVE  /\ Exists(g)' = Exists(g)
               /\ Whole(g)' = Whole(g) /\ (Whole(g) => Contents(g)' = Contents(g))
    <3>1. g \in Files /\ inode'[g] = inode[g] /\ inode[g] # i
      BY <1>1, <1>3, <2>1, DistAssumption
    <3>2. Exists(g) => inode[g] \in Inodes
      BY <1>0, <3>1 DEF TypeOK, Types, Exists
    <3>. QED BY <1>5, <3>1, <3>2 DEF Whole, Contents, Exists
  <2>2. f \in Verified => Exists(f) /\ Exists(f)' /\ ~Whole(f)
    BY <1>0, <1>1, <1>11, DistAssumption DEF Whole, Exists, Upload, Places
  <2>3. CASE n = Chunks /\ f \in Verified
    <3>1. Whole(f)' /\ Contents(f)'[1] = p
      BY <1>1, <1>6, <1>11, <2>3, DistAssumption DEF Whole, Contents, Exists, Places
    <3>2. Published[f] = Part /\ Published' = [Published EXCEPT ![f] = p]
      BY <2>1, <2>2, <2>3, <3>1 DEF Published
    <3>. QED BY <2>3, <3>2 DEF ReleaseStore!Next, ReleaseStore!Publish
  <2>4. CASE ~(n = Chunks /\ f \in Verified)
    <3>1. f \in Verified => ~Whole(f)'
      BY <1>1, <1>6, <1>11, <2>4, DistAssumption DEF Whole, Places
    <3>. QED BY <2>1, <2>2, <3>1 DEF Published
  <2>. QED BY <2>3, <2>4
<1>. QED BY <1>8, <1>9, <1>10 DEF StoreInv

\* A temporary file is the upload's own.
LEMMA StoreTemporary ==
  ASSUME \A f \in Verified : Ways[f] = {"dist"},
         StoreInv, LockInv', NEW u \in Uploads, PostTemporary(u)
  PROVE  StoreInv'
<1>0. TypeOK /\ upload[u] \in Upload
  BY DEF StoreInv, LockInv, TypeOK, Types
<1>. PICK f \in Files, p \in Packages :
       /\ "__upload" \in Ways[f]
       /\ upload' = [upload EXCEPT ![u] = [IdleUpload EXCEPT
            !.pc = "write", !.way = "__upload", !.file = f, !.package = p,
            !.ino = count + 1, !.number = count + 1]]
  BY DEF PostTemporary, Become
<1>1. /\ upload'[u].pc = "write" /\ upload'[u].file = f /\ upload'[u].ino = count + 1
      /\ \A v \in Uploads \ {u} : upload'[v] = upload[v]
  BY <1>0 DEF IdleUpload, TypeOK, Types
<1>2. UNCHANGED <<inode, data>> /\ count' = count + 1 /\ count \in Nat /\ f \notin Verified
  BY <1>0 DEF PostTemporary, TypeOK, Types, store
<1>3. OnlyDist' /\ OwnInode' /\ OpenAbsent' /\ InPlace'
  BY <1>1, <1>2 DEF StoreInv, OnlyDist, OwnInode, OpenAbsent, InPlace, Exists
<1>4. Numbered'
  BY <1>1, <1>2 DEF StoreInv, Numbered
<1>5. WritesApart'
  <2>1. \A g \in Verified : g \in Files
    BY DistAssumption
  <2>2. \A v \in Uploads \ {u} : upload[v].pc \in {"check", "open"} => upload[v].number # count + 1
    BY <1>2 DEF StoreInv, Numbered
  <2>3. \A g \in Files : inode[g] # count + 1
    BY <1>2 DEF StoreInv, Numbered
  <2>. QED BY <1>1, <1>2, <2>1, <2>2, <2>3 DEF StoreInv, WritesApart
<1>. QED BY <1>3, <1>4, <1>5 DEF StoreInv

\* A temporary file does not become a release.
LEMMA StoreRename ==
  ASSUME StoreInv, LockInv', NEW u \in Uploads, Rename(u)
  PROVE  StoreInv' /\ Published' = Published
<1>0. TypeOK /\ upload[u] \in Upload /\ upload[u].pc = "rename" /\ upload[u].file \in Files
  BY DEF StoreInv, LockInv, TypeOK, Types, Rename, Upload
<1>. PICK f \in Files, i \in 1..count : f = upload[u].file /\ i = upload[u].ino
  BY <1>0 DEF StoreInv, WritesApart
<1>1. f \notin Verified
  BY <1>0 DEF StoreInv, OnlyDist, LockInv
<1>2. UNCHANGED <<data, count>> /\ upload' = [upload EXCEPT ![u] = IdleUpload]
  BY DEF Rename, Done, Become
<1>3. CASE UNCHANGED inode
  <2>1. Published' = Published
    BY <1>2, <1>3 DEF Published, Whole, Contents, Exists
  <2>. QED BY <1>0, <1>2, <1>3, <2>1, StoreLeft DEF TypeOK, Types
<1>4. CASE inode' = [inode EXCEPT ![f] = i]
  <2>1. inode'[f] = i /\ \A g \in Files : g # f => inode'[g] = inode[g]
    BY <1>0, <1>4 DEF TypeOK, Types
  <2>2. upload'[u].pc = "idle" /\ \A v \in Uploads \ {u} : upload'[v] = upload[v]
    BY <1>0, <1>2 DEF TypeOK, Types, IdleUpload
  <2>3. \A g \in Verified : g \in Files /\ g # f /\ inode'[g] = inode[g] /\ inode[g] # i
    BY <1>0, <1>1, <2>1, DistAssumption DEF StoreInv, WritesApart
  <2>4. \A v \in Uploads : upload[v].pc \in {"check", "open"} => upload[v].number # i
    BY <1>0 DEF StoreInv, WritesApart
  <2>5. OnlyDist'
    BY <2>2 DEF StoreInv, OnlyDist
  <2>6. Numbered'
    <3>1. \A g \in Files : inode'[g] \in 0..count'
      BY <1>2, <2>1 DEF StoreInv, Numbered
    <3>2. \A v \in Uploads : upload'[v].pc \in {"check", "open"} =>
            upload'[v].number \in 1..count' /\ \A g \in Files : inode'[g] # upload'[v].number
      BY <1>2, <2>1, <2>2, <2>4 DEF StoreInv, Numbered
    <3>. QED BY <2>2, <3>1, <3>2 DEF StoreInv, Numbered
  <2>7. WritesApart'
    BY <1>2, <2>2, <2>3 DEF StoreInv, WritesApart
  <2>8. OwnInode'
    BY <2>1, <2>3 DEF StoreInv, OwnInode, Exists
  <2>9. OpenAbsent' /\ InPlace'
    BY <1>2, <2>2, <2>3 DEF StoreInv, OpenAbsent, InPlace, Exists
  <2>10. Published' = Published
    BY <1>2, <2>3 DEF Published, Whole, Contents, Exists
  <2>. QED BY <2>5, <2>6, <2>7, <2>8, <2>9, <2>10 DEF StoreInv
<1>. QED BY <1>3, <1>4 DEF Rename

\* An upload keeps the invariant and publishes one release at most.
LEMMA StoreUpload ==
  ASSUME \A f \in Verified : Ways[f] = {"dist"},
         StoreInv, LockInv', NEW u \in Uploads, Uploading(u)
  PROVE  StoreInv' /\ [ReleaseStore!Next]_Published
<1>0. TypeOK /\ upload[u] \in Upload
  BY DEF StoreInv, LockInv, TypeOK, Types
<1>1. UNCHANGED <<inode, data>> => Published' = Published
  BY DEF Published, Whole, Contents, Exists
<1>2. CASE Post(u)
  <2>1. PICK f \in Files, w \in AllWays, p \in Packages :
          /\ w \in Ways[f]
          /\ upload' = [upload EXCEPT ![u] = [IdleUpload EXCEPT
               !.pc = "check", !.way = w, !.file = f, !.package = p, !.number = count + 1]]
    BY <1>2 DEF Post, Become
  <2>2. /\ upload'[u].pc = "check" /\ upload'[u].number = count + 1
        /\ upload'[u].file \in Verified => upload'[u].way = "dist"
        /\ upload'[u].done = 0 /\ \A v \in Uploads \ {u} : upload'[v] = upload[v]
    BY <1>0, <2>1 DEF IdleUpload, TypeOK, Types
  <2>3. UNCHANGED <<inode, data>> /\ count' = count + 1 /\ count \in Nat
    BY <1>0, <1>2 DEF Post, TypeOK, Types
  <2>4. OnlyDist' /\ OwnInode' /\ OpenAbsent' /\ InPlace'
    BY <2>2, <2>3 DEF StoreInv, OnlyDist, OwnInode, OpenAbsent, InPlace, Exists
  <2>5. Numbered'
    BY <2>2, <2>3 DEF StoreInv, Numbered
  <2>6. WritesApart'
    BY <2>2, <2>3 DEF StoreInv, WritesApart
  <2>. QED BY <1>1, <2>3, <2>4, <2>5, <2>6 DEF StoreInv
<1>3. CASE PostBusy(u)
  BY <1>1, <1>3
     DEF PostBusy, vars, store, StoreInv, OnlyDist, Numbered, WritesApart, OwnInode, OpenAbsent,
         InPlace, Exists
<1>4. CASE Check(u)
  <2>1. CASE Conflict(u)
    BY <1>0, <1>1, <1>4, <2>1, StoreLeft DEF Check, Done, Become, TypeOK, Types
  <2>2. CASE ~Conflict(u)
    <3>1. /\ upload' = [upload EXCEPT ![u] = [upload[u] EXCEPT !.pc = "open"]]
          /\ upload[u].pc = "check" /\ UNCHANGED <<inode, data, count>>
      BY <1>4, <2>2 DEF Check, Goto, Become
    <3>2. /\ upload'[u].pc = "open" /\ upload'[u].way = upload[u].way
          /\ upload'[u].file = upload[u].file /\ upload'[u].number = upload[u].number
          /\ upload'[u].done = upload[u].done
          /\ \A v \in Uploads \ {u} : upload'[v] = upload[v]
      BY <1>0, <3>1 DEF TypeOK, Types, Upload
    <3>3. upload[u].file \in Verified => upload[u].way = "dist"
      BY <3>1 DEF StoreInv, OnlyDist
    <3>. QED BY <1>1, <2>2, <3>1, <3>2, <3>3
             DEF StoreInv, OnlyDist, Numbered, WritesApart, OwnInode, OpenAbsent, InPlace,
                 Conflict, Exists
  <2>. QED BY <2>1, <2>2
<1>5. CASE Open(u)
  BY <1>5, StoreOpen
<1>6. CASE NoFile(u) \/ Break(u)
  BY <1>0, <1>1, <1>6, StoreLeft DEF NoFile, Break, Done, Become, TypeOK, Types
<1>7. CASE Write(u)
  BY <1>7, StoreWrite
<1>8. CASE Finish(u)
  <2>1. CASE upload[u].way = "__upload"
    <3>1. /\ upload' = [upload EXCEPT ![u] = [upload[u] EXCEPT !.pc = "rename"]]
          /\ upload[u].pc = "write" /\ UNCHANGED <<inode, data, count>>
      BY <1>8, <2>1 DEF Finish, Goto, Become
    <3>2. /\ upload'[u].pc = "rename" /\ upload'[u].way = upload[u].way
          /\ upload'[u].file = upload[u].file /\ upload'[u].ino = upload[u].ino
          /\ \A v \in Uploads \ {u} : upload'[v] = upload[v]
      BY <1>0, <3>1 DEF TypeOK, Types, Upload
    <3>. QED BY <1>1, <3>1, <3>2
             DEF StoreInv, OnlyDist, Numbered, WritesApart, OwnInode, OpenAbsent, InPlace, Exists
  <2>2. CASE upload[u].way # "__upload"
    BY <1>0, <1>1, <1>8, <2>2, StoreLeft DEF Finish, Done, Become, TypeOK, Types
  <2>. QED BY <2>1, <2>2
<1>9. CASE PostTemporary(u)
  BY <1>1, <1>9, StoreTemporary DEF PostTemporary, store
<1>10. CASE Rename(u)
  BY <1>10, StoreRename
<1>. QED BY <1>2, <1>3, <1>4, <1>5, <1>6, <1>7, <1>8, <1>9, <1>10 DEF Uploading

\* A release the clear is about to delete is there, and nobody is past the check with it: who
\* comes finds it, and who was writing it when the clear looked kept it from being old.
AgedIdle ==
    \A f \in aged \cap Verified :
      Exists(f) /\ \A u \in Uploads : upload[u].pc \in {"open", "write", "rename"} => upload[u].file # f

LEMMA AgedStep ==
  ASSUME \A f \in Verified : Ways[f] = {"dist"},
         StoreInv, AgedIdle, [Next]_vars
  PROVE  AgedIdle'
<1>0. TypeOK
  BY DEF StoreInv, LockInv
<1>1. ASSUME NEW f \in Files, Look(f) PROVE AgedIdle'
  <2>. SUFFICES ASSUME f \in Verified, NEW u \in Uploads,
                       upload[u].pc \in {"open", "write", "rename"}, upload[u].file = f
                PROVE  FALSE
    BY <1>1 DEF AgedIdle, Look, Old, Exists, store
  <2>1. CASE upload[u].pc = "open"
    BY <1>1, <2>1 DEF Look, Old, StoreInv, OpenAbsent
  <2>2. CASE upload[u].pc = "write"
    BY <1>1, <2>2 DEF Look, Old, StoreInv, InPlace
  <2>3. CASE upload[u].pc = "rename"
    BY <2>3 DEF StoreInv, LockInv, OnlyDist
  <2>. QED BY <2>1, <2>2, <2>3
<1>2. ASSUME NEW f \in Files, Delete(f) PROVE AgedIdle'
  BY <1>2 DEF AgedIdle, Delete
<1>3. CASE Crash
  BY <1>3 DEF AgedIdle, Crash
<1>4. CASE UNCHANGED <<inode, upload, aged>>
  BY <1>4 DEF AgedIdle, Exists
<1>5. ASSUME NEW u \in Uploads, Uploading(u) PROVE AgedIdle'
  <2>1. aged' = aged /\ \A v \in Uploads \ {u} : upload'[v] = upload[v]
    BY <1>0, <1>5
       DEF Uploading, Post, PostBusy, Check, Open, NoFile, PostTemporary, Write, Finish, Rename,
           Break, Goto, Done, Become, vars, TypeOK, Types
  <2>. SUFFICES ASSUME NEW f \in aged \cap Verified
                PROVE  /\ Exists(f)'
                       /\ upload'[u].pc \in {"open", "write", "rename"} => upload'[u].file # f
    BY <2>1 DEF AgedIdle
  <2>2. Exists(f) /\ f \in Files /\ upload[u] \in Upload
        /\ (upload[u].pc \in {"open", "write", "rename"} => upload[u].file # f)
    BY <1>0 DEF AgedIdle, TypeOK, Types
  <2>3. CASE Open(u)
    BY <1>0, <2>2, <2>3 DEF Open, Become, Exists, TypeOK, Types, Upload
  <2>4. CASE Rename(u)
    BY <1>0, <2>2, <2>4 DEF Rename, Done, Become, IdleUpload, Exists, TypeOK, Types, Upload
  <2>5. CASE Check(u)
    <3>1. CASE upload[u].file = f
      <4>1. upload[u].way = "dist"
        BY <2>5, <3>1 DEF Check, StoreInv, OnlyDist
      <4>2. Done(u)
        BY <2>2, <2>5, <3>1, <4>1 DEF Check, Conflict
      <4>. QED BY <1>0, <2>2, <2>5, <4>2 DEF Check, Done, Become, IdleUpload, Exists, TypeOK, Types
    <3>2. CASE upload[u].file # f
      BY <1>0, <2>2, <2>5, <3>2 DEF Check, Goto, Done, Become, IdleUpload, Exists, TypeOK, Types, Upload
    <3>. QED BY <3>1, <3>2
  <2>6. CASE PostTemporary(u)
    <3>1. PICK g \in Files, p \in Packages :
            Become(u, [IdleUpload EXCEPT !.pc = "write", !.way = "__upload", !.file = g, !.package = p,
                                         !.ino = count + 1, !.number = count + 1])
            /\ "__upload" \in Ways[g]
      BY <2>6 DEF PostTemporary
    <3>2. upload'[u].file = g
      BY <1>0, <3>1 DEF Become, IdleUpload, TypeOK, Types
    <3>3. g # f
      BY <3>1
    <3>. QED BY <2>2, <2>6, <3>2, <3>3 DEF PostTemporary, store, Exists
  <2>7. CASE Post(u)
    <3>1. upload'[u].pc = "check"
      BY <1>0, <2>7 DEF Post, Become, IdleUpload, TypeOK, Types
    <3>. QED BY <2>2, <2>7, <3>1 DEF Post, Exists
  <2>10. CASE NoFile(u) \/ Break(u)
    BY <1>0, <2>2, <2>10 DEF NoFile, Break, Done, Become, IdleUpload, Exists, TypeOK, Types
  <2>8. CASE Write(u) \/ Finish(u)
    BY <1>0, <2>2, <2>8 DEF Write, Finish, Goto, Done, Become, IdleUpload, Exists, TypeOK, Types, Upload
  <2>9. CASE PostBusy(u)
    BY <2>2, <2>9 DEF PostBusy, vars, store, Exists
  <2>. QED BY <1>5, <2>3, <2>4, <2>5, <2>6, <2>7, <2>8, <2>9, <2>10 DEF Uploading
<1>6. ASSUME NEW d \in Downloads, Downloading(d) PROVE UNCHANGED <<inode, upload, aged>>
  BY <1>6 DEF Downloading, Get, OpenInput, Send, Close, store
<1>7. UNCHANGED vars => UNCHANGED <<inode, upload, aged>>
  BY DEF vars, store
<1>. QED BY <1>1, <1>2, <1>3, <1>4, <1>5, <1>6, <1>7 DEF Next

\* A file that is deleted is nobody's, if it is a release.
LEMMA StoreDelete ==
  ASSUME StoreInv, AgedIdle, LockInv', NEW f \in Files, Delete(f), inode' # inode
  PROVE  StoreInv' /\ [ReleaseStore!Next]_Published
<1>1. /\ UNCHANGED <<data, upload, count>> /\ inode'[f] = NoInode /\ f \in aged
      /\ \A g \in Files : g # f => inode'[g] = inode[g]
  BY DEF Delete, StoreInv, LockInv, TypeOK, Types
<1>2. OnlyDist' /\ OwnInode' /\ OpenAbsent'
  BY <1>1, DistAssumption DEF StoreInv, OnlyDist, OwnInode, OpenAbsent, Exists
<1>3. Numbered'
  <2>1. count \in Nat /\ \A u \in Uploads : upload[u].pc \in {"check", "open"} => upload[u].number # NoInode
    BY DEF StoreInv, Numbered, LockInv, TypeOK, Types, NoInode
  <2>. QED BY <1>1, <2>1 DEF StoreInv, Numbered, NoInode
<1>4. WritesApart'
  <2>1. \A u \in Uploads : upload[u].pc \in {"write", "rename"} => upload[u].ino # NoInode
    BY DEF StoreInv, WritesApart, NoInode
  <2>. QED BY <1>1, <2>1, DistAssumption DEF StoreInv, WritesApart
<1>5. InPlace'
  <2>1. \A u \in Uploads : upload[u].pc = "write" /\ upload[u].file \in Verified => upload[u].file # f
    BY <1>1 DEF AgedIdle
  <2>. QED BY <1>1, <2>1, DistAssumption DEF StoreInv, InPlace, Exists
<1>6. [ReleaseStore!Next]_Published
  <2>1. \A g \in Verified : g # f => /\ (Exists(g)' <=> Exists(g)) /\ (Whole(g)' <=> Whole(g))
                                    /\ Contents(g)' = Contents(g)
    BY <1>1, DistAssumption DEF Whole, Contents, Exists
  <2>2. ~Exists(f)'
    BY <1>1 DEF Exists
  <2>3. CASE f \in Verified
    <3>1. Published' = [Published EXCEPT ![f] = Nothing]
      BY <2>1, <2>2, <2>3 DEF Published
    <3>. QED BY <2>3, <3>1 DEF ReleaseStore!Next, ReleaseStore!Clear
  <2>4. CASE f \notin Verified
    BY <2>1, <2>4 DEF Published
  <2>. QED BY <2>3, <2>4
<1>. QED BY <1>2, <1>3, <1>4, <1>5, <1>6 DEF StoreInv

\* The invariant of the releases is kept by every step.
LEMMA StoreStep ==
  ASSUME \A f \in Verified : Ways[f] = {"dist"},
         StoreInv, AgedIdle, [Next]_vars
  PROVE  StoreInv' /\ [ReleaseStore!Next]_Published
<1>1. LockInv'
  BY LockStep DEF StoreInv
<1>2. UNCHANGED <<inode, data>> => Published' = Published
  BY DEF Published, Whole, Contents, Exists
<1>3. ASSUME NEW d \in Downloads, Downloading(d)
      PROVE  UNCHANGED <<inode, data, upload, count>>
  BY <1>3 DEF Downloading, Get, OpenInput, Send, Close, store
<1>4. CASE UNCHANGED <<inode, data, upload, count>>
  BY <1>1, <1>2, <1>4
     DEF StoreInv, OnlyDist, Numbered, WritesApart, OwnInode, OpenAbsent, InPlace, Exists
<1>5. CASE Crash
  <2>1. UNCHANGED <<inode, data, count>> /\ \A u \in Uploads : upload'[u].pc = "idle"
    BY <1>5 DEF Crash, IdleUpload
  <2>. QED BY <1>1, <1>2, <2>1
           DEF StoreInv, OnlyDist, Numbered, WritesApart, OwnInode, OpenAbsent, InPlace, Exists
<1>6. UNCHANGED vars => UNCHANGED <<inode, data, upload, count>>
  BY DEF vars, store
<1>7. ASSUME NEW f \in Files, Look(f) PROVE UNCHANGED <<inode, data, upload, count>>
  BY <1>7 DEF Look, store
<1>8. ASSUME NEW f \in Files, Delete(f), UNCHANGED inode
      PROVE  UNCHANGED <<inode, data, upload, count>>
  BY <1>8 DEF Delete
<1>. QED BY <1>1, <1>3, <1>4, <1>5, <1>6, <1>7, <1>8, StoreUpload, StoreDelete DEF Next

\* As long as the releases are uploaded through /dist/, whatever way the other files are,
\* they are what Releases promises: each is uploaded once, published whole, in one step, and
\* does not change until the clear deletes it.
THEOREM ReleasesImplemented ==
  ASSUME \A f \in Verified : Ways[f] = {"dist"}
  PROVE  Spec => ImplementsReleases
<1>1. Init => StoreInv /\ AgedIdle /\ ReleaseStore!Init
  BY StoreInit, DistAssumption DEF Init, AgedIdle, ReleaseStore!Init, Published, Whole, Exists
<1>2. StoreInv /\ AgedIdle /\ [Next]_vars => StoreInv' /\ AgedIdle' /\ [ReleaseStore!Next]_Published
  BY StoreStep, AgedStep
<1>. QED BY <1>1, <1>2, PTL DEF Spec, ImplementsReleases, ReleaseStore!Spec

-----------------------------------------------------------------------------
(* What is published is what is downloaded *)

\* A file of the full length has every piece.
LEMMA FullLength ==
  ASSUME NEW c, Length(c) = Chunks
  PROVE  \A k \in Places : c[k] # Nothing
<1>. DEFINE S == {k \in Places : c[k] # Nothing}
<1>1. IsFiniteSet(Places) /\ Cardinality(Places) = Chunks
  BY FS_Interval, DistAssumption DEF Places
<1>2. S = Places
  BY <1>1, FS_Subset DEF Length
<1>. QED BY <1>2

\* Nobody writes to a whole release, nor gives its name to another inode: it stays, or the clear
\* deletes it.
LEMMA WholeStays ==
  ASSUME StoreInv, [Next]_vars, NEW f \in Verified, Whole(f)
  PROVE  ~Exists(f)' \/ (Whole(f)' /\ Contents(f)' = Contents(f))
<1>0. TypeOK /\ f \in Files
  BY DistAssumption DEF StoreInv, LockInv
<1>1. inode[f] \in Inodes /\ \A k \in Places : data[inode[f]][k] # Nothing
  BY <1>0 DEF Whole, Exists, TypeOK, Types
<1>2. (inode'[f] = inode[f] /\ data'[inode[f]] = data[inode[f]]) \/ inode'[f] = NoInode
  <2>1. CASE UNCHANGED <<inode, data>>
    BY <2>1
  <2>2. ASSUME NEW u \in Uploads, Open(u)
        PROVE  inode'[f] = inode[f] /\ data'[inode[f]] = data[inode[f]]
    <3>. DEFINE g == upload[u].file
                i == IF Exists(g) THEN inode[g] ELSE upload[u].number
    <3>1. upload[u].pc = "open" /\ g \in Files
      BY <1>0, <2>2 DEF Open, TypeOK, Types, Upload
    <3>2. g # f
      BY <2>2, <3>1 DEF StoreInv, OpenAbsent, Whole
    <3>3. i # inode[f]
      BY <1>0, <3>1, <3>2 DEF StoreInv, Numbered, OwnInode, Whole
    <3>4. inode' = [inode EXCEPT ![g] = i] /\ data' = [data EXCEPT ![i] = Empty]
      BY <2>2 DEF Open
    <3>. HIDE DEF g, i
    <3>. QED BY <1>0, <1>1, <3>2, <3>3, <3>4 DEF TypeOK, Types
  <2>3. ASSUME NEW u \in Uploads, Write(u)
        PROVE  inode'[f] = inode[f] /\ data'[inode[f]] = data[inode[f]]
    <3>1. /\ upload[u].pc = "write" /\ upload[u].done + 1 \in Places
          /\ upload[u].done \in Nat /\ inode' = inode
      BY <1>0, <2>3, DistAssumption DEF Write, TypeOK, Types, Upload, Places
    <3>2. upload[u].file # f
      <4>1. ASSUME upload[u].file = f PROVE FALSE
        <5>1. data[inode[f]][upload[u].done + 1] = Nothing
          BY <3>1, <4>1 DEF StoreInv, InPlace
        <5>. QED BY <1>1, <3>1, <5>1
      <4>. QED BY <4>1
    <3>3. upload[u].ino # inode[f]
      BY <3>1, <3>2 DEF StoreInv, WritesApart
    <3>. QED BY <1>0, <1>1, <2>3, <3>1, <3>3 DEF Write, TypeOK, Types
  <2>4. ASSUME NEW u \in Uploads, Rename(u)
        PROVE  inode'[f] = inode[f] /\ data'[inode[f]] = data[inode[f]]
    <3>1. upload[u].file # f /\ upload[u].file \in Files
      BY <1>0, <2>4 DEF Rename, StoreInv, OnlyDist, LockInv, TypeOK, Types, Upload
    <3>. QED BY <1>0, <2>4, <3>1 DEF Rename, TypeOK, Types
  <2>5. ASSUME NEW u \in Uploads, Uploading(u), ~Open(u), ~Write(u), ~Rename(u)
        PROVE  UNCHANGED <<inode, data>>
    BY <2>5 DEF Uploading, Post, PostBusy, Check, NoFile, PostTemporary, Finish, Break, vars, store
  <2>6. ASSUME NEW d \in Downloads, Downloading(d)
        PROVE  UNCHANGED <<inode, data>>
    BY <2>6 DEF Downloading, Get, OpenInput, Send, Close, store
  <2>7. Crash \/ UNCHANGED vars => UNCHANGED <<inode, data>>
    BY DEF Crash, vars, store
  <2>8. ASSUME NEW g \in Files, Look(g) \/ Delete(g)
        PROVE  data' = data /\ inode'[f] \in {inode[f], NoInode}
    BY <1>0, <2>8 DEF Look, Delete, store, TypeOK, Types
  <2>. QED BY <2>1, <2>2, <2>3, <2>4, <2>5, <2>6, <2>7, <2>8 DEF Next
<1>. QED BY <1>1, <1>2 DEF Whole, Contents, Exists

\* As long as the releases are uploaded through /dist/, one that is there stays as it is until the
\* clear deletes it.
THEOREM ReleasesStay ==
  ASSUME \A f \in Verified : Ways[f] = {"dist"}
  PROVE  Spec => ReleaseKept
<1>1. StoreInv /\ [Next]_vars
      => [\A f \in Verified : Whole(f) => ~Exists(f)' \/ (Whole(f)' /\ Contents(f)' = Contents(f))]_vars
  BY WholeStays
<1>2. StoreInv /\ AgedIdle /\ [Next]_vars => StoreInv' /\ AgedIdle'
  BY StoreStep, AgedStep
<1>3. Init => StoreInv /\ AgedIdle
  BY StoreInit DEF Init, AgedIdle
<1>. QED BY <1>1, <1>2, <1>3, PTL DEF Spec, ReleaseKept

\* A download that sends a release: the inode it has open is whole, nobody writes to it any more,
\* it has no other name, and what was sent are pieces of it.
Sending(d) ==
    /\ download[d].pc \in {"send", "sent"} /\ download[d].file \in Verified
    /\ download[d].size = Chunks

Frozen(i, f) ==
    /\ i \in 1..count /\ \A k \in Places : data[i][k] # Nothing
    /\ \A g \in Files : inode[g] = i => g = f
    /\ \A u \in Uploads : upload[u].pc \in {"check", "open"} => upload[u].number # i
    /\ \A u \in Uploads : upload[u].pc \in {"write", "rename"} /\ upload[u].ino = i
         => upload[u].pc = "write" /\ upload[u].done = Chunks /\ upload[u].way # "__upload"

SendInv ==
    /\ \A d \in Downloads : download[d].pc = "open" => download[d].got = Empty
    /\ \A d \in Downloads : Sending(d) =>
         /\ Frozen(download[d].ino, download[d].file)
         /\ \A k \in Places : download[d].got[k] \in {Nothing, data[download[d].ino][k]}

\* A release that is whole is frozen.
LEMMA WholeFrozen ==
  ASSUME StoreInv, NEW f \in Verified, Whole(f)
  PROVE  Frozen(inode[f], f)
<1>0. TypeOK /\ f \in Files /\ inode[f] # NoInode
  BY DistAssumption DEF StoreInv, LockInv, Whole, Exists
<1>1. inode[f] \in 1..count
  BY <1>0 DEF StoreInv, Numbered, TypeOK, Types, NoInode
<1>2. \A g \in Files : inode[g] = inode[f] => g = f
  BY <1>0 DEF StoreInv, OwnInode, Exists
<1>3. ASSUME NEW u \in Uploads, upload[u].pc \in {"write", "rename"}, upload[u].ino = inode[f]
      PROVE  upload[u].pc = "write" /\ upload[u].done = Chunks /\ upload[u].way # "__upload"
  <2>1. upload[u].file = f
    BY <1>3 DEF StoreInv, WritesApart
  <2>2. upload[u].pc = "write" /\ upload[u].way # "__upload"
    BY <1>3, <2>1 DEF StoreInv, OnlyDist, LockInv
  <2>3. upload[u].done \in 0..Chunks
    BY <1>0 DEF TypeOK, Types, Upload
  <2>4. \A k \in Places : k <= upload[u].done
    BY <1>3, <2>1, <2>2 DEF StoreInv, InPlace, Whole
  <2>5. Chunks \in Places
    BY DistAssumption DEF Places
  <2>. QED BY <2>2, <2>3, <2>4, <2>5, DistAssumption
<1>. QED BY <1>0, <1>1, <1>2, <1>3 DEF Frozen, Whole, StoreInv, Numbered

\* A frozen inode stays as it is, whatever is uploaded, renamed and deleted.
LEMMA FrozenStays ==
  ASSUME StoreInv, [Next]_vars, NEW f \in Verified, NEW i, Frozen(i, f)
  PROVE  Frozen(i, f)' /\ data'[i] = data[i]
<1>0. /\ TypeOK /\ f \in Files /\ i \in 1..count /\ count \in Nat /\ i \in Inodes /\ i # NoInode
      /\ i # count + 1
  BY DistAssumption DEF StoreInv, LockInv, Frozen, TypeOK, Types, Inodes, NoInode
<1>1. CASE UNCHANGED <<inode, data, upload, count>>
  BY <1>1 DEF Frozen
<1>2. CASE Crash
  BY <1>2 DEF Crash, Frozen, IdleUpload
<1>3. ASSUME NEW g \in Files, Delete(g) PROVE Frozen(i, f)' /\ data'[i] = data[i]
  BY <1>0, <1>3 DEF Delete, Frozen, TypeOK, Types
<1>4. ASSUME NEW u \in Uploads, Uploading(u) PROVE Frozen(i, f)' /\ data'[i] = data[i]
  <2>0. upload[u] \in Upload /\ \A v \in Uploads \ {u} : upload'[v] = upload[v]
    BY <1>0, <1>4
       DEF Uploading, Post, PostBusy, Check, Open, NoFile, PostTemporary, Write, Finish, Rename,
           Break, Goto, Done, Become, vars, TypeOK, Types
  <2>1. ASSUME UNCHANGED <<inode, data>>, count' \in {count, count + 1},
               upload'[u].pc \in {"check", "open"} => upload'[u].number # i,
               upload'[u].pc \in {"write", "rename"} => upload'[u].ino # i
        PROVE  Frozen(i, f)' /\ data'[i] = data[i]
    BY <1>0, <2>0, <2>1 DEF Frozen
  <2>2. CASE Post(u)
    <3>1. upload'[u].pc = "check" /\ upload'[u].number = count + 1
      BY <1>0, <2>2 DEF Post, Become, IdleUpload, TypeOK, Types
    <3>. QED BY <1>0, <2>1, <2>2, <3>1 DEF Post
  <2>3. CASE PostTemporary(u)
    <3>1. upload'[u].pc = "write" /\ upload'[u].ino = count + 1
      BY <1>0, <2>3 DEF PostTemporary, Become, IdleUpload, TypeOK, Types
    <3>. QED BY <1>0, <2>1, <2>3, <3>1 DEF PostTemporary, store
  <2>4. CASE PostBusy(u)
    BY <1>1, <2>4 DEF PostBusy, vars, store
  <2>5. CASE Check(u)
    <3>1. upload'[u].pc = "idle" \/ (upload'[u].pc = "open" /\ upload'[u].number = upload[u].number)
      BY <1>0, <2>0, <2>5 DEF Check, Goto, Done, Become, IdleUpload, TypeOK, Types, Upload
    <3>. QED BY <2>1, <2>5, <3>1 DEF Check, Frozen
  <2>6. CASE NoFile(u) \/ Break(u)
    <3>1. upload'[u].pc = "idle"
      BY <1>0, <2>6 DEF NoFile, Break, Done, Become, IdleUpload, TypeOK, Types
    <3>. QED BY <2>1, <2>6, <3>1 DEF NoFile, Break
  <2>7. CASE Finish(u)
    <3>1. CASE upload[u].way # "__upload"
      <4>1. upload'[u].pc = "idle"
        BY <1>0, <2>7, <3>1 DEF Finish, Done, Become, IdleUpload, TypeOK, Types
      <4>. QED BY <2>1, <2>7, <4>1 DEF Finish
    <3>2. CASE upload[u].way = "__upload"
      <4>1. upload'[u].pc = "rename" /\ upload'[u].ino = upload[u].ino /\ upload[u].pc = "write"
        BY <1>0, <2>0, <2>7, <3>2 DEF Finish, Goto, Become, TypeOK, Types, Upload
      <4>2. upload[u].ino # i
        BY <3>2, <4>1 DEF Frozen
      <4>. QED BY <2>1, <2>7, <4>1, <4>2 DEF Finish
    <3>. QED BY <3>1, <3>2
  <2>8. CASE Write(u)
    <3>1. upload[u].pc = "write" /\ upload[u].done # Chunks
      BY <2>0, <2>8, DistAssumption DEF Write, Upload
    <3>2. upload[u].ino # i
      BY <3>1 DEF Frozen
    <3>3. /\ upload'[u].pc = "write" /\ upload'[u].ino = upload[u].ino
          /\ UNCHANGED <<inode, count>> /\ data'[i] = data[i]
      BY <1>0, <2>0, <2>8, <3>2 DEF Write, Become, TypeOK, Types, Upload
    <3>. QED BY <1>0, <2>0, <3>2, <3>3 DEF Frozen
  <2>9. CASE Rename(u)
    <3>1. upload[u].ino # i
      BY <2>9 DEF Rename, Frozen
    <3>2. /\ upload'[u].pc = "idle" /\ UNCHANGED <<data, count>>
          /\ \A g \in Files : inode'[g] \in {inode[g], upload[u].ino}
      BY <1>0, <2>0, <2>9 DEF Rename, Done, Become, IdleUpload, TypeOK, Types
    <3>. QED BY <1>0, <2>0, <3>1, <3>2 DEF Frozen
  <2>10. CASE Open(u)
    <3>. PICK g \in Files : g = upload[u].file
      BY <2>0 DEF Upload
    <3>. PICK j \in Inodes \union {NoInode} : j = IF Exists(g) THEN inode[g] ELSE upload[u].number
      BY <1>0, <2>0 DEF TypeOK, Types, Upload, Inodes, NoInode
    <3>1. /\ inode' = [inode EXCEPT ![g] = j] /\ data' = [data EXCEPT ![j] = Empty]
          /\ upload' = [upload EXCEPT ![u] = [upload[u] EXCEPT !.pc = "write", !.ino = j]]
          /\ count' = count /\ upload[u].pc = "open"
      BY <2>10 DEF Open, Become
    <3>2. j # i
      <4>1. CASE Exists(g) /\ inode[g] = i
        <5>1. g = f
          BY <4>1 DEF Frozen
        <5>. QED BY <3>1, <4>1, <5>1 DEF StoreInv, OpenAbsent
      <4>2. CASE Exists(g) /\ inode[g] # i
        BY <4>2
      <4>3. CASE ~Exists(g)
        BY <3>1, <4>3 DEF Frozen
      <4>. QED BY <4>1, <4>2, <4>3
    <3>3. upload'[u].pc = "write" /\ upload'[u].ino = j
      BY <1>0, <2>0, <3>1 DEF TypeOK, Types, Upload
    <3>4. data'[i] = data[i] /\ \A h \in Files : inode'[h] \in {inode[h], j}
      BY <1>0, <3>1, <3>2 DEF TypeOK, Types
    <3>. QED BY <1>0, <2>0, <3>1, <3>2, <3>3, <3>4 DEF Frozen
  <2>. QED BY <1>4, <2>2, <2>3, <2>4, <2>5, <2>6, <2>7, <2>8, <2>9, <2>10 DEF Uploading
<1>5. ASSUME NEW d \in Downloads, Downloading(d) PROVE UNCHANGED <<inode, data, upload, count>>
  BY <1>5 DEF Downloading, Get, OpenInput, Send, Close, store
<1>6. ASSUME NEW g \in Files, Look(g) PROVE UNCHANGED <<inode, data, upload, count>>
  BY <1>6 DEF Look, store
<1>7. UNCHANGED vars => UNCHANGED <<inode, data, upload, count>>
  BY DEF vars, store
<1>. QED BY <1>1, <1>2, <1>3, <1>4, <1>5, <1>6, <1>7 DEF Next

\* What a download does: it begins, opens a file, sends a piece of what it has open, or ends.
LEMMA SendDownload ==
  ASSUME StoreInv, SendInv, NEW d \in Downloads, Downloading(d)
  PROVE  /\ \A e \in Downloads \ {d} : download'[e] = download[e]
         /\ download'[d].pc = "open" => download'[d].got = Empty
         /\ Sending(d)' =>
              /\ Frozen(download'[d].ino, download'[d].file)
              /\ \A k \in Places : download'[d].got[k] \in {Nothing, data[download'[d].ino][k]}
<1>0. TypeOK /\ download[d] \in Download
  BY DEF StoreInv, LockInv, TypeOK, Types
<1>1. \A e \in Downloads \ {d} : download'[e] = download[e]
  BY <1>0 DEF Downloading, Get, OpenInput, Send, Close, TypeOK, Types
<1>2. CASE Get(d)
  <2>1. PICK g \in Files :
          download' = [download EXCEPT ![d] = [IdleDownload EXCEPT !.pc = "open", !.file = g]]
    BY <1>2, DistAssumption DEF Get
  <2>2. download'[d].pc = "open" /\ download'[d].got = Empty
    BY <1>0, <2>1 DEF IdleDownload, TypeOK, Types
  <2>. QED BY <1>1, <2>2 DEF Sending
<1>3. CASE Close(d) \/ (OpenInput(d) /\ inode[download[d].file] = NoInode)
  <2>1. download'[d].pc = "idle"
    BY <1>0, <1>3 DEF Close, OpenInput, IdleDownload, TypeOK, Types
  <2>. QED BY <1>1, <2>1 DEF Sending
<1>4. CASE OpenInput(d) /\ inode[download[d].file] # NoInode
  <2>. PICK f \in Files : f = download[d].file
    BY <1>0 DEF Download
  <2>1. /\ download'[d].pc = "send" /\ download'[d].file = f /\ download'[d].ino = inode[f]
        /\ download'[d].size = Length(data[inode[f]]) /\ download'[d].got = download[d].got
        /\ download[d].pc = "open"
    BY <1>0, <1>4 DEF OpenInput, TypeOK, Types, Download
  <2>2. \A k \in Places : download[d].got[k] = Nothing
    BY <2>1 DEF SendInv, Empty
  <2>3. ASSUME Sending(d)' PROVE Frozen(inode[f], f)
    <3>1. f \in Verified /\ Length(data[inode[f]]) = Chunks
      BY <2>1, <2>3 DEF Sending
    <3>2. Whole(f)
      BY <1>4, <3>1, FullLength DEF Whole, Exists
    <3>. QED BY <3>1, <3>2, WholeFrozen
  <2>. QED BY <1>1, <2>1, <2>2, <2>3
<1>5. CASE Send(d)
  <2>. PICK i \in Inodes, c \in Content : i = download[d].ino /\ c = download[d].got
    BY <1>0, <1>5 DEF Send, Download, TypeOK, Handles
  <2>. PICK k \in Nat : k = Length(c) + 1
    BY LengthType, DistAssumption
  <2>1. download[d].pc = "send"
    BY <1>5 DEF Send
  <2>2. \/ download' = [download EXCEPT ![d] = [download[d] EXCEPT !.got = [c EXCEPT ![k] = data[i][k]]]]
        \/ download' = [download EXCEPT ![d] = [download[d] EXCEPT !.pc = "sent"]]
    BY <1>5 DEF Send
  <2>3. /\ download'[d].pc \in {"send", "sent"} /\ download'[d].file = download[d].file
        /\ download'[d].ino = i /\ download'[d].size = download[d].size
        /\ download'[d].got \in {c, [c EXCEPT ![k] = data[i][k]]}
    BY <1>0, <2>1, <2>2 DEF TypeOK, Types, Download
  <2>4. ASSUME Sending(d)'
        PROVE  /\ Frozen(i, download[d].file)
               /\ \A l \in Places : download'[d].got[l] \in {Nothing, data[i][l]}
    <3>1. Sending(d)
      BY <2>1, <2>3, <2>4 DEF Sending
    <3>2. Frozen(i, download[d].file) /\ \A l \in Places : c[l] \in {Nothing, data[i][l]}
      BY <3>1 DEF SendInv
    <3>3. \A l \in Places : [c EXCEPT ![k] = data[i][k]][l] \in {Nothing, data[i][l]}
      BY <3>2 DEF Content
    <3>. QED BY <2>3, <3>2, <3>3
  <2>. QED BY <1>1, <2>3, <2>4
<1>. QED BY <1>2, <1>3, <1>4, <1>5 DEF Downloading

\* Whatever else happens, the inode stays under a download.
LEMMA SendStep ==
  ASSUME StoreInv, SendInv, [Next]_vars
  PROVE  SendInv'
<1>1. CASE UNCHANGED download
  <2>1. ASSUME NEW d \in Downloads, Sending(d)
        PROVE  /\ Frozen(download[d].ino, download[d].file)'
               /\ data'[download[d].ino] = data[download[d].ino]
    <3>1. PICK f \in Verified : f = download[d].file
      BY <2>1 DEF Sending
    <3>2. PICK i : i = download[d].ino
      OBVIOUS
    <3>3. Frozen(i, f)
      BY <2>1, <3>1, <3>2 DEF SendInv
    <3>4. Frozen(i, f)' /\ data'[i] = data[i]
      BY <3>3, FrozenStays
    <3>. QED BY <1>1, <3>1, <3>2, <3>4 DEF Frozen
  <2>. QED BY <1>1, <2>1 DEF SendInv, Sending
<1>2. CASE Crash
  BY <1>2 DEF Crash, SendInv, Sending, IdleDownload
<1>3. ASSUME NEW u \in Uploads, Uploading(u) PROVE UNCHANGED download
  BY <1>3 DEF Uploading, Post, PostBusy, Check, Open, NoFile, PostTemporary, Write, Finish, Rename,
              Break, vars
<1>4. ASSUME NEW d \in Downloads, Downloading(d) PROVE SendInv'
  <2>1. UNCHANGED <<inode, data, upload, count>>
    BY <1>4 DEF Downloading, Get, OpenInput, Send, Close, store
  <2>2. \A i, f : Frozen(i, f)' <=> Frozen(i, f)
    BY <2>1 DEF Frozen
  <2>3. \A e \in Downloads \ {d} : Sending(e)' <=> Sending(e)
    BY <1>4, SendDownload DEF Sending
  <2>. QED BY <1>4, <2>1, <2>2, <2>3, SendDownload DEF SendInv, Frozen
<1>5. ASSUME NEW f \in Files, Look(f) \/ Delete(f) PROVE UNCHANGED download
  BY <1>5 DEF Look, Delete
<1>. QED BY <1>1, <1>2, <1>3, <1>4, <1>5 DEF Next, vars

\* As long as the releases are uploaded through /dist/, a download of one that was whole when
\* it began sends that release.
THEOREM SentAsPublished ==
  ASSUME \A f \in Verified : Ways[f] = {"dist"}
  PROVE  Spec => []ReleaseSent
<1>1. Init => StoreInv /\ AgedIdle /\ SendInv
  BY StoreInit DEF Init, AgedIdle, SendInv, Sending, IdleDownload
<1>2. SendInv => ReleaseSent
  BY DEF SendInv, ReleaseSent, Sending, Frozen
<1>3. StoreInv /\ AgedIdle /\ [Next]_vars => StoreInv' /\ AgedIdle'
  BY StoreStep, AgedStep
<1>4. StoreInv /\ SendInv /\ [Next]_vars => SendInv'
  BY SendStep
<1>. QED BY <1>1, <1>2, <1>3, <1>4, PTL DEF Spec

-----------------------------------------------------------------------------
(* Two uploads never mix in one file *)

Writing(u) == upload[u].pc \in {"write", "rename"}

\* A file of its own for every writer ...
WritersApart ==
    /\ \A u \in Uploads : Writing(u) =>
         /\ upload[u].ino \in 1..count
         /\ \A v \in Uploads : upload[v].pc \in {"check", "open"} => upload[v].number # upload[u].ino
    /\ \A u, v \in Uploads : Writing(u) /\ Writing(v) /\ upload[u].ino = upload[v].ino => u = v

\* ... which, if it has a name, is that of the file it holds the lock of, as all do that
\* come to open one.
WritersHold ==
    /\ \A u \in Uploads : upload[u].pc \in {"check", "open"} => upload[u].way # "__upload"
    /\ \A u \in Uploads, f \in Files : Writing(u) /\ upload[u].ino = inode[f] =>
         upload[u].way # "__upload" /\ upload[u].file = f

OneName == \A f, g \in Files : Exists(f) /\ inode[f] = inode[g] => f = g

\* A file not made yet is empty, one being written has pieces of its writer only.
OwnPieces ==
    /\ \A i \in Inodes : i > count => data[i] = Empty
    /\ \A u \in Uploads : upload[u].pc = "write" =>
         \A k \in Places : data[upload[u].ino][k] \in {Nothing, upload[u].package}

MixInv == LockInv /\ Numbered /\ WritersApart /\ WritersHold /\ OneName /\ OwnPieces /\ Unmixed

\* No file is there at the start.
LEMMA MixInit == Init => MixInv
  BY LockInit, DistAssumption
     DEF Init, MixInv, Numbered, WritersApart, WritersHold, OneName, OwnPieces, Unmixed, Writing,
         OfOne, Exists, IdleUpload, NoInode, Empty

\* An upload that ends leaves the files as they are.
LEMMA MixLeft ==
  ASSUME MixInv, LockInv', NEW u \in Uploads, UNCHANGED <<inode, data, count>>,
         \A v \in Uploads \ {u} : upload'[v] = upload[v],
         upload'[u] = IdleUpload
  PROVE  MixInv'
<1>1. upload'[u].pc = "idle"
  BY DEF IdleUpload
<1>2. Numbered' /\ WritersApart'
  BY <1>1 DEF MixInv, Numbered, WritersApart, Writing
<1>3. WritersHold' /\ OneName' /\ OwnPieces' /\ Unmixed'
  BY <1>1 DEF MixInv, WritersHold, OneName, OwnPieces, Unmixed, Writing, Exists
<1>. QED BY <1>2, <1>3 DEF MixInv

\* Nobody writes to the file that is opened: who did would hold the lock, or it is new.
LEMMA MixOpen ==
  ASSUME MixInv, LockInv', NEW u \in Uploads, Open(u)
  PROVE  MixInv'
<1>0. TypeOK /\ upload[u] \in Upload /\ upload[u].pc = "open" /\ upload[u].file \in Files
  BY DEF MixInv, LockInv, TypeOK, Types, Open, Upload
<1>. PICK f \in Files : f = upload[u].file
  BY <1>0
<1>1. (IF Exists(f) THEN inode[f] ELSE upload[u].number) \in 1..count
  BY <1>0 DEF MixInv, Numbered, Exists, NoInode
<1>. PICK i \in 1..count : i = IF Exists(f) THEN inode[f] ELSE upload[u].number
  BY <1>1
<1>2. /\ inode' = [inode EXCEPT ![f] = i] /\ data' = [data EXCEPT ![i] = Empty]
      /\ upload' = [upload EXCEPT ![u] = [upload[u] EXCEPT !.pc = "write", !.ino = i]]
      /\ count' = count /\ i \in Inodes /\ i # NoInode
  BY <1>0, DistAssumption DEF Open, Become, TypeOK, Types, Inodes, NoInode
<1>3. /\ upload'[u].pc = "write" /\ upload'[u].ino = i /\ upload'[u].file = f
      /\ upload'[u].way = upload[u].way
      /\ \A v \in Uploads \ {u} : upload'[v] = upload[v]
  BY <1>0, <1>2 DEF TypeOK, Types, Upload
<1>4. inode'[f] = i /\ \A g \in Files : g # f => inode'[g] = inode[g]
  BY <1>0, <1>2 DEF TypeOK, Types
<1>5. data'[i] = Empty /\ \A j \in Inodes : j # i => data'[j] = data[j]
  BY <1>0, <1>2 DEF TypeOK, Types
<1>6. upload[u].way # "__upload"
  BY <1>0 DEF MixInv, WritersHold
<1>7. \A v \in Uploads \ {u} : Writing(v) => upload[v].ino # i
  <2>1. ASSUME NEW v \in Uploads \ {u}, Writing(v), upload[v].ino = inode[f], Exists(f) PROVE FALSE
    <3>1. upload[v].way # "__upload" /\ upload[v].file = f
      BY <2>1 DEF MixInv, WritersHold
    <3>2. Holding(u) /\ Holding(v)
      BY <1>0, <1>6, <2>1, <3>1 DEF Holding, Writing
    <3>. QED BY <3>1, <3>2 DEF MixInv, LockInv
  <2>. QED BY <1>0, <2>1 DEF MixInv, WritersApart
<1>8. \A g \in Files : g # f => inode[g] # i
  BY <1>0 DEF MixInv, OneName, Numbered, Exists
<1>9. \A v \in Uploads \ {u} : upload[v].pc \in {"check", "open"} => upload[v].number # i
  BY <1>0 DEF MixInv, Numbered, Exists
<1>10. Numbered'
  <2>1. \A g \in Files : inode'[g] \in 0..count'
    BY <1>0, <1>2, <1>4 DEF MixInv, Numbered
  <2>2. \A v \in Uploads : upload'[v].pc \in {"check", "open"} =>
          upload'[v].number \in 1..count' /\ \A g \in Files : inode'[g] # upload'[v].number
    BY <1>2, <1>3, <1>4, <1>9 DEF MixInv, Numbered
  <2>. QED BY <1>3, <2>1, <2>2 DEF MixInv, Numbered
<1>11. WritersApart'
  BY <1>2, <1>3, <1>7, <1>9 DEF MixInv, WritersApart, Writing
<1>12. WritersHold'
  BY <1>3, <1>4, <1>6, <1>7, <1>8 DEF MixInv, WritersHold, Writing
<1>13. OneName'
  BY <1>4, <1>8 DEF MixInv, OneName, Exists
<1>14. OwnPieces'
  <2>1. \A j \in Inodes : j > count' => data'[j] = Empty
    BY <1>0, <1>2, <1>5 DEF MixInv, OwnPieces
  <2>2. \A v \in Uploads \ {u} : upload[v].pc = "write" => data'[upload[v].ino] = data[upload[v].ino]
    <3>1. \A v \in Uploads : upload[v].pc = "write" => upload[v].ino \in Inodes
      BY <1>0 DEF TypeOK, Types, Handles, Upload
    <3>. QED BY <1>5, <1>7, <3>1 DEF Writing
  <2>3. \A k \in Places : data'[upload'[u].ino][k] = Nothing
    BY <1>3, <1>5 DEF Empty
  <2>. QED BY <1>3, <2>1, <2>2, <2>3 DEF MixInv, OwnPieces
<1>15. Unmixed'
  BY <1>5 DEF MixInv, Unmixed, OfOne, Empty
<1>. QED BY <1>10, <1>11, <1>12, <1>13, <1>14, <1>15 DEF MixInv

\* A piece goes to a file nobody else writes, which has no other package's.
LEMMA MixWrite ==
  ASSUME MixInv, LockInv', NEW u \in Uploads, Write(u)
  PROVE  MixInv'
<1>0. TypeOK /\ upload[u] \in Upload /\ upload[u].pc = "write" /\ upload[u].done < Chunks
  BY DEF MixInv, LockInv, TypeOK, Types, Write
<1>a. upload[u].package \in Packages /\ upload[u].ino \in Inodes
  BY <1>0 DEF Handles, Upload, TypeOK, NoInode
<1>b. upload[u].done + 1 \in Places
  BY <1>0, DistAssumption DEF Upload, Places
<1>. PICK p \in Packages, n \in Places, i \in Inodes :
       p = upload[u].package /\ n = upload[u].done + 1 /\ i = upload[u].ino
  BY <1>a, <1>b
<1>1. /\ data' = [data EXCEPT ![i] = [data[i] EXCEPT ![n] = p]]
      /\ upload' = [upload EXCEPT ![u] = [upload[u] EXCEPT !.done = n]]
      /\ UNCHANGED <<inode, count>>
  BY <1>0 DEF Write, Become
<1>2. /\ upload'[u].pc = "write" /\ upload'[u].ino = i /\ upload'[u].file = upload[u].file
      /\ upload'[u].way = upload[u].way /\ upload'[u].package = p
      /\ \A v \in Uploads \ {u} : upload'[v] = upload[v]
  BY <1>0, <1>1 DEF TypeOK, Types, Upload
<1>3. /\ \A j \in Inodes : j # i => data'[j] = data[j]
      /\ \A k \in Places : data'[i][k] = IF k = n THEN p ELSE data[i][k]
  BY <1>0, <1>1 DEF TypeOK, Types, Content
<1>4. \A k \in Places : data'[i][k] \in {Nothing, p}
  BY <1>0, <1>3 DEF MixInv, OwnPieces
<1>5. i <= count
  BY <1>0 DEF MixInv, WritersApart, Writing
<1>6. Numbered' /\ WritersApart' /\ WritersHold' /\ OneName'
  BY <1>0, <1>1, <1>2 DEF MixInv, Numbered, WritersApart, WritersHold, OneName, Exists, Writing
<1>7. OwnPieces'
  <2>1. \A j \in Inodes : j > count' => data'[j] = Empty
    BY <1>0, <1>1, <1>3, <1>5 DEF MixInv, OwnPieces, TypeOK, Types, Inodes
  <2>2. \A v \in Uploads \ {u} : upload[v].pc = "write" => data'[upload[v].ino] = data[upload[v].ino]
    <3>1. \A v \in Uploads : upload[v].pc = "write" => upload[v].ino \in Inodes
      BY <1>0 DEF TypeOK, Types, Handles, Upload
    <3>2. \A v \in Uploads \ {u} : upload[v].pc = "write" => upload[v].ino # i
      BY <1>0 DEF MixInv, WritersApart, Writing
    <3>. QED BY <1>3, <3>1, <3>2
  <2>. QED BY <1>2, <1>4, <2>1, <2>2 DEF MixInv, OwnPieces
<1>8. Unmixed'
  BY <1>3, <1>4 DEF MixInv, Unmixed, OfOne
<1>. QED BY <1>6, <1>7, <1>8 DEF MixInv

\* A temporary file is new, and empty.
LEMMA MixTemporary ==
  ASSUME MixInv, LockInv', NEW u \in Uploads, PostTemporary(u)
  PROVE  MixInv'
<1>0. TypeOK /\ upload[u] \in Upload
  BY DEF MixInv, LockInv, TypeOK, Types
<1>1. /\ upload'[u].pc = "write" /\ upload'[u].way = "__upload" /\ upload'[u].ino = count + 1
      /\ \A v \in Uploads \ {u} : upload'[v] = upload[v]
  BY <1>0 DEF PostTemporary, Become, IdleUpload, TypeOK, Types
<1>2. /\ UNCHANGED <<inode, data>> /\ count' = count + 1 /\ count \in Nat /\ count + 1 \in Inodes
      /\ upload[u].pc = "idle"
  BY <1>0, DistAssumption DEF PostTemporary, TypeOK, Types, store, Inodes
<1>3. \A g \in Files : inode[g] # count + 1
  BY <1>2 DEF MixInv, Numbered
<1>4. \A v \in Uploads :
        /\ Writing(v) => upload[v].ino \in 1..count /\ upload[v].ino # count + 1
        /\ upload[v].pc \in {"check", "open"} => upload[v].number # count + 1
  BY <1>2 DEF MixInv, Numbered, WritersApart
<1>5. Numbered' /\ OneName' /\ Unmixed'
  BY <1>1, <1>2 DEF MixInv, Numbered, OneName, Unmixed, Exists
<1>6. WritersApart'
  BY <1>1, <1>2, <1>4 DEF MixInv, WritersApart, Writing
<1>7. WritersHold'
  BY <1>1, <1>2, <1>3 DEF MixInv, WritersHold, Writing
<1>8. OwnPieces'
  <2>1. \A k \in Places : data[count + 1][k] = Nothing
    BY <1>2 DEF MixInv, OwnPieces, Empty
  <2>. QED BY <1>1, <1>2, <2>1 DEF MixInv, OwnPieces, Inodes
<1>. QED BY <1>5, <1>6, <1>7, <1>8 DEF MixInv

\* A file gets the inode of one that no longer writes.
LEMMA MixRename ==
  ASSUME MixInv, LockInv', NEW u \in Uploads, Rename(u)
  PROVE  MixInv'
<1>0. TypeOK /\ upload[u] \in Upload /\ upload[u].pc = "rename" /\ upload[u].way = "__upload"
  BY DEF MixInv, LockInv, TypeOK, Types, Rename
<1>. PICK f \in Files, i \in 1..count : f = upload[u].file /\ i = upload[u].ino
  BY <1>0 DEF MixInv, WritersApart, Writing, Upload
<1>1. /\ UNCHANGED <<data, count>> /\ upload'[u] = IdleUpload
      /\ \A v \in Uploads \ {u} : upload'[v] = upload[v]
  BY <1>0 DEF Rename, Done, Become, TypeOK, Types
<1>2. CASE UNCHANGED inode
  BY <1>1, <1>2, MixLeft
<1>3. CASE inode' = [inode EXCEPT ![f] = i]
  <2>1. inode'[f] = i /\ \A g \in Files : g # f => inode'[g] = inode[g]
    BY <1>0, <1>3 DEF TypeOK, Types
  <2>2. upload'[u].pc = "idle"
    BY <1>1 DEF IdleUpload
  <2>3. \A g \in Files : inode[g] # i
    BY <1>0 DEF MixInv, WritersHold, Writing
  <2>4. \A v \in Uploads \ {u} :
          /\ Writing(v) => upload[v].ino # i
          /\ upload[v].pc \in {"check", "open"} => upload[v].number # i
    BY <1>0 DEF MixInv, WritersApart, Writing
  <2>5. Numbered'
    BY <1>1, <2>1, <2>2, <2>4 DEF MixInv, Numbered
  <2>6. WritersApart' /\ OwnPieces' /\ Unmixed'
    BY <1>1, <2>2 DEF MixInv, WritersApart, OwnPieces, Unmixed, Writing
  <2>7. WritersHold'
    BY <1>1, <2>1, <2>2, <2>4 DEF MixInv, WritersHold, Writing
  <2>8. OneName'
    BY <2>1, <2>3 DEF MixInv, OneName, Exists
  <2>. QED BY <2>5, <2>6, <2>7, <2>8 DEF MixInv
<1>. QED BY <1>2, <1>3 DEF Rename

\* Every step of an upload keeps the writers apart ...
LEMMA MixUpload ==
  ASSUME MixInv, LockInv', NEW u \in Uploads, Uploading(u)
  PROVE  MixInv'
<1>0. TypeOK /\ upload[u] \in Upload
  BY DEF MixInv, LockInv, TypeOK, Types
<1>1. CASE Post(u)
  <2>1. /\ upload'[u].pc = "check" /\ upload'[u].number = count + 1 /\ upload'[u].way # "__upload"
        /\ \A v \in Uploads \ {u} : upload'[v] = upload[v]
    BY <1>0, <1>1 DEF Post, Become, IdleUpload, TypeOK, Types
  <2>2. UNCHANGED <<inode, data>> /\ count' = count + 1 /\ count \in Nat
    BY <1>0, <1>1 DEF Post, TypeOK, Types
  <2>3. Numbered'
    BY <2>1, <2>2 DEF MixInv, Numbered
  <2>4. WritersApart'
    BY <2>1, <2>2 DEF MixInv, WritersApart, Writing
  <2>5. WritersHold' /\ OneName' /\ Unmixed'
    BY <2>1, <2>2 DEF MixInv, WritersHold, OneName, Unmixed, Writing, Exists
  <2>6. OwnPieces'
    BY <2>1, <2>2 DEF MixInv, OwnPieces, Inodes
  <2>. QED BY <2>3, <2>4, <2>5, <2>6 DEF MixInv
<1>2. CASE PostBusy(u)
  BY <1>2
     DEF PostBusy, vars, store, MixInv, Numbered, WritersApart, WritersHold, OneName, OwnPieces,
         Unmixed, Writing, Exists
<1>3. CASE Check(u)
  <2>1. CASE Conflict(u)
    BY <1>0, <1>3, <2>1, MixLeft DEF Check, Done, Become, TypeOK, Types
  <2>2. CASE ~Conflict(u)
    <3>1. /\ upload' = [upload EXCEPT ![u] = [upload[u] EXCEPT !.pc = "open"]]
          /\ upload[u].pc = "check" /\ UNCHANGED <<inode, data, count>>
      BY <1>3, <2>2 DEF Check, Goto, Become
    <3>2. /\ upload'[u].pc = "open" /\ upload'[u].number = upload[u].number
          /\ upload'[u].way = upload[u].way
          /\ \A v \in Uploads \ {u} : upload'[v] = upload[v]
      BY <1>0, <3>1 DEF TypeOK, Types, Upload
    <3>3. Numbered' /\ WritersApart'
      BY <3>1, <3>2 DEF MixInv, Numbered, WritersApart, Writing
    <3>4. WritersHold' /\ OneName' /\ OwnPieces' /\ Unmixed'
      BY <3>1, <3>2 DEF MixInv, WritersHold, OneName, OwnPieces, Unmixed, Writing, Exists
    <3>. QED BY <3>3, <3>4 DEF MixInv
  <2>. QED BY <2>1, <2>2
<1>4. CASE Open(u)
  BY <1>4, MixOpen
<1>5. CASE NoFile(u) \/ Break(u)
  BY <1>0, <1>5, MixLeft DEF NoFile, Break, Done, Become, TypeOK, Types
<1>6. CASE PostTemporary(u)
  BY <1>6, MixTemporary
<1>7. CASE Write(u)
  BY <1>7, MixWrite
<1>8. CASE Finish(u)
  <2>1. CASE upload[u].way = "__upload"
    <3>1. /\ upload' = [upload EXCEPT ![u] = [upload[u] EXCEPT !.pc = "rename"]]
          /\ upload[u].pc = "write" /\ UNCHANGED <<inode, data, count>>
      BY <1>8, <2>1 DEF Finish, Goto, Become
    <3>2. /\ upload'[u].pc = "rename" /\ upload'[u].way = upload[u].way
          /\ upload'[u].file = upload[u].file /\ upload'[u].ino = upload[u].ino
          /\ \A v \in Uploads \ {u} : upload'[v] = upload[v]
      BY <1>0, <3>1 DEF TypeOK, Types, Upload
    <3>3. Numbered' /\ WritersApart'
      BY <3>1, <3>2 DEF MixInv, Numbered, WritersApart, Writing
    <3>4. WritersHold' /\ OneName' /\ OwnPieces' /\ Unmixed'
      BY <3>1, <3>2 DEF MixInv, WritersHold, OneName, OwnPieces, Unmixed, Writing, Exists
    <3>. QED BY <3>3, <3>4 DEF MixInv
  <2>2. CASE upload[u].way # "__upload"
    BY <1>0, <1>8, <2>2, MixLeft DEF Finish, Done, Become, TypeOK, Types
  <2>. QED BY <2>1, <2>2
<1>9. CASE Rename(u)
  BY <1>9, MixRename
<1>. QED BY <1>1, <1>2, <1>3, <1>4, <1>5, <1>6, <1>7, <1>8, <1>9 DEF Uploading

\* ... and so does any other.
LEMMA MixStep ==
  ASSUME MixInv, [Next]_vars
  PROVE  MixInv'
<1>1. LockInv'
  BY LockStep DEF MixInv
<1>2. ASSUME NEW d \in Downloads, Downloading(d) PROVE UNCHANGED <<inode, data, upload, count>>
  BY <1>2 DEF Downloading, Get, OpenInput, Send, Close, store
<1>3. CASE UNCHANGED <<inode, data, upload, count>>
  BY <1>1, <1>3
     DEF MixInv, Numbered, WritersApart, WritersHold, OneName, OwnPieces, Unmixed, Writing, Exists
<1>4. CASE Crash
  <2>1. UNCHANGED <<inode, data, count>> /\ \A u \in Uploads : upload'[u].pc = "idle"
    BY <1>4 DEF Crash, IdleUpload
  <2>. QED BY <1>1, <2>1
           DEF MixInv, Numbered, WritersApart, WritersHold, OneName, OwnPieces, Unmixed, Writing,
               Exists
<1>5. UNCHANGED vars => UNCHANGED <<inode, data, upload, count>>
  BY DEF vars, store
<1>6. ASSUME NEW f \in Files, Look(f) PROVE UNCHANGED <<inode, data, upload, count>>
  BY <1>6 DEF Look, store
<1>7. ASSUME NEW f \in Files, Delete(f), UNCHANGED inode
      PROVE  UNCHANGED <<inode, data, upload, count>>
  BY <1>7 DEF Delete
<1>8. ASSUME NEW f \in Files, Delete(f), inode' # inode PROVE MixInv'
  <2>1. /\ UNCHANGED <<data, upload, count>> /\ inode'[f] = NoInode
        /\ \A g \in Files : g # f => inode'[g] = inode[g]
    BY <1>8 DEF Delete, MixInv, LockInv, TypeOK, Types
  <2>2. /\ count \in Nat /\ \A u \in Uploads : Writing(u) => upload[u].ino # NoInode
        /\ \A u \in Uploads : upload[u].pc \in {"check", "open"} => upload[u].number # NoInode
    BY DEF MixInv, Numbered, WritersApart, LockInv, TypeOK, Types, NoInode
  <2>3. Numbered'
    BY <2>1, <2>2 DEF MixInv, Numbered, NoInode
  <2>4. WritersApart' /\ OwnPieces' /\ Unmixed'
    BY <2>1 DEF MixInv, WritersApart, OwnPieces, Unmixed, Writing
  <2>5. WritersHold' /\ OneName'
    BY <2>1, <2>2 DEF MixInv, WritersHold, OneName, Writing, Exists
  <2>. QED BY <1>1, <2>3, <2>4, <2>5 DEF MixInv
<1>. QED BY <1>1, <1>2, <1>3, <1>4, <1>5, <1>6, <1>7, <1>8, MixUpload DEF Next

\* Whatever way the uploads come, two of them never mix in one file, at whatever point either
\* breaks off and however often the service stops.
THEOREM NeverMixed == Spec => []Unmixed
<1>1. MixInv => Unmixed
  BY DEF MixInv
<1>. QED BY <1>1, MixInit, MixStep, PTL DEF Spec
=============================================================================
