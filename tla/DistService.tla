----------------------------- MODULE DistService -----------------------------
(***************************************************************************)
(* Uploads and downloads of packages (DistServiceImpl).  Three ways lead   *)
(* to a file: POST /dist/ and POST /upload/ write into it, holding a lock  *)
(* per file; POST to __upload, of either, writes a temporary file and      *)
(* renames it, without a lock.  Only /dist/ refuses to overwrite a         *)
(* release.  A stream may break off at any point, and the service stop.    *)
(* A clear (FileClearOnTime) deletes the files that have become too old.   *)
(***************************************************************************)
EXTENDS Naturals, FiniteSets

CONSTANTS
    Files,                  \* paths org/group/project/tag/name
    Verified,               \* those of no snapshot, in a project to be verified
    Siblings,               \* the files of the same directory and suffix
    Packages,               \* what is uploaded
    Chunks,                 \* pieces a package is written and read in
    Ways,                   \* the ways each file is uploaded by
    Uploads, Downloads,     \* threads serving requests
    MaxUploads,             \* bound: uploads in one behaviour
    Nothing,                \* no file, nothing written
    Part                    \* a file that is not whole

AllWays == {"dist", "upload", "__upload"}

ASSUME DistAssumption ==
    /\ Files # {} /\ Packages # {}
    /\ Verified \subseteq Files
    /\ Siblings \in [Files -> SUBSET Files]
    /\ Chunks \in Nat \ {0} /\ MaxUploads \in Nat
    /\ Ways \in [Files -> SUBSET AllWays]
    /\ {Nothing, Part} \cap Packages = {} /\ Part # Nothing

VARIABLES
    inode,                  \* the inode of each file, 0 for no file
    data,                   \* what is written in each inode
    locked,                 \* m_UploadLoack
    upload, download,       \* what each thread is doing
    aged,                   \* the file the clear has found too old, and is about to delete
    count                   \* uploads so far; one that makes an inode gives it its number

store == <<inode, data, locked>>
vars == <<store, upload, download, aged, count>>

NoInode == 0
Inodes == 1..MaxUploads
Places == 1..Chunks
Content == [Places -> Packages \union {Nothing}]
Empty == [k \in Places |-> Nothing]

Upload == [pc: {"idle", "check", "open", "write", "rename"}, way: AllWays, file: Files,
           package: Packages, ino: Inodes \union {NoInode}, number: 0..MaxUploads, done: 0..Chunks]
Download == [pc: {"idle", "open", "send", "sent"}, file: Files, ino: Inodes \union {NoInode},
             size: 0..Chunks, got: Content]

AFile == CHOOSE f \in Files : TRUE
IdleUpload == [pc |-> "idle", way |-> "dist", file |-> AFile, package |-> CHOOSE p \in Packages : TRUE,
               ino |-> NoInode, number |-> 0, done |-> 0]
IdleDownload == [pc |-> "idle", file |-> AFile, ino |-> NoInode, size |-> 0, got |-> Empty]

-----------------------------------------------------------------------------
Exists(f) == inode[f] # NoInode

\* How much there is of a file, or has been sent: pieces are written and sent in order.
Length(c) == Cardinality({k \in Places : c[k] # Nothing})

Become(u, q) == upload' = [upload EXCEPT ![u] = q]
Goto(u, l) == Become(u, [upload[u] EXCEPT !.pc = l])
Done(u) == Become(u, IdleUpload)

\* The finally clause: only those that took the lock release it.
Unlocked(u) == IF upload[u].way = "__upload" THEN locked ELSE locked \ {upload[u].file}

-----------------------------------------------------------------------------
(* Uploads *)

\* putIfAbsent takes the lock of the file.
Post(u) ==
    /\ upload[u].pc = "idle" /\ count < MaxUploads
    /\ \E w \in AllWays \ {"__upload"}, f \in Files \ locked, p \in Packages :
         /\ w \in Ways[f]
         /\ locked' = locked \union {f}
         /\ Become(u, [IdleUpload EXCEPT !.pc = "check", !.way = w, !.file = f, !.package = p,
                                         !.number = count + 1])
    /\ count' = count + 1
    /\ UNCHANGED <<inode, data, download, aged>>

\* Slip: the try begins before putIfAbsent, and its finally clause removes the other's lock.
PostBusyUnlocks(u) ==
    /\ upload[u].pc = "idle"
    /\ \E f \in locked : locked' = locked \ {f}
    /\ UNCHANGED <<inode, data, upload, download, aged, count>>

\* "other user uploading": 406.
PostBusy(u) ==
    /\ upload[u].pc = "idle" /\ locked # {}
    /\ UNCHANGED vars

\* Slip: a release is not looked for.
CheckNothing(u) ==
    /\ upload[u].pc = "check"
    /\ Goto(u, "open") /\ UNCHANGED locked
    /\ UNCHANGED <<inode, data, download, aged, count>>

\* A release that exists is not overwritten: 409.
Conflict(u) == upload[u].way = "dist" /\ upload[u].file \in Verified /\ Exists(upload[u].file)

Check(u) ==
    /\ upload[u].pc = "check"
    /\ IF Conflict(u) THEN Done(u) /\ locked' = Unlocked(u) ELSE Goto(u, "open") /\ UNCHANGED locked
    /\ UNCHANGED <<inode, data, download, aged, count>>

\* The stream's file part begins: the file is created, or truncated.
Open(u) ==
    LET f == upload[u].file
        i == IF Exists(f) THEN inode[f] ELSE upload[u].number
    IN  /\ upload[u].pc = "open"
        /\ inode' = [inode EXCEPT ![f] = i]
        /\ data' = [data EXCEPT ![i] = Empty]
        /\ Become(u, [upload[u] EXCEPT !.pc = "write", !.ino = i])
        /\ UNCHANGED <<locked, download, aged, count>>

\* Or the stream has no file part: 400.
NoFile(u) ==
    /\ upload[u].pc = "open"
    /\ locked' = Unlocked(u)
    /\ Done(u)
    /\ UNCHANGED <<inode, data, download, aged, count>>

\* POST to __upload: a temporary file.
PostTemporary(u) ==
    /\ upload[u].pc = "idle" /\ count < MaxUploads
    /\ \E f \in Files, p \in Packages :
         /\ "__upload" \in Ways[f]
         /\ Become(u, [IdleUpload EXCEPT !.pc = "write", !.way = "__upload", !.file = f, !.package = p,
                                         !.ino = count + 1, !.number = count + 1])
    /\ count' = count + 1
    /\ UNCHANGED <<store, download, aged>>

\* Slip: the end of the stream is not noticed.
WriteOn(u) ==
    LET k == upload[u].done + 1 IN
    /\ upload[u].pc = "write"
    /\ data' = [data EXCEPT ![upload[u].ino][k] = upload[u].package]
    /\ Become(u, [upload[u] EXCEPT !.done = k])
    /\ UNCHANGED <<inode, locked, download, aged, count>>

Write(u) ==
    LET k == upload[u].done + 1 IN
    /\ upload[u].pc = "write" /\ upload[u].done < Chunks
    /\ data' = [data EXCEPT ![upload[u].ino][k] = upload[u].package]
    /\ Become(u, [upload[u] EXCEPT !.done = k])
    /\ UNCHANGED <<inode, locked, download, aged, count>>

\* The stream has been read to its end: 200, or the temporary file is renamed.
Finish(u) ==
    /\ upload[u].pc = "write" /\ upload[u].done = Chunks
    /\ IF upload[u].way = "__upload" THEN Goto(u, "rename") ELSE Done(u)
    /\ locked' = Unlocked(u)
    /\ UNCHANGED <<inode, data, download, aged, count>>

\* The result of renameTo is ignored.
Rename(u) ==
    /\ upload[u].pc = "rename"
    /\ \/ inode' = [inode EXCEPT ![upload[u].file] = upload[u].ino]
       \/ UNCHANGED inode
    /\ Done(u)
    /\ UNCHANGED <<data, locked, download, aged, count>>

\* Slip: without the finally clause.
BreakLocked(u) ==
    /\ upload[u].pc \in {"open", "write"}
    /\ Done(u)
    /\ UNCHANGED <<store, download, aged, count>>

\* The stream breaks off; what was written stays, but for a temporary file.
Break(u) ==
    /\ upload[u].pc \in {"open", "write"}
    /\ locked' = Unlocked(u)
    /\ Done(u)
    /\ UNCHANGED <<inode, data, download, aged, count>>

-----------------------------------------------------------------------------
(* Downloads *)

\* A file that is not there is replaced by one of the directory with its suffix, if any;
\* otherwise 404.
Get(d) ==
    /\ download[d].pc = "idle"
    /\ \E f \in Files : \E g \in IF Exists(f) THEN {f} ELSE Siblings[f] :
         /\ Exists(g)
         /\ download' = [download EXCEPT ![d] = [IdleDownload EXCEPT !.pc = "open", !.file = g]]
    /\ UNCHANGED <<store, upload, aged, count>>

\* The file is opened and its size asked for, unless it has gone since.
OpenInput(d) ==
    LET i == inode[download[d].file] IN
    /\ download[d].pc = "open"
    /\ download' = [download EXCEPT ![d] =
                     IF i = NoInode THEN IdleDownload
                     ELSE [@ EXCEPT !.pc = "send", !.ino = i, !.size = Length(data[i])]]
    /\ UNCHANGED <<store, upload, aged, count>>

\* transferTo sends the file as it is, up to that size or its end.  It may stop before: how much
\* it has sent is not looked at.
Send(d) ==
    LET k == Length(download[d].got) + 1
        more == k <= download[d].size /\ data[download[d].ino][k] # Nothing
    IN  /\ download[d].pc = "send"
        /\ \/ more /\ download' = [download EXCEPT ![d].got[k] = data[download[d].ino][k]]
           \/ download' = [download EXCEPT ![d].pc = "sent"]
        /\ UNCHANGED <<store, upload, aged, count>>

Close(d) ==
    /\ download[d].pc = "sent"
    /\ download' = [download EXCEPT ![d] = IdleDownload]
    /\ UNCHANGED <<store, upload, aged, count>>

-----------------------------------------------------------------------------
(* The daily clear *)

\* A file not written for maxHistory days: any may be, but one that is being written.
Old(f) == Exists(f) /\ \A u \in Uploads : upload[u].pc = "write" => upload[u].ino # inode[f]

\* The clear asks for the time a file was written ...
Look(f) ==
    /\ aged = {} /\ Old(f)
    /\ aged' = {f}
    /\ UNCHANGED <<store, upload, download, count>>

\* ... and deletes it, whatever it is by then, or fails to.  It takes no lock.
Delete(f) ==
    /\ f \in aged
    /\ \/ inode' = [inode EXCEPT ![f] = NoInode]
       \/ UNCHANGED inode
    /\ aged' = {}
    /\ UNCHANGED <<data, locked, upload, download, count>>

-----------------------------------------------------------------------------
\* The service stops: what is in memory is lost, the files stay.
Crash ==
    /\ locked' = {} /\ aged' = {}
    /\ upload' = [u \in Uploads |-> IdleUpload]
    /\ download' = [d \in Downloads |-> IdleDownload]
    /\ UNCHANGED <<inode, data, count>>

Init ==
    /\ inode = [f \in Files |-> NoInode] /\ data = [i \in Inodes |-> Empty]
    /\ locked = {} /\ aged = {} /\ count = 0
    /\ upload = [u \in Uploads |-> IdleUpload]
    /\ download = [d \in Downloads |-> IdleDownload]

Uploading(u) ==
    \/ Post(u) \/ PostBusy(u) \/ Check(u) \/ Open(u) \/ NoFile(u) \/ PostTemporary(u)
    \/ Write(u) \/ Finish(u) \/ Rename(u) \/ Break(u)

Downloading(d) == Get(d) \/ OpenInput(d) \/ Send(d) \/ Close(d)

Next ==
    \/ \E u \in Uploads : Uploading(u)
    \/ \E d \in Downloads : Downloading(d)
    \/ \E f \in Files : Look(f) \/ Delete(f)
    \/ Crash

Spec == Init /\ [][Next]_vars

-----------------------------------------------------------------------------
(* Properties *)

\* The pieces there are come from one package.
OfOne(c) == \A k, l \in Places : c[k] # Nothing /\ c[l] # Nothing => c[k] = c[l]

Whole(f) == Exists(f) /\ \A k \in Places : data[inode[f]][k] # Nothing

Contents(f) == data[inode[f]]

Types ==
    /\ inode \in [Files -> Inodes \union {NoInode}]
    /\ data \in [Inodes -> Content]
    /\ locked \subseteq Files
    /\ upload \in [Uploads -> Upload]
    /\ download \in [Downloads -> Download]
    /\ aged \subseteq Files
    /\ count \in 0..MaxUploads

Handles ==
    /\ \A u \in Uploads :
         /\ upload[u].pc # "idle" => upload[u].number # 0
         /\ upload[u].pc \in {"write", "rename"} => upload[u].ino # NoInode
    /\ \A d \in Downloads : download[d].pc \in {"send", "sent"} => download[d].ino # NoInode

\* Every variable has its type, and threads at work have the inode they need.
TypeOK == Types /\ Handles

Holding(u) == upload[u].pc # "idle" /\ upload[u].way # "__upload"

\* An upload that took the lock of a file is the only one at it, and no file stays locked
\* that nobody uploads, whatever breaks off.
LockSound ==
    /\ locked = {upload[u].file : u \in {v \in Uploads : Holding(v)}}
    /\ \A u, v \in Uploads : Holding(u) /\ Holding(v) /\ upload[u].file = upload[v].file => u = v

\* Two uploads never mix in one file, at whatever point either breaks off.
Unmixed == \A i \in Inodes : OfOne(data[i])

\* The releases, as long as they are uploaded through /dist/, are what Releases promises.
Published == [f \in Verified |-> IF ~Exists(f) THEN Nothing
                                ELSE IF Whole(f) THEN Contents(f)[1] ELSE Part]
ReleaseStore == INSTANCE Releases WITH release <- Published
ImplementsReleases == ReleaseStore!Spec

\* What a download sends of a release that was whole when it began are pieces of that one
\* release, though it is cleared and another one uploaded in its place meanwhile.
ReleaseSent ==
    \A d \in Downloads, k \in Places :
      download[d].pc \in {"send", "sent"} /\ download[d].file \in Verified /\ download[d].size = Chunks
      => LET piece == data[download[d].ino][k]
         IN  piece # Nothing /\ download[d].got[k] \in {Nothing, piece}

\* "only snapshots may be overwritten" (DistServiceImpl.java:84): a release that is there
\* stays as it is, until the clear deletes it.
ReleaseKept ==
    [][\A f \in Verified : Whole(f) => ~Exists(f)' \/ (Whole(f)' /\ Contents(f)' = Contents(f))]_vars
=============================================================================
