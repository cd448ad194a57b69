# Verification of weforward-devops

weforward-devops is a console that deploys Java services and static sites: it
keeps a register of organizations, machines, projects and running instances,
upgrades and rolls back the instances on docker daemons or over ssh/http agents,
hands out the packages they are built from, and collects their logs, metrics and
alarms.  This directory holds TLA+ modules of the parts where order matters,
the TLC configurations that check them on small instances, and theorems TLAPS
proves for every instance.

Paths below are relative to `src/src/main/java/cn/weforward/`.

## 1. Inventory

| Component | State it keeps | Operations | What is hard | What makes it correct |
|---|---|---|---|---|
| **Docker machine** `devops/project/impl/DockerMachine`, `ext/AbstractMachine`, `Envs`, `VersionInfo` | none of its own but a client; a monitor; the containers and images are the daemon's | `upgrade`, `rollback` (synchronized), `restart`, `start`, `stop`, `build`, `remove`, hourly `clear` | `wait(1000)` in the polling loops frees the monitor; each call of the daemon can fail, or succeed with its answer lost; container ids are kept across waits; name filters match substrings | one container of a project runs; the replaced one is kept for a rollback; nothing running is renamed or removed; every operation ends |
| **Docker client** `util/docker/*` | connection, version | one HTTP call each | answers that are not the success code; a stream that reports an error after a 200; parameters | each call does what its arguments say |
| **Operation task** `impl/SimpleOpTask`, `impl/ProjectDiImpl` | `m_Task`, `m_Status`; one shared `ProcessBuilder` for the script run at the end | constructor + `start`, `run`, `stop`, `progesser`, `taskCompleted`, hourly `clear` | a runtime exception skips the end of `run`; the script's environment is shared by all tasks | a task that ran is done; the script sees its own task |
| **Register of running instances** `impl/ProjectServiceImpl`, `impl/SimpleRunning`, `weforward/HomeMethods` | persisters of machines, projects and instances, written late; an asynchronous search index | `add`, `delete`, `setMachine`, `setProject`, properties, rights | checks against an index that lags, and that may fail to be written; machine deletion is not synchronized with adding; `update` skips the duplicate check | no two instances of one project on one machine; nothing refers to a deleted machine or project; no port assigned twice |
| **Java/Html projects, ports, rights** `impl/JavaProject`, `HtmlProject`, `ext/AbstractProject` | ports, group rights, owner | `setServerPorts`, `setRight`, `isAllow` | check-then-act on ports; inherited group rights | no port twice; rights follow the groups |
| **Proxy machine** `impl/ProxyMachine` | directories and a `latest` link on each of several hosts; a local directory per project and version | `upgrade`, `rollback`, `clear` over ssh or http | not synchronized; hosts fail one by one, or a `stat` fails and is read as "not there"; the local files are shared by all tasks; the clear removes directories a link may name | the link of every host names a complete version |
| **Package distribution** `dist/impl/DistServiceImpl` | a directory per project and version; a lock per file | `dist`, `upload`, `download`, listing; the daily clear of `DistConfig.distClear` | two uploads at once; an upload that breaks off; the second entry point takes no lock, nor does the clear | a released package is published once and stays as it is until it is cleared; a download is one upload's bytes |
| **Remote log** `rlog/impl/*` | an output stream per server with its offset; an index of entries | `write`, `getContent`, `destroy` | day change; unsynchronized offset | each indexed entry reads back as written |
| **Metrics and traces** `metrics/impl/*`, `metrics/ext/*` | per-minute counters in mongodb/influxdb, cached meters | `metrics`, `trace`, `search`, `clear` | bucketing, counter differences across restarts | totals neither lose nor invent invocations |
| **Users, roles, organizations, sessions** `devops/user/*` | sessions of the built-in user; the others are remote services | `login`, `logout`, `refreshAccess`, lookups in a chain of providers | expiry against refresh; first provider that answers | a refused session stays refused |
| **Alarms** `devops/alarm/*`, `weforward/AlarmerMethods`, `weforward/util/LimitHits` | alarms stored; a hit counter per text | `push`, `hitIfLess`, gc | a counter that never resets while it is hit | an alarm is raised once per interval |
| **RPC methods and views** `devops/weforward/*` | none | one method per page action | no check of tasks in progress | see the parts they call |
| **Nexus and log clearing** `util/nexus/*`, `util/FileClear*`, `RlogConfig` | none | keep the newest N components, the files of N days | sorting of versions | the newest are kept |
| **Site** `site/impl/*` | a cached config resource | serve a static file | – | – |
| **Configuration** `*Config.java`, resources, `bin/` | – | wiring, static assets, shell | – | – |

How they meet: an RPC method (`HomeMethods`) finds a `SimpleRunning` and calls
`upgrade`, `rollback`, `start`... on it; that creates a `SimpleOpTask`, which the
`TaskExecutor` runs on a thread of its own; the task calls the `Machine` of the
instance (`DockerMachine` or `ProxyMachine`), which talks to its daemon or hosts
and reports progress to the task; at the end `ProjectDiImpl.taskCompleted` runs a
script.  Independently, an hourly timer calls `clear` on the machine of every
instance.  The build of a docker image downloads the package from
`DistServiceImpl`.  Nothing keeps two tasks from working on one machine, or on
one instance, at the same time: the machine's monitor is all there is.

## 2. Plan

The modules, in the order of what can go most wrong:

1. `Docker`, `DockerMachine` (done): the containers of one machine under
   concurrent, failing operations; `DeploymentSlots` (done): the abstract promise.
2. `RunningRegistry` (done): the instances, machines and projects with the lagging
   index; `Placements` (done): the register as if requests were served one by one.
3. `DistService` (done): uploads and downloads of packages; `Releases` (done): a
   store in which a release is uploaded once, published whole, and stays until it is cleared.
4. `OpTask` (done): the life of a task, its end, and the script's shared environment.
5. `RemoteLog` (done): the streams of a server, their offsets and the index.
6. `ProxyMachine` (done): directories and links on several hosts, behind a shell that
   runs its commands late.
7. Ports of projects, `LimitHits`, sessions, group rights, metrics buckets, the order of
   versions: not done, see section 10.
8. The composition of `RunningRegistry` with the containers of `DockerMachine`:
   not done, see section 10.

Runs: one that passes per module, whose instance meets every action, and one for a
disagreement with the code's own words that is best shown by a trace.  Others are told
in the sections below.

Theorems: type correctness of every module; exclusion and one running container on the
machine; one instance per project and machine, no project lost, and the refinement of
`Placements`; sound locks and the refinement of `Releases`; the end of tasks and what a script is given; the log's reading
back; the versions the clear keeps.  Section 9 has them, and what is left to TLC.

## 3. The machine: `Docker`, `DockerMachine`

`Docker` is the daemon's table as `DockerClient` reaches it: `st`, `name`, `image`
per container id, `created` (ids are given in the order of creation, which is the
order `ps` lists them in), and the project images present.  Each operator is a call:
`StopContainer` is `POST /containers/{id}/stop`, which returns before a container has
stopped (`"stopping"`, still reported as running, until `Exit`); `RemoveContainer`
likewise leaves the container listed until `Vanish`.  The daemon is external; what
matters of it here is that names are unique, that its `name` filter accepts any name
that contains the given one (`FilterAccepts`, by the set `NameContains` of pairs of container
names: `web-old` is in `my-web-old`, and also in `web-old-api`, the current container of a
project of that name; `DockerMachine.filter` makes it exact where it is used), that `limit` counts from the newest, that it refuses to remove a
running container without `force`, and that starting a running one answers 304, which
the client takes for a failure.

`DockerMachine` has one `job` per task: where it is (`pc`), what it was asked
(`kind`, `proj`, `ver`) and the locals of the Java method (`cur`, the container of the
loop; `old`, the container a rollback found; `polls`, the iterations left).  `owner` is
the monitor.  A task stops before every call of the daemon, so between any two calls
any other step may happen, within what the monitor allows.

| Action | Code |
|---|---|
| `Submit` | `SimpleRunning.upgrade` ... create a `SimpleOpTask`, which queues itself |
| `Enter` | the task runs, takes the monitor for `upgrade`/`rollback`; out of memory ends it |
| `PrepareImage` | inspect the image, `build` it; a build that fails in its output passes |
| `FindOldest` | rollback: the first answer to `ps(1, name=cname-old)` |
| `Clean`, `Purge`, `AwaitCleared` | remove `cname-old` (upgrade) or `cname-bak` (rollback), poll until it is gone |
| `Find`, `Halt`, `Restart`, `Poll` | find the container of the project, stop (restart) it, poll until it has stopped (runs) |
| `Retire` | rename it to `cname-old` (upgrade) or `cname-bak` (rollback) |
| `Create`, `Swap`, `Launch` | create and start the new container; or rename the old one back and start it |
| `Discard` | `remove`: remove the stopped container, then do the same for `cname-old` |
| `Wake` | the end of `wait(1000)`: the monitor is taken again |
| `CallFails` | a call is refused or gets nowhere: the `catch` logs and ends the operation |
| `Lost` (in the calls) | the call took effect, its answer was lost: same end |
| `ClearImages` | the hourly clear deletes one image |

Left out: the 10 or 100 in `ps(10, ...)` (names are unique, so an exact filter leaves
one container at most), environment, binds and the rest of the container's definition,
progress messages, `InterruptedException` in the waits (nothing interrupts a task),
a container that exits or crashes by itself (restart policy `unless-stopped` starts it
again), and the versions' dates.

### Properties and runs

| Run | Instance | Shows |
|---|---|---|
| `monitor` | one project with a current and an old container, 3 tasks, 4 operations of upgrade, rollback and stop, 2 polls, all faults | `Exclusive`, `SingleInstance`, `BackupKept`, `RunningUntouched`, `ImplementsSlots` |
| `two_projects` | two projects with unrelated names, 2 versions, 3 operations of upgrade, rollback, remove and build, faults | the same across projects, and `NamedForItsImage` |
| `fair` | one project, 2 operations of every kind but build, faults, weak fairness of each task | `EveryOperationEnds`, and without fairness `EveryStepCounts` |
| `similar_names` | the name of `crm` ends with that of `web` (as `my-web` with `web`), no faults | counterexample to `RollbackNeedsOwnOld` |
| `force` | an upgrade, restart and upgrade, no faults | counterexample to `ForceRemoves` |

`SingleInstance` is about upgrade, rollback, stop, remove and build.  It does not hold
with `restart` and `start`, which do not hold the monitor: a restart that has found the
current container, and makes its call after an upgrade has renamed it, starts
`cname-old` beside the new container.  The code has no rule against that, so it is not
a finding by itself; run `force` starts from it.

`EveryStepCounts` is the half of `EveryOperationEnds` that needs no fairness: `Ahead` says how
many steps an operation has still to make at most, and each of them lowers it.

`ImplementsSlots` reads the table as places (`HolderOf`) and the running containers
(`RunningNow`) and says that every step is one of `DeploymentSlots`: New, Move within a
project, Run of the current container, End, Drop of one that does not run.  `Move` is
general because a rollback and an upgrade that meet in their waits do make moves
neither makes alone, a container set aside as `bak` becoming `old`.

**Bounds.**  `Tasks`: 3 are needed for one operation to hold the monitor while two
sleep.  `MaxOps`: 4 lets two operations race and two more meet what they left; 3 are
enough between projects.  `KillTime`: the number of polls, 360 by default; 1 or 2 let
each poll find the container running, stopping and stopped.  `BakPolls` stands for the
constant 5 in `rollback`.  `MaxContainers` is large enough that `Create` is never
refused by the bound.  `MaxVersion`: 2, one deployed and one newer.

**Fairness.**  `FairSpec` has weak fairness of each task's step: the executor runs a
queued task, an HTTP call returns or times out, `wait(1000)` ends.  A task waiting for
the monitor is enabled whenever it is free; the operations in progress are finite and
each gives the monitor up for good, so weak fairness is enough.  The daemon has none: a
container may be stopping for ever.

**Findings.**
- *Rollback takes another project's container.*  `rollback` does not filter the
  answer to `ps(1, name=cname-old)` by name (`DockerMachine.java:394-409`), so without
  an own old container it takes `my-web-old` for `web`, instead of ending with
  "回滚异常，没有old容器" (`:407`).
- *force is never sent.*  `DockerClient.remove` collects `v`, `force` and `link` and
  drops them (`DockerClient.java:837-868`, documented at `:833`).

A third one is in the model without a run of its own: `DockerClient.build` only forwards
the daemon's output, so a build that fails in it passes for done.  `DockerMachine.build`
logs "构建完成" (`:205`), and an upgrade takes the running container down before it finds
that there is no image.

What no property says, as the code does nothing about it: that a project keeps a current
container.  An upgrade that fails after its rename, or a rollback between its two, leaves it
without one until the next operation; a second upgrade that fails has removed the
`cname-old` that was the last container to work; and the hourly clear may delete the image
of a downgrade before `create`.  All these steps are in the model, `DeploymentSlots` allows
them, and `PROJECT.json` lists each as a hazard no property covers.

## 4. The register: `RunningRegistry`, `Placements`

The persisters of machines, projects and instances (`machines`, `projects`, `stored`,
`place`), what they have written of each instance (`written`), the search index (`entry`,
the keywords of each instance), the instances marked to be written and indexed again
(`dirty`), the service's monitor, and per thread the request it serves: its point, and the
machine, project and instance it looked up before.  Two histories are for the properties
alone: `moved` has the instances an `update` changed, `missed` those whose last indexing
failed.

| Action | Code |
|---|---|
| `Ask` (`AskAdd`, `AskMove`, `AskDelete`, `AskDeleteMachine`, `AskDeleteProject`) | `HomeMethods`: the request's lookups, outside any monitor |
| `Check`, `Create`, `Index` | `ProjectServiceImpl.addRunning`, synchronized: search for a twin; the constructor of `SimpleRunning` stores the instance, at once, then indexes it, which may fail |
| `SearchProject`, `RemoveProject` | `delete(Project)`, synchronized |
| `SearchMachine`, `RemoveMachine` | `delete(Machine)`, not synchronized |
| `RemoveContainers`, `RemoveInstance` | `SimpleRunning.delete`, then `delete(Running)` |
| `SetMachine`, `SetProject` | `update`: change the place, mark for writing |
| `Flush` | the persister writes a marked instance and indexes it, or fails to |
| `Stop` | the service stops and starts: requests and the monitor are gone, a move that was not written is undone |

`Index` and `Flush` fail when the project is gone (a null pointer), and may fail though it is
there: the keywords ask for the project's groups and organization, and the searcher is a
service of its own (`SimpleRunning.java:396-419`).  Either way the instance stays stored.  A
search may fail, too, and then the request is refused.

An instance whose project is gone has no rights for anybody, so it is not `Visible`;
searching among its twins fails with a null pointer, which `Refused` counts as a
refusal.  Index entries of deleted instances stay, and lead nowhere.  Left out: the
creation of machines and projects (it makes nothing false), the pages' searches,
properties, ports, and the change of a project's groups, which indexes its instances anew.

| Run | Instance | Shows |
|---|---|---|
| `registry` | 2 machines, 2 projects, 2 threads, 4 requests of all five kinds, one stop of the service | `NoAddedTwin`, `FoundWhereItIs`, `ProjectKept`, `ImplementsPlacements` |
| `registry_gone` | 1 project, 4 additions and deletions of machines and projects, no stop | counterexample to `InstancesPlaced` |

`Counted` are the instances the register can count on: stored, never moved, never missed by
the index.  `NoAddedTwin` and `ProjectKept` are about these, and no more can be said.  An
instance that is stored and not indexed is found by no search, so that the project can be
added to the machine a second time, and deleted although an instance of it runs; nothing in
the code repairs the index later.  `PROJECT.json` lists this as a hazard no property covers.

`Placements` is the register without threads, index and monitor: a new instance is
placed where its project has none, a project goes when it is placed nowhere, and both
look at what is, not at an index.  `PlacedNow` maps the register to it: an instance is
placed from the moment its constructor stores it, for as long as it is `Counted`;
`projects` and `added` are taken as they are, everything else is a stutter.
`ImplementsPlacements` then says that what a request found in its search is still so when it
acts.  What the code does not promise is left free there: machines are deleted at any time;
an instance may cease to count, by a deletion, an `update` (which checks nothing, and the
index has the old place for a while) or a failed indexing; and a project that is gone may
get instances from those who looked it up before.

Two threads show every race of a pair, and every check races with one other step only.
Four requests are an addition, its move or deletion and a race after that; one stop can
fall between any two steps.  Requests may be exchanged (symmetry); machines and projects are
not, `Idle` chooses one of each.

**Findings.**  A machine may be deleted while an
instance is added to it, since `delete(Machine)` takes no monitor; and `addRunning` uses
the project its caller looked up before the monitor (`HomeMethods.java:407`), which may
be deleted in between.  The instance then has no project, is in no index, and no request
can see or delete it.

A moved instance may become the twin of another, since the check of
`ProjectServiceImpl.java:219` is in `addRunning` only: hence the history `moved`.

## 5. The package store: `DistService`, `Releases`

A file is a name (`inode`) and what is written (`data`, pieces in order, per inode), so
that a file replaced by `renameTo` and one written in place are told apart: a download
keeps the inode it opened.  `locked` is `m_UploadLoack`; each upload and download thread
has a record of where it is; `aged` is the file the clear is about to delete.  `Ways[f]` says
by which entry points a file is uploaded, which the service leaves to its clients; a `Verified` file is one that is no snapshot and
in a project of `m_VersionVerify`.

| Action | Code |
|---|---|
| `Post`, `PostBusy` | `dist`: `putIfAbsent` of the lock, or 406 |
| `Check` | `release`, no snapshot, `needVerifyVersion`, and the file exists: 409 |
| `Open`, `NoFile`, `Write`, `Finish` | `WebFileUpload` (external) writes the file part straight into the file; a stream without one ends in 400; the `finally` gives up the lock |
| `PostTemporary`, `Rename` | `upload` to `__upload`: a temporary file, renamed without lock or check; the result of `renameTo` is ignored |
| `Break` | the stream breaks off anywhere |
| `Get`, `OpenInput`, `Send`, `Close` | `download`, `outFile`: the file or one beside it with the same suffix; opened, its size asked, sent up to that size, or less: the result of `transferTo` is not looked at |
| `Look`, `Delete` | `DistConfig.distClear`, `FileClearOnTime`: asks when a file was written, then deletes it, without any lock |
| `Crash` | the service stops: threads and locks are lost, files stay |

Time is not modelled: the clear may find any file too old but one that is being written at
that moment (`Old`).  A deletion follows the look at any later point; by then a snapshot may
have been uploaded anew.

Left out: access rights, headers, listings, the tool's own downloads, and directories.

| Run | Instance | Shows |
|---|---|---|
| `dist` | a release uploaded through `/dist/`, a snapshot beside it uploaded in all three ways, 2 pieces, 2 uploading and 1 downloading thread, 3 uploads | `LockSound`, `Unmixed`, `ReleaseSent`, `ImplementsReleases` |
| `dist_overwritten` | a release uploaded through `__upload` too | counterexample to `ReleaseKept` |

Two pieces make a part differ from the whole; two uploads race while the third comes
after; two packages make a mix visible.

`ImplementsReleases`: read `release[f]` as nothing, a part, or the package of a file that is
whole.  Then every step begins one release that is not there, publishes one that was begun,
clears one, or changes nothing.  So a release is uploaded once: what is there, be it whole or
the part of an upload that broke off, is not written again until it is cleared.

`ReleaseSent`: a download that began when the release was whole sends pieces of that release,
though the clear deletes it and another one is uploaded in its place meanwhile, since the
inode is its own.

**Findings.**  `/upload/` and `__upload` overwrite a release (`:84` says only snapshots
may be).

An upload that breaks off leaves a part of the file in its place, so the next attempt
is refused with 409 "不能覆盖正式版本" (`:301`), though there is no release yet, and the
part is what a download gets, until the clear removes it: `Check` looks for the file, not for
a whole one.  `Releases` has this as it is, a `Part` that stays.

## 6. Operation tasks: `OpTask`

A task from the request that makes it to the script run at its end: `task` (where its
thread is, `handle` for `m_Task # null`, `lock` for the monitor `start` holds), what the
persister has written (`stored`), the `ProcessBuilder` that all tasks share (`pb`, and for
each builder whose values its environment has, `env`), what each script was started with,
and the page that polls the task.  The operation on the machine itself is one step,
`Finish`: it is `DockerMachine`'s or `ProxyMachine`'s.

| Action | Code |
|---|---|
| `Create`, `Start` | the constructor of `SimpleOpTask` marks the task for the persister and calls `start`, which gives it to the executor before it sets `m_Task`, inside the task's monitor |
| `Look` | `run` finds the instance, once to three times; one that was deleted is a null pointer nobody catches |
| `Finish`, `Clear` | the machine's method returns, or ends by an exception of its own, and then so does `run`; `m_Task = null` inside the monitor |
| `TakeBuilder` ... `PutInstance`, `Exec`, `ExecFails` | `ProjectDiImpl.taskCompleted`: the shared builder is made or taken; the action is put, the version if there is one, the instance's id if it is there, then what is found of its machine, project, groups and organization; the script is started |
| `Poll` | the page's timer; an answer that says the task is done clears it |
| `Delete`, `Flush` | the instance is deleted; the persister writes a marked task |
| `Crash` | threads and builder are lost; stored tasks come back without a thread, the others not at all |

`pc = "thrown"` is a task whose `run` an exception has ended: `m_Task` is never set to null,
`taskCompleted` is not called.  It is reached from `Look`, and from `Finish` by what a
machine's method does not catch: no client, no machine any more (`SimpleOpTask.java:140`,
`:143`), an answer that is not JSON.

`PutInstance` puts what `ProjectDiImpl.java:413-442` finds: `Findings` bounds the sets of names
an instance may have, and the history `found` remembers the one that was met.  A name that is
not found keeps the value an earlier task left in the environment.

Left out: the progress a task collects, `stop` (without a caller), what the page does
with a second click, which replaces its one timer, and an exception in the look-ups of
`taskCompleted`, after which there is no script.

Run `optask` has two tasks for one instance, one kind with a version that looks three
times and one without that looks twice, instances of which all is found or nothing, and a
crash: two tasks in `taskCompleted` at once are all its races, and one crash can fall between
any two steps.  Deadlock is not checked: all tasks may be over.  It shows

- `DoneMeansEnded`: `isDone` and a page that was told so are right, though `start` gives
  the task away before it sets `m_Task`: the monitor makes `Clear` wait for it.
- `ScriptOwn`: a script is told of ended tasks only, and, if no other was in `taskCompleted`
  meanwhile, of its own task's action, of its version if it has one, of its instance if that is
  there, and of its machine, project, groups and organization where it found them.  Else it
  may be told of another one's; and of a name it has not it passes on what an earlier
  task left, which the property allows.
- `TaskEnds`, `PageStops`, up to what the code does not do: a task whose `run` an exception has
  ended is never done, and its page polls on; and a task lost in a crash is polled as long as
  its page is open, since an error only shows a warning.  These are hazards without a property.

**Fairness.**  Weak, of a begun request, of a task's thread, and of its page's poll.  The
executor runs what it is given; that an operation ends is `EveryOperationEnds` of
`DockerMachine`; `taskCompleted` waits 10 s for the script; `Clear` needs a monitor that only
`Start` holds.  A poll is enabled from the end of its task on.  `Create`, `Delete`, `Flush`
and `Crash` have none.

## 7. The remote log: `RemoteLog`

One server's log: for each day a `file` (for each byte, the entry it is of), the streams
made (`outs`, each with the offset it counts), the cached one (`cache`), the entries of the
label of errors (`index`: day, offset and length), and per request thread the locals of
`write`, `Out.hit` and `Out.write`.  Nothing here is synchronized but the cache's map.
`overlapped` is history: the days written to while two requests were at the log, or on
which a write broke off.

| Action | Code |
|---|---|
| `Post` | `write` takes the day |
| `Get`, `Open`, `OpenFails`, `CloseOld`, `Put` | `Out.hit`: the cached stream if it is of the day, or a new one at the file's length, put in its place (`put`) or only if there is none (`putIfAbsent`) |
| `ReadOffset`, `AppendEntry`, `AppendFails`, `Break`, `Reread`, `Store` | `Out.write`: the offset, the bytes, then `offset = offset + bytes.length`, a read and a write |
| `AddSubject` | an entry that is an error is added to the index of its day |
| `Content` (an operator) | `getContent`: reads the range of the file of the label's day |
| `Destroy`, `Tick`, `Restart` | the cached stream is closed; external: a day passes, the service stops and starts |

Run `rlog`: two threads, entries of 1 and 2 bytes, 2 days, 3 entries, a restart.  Two threads show
each pair of steps; a third entry is read back after two overlapped; two lengths tell a
wrong offset from a right one; length 2 can break off.  Deadlock is not checked: the bound
on entries runs out.

- `ReadsBack`: an entry reads back as written if its day was not overlapped until it was
  indexed, whatever follows: a change of day, overlapping requests, a stop, a restart.
- `WithinFile`: even so, an offset is never past the end of its file.
- `OneStream`: the stream of the day before is closed.

What the histories leave open is what the code does: two requests that overlap may index
the same offset, or one may use the other's stream of another day, which `putIfAbsent`
returned, and label its entry with its own; two that change the day at once lose a stream
that is never closed.  A write that breaks off is not counted, so that every later entry of
the day reads back shifted, until a restart.

Left out: the lists of servers and labels, the page view of a whole log
(`RlogResultImpl`), decoding, timestamps, and the clearing of old files.

## 8. Pages on several hosts: `ProxyMachine`

`SshStategy` keeps on each host a directory for each version and the links `latest`, `old`
and `bak`.  `dir` says of each whether it is not there, in part or whole (`torn`: files of
it were removed while others were put); `link` where each link leads.  At first the versions up
to `Served` are there, as upgrades to one after the other leave them.  `task` is a task's
host and point; `todo` and `clear` are the hourly clear's.

sftp calls take effect at once (a `rename` replaces its target, as the posix-rename of
OpenSSH does: external).  A shell command does not: `exec` writes it and waits until the
output holds a prompt, which that of the login already satisfies, so a command may run
after the next sftp call, or never, if the sessions are closed first.  `shell` has the
commands written and not run yet; `Run` runs one.

A `stat` that fails is not told from one that finds nothing: every exception of it is caught
and read as "not there" (`ProxyMachine.java:332-337`, `:420-427`, `:444-451`), and the task
goes on.  So each action that looks at a link also has the branch in which it does not see
one that is there: no `rm` in `Free`, no rename in `Move` and `Restore`, the end in `Check`.

The files of an upgrade are pulled into a local directory of the project and the version
(`:673`), which every task of that version, on any machine, uses and writes anew while others
upload from it.  So a put may be of half a file, although the task is alone on its hosts: the
second disjunct of `Uploaded`.

| Action | Code |
|---|---|
| `Begin` | the task pulls its files and connects to every host, which changes none |
| `Upload`, `Uploaded` | make the version's directory, put the local files over those it has, whole or not |
| `Check` | a rollback looks for `old` |
| `Free`, `Move`, `Link`, `Restore` | `rmdirIfExists` of the spare link (shell), `renameIfExists` of `latest` to it, `lnIfExists` (shell); a rollback renames `old` to `latest` |
| `End` | the last host is done, or a call fails: disconnect |
| `StartClear`, `List`, `Remove`, `EndClear` | `clear`: per host the versions past the newest `MaxHistory`, removed by the shell |

Histories, for the properties alone: of a task that has been the only one at work since its
start (`alone`), the hosts where a link that is there was not seen (`blind`), and at each host
where `latest` is to lead (`goal`) and led before (`prev`); and per host the versions put over
what is served, by two at once, or from local files pulled again (`inPlace`).

Run `proxy`: two tasks, two hosts, two versions of which one is served before, a history of
one, 2 operations, one clear; 2.0 million states.  Two versions and a history of one are one
version that is kept and one that is not; two operations are an upgrade and a rollback, or any
two at once, and the version served before stands for the operations that came earlier.

- `ClearedOnlyOld`: a link leads to a removed version only if enough newer ones are there.
- `Reached`: the hosts a task has passed lead where it wanted, but for what the shell has
  still to do, for what the clear removed, and for the hosts where it did not see a link.
- `OldIsPrevious`: an `old` that is there after an upgrade that saw `latest` is the version
  before it.
- `PartOnlyInPlace`: what is served in part was put over what was served, by two tasks at
  once, or from local files that were pulled again.

What the code does besides: the clear does not look at links, so after a rollback it may
remove the version `latest` leads to; the next upgrade's `stat` takes the broken link for
none, `ln -s` fails on it, and "项目升级成功" (`ProxyMachine.java:735`) is reported while
the host keeps serving nothing.  A late `rm` removes the `old` just made, so the rollback
is refused.  A rollback whose `stat` of `old` fails at `:780` passes the host when `latest` has
been renamed away already, and reports success (`:782`): the host is left without `latest`.  An
upgrade whose `stat` of `latest` fails goes on to an `ln` that fails on the link there, and
reports success, too.  A task that fails at a host leaves those before on the new version, and
that host without `latest`, if it came to the rename.  And a version uploaded again is written
over the files served.  `PROJECT.json` has those no property covers as hazards with a note.

Left out: `HttpStrategy`, which posts the same commands to an agent on each host; queries.

## 9. What is proved

`DockerMachine_proofs`, for every set of tasks, projects and names, every number of
polls, containers and operations, with or without faults:

- `TypeCorrect`: `Spec => []TypeOK`.
- `MonitorExclusive`: `Spec => []Exclusive`.  Every step either keeps the holder of the
  monitor and takes no task inside, or releases it and leaves, or takes it when free
  (`MonitorKept`, `MonitorReleased`, `MonitorTaken`).
- `OneInstance`: if `Kinds` has neither `start` nor `restart`, `Spec => []SingleInstance`.
  The property is not inductive: it needs that names are unique (`NamesUnique`), that
  only a container under the name `cname` runs (`RunningIsCurrent`), and what a task
  relies on between two calls (`JobSound`): at `retire` its container has stopped, at
  `launch` it has the name of the project.  These facts survive the steps of other
  tasks because all the calls that rename, create or start are made inside the monitor
  (`AloneInMonitor`), and no other call starts or names a container (`Calm`).  The
  theorem holds for similar names too: the wrong container a rollback may take is
  stopped, and is given a name before it runs.
- `BackupStays`: if `Kinds` has neither `start`, `restart` nor `remove`,
  `Spec => []BackupKept`.  `BackupInv` says that an upgrade which has retired a container is
  at `create` or `launch`, so in the monitor, which whoever purges a backup needs too
  (`KeepsBackup`), and that the steps outside of the monitor leave a container alone that
  has stopped (`OutsideLeaves`).
- `StepsBounded`: `Spec => EveryStepCounts`, and `Ahead` is at most `MostSteps` and 0 at the end
  only.  From each point an operation goes to one with fewer steps ahead (`GoesOn`,
  `FewerAhead`); the polls make up for the loops.  With the fairness of the run, which is
  TLC's part, every operation ends.
- `RollbackOwnOld`: if no project's `cname-old` is part of the name of another's container, in
  whatever slot (`OldApart`), `Spec => RollbackNeedsOwnOld`: then the daemon's filter finds no
  more than `filter()` would.  That `web-old` is in `my-web-old` and in `web-old-api` breaks the
  assumption alike; run `similar_names` shows that it is needed.

`DeploymentSlots_proofs`, for the same, where no project's name contains another's
(`NamesApart`; run `similar_names` shows what happens where one does):

- `NamesStay`: `Spec => []NamedForItsImage`, for all kinds of operations.  By `OwnProject`,
  what a task holds between two calls is of its project as long as it is there, and since
  ids are not used again it never comes to stand for another's (`Keeps`).
- `RunningStay`: `Spec => RunningUntouched`, without `start` and `restart`.  A container is
  retired only when it has stopped (`RetireStopped`), and the one a rollback brings back
  does not run: if it ran it would have the name it is to get (`SwapStopped`).
- `SlotsImplemented`: `Spec => ImplementsSlots`, without `start` and `restart`.  Each step
  makes one change to the table of the daemon (`TableStep`), and that is one step of
  `DeploymentSlots` or none: `VanishDrops`, `ExitEnds`, `StartedRuns`, `RenamedMoves`,
  `MadeNew`, over the one holder a place has since names are unique (`HolderIs`).

`RunningRegistry_proofs`, for every number of machines, projects, threads and requests,
of all kinds:

- `TypeCorrect`; `SearchFinds`: `Spec => []FoundWhereItIs`.  An instance that is neither
  marked nor being created has exactly its keywords in the index, unless its last indexing
  failed, and is written as it is, so that a stop of the service changes nothing about it.
- `OnePerMachine`: `Spec => []NoAddedTwin`, and `ProjectsKept`: `Spec => ProjectKept`.
  Both rest on the monitor: while a request is between its check and its end nobody else
  creates an instance or removes a project, so what the search found still holds; and on
  the index being right for the instances that count, never moved and never missed.
  `ProjectsKept` covers those not in the index yet as well: the monitor is given up only when
  the index is written, or the indexing has failed, or the service stops, and then the
  instance counts no more.
- `PlacementsImplemented`: `Spec => ImplementsPlacements`.  `Create` is a `Place`, as the
  place found vacant under the monitor still is (`CreatePlaces`); `RemoveProject` is a
  `DropProject`, as nothing is left in the project (`RemoveDrops`, from `NoneLeft`); a
  deletion, a change of place, a failed indexing and a stop are a `Remove`, or nothing when
  the instance did not count before (`StepRemoves`, `StopRemoves`, `FlushNothing`); all others
  keep `PlacedNow` (`NothingPlaced`).

`DistService_proofs`, for every set of files, packages and threads, number of pieces and
of uploads:

- `TypeCorrect`, and `LocksSound`: `Spec => []LockSound`, whatever `Ways` is.
- `ReleasesImplemented`: if `Ways[f] = {"dist"}` for every verified `f`, then
  `Spec => ImplementsReleases`.  The invariant `StoreInv` adds to the locks that an
  upload past the check finds no release (`OpenAbsent`), that what it has written is in
  its file and nothing else (`InPlace`), and that no other name or upload has the inode
  of a release (`OwnInode`, `WritesApart`, `Numbered`), which the lock alone does not
  give: uploads to `__upload` hold none.  Only the last piece publishes (`StoreWrite`).  What the clear is about to delete is there,
  and nobody past the check is at it (`AgedIdle`), so that a deletion is a `Clear` and takes
  no file from an upload at work.  Run `dist_overwritten` shows that the assumption is needed.
  `ReleasesStay` gives `Spec => ReleaseKept`, a whole release stays as it is until it is
  deleted, from the same invariant and assumption.
- `NeverMixed`: `Spec => []Unmixed`, whatever `Ways` is.  `MixInv` has every writer at an
  inode of its own (`WritersApart`) that no file has but the one it locked (`WritersHold`),
  one name to an inode, and in what is written only pieces of its writer (`OwnPieces`).
- `SentAsPublished`: under the assumption of `ReleasesImplemented`, `Spec => []ReleaseSent`.
  By `SendInv`, a download that found a release whole has that inode and pieces of it.  The
  file may be cleared and uploaded anew meanwhile, but nobody writes to the inode again
  (`Frozen`, `FrozenStays`): an upload has one of a number of its own.

`OpTask_proofs`, for every set of tasks, instances and kinds, with or without a script, and
any number of crashes:

- `TypeCorrect`; `DoneCorrect`: `Spec => []DoneMeansEnded`.  The invariant `DoneInv` ties
  `handle`, `lock` and the point of a task's thread.
- `ScriptCorrect`: `Spec => []ScriptOwn`.  `ScriptInv` adds that what any environment has is
  of tasks in `taskCompleted` or past it, and that the builder of a task that met nobody
  has its values, of what it has and has found, from the point it put them (`OwnEnv`); each
  of the three puts changes these names and no others (`PutPuts`, `PutGoes`, `PutTask`).

`RemoteLog_proofs`, for every set of threads and lengths, and any number of days, entries and
restarts:

- `TypeCorrect`; `EntriesReadBack`: `Spec => []ReadsBack`.  `ReadInv` says that on a clean
  day at most one request is at the log (`Apart`), what it knows of the offset at each
  point (`Knows`), that the cached stream, if open and of a clean day, counts the length of
  its file (`CacheKnows`), and that what was indexed stands in the file, which only grows.
- `OneStreamOpen`: `Spec => []OneStream`, by `StreamInv`.
- `EntriesWithin`: `Spec => []WithinFile`, however requests overlap.  `WithinInv` counts the
  bytes of a stream's file: without those a thread has written and not yet counted, there
  are never fewer than the stream's offset says.  Entries are numbered (`Numbered`,
  `Fresh`), so that each thread's bytes are told apart (`OwnBytes`).

`ProxyMachine_proofs`, for every set of tasks, any number of hosts, versions and operations,
and any history kept:

- `TypeCorrect`; `NewestStay`: `Spec => []ClearedOnlyOld`.  The property is not inductive: a
  link may be made to a version that was removed since it was put.  `Kept` says of every
  version that the clear still has to remove, or tore, or that is gone but linked, held by a
  task, being put or named in a command to come (`Held`), that enough newer ones are there;
  removing one keeps that true of older ones, since all that is newer than the removed one
  is newer than they are.
- `PartsApart`: `Spec => []PartOnlyInPlace`.  By `PartInv`, a version that is there in part
  and was not put in place is neither linked, nor held by a task past its put, nor named in
  a command to come (`PartApart`): a put that leaves a part, of two tasks or of local files
  pulled again, is in place from then on (`PutWhole`, `LeavesPlace`), a task alone has nobody
  beside it (`Alone`), and no shell has a link for a host the task has yet to come to
  (`LinksBehind`).
- `HostsReached`: `Spec => []Reached`, and `OldStaysPrevious`: `Spec => []OldIsPrevious`, by
  `ReachInv`.  Who is alone after a step was so before, and made the step himself, unless the
  clear did (`AloneActs`): links and commands are his own.  A task's shell has only the `rm`
  of a spare link and the `ln` of its version (`ShellsOwn`).  Of the hosts behind a task it
  says where the links lead by what commands are left (`Leads`, `OldKept`, `Behind`), but for
  those where it did not see a link (`blind`), of the one it is at by its point (`Around`).  No version comes to a host but by an upload, so that
  what the clear took stays away (`DirStays`, `HasStays`), and what its list has is there
  until it comes to it (`Listed`).

Assumed: `DockerAssumption`, `MachineAssumption`, `RegistryAssumption`, `DistAssumption`,
`TaskAssumption`, `RemoteLogAssumption`, `ProxyMachineAssumption` (non-empty sets, natural
bounds, earlier containers with distinct names), which TLC evaluates in every run.

Only model-checked: liveness (`EveryOperationEnds`, `TaskEnds`, `PageStops`), which is out of the
prover's reach.

## 10. Not modelled

`PROJECT.json` has the state of each component.

- *Ports of projects*: one check and one assignment without a monitor.  Two requests at
  once take the same port; there is no property that holds to state.
- *Composition of the register with the containers*: nothing in the code relates them.  An
  instance that is moved, or deleted while its containers cannot be removed, leaves its
  container running on the old machine, and no part of the code promises otherwise.
- *Alarms, sessions*: one record and one time each.
- *Group rights, the order of versions, metrics*: functions of their input, on strings and
  on records an external database keeps.  `_BY_REVEISION` and the clear that uses it are in
  `ProxyMachine` as the order of numbers; that images of one number are not ordered by
  their time (`DockerMachine.java:1121`) is listed as a hazard.
- *Nexus and log clearing*: they delete what is past the newest from a repository, which is
  external, and log files past their age.  The same clear over the packages is in `DistService`.
- *Site, configuration, views, static assets, generated data objects*: no state of their
  own.  The scripts under `bin/site` are minified bundles of the console's pages and
  vendored widgets; the one behaviour of theirs that matters here, how a page polls a
  task, is `OpTask.Poll`.
- *The mongodb and influxdb drivers*: external.
