# Formal model of the deployment control plane

This directory holds TLA+ specifications of the server in `src/` (Go), the
configurations that model-check them with TLC, and theorems about them that
TLAPS checks. File names below are relative to `src/` of the repository.

Run from this directory:

    tlc -config DeployWorker_local.cfg MCDeployWorker.tla     # one run
    tlc -config ServiceContracts_history.cfg MCServiceContracts.tla
    tlapm DeployWorkerProofs.tla                              # proofs
    tlapm DeployWorkerSafetyProofs.tla
    tlapm DeployWorkerPackageProofs.tla
    tlapm ReleasePipelineProofs.tla
    tlapm ServiceContractsProofs.tla
    tlapm SelfUpgradeProofs.tla
    tlapm ArtifactStorageProofs.tla
    tlapm PlacementProofs.tla

## 1. The system

A *control plane* is one Go process. It accepts release requests over HTTP,
packages a service from git, stores the package, and installs it: download,
tell the running project that it will be restarted, wait until the project is
ready, rsync the package over the project's runtime directory, restart it, ask
its `/health`. Several planes, on machines of different operating systems, may
share one Postgres database and therefore one queue. A plane also deploys
itself, helped by a second process, `acp-upgrader`.

| component | state | operations | talks to |
|---|---|---|---|
| deploy queue table (`store.go`) | `deploys` rows: state, tag, target machine, `artifact_platform`, `requested_at` | `createDeploy`, `QueuedDeploys`, `ClaimQueued` (conditional UPDATE), `RequeueDeploy`, `FinishDeploy`, `ListDeploysByState` | every plane |
| deploy worker (`worker.go`, `build_platform.go`, `remote_*.go`, `self_deploy.go`) | `ticking`, `active` (directory -> request), one goroutine per claimed deploy | `Start`, `Kick`, `tick`, `reserveUnit`/`releaseUnit`, `executeDeploy`, `reconcileOrphanDeploys` | table, drain, project's HTTP, ssh/rsync, upgrader's request file |
| graceful restart (`graceful.go`, `graceful_drain.go`, `/restart/*` in `server.go`) | `draining`, `restartID`; on the caller's side the unreachable streak and the deadline | `Notify`, `Clear`, poll handler, `waitForGracefulRestart` | both workers, both tables |
| pipeline worker (`pipeline_worker.go`, `pipeline_store.go`) | `pipelines` rows, `busy` | `deploy-notify`, `ClaimNextPipeline`, `execute`, `syncDeploying` | packaging, deploy queue |
| service contracts and history (`server.go`, `service_history.go`) | `services` rows; `service_id` of every other table | PUT, DELETE, `MoveServiceHistory` | read by both workers |
| start-up and shutdown (`main.go`) | process life cycle, pid file | listen, wait for `/health`, clear pauses, reconcile, start workers | all |
| upgrader (`upgrader/main.go`) | request files in a directory | take a request, stop, start, remove | one plane |
| packaging and storage (`release*.go`, `artifact_*.go`) | build trees, stored packages, `artifacts` rows | `packageFromGit`, upload, download | git, go, GitHub, Aliyun |
| machine catalog (`machine*.go`, `service_registry.go`, `registry_*.go`) | cached registry answers | list machines, resolve a target, announce | service registry |
| runtime directories (`runtime_dir.go`, `first_deploy.go`) | columns of `services` | choose a directory per platform | deploy worker |
| temporary work (`tempclean.go`) | directories under the temporary directory | sweep at start and by a janitor | packaging, deploys |
| process files and scripts (`pidfile.go`, `scripts/`, `ops/`) | pid files, pause flags | start, stop, watch | projects |
| read-only parts (`diagnose.go`, `deployment_inventory.go`, `*_events.go`, `history_filter.go`), MCP server, web panel | none of their own | reports | tables |
| database layer (`pgdb/`, `sqlite_import.go`) | one-off import | rewriting of placeholders | Postgres |

**What is hard here.** (1) Two planes scan the same queue, so only one UPDATE
decides who executes a row. (2) The tick works on a snapshot and on several
memory cells (drain flag, reservation map, contract) that change under it.
(3) A process may die between any two steps; the next start-up guesses from the
disk and from `/health` what became of the work. (4) The plane restarts itself
in the middle of its own deploy, and the goroutine that caused the drain must
release it on every path that does not end in a restart. (5) A row may go back
to the queue for another plane while other writers finish it. (6) HTTP handlers
read, decide and write in separate statements, next to workers that use the same
rows. (7) Which machine a name means, and what runs on it, is read from an
outside registry through a cache, anew at every check. (8) A stop script, two
start scripts, an upgrader and a remote plane act on one pid file and one port.
(9) A package passes through temporary directories and a store that is not
transactional. `PROJECT.json` lists each hazard at its line with the properties
that watch it.

**What makes each component correct.**

- Queue: a row is executed by at most one plane; a verdict is final; a queued
  row that some plane can execute gets a verdict.
- Deploy worker: a directory is rsynced and restarted by one deploy of a process
  at a time; binaries of another platform are not installed where a check can
  tell; a reported success means that the process that answers runs this package
  (unless it is one the stop left alive); a running row has somebody who will end
  it; reservations are released, and only by their owner.
- Graceful restart: a drain ends; the plane does not restart under work in
  flight; the restart and the queue do not wait on each other.
- Pipelines: packaged once, linked to one deploy, and given its verdict.
- Contracts and history: what was in flight when a handler counted is not moved
  or deleted under it; a move is whole; once the index exists ports are unique;
  graceful endpoints come in pairs; accepted work gets a verdict.
- Upgrader and scripts: a request is carried out, again if need be, or reported;
  after a stop nobody who listened still does, if lsof can tell who that was.
- Graceful wait: it ends, and early only if nobody answered three times in a row.
- Placement: a deploy lands on the machine that was named, in the directory for
  it, or nowhere.
- Storage: a queued deploy has a package; a crash leaves nothing for ever; a
  half-finished upload does not block the next.

## 2. Modules

| module | what it is |
|---|---|
| `DeployQueue` | the abstract promise of the `deploys` table |
| `DeployWorker` | the detailed model: tick, execution, drain, hand-off, crash, start-up, several planes |
| `MCDeployWorker` | request tables and layouts for TLC |
| `DeployWorkerProofs` | theorems about `DeployWorker`: types, one executor, refinement of `DeployQueue` |
| `DeployWorkerSafetyProofs` | theorems about `DeployWorker`: reservations, foreign binaries, drain, running rows |
| `DeployWorkerPackageProofs` | theorems about `DeployWorker`: a reported success runs its own package |
| `ReleasePipeline` | pipelines, the drain and the poll handler, on top of `DeployQueue` |
| `MCReleasePipeline` | the symmetry of the planes for TLC |
| `ReleasePipelineProofs` | theorems about `ReleasePipeline`: pipelines and their deploys, the drain, the use of `DeployQueue` |
| `ServiceContracts` | the `services` table and the history that hangs on it: handlers and starts against handlers and workers |
| `ServiceContractsProofs` | theorems about `ServiceContracts` |
| `SelfUpgrade` | how a plane is replaced: graceful wait, drain, request files, upgrader, stop and start scripts, start-up |
| `SelfUpgradeProofs` | theorems about `SelfUpgrade` |
| `MachineCatalog` | the registry and each plane's cached reading of it: operators and the steps of the environment |
| `Placement` | extends `MachineCatalog`: a release from the request to files in a directory, with every check on the way |
| `PlacementProofs` | theorems about `Placement` and the readings of `MachineCatalog` |
| `ArtifactStorage` | packages in the three stores, the index of where they are, temporary directories |
| `ArtifactStorageProofs` | theorems about `ArtifactStorage` |
| `MCServiceContracts`, `MCSelfUpgrade`, `MCPlacement`, `MCArtifactStorage` | their instances for TLC |

The modules meet at rows and packages. `DeployWorker` has the executing planes in
detail and takes target, labels and contract as given; `Placement` says where
these come from and lets an execution be one pass of checks; `ReleasePipeline`
uses the queue as `DeployQueue` promises it; `SelfUpgrade` opens what
`DeployWorker` has as two steps (hand-off, stop by the upgrader);
`ArtifactStorage` opens what `ReleasePipeline` has as one step (packaging);
`ServiceContracts` opens what `DeployWorker` has as one step (`PutContract`).

### DeployWorker: state

| variable | code |
|---|---|
| `row`, `platform`, `at` | `deploys.state`, `.artifact_platform`, `.requested_at` (a rank; the clocks of the planes are assumed to agree on the order) |
| `contract` | `services.runtime_dir` and `runtime_dirs`: a directory per service and platform |
| `status`, `kicked` | where `main` is: down, HTTP served, reconciling, ticker running; a `Kick` that arrived before the ticker |
| `draining` | `GracefulDrain`; its two fields are one value here |
| `orphans` | rows `reconcileOrphanDeploys` has listed and not yet closed |
| `upgradeReq` | the request file for `acp-upgrader` |
| `ticking`, `todo`, `picked`, `active` | `DeployWorker.ticking`, the rest of the snapshot with the platform column as it was read, the candidate between `reserveUnit` and `ClaimQueued`, `DeployWorker.active` |
| `phase`, `unit`, `site` | where the goroutine of a deploy is in `executeDeploy`, the reservation it holds, the directory it chose |
| `disk`, `live` | whose package lies in a directory of a host (`Torn` in the middle of an rsync, `Mixed` when two have met), and whose package the process started from it runs |
| `strays` | the rsync, stop and start commands that go on although the plane which ran them is dead |

`ServiceOf`, `TargetOf`, `VersionOf`, `TagPlat`, `StampPlat`, `PkgPlat` give each
request its immutable columns and its package: the platform in the tag, the one
in the column and the one the binaries really have are three different things in
the code, and so they are here; nothing is assumed of how they agree. `Visible`
are the packages in which `packageBinaries` sees the executables: it looks at
`bin/` and the root for single-architecture files with an exec bit.

### DeployWorker: actions

One action is one stretch of code between two points where another process can
be seen or can interfere.

| action | code |
|---|---|
| `Submit`, `PutContract` | `POST /api/deploys`, `PUT /api/services/:id`, at any moment |
| `TickStart`, `TickEnd`, `TickSkip`, `TickReserve` | `tick`: snapshot, drain check per candidate, platform filter, `reserveUnit` |
| `TickClaim`, `TickLost`, `TickFault` | the three outcomes of `ClaimQueued`; the last covers an UPDATE that was applied although the call returned an error |
| `LoadGone`, `LoadBounce`, `Load` | `executeDeploy` up to the download: row no longer running, or not readable; another platform's deploy handed back; contract, target and directory read |
| `Fetch`, `FetchBounce` | download and the guards on the package's binaries |
| `Notify`, `BeginPush`, `EndPush` | graceful notify, end of the wait and start of rsync, end of rsync with the VERSION stamp |
| `Handoff`, `UpgraderStop` | self-upgrade: request file, then the upgrader stops the process |
| `StopService`, `StartService`, `HealthPass` | the two halves of `runDeployRestart`, the health probe and the verdict; a stop may have no effect (`StopFaults`), and then the start ends `beside` the old process, which answers `/health` |
| `StrayRsync`, `StrayStop`, `StrayStart` | the end of a command whose plane is dead |
| `Fail`, `Exit` | every error return; the deferred `Clear` and `releaseUnit` |
| `Crash`, `Boot`, `ReconcileList`, `ReconcileOne`, `StartWorker` | death of a process, `main` |

Remote deploys: `Dest` is the host a deploy lands on. When the directory there
is the home of a plane, stopping the service kills that plane (`KillPlane`),
with everything it kept in memory. `runShell` starts every command in a process
group of its own and a stop signals only the server, so the commands go on
(`Outliving`), beside whatever the next process starts in the same directory.

With `DbFaults` any statement may fail: the claim's SELECT after its UPDATE, the
first read of an execution, the UPDATE of a verdict or hand-back (whose errors the
code discards), the listing of reconciliation.

### ReleasePipeline

`pipe`, `link` are the columns of `pipelines`; `row`, `worker` are the variables
of `DeployQueue`, whose actions `Submit`, `Claim`, `Finish`, `Abandon` are the
steps deploys take here, so that the module relies on what `DeployWorker` is
proved to implement and not on its detail. `origin` stands for the `deployment`
column: whose package the row installs. Per plane, `step`, `job`, `target` follow
`PipelineWorker.tick` and `execute` between two statements on the tables (`step`
other than idle is `busy`), `sync` is the verdict `syncDeploying` has read and
not yet written, `candidate` is the row the deploy tick is about to claim, past
its drain check.
`wait` follows the poll handler of a plane that restarts itself through its
three reads (`Poll`); a poll that finds something begins again, `Deadline` is the
deadline, `Restart` the hand-off to the upgrader. `Boot` and `Reconcile` are the
start-up, which lists and closes running deploys and does not look at pipelines.

### ServiceContracts

`contract` is `services` with the columns that an invariant ties together (port,
notify and poll endpoint) and the port that a row of an old version has only in its
URLs; `indexed` says whether `idx_services_port_unique` exists; `pstate`, `psvc`, `dstate`, `dsvc` the states
and `service_id`s of `pipelines` and `deploys`, `index` the keys of `artifacts`.
A client is one HTTP handler, or a start of the server next to others that serve
requests: `at` is where it is between two statements, `req`
what it remembers, `moving` the rows its open transaction has changed and so
locked. `held` is `job.ServiceID` in the memory of a pipeline worker, `ran` the
service whose contract an execution goes by. `seen` is the one variable without
code behind it: the rows a handler's count looked at and nobody else has moved
since. The properties need it because with three requests a row can be moved away
and back by two other moves, and is then no work the count has missed.

| action | code |
|---|---|
| `PutRead`, `PutPort`, `PutWrite` | `handlePutService`: `GetService`, registry, merge and pair check; `ServiceByPort`; `UpsertService`, under the unique index where there is one |
| `BootIndex`, `SeedRead`, `SeedWrite`, `BootList`, `NormalizeWrite`, `BootDone` | a start: `ensureServicePortUniqueIndex` (best effort), the seeds, `NormalizeServiceURLs` |
| `DeleteCount`, `DeleteRow` | `handleDeleteService` |
| `MoveCount`, `MovePipelines`, `MoveDeploys`, `MoveArtifacts`, `MoveCommit` | `handleMoveServiceHistory`: checks and count outside, then the statements of the transaction (READ COMMITTED) |
| `EnqueueCheck`, `PostDeploy`, `Notify` | `handleCreateDeploy`, `handleDeployNotify`: the contract is looked up, the row inserted later |
| `PipeClaim`, `PipeLoad`, `PipeFails`, `Packaged`, `Enqueue`, `PipeClose` | a pipeline from claim to verdict |
| `DeployClaim`, `DeployLoad`, `DeployEnd` | a deploy from claim to verdict |
| `Refuse` | any later error or conflict of a handler, with the rollback |

### SelfUpgrade

Deploys of a plane by itself (`Own`) and by another plane over ssh (`Foreign`).
`stage`, `streak`, `late` follow `executeDeploy` and `waitForGracefulRestartVia`;
`flag` and `id` are the two fields of `GracefulDrain`, written in separate steps;
`proc` holds one entry per server process ever started (boot, serving, working,
stopping, dead), `pidfile` the content of `deployment.pid`, `home` whose package
lies in the runtime directory; `file` a request file (pending, done, bad); `pc`
and `victim` where an actor is in `stop.sh` and `start.sh`. The upgrader and a
foreign deploy run the same scripts, each at its own pace.

| action | code |
|---|---|
| `Claim`, `Notify`, `NotifyId`, `NotifyFails`, `Poll`, `Deadline`, `Copy`, `Fail`, `ClearFlag`, `ClearId` | `executeDeploy` around the graceful wait; `Poll` is one round of the loop with its three outcomes |
| `HandOver` | `enqueueACPUpgrade` (tmp file and rename) |
| `RemoteRestart`, `RemoteRestarted`, `RemoteHealthy` | `runDeployRestart` on the plane's host |
| `PlatformStop` | `platformStopScript`: only the port identifies a plane |
| `StopByPidfile`, `Kill`, `StopByPort`, `KillListener` | `stop.sh` |
| `StartByPidfile`, `StartRefuses`, `Spawn`, `WritePidfile`, `StartLooks` | `start.sh` |
| `Boot`, `Reconcile`, `ShutDown` | `main`: pid file and port; reconciliation; SIGTERM |
| `Take`, `Reject`, `GiveUp`, `Activated` | `processOnce`, `handleRequest` |
| `UpgraderDies`, `UpgraderStarts` | death at any step, whose script goes on as an actor of its own (`Orphan`, ended by `OrphanEnds`); `upgrader-start.sh` |
| `StopLost` | a stop over ssh that does not arrive: the deploy goes on to its start |

Only `lsof` tells who has the port. The variable of that name never changes; a
host without the program skips every step by port, in `stop.sh`, `start.sh` and
the platform stop.

### MachineCatalog and Placement

`registered` is the registry's list of instances (service, host, optional name,
platform fields, runtime home), `answering` whether it answers, `cat[p]` the
reading plane `p` keeps and `fresh[p]` whether it is younger than the time to
live. Whatever is asked of the catalog starts with `Consult`, which reads again
when the cache is stale; a registry that does not answer leaves `Unanswered`.
`ScopeIDs`, `TargetForService`, `InstanceOS`, `Selectable`, `Reachable` are the
questions, as pure operators of a reading. `Channel` is the parsed
`DEPLOY_MACHINE_TARGETS` of each plane. A platform is one of the two systems and
four architectures the parsers know; what does not parse is read as absent.

In `Placement`, `job` is a row with what its executor has decided so far,
`dirs` the directories of a contract, `stored` the platform the bytes under a
tag really have, `probed` the cache of `platformResolver`.

| action | code |
|---|---|
| `Request`, `Admit` | `handleCreateDeploy` / `handleDeployNotify`: scope, default, channel, `runtimeDirReadyGate` |
| `PackClaim`, `PlatformFor`, `PackageLook`, `PackageUpload` | claim and `missingExplicitLinuxRuntimeDir`, `platformFor`, the existence check of `packageFromGit` with its skip and, minutes later, its upload |
| `Rebuild` | another pipeline of the same commit replaces the package under the plain tag |
| `Claim`, `ExecScope`, `ExecResolve`, `Fetch` | `claimable` and `ClaimQueued`; `ValidateForService`; channel, probe, directory and tag check; download and the guards on the binaries |
| `Register`, `Deregister`, `Outage`, `Expire`, `StartServing`, `StopServing`, `PutService` | registry clients, time, planes coming and going, operators |

### ArtifactStorage

`shelf` is the local store of each plane, part by part; `released` and `asset`
are GitHub's releases and their asset (or Aliyun's object); `row` is the access
path in `artifacts`; `wanted` the tags with a queued deploy; `build` and `deploy`
what a plane is doing; `temp` its temporary directories, whether a live job owns
them and whether they look an hour old. References to an asset are `Current` or
`Deleted`, because a deleted asset's id never comes back.

| action | code |
|---|---|
| `PackStart`, `Look`, `Build`, `PackBreaks`, `Record` | `packageFromGit` and `execute`: work tree, skip when present, staging, failure at any call, `RecordArtifact` and the deploy |
| `UploadLocal` | rsync into the final directory, one part per step |
| `UploadAliyun` | one POST that overwrites |
| `GetRelease`, `CreateRelease`, `DeleteAsset`, `PostAsset` | the calls of `uploadPackageToRelease` |
| `DeployStart`, `Fetch`, `Push` | `executeDeploy`: row, download, the copy after the wait |
| `Sweep`, `StartUpClean`, `Die`, `Boot`, `Age` | the janitor, the clean-up at start, crash, start, time |

### Abstractions

- A stop by SIGTERM is a kill: `stop.sh` sends SIGKILL two seconds later, and
  `worker.Stop` waits for deploys that usually take longer.
- `isSelfDeploy` compares paths of the contract; here it compares the chosen
  directory with the plane's home.
- In `DeployWorker` the poll loop of the graceful wait may end at any moment
  (ready, forced or unreachable); `SelfUpgrade` has the loop itself.
- A directory in the middle of an rsync is `Torn`, one in which two have met is
  `Mixed` until the next rsync: its VERSION file may be anyone's. An rsync of a
  dead plane may also come to nothing, since the next start removes the package
  from under it.
- Of the commands that outlive a plane only those are kept that touch a directory
  or a process: an rsync, and the stop or start it may have been waiting for.
- Handlers' validations keep requests well-formed; they are the assumptions on
  the constants. Nothing is assumed of the labels: a skipped build names a
  platform it has never looked at.
- In `DeployWorker` the upgrader acts on every request; its rejections, failures
  and deaths are in `SelfUpgrade`.
- In `SelfUpgrade` a server dies only by the scripts and by a lost port; deaths
  at any other moment are in `DeployWorker`. The loss of the ssh connection in a
  remote start, and a new server that dies for another reason right after its
  start, are left out. A poll that times out counts as unreachable, as in
  `isUnreachable`, so it may happen whether the server is up or not.
- In `ServiceContracts` an enqueue that passed its check inserts its row or is
  refused; the SQLite import runs before the first start.
- `LoadBounce`, `Load` and `DeployLoad` merge consecutive reads of one execution;
  `Request`, `PackClaim`, `ExecResolve` and the other steps of `Placement` merge the
  catalog questions that one stretch of a handler asks into one reading. `Admit` is
  one step for the channel and the directory check of a request, and a plane stops
  serving in `Placement` only when it has no job in hand.
- `Placement` and `ArtifactStorage` know one commit per job: tags differ by
  platform only, and a package has binaries of one platform.
- In `ArtifactStorage` a directory can always be removed (`removeAllForce` logs a
  failure and goes on), and a package is in a local store when its VERSION is:
  that is all `Exists` asks. `QueuedHasPackage` says there no more than that; what
  is missing behind a VERSION is the run `torn_package`.
- Left out: the `restart=` override of a channel, watchdog pause files, `.env`
  seeding, event texts.

## 3. Runs

All runs have `CHECK_DEADLOCK FALSE`: a bounded number of requests is submitted,
and when they are done the system really has nothing left to do.

| run | question | instance |
|---|---|---|
| `local` | Do the goroutines of a process use a directory one at a time, and does a reported success run its own package? | one plane, three deploys of two services in one directory, one crash whose commands go on, stops without effect, failing statements |
| `shared` | Do two planes implement the queue, are reservations held, and does a running row always have somebody who will end it? | two linux planes; one deploy goes over ssh into a plane's home and so kills it, whoever executes it and whatever that plane is at; the other one has a false column and visible foreign binaries, so that each plane takes it, hands it back, or claims it from a list made before the other one did; contracts are edited |
| `live` | Does everything settle, does no drain outlast its deploy, and do foreign binaries stop at a check? | a linux and a darwin plane; a self-deploy with a true tag and binaries nobody sees, and a deploy whose false column gives it to the wrong plane first, with visible binaries; no crash |
| `pipeline_tables` | Is a pipeline packaged once, tied to the deploy of its own package, and closed once? | two planes, two pipelines, a caller who takes a pipeline's id, one crash |
| `pipeline_drain` | Does more than one deploy slip past the drain check, do pipelines settle, and does the drain end without the deadline? | one plane that restarts itself while two pipelines and two posted deploys run |
| `history` | Do handlers and starts that look first and write later keep the contracts consistent, is a move whole, and does accepted work settle? | two services, one with a port and one whose port is still in its URL and taken; one pipeline, one posted deploy, two handlers or a handler and a start at once, three of them in all |
| `upgrade` | Is a plane replaced or the failure reported, and does every graceful wait end? | one own and one foreign deploy, the foreign package without a server, four processes; with lsof one death of the upgrader; without lsof either that death or the foreign deploy |
| `catalog` | Does a release land where it was told, in the right directory, or nowhere? | a mac and a linux plane, a linux machine over ssh, four possible instances (one that lies about its platform, one name on two hosts), two changes (of the registry, a contract or a stored package) |
| `storage` | Does a queued deploy find its package, is what a crash leaves removed, and does a store heal? | two planes, one tag, each of the three stores, one fault |

Bounds. Two planes are the smallest number with cross-plane races: every race
in the code is between a row and two writers. Three deploys on one plane give
an older one, a younger one and one that holds the directory. One crash is
enough to separate "died before" from "died after" at every step; the start-up
code keeps no memory of earlier crashes. In `shared` the plane that is deployed
to dies in the middle of its own work, and no other death is added: contract edits
are there, and both together pass the time a run may take. Planes of different
platforms that hand a deploy to each other are in `live` and `catalog`; foreign
binaries sent over ssh are left to the theorem of section 4. Faults of the database and of stops are in
`local`, where the properties hold with them; in `shared` and `live` they are off,
because there the properties do not (section 5). Two handlers are the smallest number
between which a count, a look-up or a read can go stale, and every handler
remembers one earlier state; three requests give a move against a move and an
enqueue, or a PUT between two starts. Two starts at once are left out (`Starter`).
In `upgrade`, a host with lsof sees the death of the upgrader and the other plane
together; without lsof each of them is looked at apart from the other (`Setting`),
to keep the run within minutes. Four server processes are the first one, one per replacement, and one
that loses the race for the port. In `catalog` two changes let a reading change
between any two of the checks, or the registry fall silent and answer again; one
job is enough because jobs meet only at the store, where an earlier release
left a darwin package under the plain tag (`Before`), which each plane reads as its
own. One fault in `storage` is one
failing call or crash at any step, on either plane; parts of a package are the
file that makes it count, one that is checked for and one that is not.

Fairness (`FairSpec`): weak fairness of each plane's tick (a one-second ticker
that never stops), of each deploy goroutine (every wait in it has a timeout),
of start-up (a supervisor restarts the process and `main` has no unbounded
wait), and of the upgrader's loop. Submissions, contract edits, crashes and the
commands that a dead plane has left are not fair. Weak fairness is enough because no step of one process is disabled
again and again by another. `Fail` belongs to the goroutine: an execution may
always fail, so liveness speaks of reaching a verdict, never of success.
In `ReleasePipeline` a deploy that waits for its own plane does not fail while it
polls, as in the code, and `Deadline` has no fairness of its own: `DrainBecomesReady`
also covers the behaviours in which the deadline never comes.
In `ServiceContracts` a handler that has begun ends and the workers go on; in
`SelfUpgrade` (where `WaitEnds` is stated as `[]<>`: no wait lasts for ever, whichever
stage of it is reached) goroutines, scripts and processes run, time passes, and an upgrader
that died is started again, which `upgrader-start.sh` does at every deploy of the
plane and the watchdog does at every round; own deploys are claimed because the
ticker never stops. `JobsSettle` speaks of behaviours in which all planes serve
from some moment on, since a deploy that only one plane can execute waits for it.
`StoreHeals` assumes that the release is asked for again and again (users or a
pipeline retry; weak fairness of `PackStart`) because a half-finished upload is
completed by the next one and by nothing else.
`live` has no crash: a plane that dies again and again settles nothing. It has
no remote control-plane target either: see the limits below.

### Disagreements between text and code

Each is a run that TLC is expected to find violated.

| run | text | what the code does |
|---|---|---|
| `reconcile_live` | start-up closes orphans "left running" | it closes every running row: other planes' work, and rows claimed by a `Kick` before reconciliation |
| `orphan_rsync` | worker.go:905: "the same unit never runs twice at once"; README.md:333: one directory is the unit of concurrency | the reservations are those of a process; the rsync of a killed one is in a process group of its own (worker.go:249) and goes on beside that of its successor. The start-up clean-up, which calls what a killed run left garbage (tempclean.go:80), takes the package from under it |
| `torn_package` | localStorage.Exists requires VERSION "so a partial/empty dir is not treated as present" | Upload copies into the final directory and VERSION early; what a failed upload leaves is taken for a package, and later pipelines skip their build |

## 4. Proofs

`DeployWorkerProofs` proves for all values of the constants, from the named
assumptions of `DeployWorker` only:

- `TypeCorrect`: `Spec => []TypeOK`, split in five parts so that each action
  touches the ones it changes.
- `OneExecutor`: `Spec => []ExclusiveExecution`. That property is not inductive:
  a claim tests the row, not the other planes. The strengthening `OneWorker`
  adds that a row that is absent or queued has no goroutine in a working phase
  anywhere. It is preserved because whoever puts a row back into the queue
  (`RequeueDeploy`) leaves its working phase in the same step and was, by the
  induction hypothesis, the only one; and because `FinishDeploy`, which has no
  guard, never writes `queued`.
- `ImplementsQueue`: `Spec => QueueSpec`, the refinement of `DeployQueue` under
  the mapping `worker[d]` = the plane whose goroutine works on `d`. The cases
  are: claims (`Claim`), hand-backs (`HandBack`), verdicts (`Finish`), and every
  other step either stutters or only takes workers away (`Abandon`).
- `VerdictIsFinal`: `Spec => NoResurrection`.

`ReleasePipelineProofs` proves, from `NameAssumption` and `BoundAssumption`:

- `PipelineTypes`: `Spec => []TypeOK`.
- `PackagedOnce` (`OnePackager`), `OwnPackage` (`WaitsForItsPackage`) and
  `ClosedInOrder` (`ClosedAfterDeploy`), each `Spec => [](...)`.
- `PipelineStaysClosed`: `Spec => PipelineVerdictIsFinal`.
- `AtMostOneSlipsPast` (`OneSlipsPast`), for any number of planes.
- `KeepsToTheQueue`: `Spec => Queue!Spec`. The release side moves deploys only by
  operations of `DeployQueue`, whose promise `DeployWorker` is proved to keep
  (`ImplementsQueue`).

None of the first four is inductive alone. The invariant `PInv` ties every worker to
its rows: who is past its claim owns a pipeline whose state says how far the
work is and which has no deploy yet (`JobIs`), two owners own different ones
(`Apart`), the deploy an owner has inserted exists and carries its package
(`TargetIs`), a linked deploy keeps doing so (`LinkIs`), and who is about to
close a pipeline has seen a verdict of its deploy, which no step takes back
(`SyncIs`). The point where the parts meet is `SyncWrite`, an UPDATE without a
guard: it is harmless because a pipeline with a deploy has no owner any more.
Steps that touch neither pipelines nor their workers are dealt with together in
`QuietKeeps`, from the one fact that the queue never takes a row away nor reopens it
(`RowsGrow`). All hand-backs are outside this module: with them, a verdict is
still final by `VerdictIsFinal` above.

`AtMostOneSlipsPast` rests on `DInv`. A plane that polls is up and drains for the
deploy that polls (`DrainIs`), which it executes. Past the drain check a plane has
at most one claim under way, its `candidate`; `Quiet` says that once the first read
of a poll has found nothing, what the plane executes besides its own deploy is at
most that claim, and that when the claim has been made no second one follows,
because the next scan sees the drain. `Calmer` is the fact every other step is
reduced to: it leaves the plane's drain alone and adds nothing to what it executes.
The property counts rows that are `running`: with several planes, the start-up of
another one may have closed a row under its executor (`reconcile_live`), and then
no poll sees that executor. Counted without regard to the row, the statement
holds for a single plane and fails for two.

`DeployWorkerSafetyProofs` proves, from all assumptions of `DeployWorker` (none of
which is about labels) and on top of `OneWorker`:

- `UnitIsHeld` (`UnitHeld`) and `SitesAreSerial` (`SiteSerial`),
- `ForeignBinariesKeptOut` (`ForeignBinariesStopped`),
- `DrainIsReleased`: `~StopFaults => (Spec => []SelfDrainReleased)`,
- `NoRowIsAbandoned`: `~DbFaults /\ ~StopFaults => (Spec => []RunningIsAccounted)`.

The conditions of the last two are what the code needs: a stop without effect
leaves a plane that has handed itself over draining for ever, and each of the
database errors that `executeDeploy` and `reconcileOrphanDeploys` return from, or
discard, leaves a running row to nobody.

The invariant is `SInv`. Its centre is a danger the code averts without saying so:
the goroutine of a deploy that was handed back still has its defers to run when
the row is queued again, and if its own plane took the row once more, two
goroutines of one deploy would share one reservation. `HandedBack` says why that
cannot be: a hand-back writes a platform that excludes the plane which wrote it,
true or not: the label that excluded it before the download, or what it has seen
in the package. `NotAgain` carries this over to snapshots, so a deploy that is
being executed is in its plane's snapshot only under a label the scan skips, and
`Reserved` follows: what is picked or executed holds its directory, and a release
drops no other's. `HandedOver` says that a deploy left to the upgrader has a
request waiting, which lasts until the process is stopped (`RequestLasts`);
`Drained` needs it for the one exit that does not lower the drain. `Checked` and
`Fits` say of the packages a check could have told that only those fitting the
destination get past it, and only those reach a directory, by an rsync that is
watched or by one that has outlived its plane, and from there a process.
`Accounted` follows a running row: its goroutine ends it, hands it back or hands it
over, and a start-up lists it before it opens the queue (`StartUpLasts`). Steps are
reduced first to what one plane sees of them (`StepIs`: nothing, its own tick, its
own goroutine, or its end) and to what a row sees (`RowIs`); each part is then
preserved by a lemma of its own.

`DeployWorkerPackageProofs` proves, on top of both:

- `OneWriterSuffices`: `Spec /\ []OneWriter => SucceededRunsPackage`,
- `ReservationsSuffice`: `OneWriterSite => (Spec => []OneWriter)`, and from the two
- `SuccessesRunTheirPackage`: `OneWriterSite => (Spec => SucceededRunsPackage)`.

`SucceededRunsPackage` says less than one would like, and exactly what the code
keeps. It excepts a start that met the process the stop had left alive (`beside`):
that process answers `/health` and the deploy is called a success. And it excepts
a directory that the rsync of a killed plane was mixed into. For the rest, a
reported success is one only because no other goroutine writes the directory between
the end of the rsync and the health check, and section 5 says that the code does
not always see to that. The first theorem assumes nothing about the site and says
that this is all it takes, with stops that fail and commands left by dead planes:
`PackageInPlace` keeps the package, or a mixture, on disk from "pushed" on, and what
runs there from a stop that worked is that or nothing, because a process is only
ever started from what the directory holds (`LiveIs`) and only an rsync changes that
(`DiskIs`); the boot of another plane, which starts itself from its home, a start
command left behind, and every crash are covered. `OneWriterSite` then names the
sites where the reservations keep the goroutines apart, in three conditions on the
constants: no contract is edited, a directory of a machine is deployed to by one
plane only, and deploys that share a directory on a machine share one on the
plane's own platform, by which `reserveUnit` keys. One plane that deploys locally
with fixed contracts is such a site (the instance of `local` is one), several
planes that each deploy locally are another; two planes that may take remote
deploys for one directory are not.

`ServiceContractsProofs` proves, from the named assumptions of `ServiceContracts`,
for any number of services, ports, requests, pipelines and deploys:

- `ContractTypes` (`TypeOK`), `ContractsAgree` (`ContractsConsistent`),
- `NoCountedWorkMoves` (`OnlyNewWorkIsCaught`) and `MovesAreWhole` (`MoveIsWhole`),
  both `[][...]_vars`.

The table may hold any ports at the start. `ContractsConsistent` alone is not
inductive: the unique index, once a start has found no clash and created it, keeps
the ports apart against PUTs, seeds and normalised rows alike, but the pair check is
made two statements before the row is written, so `RequestAt` says what a handler, or
a start with the rows it has listed, still knows when it writes. Without the index
nothing is claimed of ports: there the look-up of `ServiceByPort` is all there is,
and two PUTs get past it. The two action
properties need the rest. `CountAt`: rows that a count has seen and nobody has
taken since have their verdict, because verdicts last and `RowsOf` leaves no gap
between a pipeline and its deploy in which neither would count. `WholeAt`: they
are still the service's until a statement of the move takes them, stage by stage.
The case that matters is two handlers: a commit takes its rows out of what every
other handler has seen, and does nothing else to them. `LocksAt` keeps statements
to rows that exist.

`SelfUpgradeProofs` proves, from `NameAssumption` and `BoundAssumption`, for any
number of deploys, processes and deaths of the upgrader, with lsof and without:

- `UpgradeTypes` (`TypeOK`, with the one listener of a port),
- `PortIsFreed` (`StopFreesPort`), `WaitsAreNotCutShort` (`CutShortOnlyWhenDown`).

`StopFreesPort` speaks of everybody who listened when `stop.sh` began, while the
script kills two at most: the one in the pid file and the one it finds on the
port, if there is lsof to find it with. Without, the theorem promises the first one
only (`KillIs`). The two parts of the invariant that make this enough are `OneListener` (a
server binds the port only when nobody has it) and `Faced(a)` (whoever script `a`
found listening has bound the port once and for all, since processes only go
forward, so the listener it looks for by port is that process or a later one,
and in the second case the first is dead). `Counts` says that the streak of the
wait never runs ahead of the polls nobody answered.

`ArtifactStorageProofs` proves, from `StorageAssumption`, for any number of planes,
tags, parts and faults, and for each of the three stores:

- `StorageTypes` (`TypeOK`) and `PackageIsThere` (`QueuedHasPackage`).

A pipeline queues its deploy one step after the upload, so the invariant has to
say that the package is still there then: `StoredAt(p)` says so of every plane
that is about to record. It is kept because outside a GitHub release a store only
grows (`StoreKeeps`): a shelf gains parts, an object is overwritten and never
deleted. A local upload ends when as many parts are on the shelf as the package
has; that these are all parts, VERSION among them, needs `ShelvesOK` (a shelf
holds an initial stretch of the order in which rsync copies, whoever copied it) and
that this order names each part once, which `StorageAssumption` says. For GitHub
releases nothing of the kind holds, because an upload deletes the older asset first;
`AssetsOK` keeps an asset inside its release.

`PlacementProofs` proves, from `SiteAssumption`, `NoneAssumption`,
`OwnInstanceAssumption` and `JobAssumption`, for any registry contents, channels,
platforms, jobs and number of planes:

- `PlacementTypes` (`TypeOK`), `LandsThereOrNowhere` (`LandsWhereTold`),
- `OutageUnbindsNothing` (`BoundStaysDeployable`),
- `KeepsToTheQueue`: `Spec => Queue!Spec`, with the jobs that have a deploy as the
  rows of `DeployQueue` and their planes as its workers. A job that is refused, or
  whose pipeline fails, never had one (`NoDeployYet`); that a failed job without a
  plane never had a deploy is the invariant `Unclaimed`. `DeployWorker`,
  `ReleasePipeline` and `Placement` thus agree on one queue.

A reading may be stale, but not arbitrary: `Sound` says that what it has under a
machine is an instance that this plane gives that name, and that a reading which
was answered has seen every instance nobody takes out of the registry (`FixedSeen`;
`ReadIs` proves it of the loop over the list, whichever instance comes last). From
`Sound` alone follows that every channel `TargetForService` can return ends at a
host the named machine stands for (`TargetIs`), and that a machine which is always
bound and has a channel is never out of scope (`PinnedInScope`). The rows do the
rest: `RowOK` keeps the machine that was asked for, `SiteOK` holds from the checks
to the landing because no later step chooses again. The assumptions say how a site is configured:
a plane reaches itself as "local", a channel that is not remote is the plane
itself, machines run one of the known platforms, and nobody relies on a plane's own
instance to stay registered, since it is withdrawn at every stop.

Only model-checked: every safety property that a passing run checks is stated by a
theorem: `SucceededRunsPackage` under `OneWriterSite`, `SelfDrainReleased` and
`RunningIsAccounted` without the faults named above. Liveness under fairness (`QueuedSettles`,
`RunningSettles`, `DrainEnds`, `PipelineSettles`, `DrainBecomesReady`,
`WorkSettles`, `WaitEnds`, `HandedOverSettles`, `JobsSettle`, `NothingLeaks`,
`StoreHeals`) is out of the prover's reach and stays with TLC.

## 5. Limits found while modelling

The deploy worker:

- Directories are reserved in one process and by the directory of the plane's own
  platform. Two planes that deploy one service to one remote machine, or a
  contract edited between reservation and execution, make two deploys rsync one
  directory at once, although README.md:333 says one directory is one unit.
- A command outlives the server that ran it. The rsync of a killed plane goes on
  beside that of its successor (run `orphan_rsync`), what they leave is a mixture,
  and a deploy that succeeds over it may run either's files.
- A stop is best effort: a stale pid file, a missing lsof or a failing `stopCmd` is
  logged and ignored, start goes on, and where the old process is still there it
  keeps the port and answers `/health`: the deploy succeeds whatever that process
  runs. A plane that has handed itself over and is not stopped drains for ever.
- Deploys of one directory are not first come, first served (README.md:251): a
  scan skips an older deploy while the directory is busy, and takes a younger one
  when it is released in mid-scan.
- `RunningIsAccounted` needs `DbFaults = FALSE`: when the UPDATE of a claim is
  applied and the SELECT after it fails, when `GetDeploy` fails under a claimed row
  (worker.go:437), when the UPDATE of a verdict fails (its error is discarded), or
  when the listing of reconciliation fails (worker.go:850), nobody works on the row
  until some plane restarts.
- Reconciliation calls a deploy successful when VERSION fits and `/health`
  answers: after a kill between rsync and restart the process that answers is
  the old one.
- `assertTagPlatformMatchesMachine` sees only the tag: a tag without suffix is
  read as the executing plane's platform even when the column knows better, and
  such a deploy fails on the other plane (store.go:104 says it must not be read
  so).
- Foreign binaries are installed where nothing tells of them: a plain tag is every
  plane's own (build_platform.go:71), a build that is skipped takes over the label of
  whoever asked for it (release.go:157), and the guards see executables in `bin/`
  and the root only. `Told` in `ForeignBinariesStopped` names the cases that are
  caught.
- A local deploy whose recorded platform, or whose visible binaries' platform, no
  plane has is never given a verdict: it stays queued for ever
  (worker.go:1015). `QueuedSettles` excepts it (`Runnable`), and `JobsSettle` is
  checked on an instance where every platform that is built for is served.

Drain and upgrade:

- Both ticks test the drain before they claim. A notify and a ready poll fit in
  between, and the restart kills the work; `OneSlipsPast` bounds it to one deploy.
- A plane that dies while it packages leaves the pipeline `packaging`, or
  `deploying` without a deploy, and nothing ever closes it; `PipelineSettles`
  names this exception (`Stranded`). Such a `packaging` row is counted by every
  later poll, so every later self-restart waits for its deadline.
- A remote deploy of a control plane that fails after its notify leaves the
  target draining until somebody restarts it: `Clear` runs in the process that
  deployed, not in the one that drains.
- `Clear` of one deploy and `Notify` of another interleave: the drain of the
  second can be lowered, or its id forgotten. Its wait then runs into the deadline.
- Without lsof neither script can look at the port. A stale pid file then leaves
  the old server listening, the new process dies, the old one answers `/health`, the
  request is answered with `.done` and the row stays running: what the header of
  `stop.sh` describes. `HandedOverSettles` excepts a listener that the pid file does
  not name (`Unnamed`).
- When the upgrader dies in `stop.sh`, the script goes on: it may stop the server
  that the next upgrader has just started and answered for (`Shot` in
  `HandedOverSettles`).
- A package without a server, copied over a plane by another one, stops the
  plane: `start.sh` and the upgrader both refuse, and only a new copy helps.
  `HandedOverSettles` names this exception.

Contracts: the unique index on ports is best effort (store.go:220). In a database
whose rows clash it does not exist, and two PUTs that both look first may both
write. A start writes back rows it listed earlier and so may undo a PUT that came
in between; a row whose port was in its URL takes it whether another row has it by
then or not, unless there is the index, which makes the start's normalisation stop.
Work that is enqueued between the count and the write of a move or a
DELETE is moved, or loses its contract; a moved deploy that has not yet loaded its
contract runs with that of the other service. `OnlyNewWorkIsCaught` shows that
nothing older is caught. A port that is taken in between is answered with 500,
not 409: `isServicePortConflict` looks for "services.port", the Postgres index is
called `idx_services_port_unique`.

Placement: a machine name that two hosts carry means the last one listed, and
planes may read it differently; the host a plane runs on is "local" to it and a
machine to others; an instance registered as 127.0.0.1 is "local" to every plane
that reads it, so its platform is taken for that of all of them; of two channels
to one host any is taken. When the registry is silent longer than the time to
live, machines without a channel of their own are refused.

Storage:

- Two planes with local stores do not see each other's packages; a deploy by the
  plane that did not build fails.
- A recorded path is used before the store is asked. When a slower plane records
  its asset after a faster one has replaced it, or a plane dies between upload
  and `RecordArtifact` while an older row exists, deploys of the tag fail until
  it is uploaded and recorded again.
- The clean-up at start and the janitor can remove a directory in use: HTTP, and
  so a tick, is served before the clean-up, and the date of a fetched directory
  is that of the stored package. The job fails.

## 6. Not modelled

- Diagnosis, inventory, history filters and event lines: they only read, for
  people; no deploy depends on them.
- The database layer (placeholder rewriting) and the SQLite import, a sequential
  copy by a separate command before the first start.
- The MCP server, the web panel and the operations scripts, clients of the HTTP
  API. The watchdog and its pause files act on projects, not on the plane's own
  state; the models let a project's process stop at any time only as far as a
  deploy does it.
- Reading the configuration, `.env` seeding, rewriting of path texts, the
  `restart=` override of a channel, `POST /api/artifacts/scan`, the download of a
  Go toolchain: text and file work without a state that another part relies on.

## 7. Plan

1. `DeployQueue`, `DeployWorker`, `DeployWorkerProofs` (done).
2. `ReleasePipeline`, `ReleasePipelineProofs` (done).
3. `ServiceContracts`, `SelfUpgrade`, `MachineCatalog`, `Placement`,
   `ArtifactStorage` (done).
4. `DeployWorkerSafetyProofs`, `ServiceContractsProofs`, `SelfUpgradeProofs`
   (done).
5. `PlacementProofs`, `ArtifactStorageProofs`, the drain and the queue in
   `ReleasePipelineProofs` (done).
6. `DeployWorkerPackageProofs`; `Placement` through `DeployQueue` (done).
7. Stops without effect, commands that outlive their plane, hosts without lsof, a
   table without its index, starts next to handlers, packages that are replaced
   (done).
