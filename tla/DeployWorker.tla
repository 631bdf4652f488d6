----------------------------- MODULE DeployWorker ----------------------------
(***************************************************************************)
(* The deploy side of the control plane (src/worker.go, with the rows of   *)
(* src/store.go, the drain of src/graceful_drain.go and the start-up       *)
(* sequence of src/main.go), for several control planes that share one     *)
(* `deploys` table.                                                        *)
(*                                                                         *)
(* Each plane is one process on one host.  Its tick reads a snapshot of    *)
(* the queue and walks it oldest first: drain check, platform check,       *)
(* reservation of the runtime directory in memory, then the conditional    *)
(* UPDATE that claims the row.  Every claimed deploy runs executeDeploy in *)
(* a goroutine of its own.  A process may be killed at any step; when it   *)
(* starts again it closes every row it finds running before its ticker     *)
(* starts, while HTTP (and so Kick) is already served.                     *)
(***************************************************************************)

EXTENDS Naturals, FiniteSets

CONSTANTS
  Plane,        (* control planes; a plane is named after its host         *)
  Host,         (* machines that deploys may land on                       *)
  Deploy,       (* request ids                                             *)
  Service,      (* service ids                                             *)
  Dir,          (* runtime directories                                     *)
  Platform,     (* GOOS/GOARCH pairs                                       *)
  Version,      (* commit hashes                                           *)
  Local,        (* the target machine "local": the executing plane's host  *)
  Unknown,      (* no platform recorded, or a package without binaries     *)
  NoPlane, NoDeploy, NoDir,
  Old, Down,      (* a release older than every deploy; no process         *)
  Torn, Mixed     (* a directory one rsync has not finished; one in which  *)
                  (* two of them met                                       *)

CONSTANTS
  ServiceOf,    (* [Deploy -> Service]                                     *)
  TargetOf,     (* [Deploy -> Host \cup {Local}]: the machine of the row   *)
  VersionOf,    (* [Deploy -> Version]: the hash in the tag                *)
  TagPlat,      (* [Deploy -> Platform \cup {Unknown}]: the tag's suffix   *)
  StampPlat,    (* the artifact_platform column written at creation        *)
  PkgPlat,      (* what the binaries in the package really are             *)
  Visible,      (* packages whose executables packageBinaries finds: in    *)
                (* bin/ or the root, single-architecture ELF or Mach-O     *)
  PlatOf,       (* [Host -> Platform]                                      *)
  Home,         (* [Plane -> Dir]: DEPLOYMENT_HOME                         *)
  Graceful,     (* services with notify and poll endpoints                 *)
  Layouts,      (* contracts an operator may save: each gives every        *)
                (* service a directory per platform                        *)
  MaxCrashes,   (* bound: crashes in one behaviour                         *)
  DbFaults,     (* may statements of the database fail?                    *)
  StopFaults    (* may a stop leave the old process alive?                 *)

ASSUME PlaneAssumption == Plane \subseteq Host /\ NoPlane \notin Plane
ASSUME NameAssumption ==
  /\ NoDeploy \notin Deploy /\ NoDir \notin Dir
  /\ Unknown \notin Platform /\ Local \notin Host
  /\ {Old, Down, Torn, Mixed} \cap Deploy = {}
  /\ Down \notin {Old, Torn, Mixed} /\ Torn \notin {Old, Mixed} /\ Mixed # Old
ASSUME RequestAssumption ==
  /\ ServiceOf \in [Deploy -> Service]
  /\ TargetOf  \in [Deploy -> Host \cup {Local}]
  /\ VersionOf \in [Deploy -> Version]
  /\ TagPlat   \in [Deploy -> Platform \cup {Unknown}]
  /\ StampPlat \in [Deploy -> Platform \cup {Unknown}]
  /\ PkgPlat   \in [Deploy -> Platform \cup {Unknown}]
  /\ Visible \subseteq Deploy
ASSUME SiteAssumption ==
  /\ PlatOf \in [Host -> Platform]
  /\ Home \in [Plane -> Dir]
  /\ Graceful \subseteq Service
  /\ Layouts # {}
  /\ Layouts \subseteq [Service -> [Platform -> Dir]]
ASSUME BoundAssumption == MaxCrashes \in Nat /\ {DbFaults, StopFaults} \subseteq BOOLEAN
(* Nothing is assumed of the labels: a skipped build names a platform it    *)
(* never looked at, and a plain tag is every plane's own.                   *)

VARIABLES
  row,          (* deploys.state, "absent" before the INSERT               *)
  platform,     (* deploys.artifact_platform                               *)
  at,           (* deploys.requested_at, as a rank                         *)
  clock,        (* rows inserted so far                                    *)
  contract      (* services: the directory per service and platform        *)
rowVars == <<row, platform, at, clock, contract>>

VARIABLES
  status,       (* down, starting (HTTP served), reconciling, up           *)
  kicked,       (* a Kick is pending on a plane whose ticker is not up yet *)
  draining,     (* GracefulDrain: the restartID, NoDeploy when not draining*)
  orphans,      (* rows reconcileOrphanDeploys has listed and not closed   *)
  upgradeReq,   (* a request file waits for the plane's acp-upgrader       *)
  crashes
planeVars == <<status, kicked, draining, orphans, upgradeReq, crashes>>

VARIABLES
  ticking,      (* DeployWorker.ticking                                    *)
  todo,         (* the rest of the snapshot: <<deploy, platform column>>   *)
  picked,       (* reserved, about to be claimed                           *)
  active        (* DeployWorker.active: directory -> request id            *)
tickVars == <<ticking, todo, picked, active>>

VARIABLES
  phase,        (* how far the goroutine of a deploy is on a plane         *)
  unit,         (* the reservation it will release                         *)
  site          (* the runtime directory it has chosen                     *)
execVars == <<phase, unit, site>>

VARIABLES
  disk,         (* whose package a directory of a host holds               *)
  live,         (* whose package the process started from it runs          *)
  strays        (* commands that have outlived the plane that ran them     *)
hostVars == <<disk, live, strays>>

vars == <<rowVars, planeVars, tickVars, execVars, hostVars>>

Terminal == {"succeeded", "failed"}
RowState == {"absent", "queued", "running"} \cup Terminal

(* claimed: the row is ours; loaded: row, contract and machine read and the *)
(* directory chosen; fetched: package downloaded and checked; waiting:      *)
(* project notified; pushing/pushed: rsync; stopped/started: restart;       *)
(* beside: startCmd has run next to a process that the stop left alive;     *)
(* exit, handed: executeDeploy has returned, its defers have not run.       *)
Working == {"claimed", "loaded", "fetched", "waiting", "pushing", "pushed",
            "stopped", "started", "beside"}
Phase == Working \cup {"idle", "exit", "handed"}

RowsOK ==
  /\ row \in [Deploy -> RowState]
  /\ platform \in [Deploy -> Platform \cup {Unknown}]
  /\ at \in [Deploy -> Nat]
  /\ clock \in Nat
  /\ contract \in Layouts

PlanesOK ==
  /\ status \in [Plane -> {"down", "starting", "reconciling", "up"}]
  /\ kicked \in [Plane -> BOOLEAN]
  /\ draining \in [Plane -> Deploy \cup {NoDeploy}]
  /\ orphans \in [Plane -> SUBSET Deploy]
  /\ upgradeReq \in [Plane -> BOOLEAN]
  /\ crashes \in Nat

TicksOK ==
  /\ ticking \in [Plane -> BOOLEAN]
  /\ todo \in [Plane -> SUBSET (Deploy \X (Platform \cup {Unknown}))]
  /\ picked \in [Plane -> Deploy \cup {NoDeploy}]
  /\ active \in [Plane -> [Dir -> Deploy \cup {NoDeploy}]]

ExecsOK ==
  /\ phase \in [Plane -> [Deploy -> Phase]]
  /\ unit \in [Plane -> [Deploy -> Dir \cup {NoDir}]]
  /\ site \in [Plane -> [Deploy -> Dir \cup {NoDir}]]

Stray == {"rsync", "stop", "start"} \X Deploy \X Host \X (Dir \cup {NoDir})
HostsOK ==
  /\ disk \in [Host -> [Dir -> Deploy \cup {Old, Torn, Mixed}]]
  /\ live \in [Host -> [Dir -> Deploy \cup {Old, Torn, Mixed, Down}]]
  /\ strays \subseteq Stray

(* Rows, processes, scans, goroutines and hosts hold what the code stores. *)
TypeOK == RowsOK /\ PlanesOK /\ TicksOK /\ ExecsOK /\ HostsOK

Init ==
  /\ row = [d \in Deploy |-> "absent"]
  /\ platform = StampPlat
  /\ at = [d \in Deploy |-> 0]
  /\ clock = 0
  /\ contract \in Layouts
  /\ status = [p \in Plane |-> "up"]
  /\ kicked = [p \in Plane |-> FALSE]
  /\ draining = [p \in Plane |-> NoDeploy]
  /\ orphans = [p \in Plane |-> {}]
  /\ upgradeReq = [p \in Plane |-> FALSE]
  /\ crashes = 0
  /\ ticking = [p \in Plane |-> FALSE]
  /\ todo = [p \in Plane |-> {}]
  /\ picked = [p \in Plane |-> NoDeploy]
  /\ active = [p \in Plane |-> [x \in Dir |-> NoDeploy]]
  /\ phase = [p \in Plane |-> [d \in Deploy |-> "idle"]]
  /\ unit = [p \in Plane |-> [d \in Deploy |-> NoDir]]
  /\ site = [p \in Plane |-> [d \in Deploy |-> NoDir]]
  /\ disk = [h \in Host |-> [x \in Dir |-> Old]]
  /\ live = [h \in Host |-> [x \in Dir |-> Old]]
  /\ strays = {}

-----------------------------------------------------------------------------
(* Names for what the code computes. *)

Remote(d) == TargetOf[d] # Local
Dest(p, d) == IF Remote(d) THEN TargetOf[d] ELSE p
RuntimeDir(h, d) == contract[ServiceOf[d]][PlatOf[h]]
Self(p, d) == ~Remote(d) /\ site[p][d] = Home[p]
IsPlane(h, x) == h \in Plane /\ x = Home[h]

(* The platform a deploy is known to be for: the column, else the tag. *)
ExplicitPlatform(d, column) == IF column # Unknown THEN column ELSE TagPlat[d]

(* A remote deploy is anybody's; a local one belongs to its platform. *)
LocalDeployForThisPlane(p, d, column) ==
  Remote(d) \/ ExplicitPlatform(d, column) \in {Unknown, PlatOf[p]}

(* A tag without suffix counts as the executing plane's own platform. *)
TagMatchesMachine(p, d) ==
  PlatOf[Dest(p, d)] = IF TagPlat[d] = Unknown THEN PlatOf[p] ELSE TagPlat[d]

(* solePackagePlatform: what the package guards see of the package. *)
Seen(d) == IF d \in Visible THEN PkgPlat[d] ELSE Unknown
PackageFits(h, d) == Seen(d) \in {Unknown, PlatOf[h]}

(* Who has an rsync at work in directory x of host h: a goroutine, or       *)
(* nobody any more.                                                         *)
Writers(h, x) ==
  {w \in Plane \X Deploy : phase[w[1]][w[2]] = "pushing"
                           /\ Dest(w[1], w[2]) = h /\ site[w[1]][w[2]] = x}
  \cup {w \in {NoPlane} \X Deploy : <<"rsync", w[2], h, x>> \in strays}
Written(h, x) == Writers(h, x) # {}

Serving(p) == status[p] # "down"

-----------------------------------------------------------------------------
(* The table and its other writers. *)

(* POST /api/deploys, or a pipeline that enqueues: the INSERT, then Kick. *)
Submit(p, d) ==
  /\ Serving(p)
  /\ row[d] = "absent"
  /\ row' = [row EXCEPT ![d] = "queued"]
  /\ at' = [at EXCEPT ![d] = clock]
  /\ clock' = clock + 1
  /\ kicked' = [kicked EXCEPT ![p] = status[p] # "up"]
  /\ UNCHANGED <<platform, contract, status, draining, orphans, upgradeReq,
                 crashes, tickVars, execVars, hostVars>>

(* PUT /api/services/:id, in flight or not. *)
PutContract ==
  /\ contract' \in Layouts \ {contract}
  /\ UNCHANGED <<row, platform, at, clock, planeVars, tickVars, execVars, hostVars>>

-----------------------------------------------------------------------------
(* DeployWorker.tick *)

Queued == {d \in Deploy : row[d] = "queued"}

(* QueuedDeploys: the ticker runs once the plane is up, a Kick even before. *)
TickStart(p) ==
  /\ status[p] = "up" \/ kicked[p]
  /\ draining[p] = NoDeploy
  /\ ~ticking[p]
  /\ Queued # {}
  /\ ticking' = [ticking EXCEPT ![p] = TRUE]
  /\ todo' = [todo EXCEPT ![p] = {<<d, platform[d]>> : d \in Queued}]
  /\ kicked' = [kicked EXCEPT ![p] = FALSE]
  /\ UNCHANGED <<rowVars, status, draining, orphans, upgradeReq, crashes,
                 picked, active, execVars, hostVars>>

TickEnd(p) ==
  /\ ticking[p]
  /\ picked[p] = NoDeploy
  /\ todo[p] = {} \/ draining[p] # NoDeploy
  /\ ticking' = [ticking EXCEPT ![p] = FALSE]
  /\ todo' = [todo EXCEPT ![p] = {}]
  /\ UNCHANGED <<rowVars, planeVars, picked, active, execVars, hostVars>>

(* c is the candidate the loop looks at next. *)
Candidate(p, c) ==
  /\ c \in todo[p]
  /\ \A other \in todo[p] : at[c[1]] <= at[other[1]]
  /\ picked[p] = NoDeploy
  /\ draining[p] = NoDeploy

DropCandidate(p, d) ==
  todo' = [todo EXCEPT ![p] = {c \in @ : c[1] # d}]

(* reserveUnit: the key is the directory of the plane's own platform. *)
DeployUnit(p, d) == RuntimeDir(p, d)
UnitBusyIgnored(p, u) == TRUE
UnitFree(p, u) == active[p][u] = NoDeploy

(* Not ours, or another deploy of this plane holds the directory. *)
TickSkip(p, c) ==
  /\ Candidate(p, c)
  /\ \/ ~LocalDeployForThisPlane(p, c[1], c[2])
     \/ ~UnitFree(p, DeployUnit(p, c[1]))
  /\ DropCandidate(p, c[1])
  /\ UNCHANGED <<rowVars, planeVars, ticking, picked, active, execVars, hostVars>>

TickReserve(p, c) ==
  LET d == c[1]
      u == DeployUnit(p, d)
  IN
  /\ Candidate(p, c)
  /\ LocalDeployForThisPlane(p, d, c[2])
  /\ UnitFree(p, u)
  /\ active' = [active EXCEPT ![p][u] = d]
  /\ unit' = [unit EXCEPT ![p][d] = u]
  /\ picked' = [picked EXCEPT ![p] = d]
  /\ DropCandidate(p, d)
  /\ UNCHANGED <<rowVars, planeVars, ticking, phase, site, hostVars>>

ReleaseCurrentDir(p, d) ==
  /\ active' = [active EXCEPT ![p][DeployUnit(p, d)] = NoDeploy]
  /\ unit' = [unit EXCEPT ![p][d] = NoDir]
(* releaseUnit: only the reservation d itself holds is dropped. *)
ReleaseUnit(p, d) ==
  /\ active' = [active EXCEPT ![p][unit[p][d]] =
                  IF @ = d THEN NoDeploy ELSE @]
  /\ unit' = [unit EXCEPT ![p][d] = NoDir]

ClaimQueuedUnconditional(d) == row' = [row EXCEPT ![d] = "running"]
(* ClaimQueued: UPDATE ... WHERE state = 'queued' decides who takes the row. *)
ClaimQueued(d) ==
  /\ row[d] = "queued"
  /\ row' = [row EXCEPT ![d] = "running"]

TickClaimReleases(p, d) ==
  /\ picked[p] = d
  /\ ClaimQueued(d)
  /\ phase' = [phase EXCEPT ![p][d] = "claimed"]
  /\ picked' = [picked EXCEPT ![p] = NoDeploy]
  /\ active' = [active EXCEPT ![p][unit[p][d]] = NoDeploy]
  /\ UNCHANGED <<platform, at, clock, contract, planeVars, ticking, todo,
                 unit, site, hostVars>>
TickClaim(p, d) ==
  /\ picked[p] = d
  /\ ClaimQueued(d)
  /\ phase' = [phase EXCEPT ![p][d] = "claimed"]
  /\ picked' = [picked EXCEPT ![p] = NoDeploy]
  /\ UNCHANGED <<platform, at, clock, contract, planeVars, ticking, todo, active,
                 unit, site, hostVars>>

(* Somebody else took it. *)
TickLost(p, d) ==
  /\ picked[p] = d
  /\ row[d] # "queued"
  /\ ReleaseUnit(p, d)
  /\ picked' = [picked EXCEPT ![p] = NoDeploy]
  /\ UNCHANGED <<rowVars, planeVars, ticking, todo, phase, site, hostVars>>

(* ClaimQueued returns an error: its UPDATE failed, or it was applied and   *)
(* the SELECT after it failed.  Nobody runs the row in the second case.     *)
TickFault(p, d) ==
  /\ DbFaults
  /\ picked[p] = d
  /\ \/ UNCHANGED row
     \/ ClaimQueued(d)
  /\ ReleaseUnit(p, d)
  /\ picked' = [picked EXCEPT ![p] = NoDeploy]
  /\ UNCHANGED <<platform, at, clock, contract, planeVars, ticking, todo, phase,
                 site, hostVars>>

Tick(p) ==
  \/ TickStart(p)
  \/ TickEnd(p)
  \/ \E c \in todo[p] : TickSkip(p, c) \/ TickReserve(p, c)
  \/ \E d \in Deploy : TickClaim(p, d) \/ TickLost(p, d) \/ TickFault(p, d)

-----------------------------------------------------------------------------
(* executeDeploy *)

Move(p, d, from, to) ==
  /\ phase[p][d] = from
  /\ phase' = [phase EXCEPT ![p][d] = to]

FinishDeployCancels(d, verdict) ==
  row' = [row EXCEPT ![d] = IF verdict = "failed" THEN "cancelled" ELSE verdict]
(* FinishDeploy has no state guard: the last writer wins.  Its callers     *)
(* ignore an error of the UPDATE.                                          *)
FinishDeploy(d, verdict) ==
  \/ row' = [row EXCEPT ![d] = verdict]
  \/ DbFaults /\ UNCHANGED row

RequeueDeployUnguarded(d, plat) ==
  /\ row' = [row EXCEPT ![d] = "queued"]
  /\ platform' = [platform EXCEPT ![d] = plat]
(* Give the row back, or fail it: it is no longer running, or the UPDATE    *)
(* has failed.                                                              *)
RequeueDeploy(d, plat) ==
  \/ /\ row[d] = "running"
     /\ row' = [row EXCEPT ![d] = "queued"]
     /\ platform' = [platform EXCEPT ![d] = plat]
  \/ /\ row[d] # "running" \/ DbFaults
     /\ FinishDeploy(d, "failed")
     /\ UNCHANGED platform

(* Any error return: the row is failed. *)
Fail(p, d) ==
  /\ phase[p][d] \in Working
  /\ phase' = [phase EXCEPT ![p][d] = "exit"]
  /\ FinishDeploy(d, "failed")
  /\ UNCHANGED <<platform, at, clock, contract, planeVars, tickVars, unit, site, hostVars>>

(* The row was closed between the claim and the goroutine's first read, or  *)
(* that read fails: executeDeploy returns and leaves the row as it is.      *)
LoadGone(p, d) ==
  /\ Move(p, d, "claimed", "exit")
  /\ row[d] # "running" \/ DbFaults
  /\ UNCHANGED <<rowVars, planeVars, tickVars, unit, site, hostVars>>

(* A local deploy of another platform goes back before any download. *)
LoadBounce(p, d) ==
  /\ Move(p, d, "claimed", "exit")
  /\ row[d] = "running"
  /\ ~LocalDeployForThisPlane(p, d, platform[d])
  /\ RequeueDeploy(d, ExplicitPlatform(d, platform[d]))
  /\ UNCHANGED <<at, clock, contract, planeVars, tickVars, unit, site, hostVars>>

Load(p, d) ==
  /\ Move(p, d, "claimed", "loaded")
  /\ row[d] = "running"
  /\ LocalDeployForThisPlane(p, d, platform[d])
  /\ TagMatchesMachine(p, d)
  /\ site' = [site EXCEPT ![p][d] = RuntimeDir(Dest(p, d), d)]
  /\ UNCHANGED <<rowVars, planeVars, tickVars, unit, hostVars>>

FetchUnchecked(p, d) ==
  /\ Move(p, d, "loaded", "fetched")
  /\ UNCHANGED <<rowVars, planeVars, tickVars, unit, site, hostVars>>
(* What is seen of the package belongs on the destination. *)
Fetch(p, d) ==
  /\ Move(p, d, "loaded", "fetched")
  /\ PackageFits(Dest(p, d), d)
  /\ UNCHANGED <<rowVars, planeVars, tickVars, unit, site, hostVars>>

FetchBounceContinues(p, d) ==
  /\ ~Remote(d)
  /\ Move(p, d, "loaded", "fetched")
  /\ ~PackageFits(p, d)
  /\ RequeueDeploy(d, Seen(d))
  /\ UNCHANGED <<at, clock, contract, planeVars, tickVars, unit, site, hostVars>>
FetchBounceOwnPlatform(p, d) ==
  /\ ~Remote(d)
  /\ Move(p, d, "loaded", "exit")
  /\ ~PackageFits(p, d)
  /\ RequeueDeploy(d, PlatOf[p])
  /\ UNCHANGED <<at, clock, contract, planeVars, tickVars, unit, site, hostVars>>
(* localBinaryGuard: wrong binaries of one platform go back to the queue. *)
FetchBounce(p, d) ==
  /\ ~Remote(d)
  /\ Move(p, d, "loaded", "exit")
  /\ ~PackageFits(p, d)
  /\ RequeueDeploy(d, Seen(d))
  /\ UNCHANGED <<at, clock, contract, planeVars, tickVars, unit, site, hostVars>>

(* The notify reaches the project; a control plane starts to drain. *)
Notify(p, d) ==
  LET h == Dest(p, d) IN
  /\ ServiceOf[d] \in Graceful
  /\ Move(p, d, "fetched", "waiting")
  /\ IF IsPlane(h, site[p][d])
     THEN /\ Serving(h)
          /\ draining' = [draining EXCEPT ![h] = d]
     ELSE UNCHANGED draining
  /\ UNCHANGED <<rowVars, status, kicked, orphans, upgradeReq, crashes, tickVars,
                 unit, site, hostVars>>

(* The wait is over (ready, deadline, or unreachable), there was none, or   *)
(* the notify itself could not be delivered: rsync --delete begins.         *)
BeginPush(p, d) ==
  /\ \/ Move(p, d, "waiting", "pushing")
     \/ Move(p, d, "fetched", "pushing")
  /\ disk' = [disk EXCEPT ![Dest(p, d)][site[p][d]] =
                IF Written(Dest(p, d), site[p][d]) THEN Mixed ELSE Torn]
  /\ UNCHANGED <<rowVars, planeVars, tickVars, unit, site, live, strays>>

(* rsync is done and VERSION and DEPLOYMENT are stamped.  Where two of them *)
(* have met, nobody knows which files are whose until the next one is done. *)
EndPush(p, d) ==
  /\ Move(p, d, "pushing", "pushed")
  /\ disk' = [disk EXCEPT ![Dest(p, d)][site[p][d]] = IF @ = Torn THEN d ELSE @]
  /\ UNCHANGED <<rowVars, planeVars, tickVars, unit, site, live, strays>>

HandoffSilent(p, d) ==
  /\ Self(p, d)
  /\ Move(p, d, "pushed", "handed")
  /\ UNCHANGED <<rowVars, planeVars, tickVars, unit, site, hostVars>>
(* Self-upgrade: the request file is written, the row stays running. *)
Handoff(p, d) ==
  /\ Self(p, d)
  /\ Move(p, d, "pushed", "handed")
  /\ upgradeReq' = [upgradeReq EXCEPT ![p] = TRUE]
  /\ UNCHANGED <<rowVars, status, kicked, draining, orphans, crashes, tickVars,
                 unit, site, hostVars>>

(* Commands run in process groups of their own, and a stop signals only the *)
(* server: the rsync of a killed server goes on, and so does the stop or    *)
(* start command it was waiting for, if it was waiting for one.             *)
Command == [pushing |-> "rsync", pushed |-> "stop", stopped |-> "start"]
Outliving(q, caught) ==
  {<<Command[phase[q][d]], d, Dest(q, d), site[q][d]>> :
      d \in caught \cup {e \in Deploy : phase[q][e] = "pushing"}}
Catchable(q) ==
  {d \in Deploy : phase[q][d] = "stopped" \/ (phase[q][d] = "pushed" /\ ~Self(q, d))}

(* The process of plane q is gone: everything it kept in memory with it.    *)
(* ph: the phases the killed goroutines are removed from; left: the         *)
(* commands of dead planes that go on besides q's.                          *)
KillPlane(q, ph, left) ==
  /\ status' = [status EXCEPT ![q] = "down"]
  /\ kicked' = [kicked EXCEPT ![q] = FALSE]
  /\ draining' = [draining EXCEPT ![q] = NoDeploy]
  /\ orphans' = [orphans EXCEPT ![q] = {}]
  /\ ticking' = [ticking EXCEPT ![q] = FALSE]
  /\ todo' = [todo EXCEPT ![q] = {}]
  /\ picked' = [picked EXCEPT ![q] = NoDeploy]
  /\ active' = [active EXCEPT ![q] = [x \in Dir |-> NoDeploy]]
  /\ phase' = [ph EXCEPT ![q] = [d \in Deploy |-> "idle"]]
  /\ unit' = [unit EXCEPT ![q] = [d \in Deploy |-> NoDir]]
  /\ site' = [site EXCEPT ![q] = [d \in Deploy |-> NoDir]]
  /\ live' = [live EXCEPT ![q][Home[q]] = Down]
  /\ \E caught \in SUBSET Catchable(q) : strays' = left \cup Outliving(q, caught)

(* Stopping what runs from directory x of host h is best effort: the pid    *)
(* file may be stale, lsof absent, stopCmd fail, and all that is ignored.   *)
Stop(h, x, ph, left) ==
  \/ IsPlane(h, x) /\ KillPlane(h, ph, left)
  \/ /\ IF IsPlane(h, x) THEN StopFaults /\ UNCHANGED live
        ELSE \/ live' = [live EXCEPT ![h][x] = Down]
             \/ StopFaults /\ UNCHANGED live
     /\ phase' = ph
     /\ strays' = left
     /\ UNCHANGED <<status, kicked, draining, orphans, tickVars, unit, site>>

(* runDeployRestart, first half: the platform stop and stopCmd. *)
StopService(p, d) ==
  /\ ~Self(p, d)
  /\ phase[p][d] = "pushed"
  /\ Stop(Dest(p, d), site[p][d], [phase EXCEPT ![p][d] = "stopped"], strays)
  /\ UNCHANGED <<rowVars, upgradeReq, crashes, disk>>

(* Second half: startCmd or restartCmd; a plane boots on its own (Boot).    *)
(* Next to a process that is still there the new one does not get the port. *)
StartService(p, d) ==
  LET h == Dest(p, d)
      dir == site[p][d]
  IN
  /\ phase[p][d] = "stopped"
  /\ IF live[h][dir] = Down
     THEN /\ Move(p, d, "stopped", "started")
          /\ live' = IF IsPlane(h, dir) THEN live
                     ELSE [live EXCEPT ![h][dir] = disk[h][dir]]
     ELSE Move(p, d, "stopped", "beside") /\ UNCHANGED live
  /\ UNCHANGED <<rowVars, planeVars, tickVars, unit, site, disk, strays>>

HealthPass(p, d) ==
  /\ Move(p, d, "started", "exit") \/ Move(p, d, "beside", "exit")
  /\ live[Dest(p, d)][site[p][d]] # Down
  /\ FinishDeploy(d, "succeeded")
  /\ UNCHANGED <<platform, at, clock, contract, planeVars, tickVars, unit, site, hostVars>>

ExitKeepsDrain(p, d) ==
  /\ phase[p][d] \in {"exit", "handed"}
  /\ phase' = [phase EXCEPT ![p][d] = "idle"]
  /\ ReleaseUnit(p, d)
  /\ site' = [site EXCEPT ![p][d] = NoDir]
  /\ UNCHANGED <<rowVars, planeVars, ticking, todo, picked, hostVars>>
(* The deferred calls: a self-deploy that was not handed over ends the      *)
(* drain it caused, and the directory is released.                          *)
Exit(p, d) ==
  /\ phase[p][d] \in {"exit", "handed"}
  /\ phase' = [phase EXCEPT ![p][d] = "idle"]
  /\ draining' = [draining EXCEPT ![p] =
                    IF phase[p][d] = "exit" /\ @ = d THEN NoDeploy ELSE @]
  /\ ReleaseUnit(p, d)
  /\ site' = [site EXCEPT ![p][d] = NoDir]
  /\ UNCHANGED <<rowVars, status, kicked, orphans, upgradeReq, crashes,
                 ticking, todo, picked, hostVars>>

Execute(p, d) ==
  \/ LoadGone(p, d) \/ LoadBounce(p, d) \/ Load(p, d)
  \/ Fetch(p, d) \/ FetchBounce(p, d)
  \/ Notify(p, d) \/ BeginPush(p, d) \/ EndPush(p, d)
  \/ Handoff(p, d) \/ StopService(p, d) \/ StartService(p, d)
  \/ HealthPass(p, d) \/ Fail(p, d) \/ Exit(p, d)

-----------------------------------------------------------------------------
(* The process itself. *)

Crash(p) ==
  /\ Serving(p)
  /\ crashes < MaxCrashes
  /\ crashes' = crashes + 1
  /\ KillPlane(p, phase, strays)
  /\ UNCHANGED <<rowVars, upgradeReq, disk>>

(* acp-upgrader takes the request and stops the old process. *)
UpgraderStop(p) ==
  /\ upgradeReq[p]
  /\ Serving(p)
  /\ upgradeReq' = [upgradeReq EXCEPT ![p] = FALSE]
  /\ Stop(p, Home[p], phase, strays)
  /\ UNCHANGED <<rowVars, crashes, disk>>

(* What outlives its plane comes to an end on its own.  The next start of   *)
(* the plane removes the package from under an rsync (cleanupStaleTempWork).*)
StrayRsync(d, h, x) ==
  /\ <<"rsync", d, h, x>> \in strays
  /\ strays' = strays \ {<<"rsync", d, h, x>>}
  /\ \/ disk' = [disk EXCEPT ![h][x] = IF @ = Torn THEN d ELSE @]
     \/ UNCHANGED disk
  /\ UNCHANGED <<rowVars, planeVars, tickVars, execVars, live>>
StrayStop(d, h, x) ==
  /\ <<"stop", d, h, x>> \in strays
  /\ Stop(h, x, phase, strays \ {<<"stop", d, h, x>>})
  /\ UNCHANGED <<rowVars, upgradeReq, crashes, disk>>
StrayStart(d, h, x) ==
  /\ <<"start", d, h, x>> \in strays
  /\ strays' = strays \ {<<"start", d, h, x>>}
  /\ live' = IF live[h][x] = Down /\ ~IsPlane(h, x)
             THEN [live EXCEPT ![h][x] = disk[h][x]] ELSE live
  /\ UNCHANGED <<rowVars, planeVars, tickVars, execVars, disk>>
StrayEnds(d, h, x) == StrayRsync(d, h, x) \/ StrayStop(d, h, x) \/ StrayStart(d, h, x)

(* main: the listener is up and /health answers. *)
Boot(p) ==
  /\ status[p] = "down"
  /\ status' = [status EXCEPT ![p] = "starting"]
  /\ live' = [live EXCEPT ![p][Home[p]] = disk[p][Home[p]]]
  /\ UNCHANGED <<rowVars, kicked, draining, orphans, upgradeReq, crashes,
                 tickVars, execVars, disk, strays>>

FirstRunningRow ==
  {d \in Deploy : row[d] = "running" /\ \A e \in Deploy : row[e] = "running" => at[d] <= at[e]}
(* ListDeploysByState(running) *)
RunningRows == {d \in Deploy : row[d] = "running"}

(* reconcileOrphanDeploys lists the running rows, whoever runs them; when   *)
(* the listing fails, nothing is reconciled.                                *)
ReconcileList(p) ==
  /\ status[p] = "starting"
  /\ status' = [status EXCEPT ![p] = "reconciling"]
  /\ \/ orphans' = [orphans EXCEPT ![p] = RunningRows]
     \/ DbFaults /\ UNCHANGED orphans
  /\ UNCHANGED <<rowVars, kicked, draining, upgradeReq, crashes, tickVars,
                 execVars, hostVars>>

(* The VERSION file of the local directory names the deploy's commit; in    *)
(* the middle of an rsync, or after two, it may be anyone's.                *)
VersionOnDisk(p, d) ==
  LET content == disk[p][RuntimeDir(p, d)] IN
  \/ content \in {Torn, Mixed}
  \/ content \in Deploy /\ VersionOf[content] = VersionOf[d]

ReconcileOne(p, d) ==
  /\ d \in orphans[p]
  /\ orphans' = [orphans EXCEPT ![p] = @ \ {d}]
  /\ \/ /\ VersionOnDisk(p, d)
        /\ live[p][RuntimeDir(p, d)] # Down
        /\ FinishDeploy(d, "succeeded")
     \/ FinishDeploy(d, "failed")
  /\ UNCHANGED <<platform, at, clock, contract, status, kicked, draining,
                 upgradeReq, crashes, tickVars, execVars, hostVars>>

StartWorkerFirst(p) ==
  /\ status[p] = "starting"
  /\ status' = [status EXCEPT ![p] = "up"]
  /\ kicked' = [kicked EXCEPT ![p] = FALSE]
  /\ UNCHANGED <<rowVars, draining, orphans, upgradeReq, crashes, tickVars,
                 execVars, hostVars>>
(* worker.Start: the ticker runs. *)
StartWorker(p) ==
  /\ status[p] = "reconciling"
  /\ orphans[p] = {}
  /\ status' = [status EXCEPT ![p] = "up"]
  /\ kicked' = [kicked EXCEPT ![p] = FALSE]
  /\ UNCHANGED <<rowVars, draining, orphans, upgradeReq, crashes, tickVars,
                 execVars, hostVars>>

StartUp(p) ==
  \/ Boot(p)
  \/ ReconcileList(p)
  \/ \E d \in Deploy : ReconcileOne(p, d)
  \/ StartWorker(p)

-----------------------------------------------------------------------------
Next ==
  \/ PutContract
  \/ \E d \in Deploy, h \in Host, x \in Dir : StrayEnds(d, h, x)
  \/ \E p \in Plane :
       \/ Tick(p)
       \/ StartUp(p)
       \/ Crash(p)
       \/ UpgraderStop(p)
       \/ \E d \in Deploy : Submit(p, d) \/ Execute(p, d)

Spec == Init /\ [][Next]_vars

(* The ticker, every goroutine, the start-up sequence and the upgrader keep *)
(* running; submissions, contract edits and crashes are the environment's.  *)
Fairness ==
  \A p \in Plane :
    /\ WF_vars(Tick(p))
    /\ WF_vars(StartUp(p))
    /\ WF_vars(UpgraderStop(p))
    /\ \A d \in Deploy : WF_vars(Execute(p, d))

FairSpec == Spec /\ Fairness

-----------------------------------------------------------------------------
(* What must hold. *)

WorkedBy(d) == {p \in Plane : phase[p][d] \in Working}

(* A deploy is executed by at most one control plane at a time, however     *)
(* ticks, hand-backs, crashes and reconciliations interleave (the CAS in    *)
(* ClaimQueued plus the guard of RequeueDeploy).                            *)
ExclusiveExecution ==
  \A d \in Deploy : \A p, q \in WorkedBy(d) : p = q

(* A goroutine keeps the reservation it was started with until its very     *)
(* end, the exit of a deploy that was handed back included (tick,           *)
(* reserveUnit and the deferred releaseUnit).                               *)
UnitHeld ==
  \A p \in Plane, d \in Deploy :
    phase[p][d] # "idle" =>
      /\ unit[p][d] \in Dir
      /\ active[p][unit[p][d]] = d

(* Two goroutines of one process that still use the directory they reserved *)
(* never rsync or restart that directory together (reserveUnit).  What a    *)
(* killed process has left behind is outside its successor's reservations:  *)
(* see OneWriterPerDirectory below.                                         *)
Touching == {"pushing", "pushed", "stopped", "started", "beside"}
SiteSerial ==
  \A p \in Plane, d, e \in Deploy :
    /\ d # e
    /\ phase[p][d] \in Touching /\ phase[p][e] \in Touching
    /\ site[p][d] = unit[p][d] /\ site[p][e] = unit[p][e]
    => site[p][d] # site[p][e]

(* Executables of another platform are never installed nor started where    *)
(* anything told of them truly: the package guard saw them, or the tag, or  *)
(* the column of a local deploy, names their platform.  Whichever plane     *)
(* takes the deploy first, and whatever the other labels say (the claim     *)
(* filter, its repetition after the claim, the tag check, both guards).     *)
Told(d) ==
  d \in Visible \/ TagPlat[d] = PkgPlat[d] \/ (~Remote(d) /\ StampPlat[d] = PkgPlat[d])
ForeignBinariesStopped ==
  \A h \in Host, x \in Dir, d \in Deploy :
    (d \in {disk[h][x], live[h][x]} /\ PkgPlat[d] # Unknown /\ Told(d))
      => PkgPlat[d] = PlatOf[h]

(* A row that says running has somebody who will end it: a goroutine, a     *)
(* plane that is about to list the running rows or has listed this one, or  *)
(* an upgrader about to restart one.  Only while the database answers and   *)
(* stops stop: an error of GetDeploy, FinishDeploy or of the listing, and   *)
(* an upgrader whose stop has no effect, leave such rows behind.            *)
RunningIsAccounted ==
  \A d \in Deploy : row[d] = "running" =>
    \E p \in Plane :
      \/ phase[p][d] # "idle"
      \/ status[p] \in {"down", "starting"}
      \/ d \in orphans[p]
      \/ upgradeReq[p]

(* A self-deploy never leaves its own plane draining: as long as the drain  *)
(* it asked for lasts, it is still in progress or the upgrader has a        *)
(* request to kill the process (the deferred drain.Clear).  Only while a    *)
(* stop kills it: otherwise the drain lasts.                                *)
SelfDrainReleased ==
  \A p \in Plane, d \in Deploy :
    (draining[p] = d /\ ~Remote(d)) => (phase[p][d] # "idle" \/ upgradeReq[p])

(* A finished deploy never becomes queued or running again, although        *)
(* several writers end and hand back rows without knowing of one another.   *)
NoResurrection ==
  [][\A d \in Deploy : row[d] \in Terminal => row'[d] \in Terminal]_vars

(* When a plane itself reports success and its start did not find the old   *)
(* process still there, the process that answers /health in the directory   *)
(* was started from exactly the package of that deploy, or from a directory *)
(* in which the rsync of a killed plane met this one's.  (Next to a process *)
(* that survived the stop, /health is answered by that process: the deploy  *)
(* succeeds whatever it runs.)                                              *)
SucceededRunsPackage ==
  [][\A p \in Plane, d \in Deploy :
       (phase[p][d] = "started" /\ row'[d] = "succeeded" /\ row[d] # "succeeded"
          /\ phase'[p][d] = "exit")
       => live[Dest(p, d)][site[p][d]] \in {d, Mixed}]_vars

(* The table behaves as DeployQueue says. *)
Worker(d) == IF WorkedBy(d) = {} THEN NoPlane ELSE CHOOSE p \in WorkedBy(d) : TRUE
Queue == INSTANCE DeployQueue WITH worker <- [d \in Deploy |-> Worker(d)]
QueueSpec == Queue!Spec

(* Some plane takes d by its label, and some plane, perhaps another that it *)
(* is then handed to, fits what is seen of the package.                     *)
Runnable(d) ==
  \/ Remote(d)
  \/ /\ \E p \in Plane : ExplicitPlatform(d, StampPlat[d]) \in {Unknown, PlatOf[p]}
     /\ \E p \in Plane : PackageFits(p, d)

(* A queued deploy that some plane can execute gets a verdict. *)
QueuedSettles ==
  \A d \in Deploy : (row[d] = "queued" /\ Runnable(d)) ~> (row[d] \in Terminal)

(* A row does not stay running for ever: its goroutine ends it, or the      *)
(* start-up of a plane does.                                                *)
RunningSettles ==
  \A d \in Deploy : (row[d] = "running") ~> (row[d] # "running")

(* A plane that drains goes back to taking deploys, or restarts. *)
DrainEnds ==
  \A p \in Plane : (draining[p] # NoDeploy) ~> (draining[p] = NoDeploy)

-----------------------------------------------------------------------------
(* What the repository says and the code does not do: the property of a run *)
(* that TLC must find violated.                                             *)

(* README and main.go: start-up reconciles the tasks stuck in running, the  *)
(* orphans.  (A Kick may claim a row before the listing, and another plane  *)
(* may be at work: both are closed under the goroutine that runs them.)     *)
ReconcileOnlyOrphans ==
  [][\A p \in Plane, d \in Deploy :
       (d \in orphans[p] /\ d \notin orphans'[p] /\ status'[p] = status[p]
          /\ row[d] = "running")
       => WorkedBy(d) = {}]_vars

(* worker.go and README: the same unit never runs twice at once.  (The      *)
(* rsync of a killed plane goes on next to that of its successor.)          *)
OneWriterPerDirectory ==
  \A h \in Host, x \in Dir : Cardinality(Writers(h, x)) <= 1
=============================================================================
