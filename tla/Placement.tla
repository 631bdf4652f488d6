------------------------------- MODULE Placement -------------------------------
(***************************************************************************)
(* From "release this service on that machine" to files in a directory of  *)
(* a host: which machine a request is allowed to name, for which platform  *)
(* a pipeline builds, which control plane may execute the deploy, which    *)
(* host and directory it ends in, and every check that can send it back or *)
(* refuse it (src/server.go, src/pipeline_worker.go, src/worker.go,        *)
(* src/build_platform.go, src/runtime_dir.go, src/remote_deploy.go).       *)
(*                                                                         *)
(* All control planes share one queue and one package store, but each has  *)
(* channels and a cached reading of the registry of its own, and looks at  *)
(* it anew in every step: between two checks of one deploy the reading may *)
(* change, and two planes may not agree.  How a deploy is restarted, and   *)
(* what a crash leaves behind, is DeployWorker's.                          *)
(***************************************************************************)

EXTENDS MachineCatalog

CONSTANTS
  Job,
  ServiceOf,      (* [Job -> Service]                                       *)
  Visible,        (* services whose executables packageBinaries finds: of   *)
                  (* one architecture, with an exec bit, in bin/ or the root *)
  Layouts,        (* what a contract may say of directories: sets of        *)
                  (* "default" (runtimeDir), "linux", "darwin" (runtimeDirs)*)
  Before,         (* what earlier releases may have left in the store       *)
  Plain           (* the tag without a platform suffix                      *)

VARIABLES
  job,            (* rows of pipelines and deploys, and their executors     *)
  dirs,           (* [Released -> Layouts], the contracts                   *)
  stored,         (* [Released -> [tags -> platform of the bytes or None]]  *)
  probed          (* platformResolver's cache: [Plane -> [Machine -> ...]]  *)
jobVars == <<job, dirs, stored, probed>>
vars == <<catalogVars, jobVars>>

Released == {ServiceOf[j] : j \in Job}
Tag == {Plain} \cup Platform
ASSUME JobAssumption ==
  /\ ServiceOf \in [Job -> Service]
  /\ Plain \notin Platform \cup {None}
  /\ Before \subseteq {b \in [Tag -> Platform \cup {None}] : \A t \in Platform : b[t] \in {None, t}}
Place == [host : Host, dir : {"linux", "darwin", "channel", "default"}]

Settled(j) == job[j].st \in {"landed", "failed", "refused"}
Become(j, change) ==
  job' = [job EXCEPT ![j] =
            [f \in DOMAIN @ |-> IF f \in DOMAIN change THEN change[f] ELSE @[f]]]
Fail(j, why) == Become(j, [st |-> "failed", why |-> why])

(* Work of plane p on job j in state from, with its reading in cat'[p]. *)
Look(p, j, from) ==
  /\ job[j].st = from
  /\ Consult(p)
Work(p, j, from) == job[j].plane = p /\ Look(p, j, from)

-----------------------------------------------------------------------------
(* Directories. *)

RuntimeDirForOS(d, os) ==
  IF os \in d THEN os ELSE IF "default" \in d THEN "default" ELSE None

RuntimeDirGap(d, os) ==
  \/ os = "linux" /\ "linux" \notin d
  \/ os = "darwin" /\ RuntimeDirForOS(d, "darwin") = None

(* A linux machine takes only the directory that was written down for it. *)
RuntimeDirForRemote(d, os) ==
  IF os \in d THEN os ELSE IF os = "linux" THEN None ELSE "channel"

RemoteDirOfThisMachine(d, os) == RuntimeDirForOS(d, os)
RemoteDir(d, os) == IF RuntimeDirGap(d, os) THEN None ELSE RuntimeDirForRemote(d, os)

-----------------------------------------------------------------------------
(* A request: POST /api/deploy-notify and POST /api/deploys. *)

(* Contract, release, ValidateForService up to the list of machines. *)
Request(p, j, sel) ==
  LET s == ServiceOf[j]
      ids == ScopeIDs(p, cat'[p], s)
  IN  /\ Look(p, j, "new")
      /\ IF Selectable(p, cat'[p], s, sel)
         THEN \E kind \in {"pipeline", "deploy"}, t \in Tag :
                /\ IF kind = "deploy" THEN stored[s][t] # None ELSE t = Plain
                /\ Become(j, [st |-> "asked", kind |-> kind, plane |-> p, by |-> p, tag |-> t,
                             asked |-> sel, layout |-> dirs[s],
                             machine |-> IF sel = None THEN DefaultFrom(p, ids) ELSE sel])
         ELSE Become(j, [st |-> "refused", by |-> p, why |-> "machine",
                         machine |-> IF sel = None THEN Local ELSE sel])
      /\ UNCHANGED <<dirs, stored, probed>>

(* Its channel, and runtimeDirReadyGate. *)
Admit(p, j) ==
  LET J == job[j]
      c == cat'[p]
  IN  /\ Work(p, j, "asked")
      /\ IF J.asked # None /\ ~Reachable(p, c, ServiceOf[j], J.machine)
         THEN Become(j, [st |-> "refused", why |-> "machine"])
         ELSE IF RuntimeDirGap(J.layout, InstanceOS(p, c, ServiceOf[j], J.machine))
         THEN Become(j, [st |-> "refused", why |-> "dir"])
         ELSE Become(j, [st |-> IF J.kind = "deploy" THEN "ready" ELSE "queued",
                         plane |-> None, layout |-> {}])
      /\ UNCHANGED <<dirs, stored, probed>>

-----------------------------------------------------------------------------
(* The pipeline worker. *)

(* platformResolver.Resolve of machine m: an answer kept for five minutes,  *)
(* a fresh uname, or this plane's own platform when that fails.             *)
Resolve(p, m, target, plat) ==
  IF ~target.remote THEN plat = PlatOf[p] /\ UNCHANGED probed
  ELSE \/ probed[p][m] # None /\ plat = probed[p][m] /\ UNCHANGED probed
       \/ plat = PlatOf[target.host] /\ probed' = [probed EXCEPT ![p][m] = plat]
       \/ plat = PlatOf[p] /\ UNCHANGED probed

(* Claim and missingExplicitLinuxRuntimeDir. *)
PackClaim(p, j) ==
  LET s == ServiceOf[j]
      m == job[j].machine
      c == cat'[p]
      remote == {t \in TargetForService(p, c, s, m) : t.remote}
      Go(os) == IF RuntimeDirGap(dirs[s], os) THEN Fail(j, "dir")
                ELSE Become(j, [st |-> "packing", plane |-> p])
  IN  /\ Look(p, j, "queued")
      /\ IF InstanceOS(p, c, s, m) # None
         THEN Go(InstanceOS(p, c, s, m)) /\ UNCHANGED probed
         ELSE IF remote = {} \/ c.platforms[m] # None
         THEN /\ Go(IF remote # {} /\ c.platforms[m][1] = "linux" THEN "linux" ELSE None)
              /\ UNCHANGED probed
         ELSE \E t \in remote, plat \in Platform :
                /\ Resolve(p, m, t, plat)
                /\ Go(IF plat[1] = "linux" THEN "linux" ELSE None)
      /\ UNCHANGED <<dirs, stored>>

(* platformFor: the machine's registered platform, whatever service said so. *)
PlatformFor(p, j) ==
  LET s == ServiceOf[j]
      m == job[j].machine
      c == cat'[p]
      targets == TargetForService(p, c, s, m)
  IN  /\ Work(p, j, "packing")
      /\ IF c.platforms[m] # None
         THEN Become(j, [st |-> "building", stamp |-> c.platforms[m]]) /\ UNCHANGED probed
         ELSE IF targets = {}
         THEN Become(j, [st |-> "building", stamp |-> PlatOf[p]]) /\ UNCHANGED probed
         ELSE \E t \in targets, plat \in Platform :
                /\ Resolve(p, m, t, plat)
                /\ Become(j, [st |-> "building", stamp |-> plat])
      /\ UNCHANGED <<dirs, stored>>

DeploymentTagOwnArch(p, plat) ==
  IF plat = PlatOf[p] THEN Plain ELSE <<plat[1], PlatOf[p][2]>>
DeploymentTagFor(p, plat) == IF plat = PlatOf[p] THEN Plain ELSE plat

(* packageFromGit skips what is stored already under the tag, whoever built  *)
(* it for what, unless the store does not answer ...                         *)
PackageLook(p, j) ==
  LET s == ServiceOf[j]
      t == DeploymentTagFor(p, job[j].stamp)
  IN  /\ job[j].st = "building" /\ job[j].plane = p
      /\ \/ stored[s][t] # None /\ Become(j, [st |-> "ready", plane |-> None, tag |-> t])
         \/ Become(j, [st |-> "compiling"])
      /\ UNCHANGED <<catalogVars, dirs, stored, probed>>
(* ... and, when build.sh is through, puts its own in its place.  Either way *)
(* the deploy is queued with the platform the pipeline asked for.            *)
PackageUpload(p, j) ==
  LET s == ServiceOf[j]
      t == DeploymentTagFor(p, job[j].stamp)
  IN  /\ job[j].st = "compiling" /\ job[j].plane = p
      /\ \/ /\ stored' = [stored EXCEPT ![s][t] = job[j].stamp]
            /\ Become(j, [st |-> "ready", plane |-> None, tag |-> t])
         \/ Fail(j, "build") /\ UNCHANGED stored
      /\ UNCHANGED <<catalogVars, dirs, probed>>

-----------------------------------------------------------------------------
(* The deploy worker. *)

Explicit(j) ==
  IF job[j].stamp # None THEN job[j].stamp
  ELSE IF job[j].tag # Plain THEN job[j].tag
  ELSE None

LocalDeployForThisControlPlane(p, j, target) ==
  target.remote \/ Explicit(j) \in {None, PlatOf[p]}

RequeueUnstamped(j, plat) == Become(j, [st |-> "ready", plane |-> None, layout |-> {}])
Requeue(j, plat) ==
  Become(j, [st |-> "ready", plane |-> None, layout |-> {}, stamp |-> plat])

(* claimable, ClaimQueued, and the contract read when execution starts. *)
Claim(p, j) ==
  LET targets == TargetForService(p, cat'[p], ServiceOf[j], job[j].machine)
  IN  /\ Look(p, j, "ready")
      /\ targets = {} \/ \E t \in targets : LocalDeployForThisControlPlane(p, j, t)
      /\ Become(j, [st |-> "claimed", plane |-> p, layout |-> dirs[ServiceOf[j]]])
      /\ UNCHANGED <<dirs, stored, probed>>

ExecScopeFallsBack(p, j) ==
  /\ Work(p, j, "claimed")
  /\ IF Selectable(p, cat'[p], ServiceOf[j], job[j].machine)
     THEN Become(j, [st |-> "scoped"])
     ELSE Become(j, [st |-> "scoped", machine |-> Local])
  /\ UNCHANGED <<dirs, stored, probed>>
(* The machine is checked again, and never replaced by another. *)
ExecScope(p, j) ==
  /\ Work(p, j, "claimed")
  /\ IF Selectable(p, cat'[p], ServiceOf[j], job[j].machine)
     THEN Become(j, [st |-> "scoped"])
     ELSE Fail(j, "machine")
  /\ UNCHANGED <<dirs, stored, probed>>

(* The suffix of the tag, or this plane's platform, against the machine's. *)
TagMatchesMachine(p, j, plat) ==
  (IF job[j].tag = Plain THEN PlatOf[p] ELSE job[j].tag) = plat

(* Channel, preflight of a remote machine, directory, and the platform that  *)
(* is known before anything is fetched.                                      *)
ExecResolve(p, j) ==
  LET d == job[j].layout
      Checked(target, dir) ==
        IF dir = None THEN Fail(j, "dir")
        ELSE IF ~LocalDeployForThisControlPlane(p, j, target) THEN Requeue(j, Explicit(j))
        ELSE IF ~TagMatchesMachine(p, j, PlatOf[target.host]) THEN Fail(j, "platform")
        ELSE Become(j, [st |-> "checked", site |-> [host |-> target.host, dir |-> dir]])
      targets == TargetForService(p, cat'[p], ServiceOf[j], job[j].machine)
  IN  /\ Work(p, j, "scoped")
      /\ \/ targets = {} /\ Fail(j, "machine")
         \/ \E t \in targets :
              LET os == PlatOf[t.host][1]
              IN  \/ ~t.remote /\ Checked(t, RuntimeDirForOS(d, os))
                  \/ t.remote /\ Fail(j, "probe")
                  \/ t.remote /\ Checked(t, RemoteDir(d, os))
      /\ UNCHANGED <<dirs, stored, probed>>

(* Download, then look at the executables, as far as they are visible:      *)
(* remotePlatformGuard refuses a foreign package, localBinaryGuard hands it *)
(* to the planes it was built for.  What passes is copied.                  *)
Fetch(p, j) ==
  LET bytes == stored[ServiceOf[j]][job[j].tag]
      h == job[j].site.host
  IN  /\ job[j].st = "checked" /\ job[j].plane = p
      /\ IF ServiceOf[j] \notin Visible \/ bytes = PlatOf[h]
         THEN Become(j, [st |-> "landed"])
         ELSE IF h = p THEN Requeue(j, bytes)
         ELSE Fail(j, "platform")
      /\ UNCHANGED <<catalogVars, dirs, stored, probed>>

-----------------------------------------------------------------------------
(* Other people, and the system. *)

PutService(s, d) ==
  /\ Change
  /\ dirs[s] # d
  /\ dirs' = [dirs EXCEPT ![s] = d]
  /\ UNCHANGED <<registered, answering, serving, cat, fresh, job, stored, probed>>

(* Another pipeline for the same commit, which found nothing stored (or no  *)
(* store) as it began, replaces what is under the plain tag by its own.     *)
Rebuild(p, s) ==
  /\ Change
  /\ stored' = [stored EXCEPT ![s][Plain] = PlatOf[p]]
  /\ UNCHANGED <<registered, answering, serving, cat, fresh, job, dirs, probed>>

(* A plane that stops has finished what it was doing (see DeployWorker). *)
Idle(p) == \A j \in Job : job[j].plane = p => Settled(j)

(* Bound: once every job has settled nothing that follows is of interest.    *)
Environment ==
  /\ \E j \in Job : ~Settled(j)
  /\ \/ CatalogEnvironment /\ UNCHANGED jobVars
     \/ \E p \in Plane :
          (StartServing(p) \/ (Idle(p) /\ StopServing(p))) /\ UNCHANGED jobVars
     \/ \E s \in Released, d \in Layouts : PutService(s, d)
     \/ \E p \in serving, s \in Released : Rebuild(p, s)

Init ==
  /\ CatalogInit
  /\ job = [j \in Job |->
       [st |-> "new", kind |-> None, by |-> None, plane |-> None, machine |-> None, asked |-> None,
        layout |-> {}, tag |-> Plain, stamp |-> None, why |-> None, site |-> None]]
  /\ dirs \in [Released -> Layouts]
  /\ stored \in [Released -> Before]
  /\ probed = [p \in Plane |-> [m \in Machine |-> None]]

PlaneStep(p, j) ==
  \/ Admit(p, j) \/ PackClaim(p, j) \/ PlatformFor(p, j)
  \/ PackageLook(p, j) \/ PackageUpload(p, j)
  \/ Claim(p, j) \/ ExecScope(p, j) \/ ExecResolve(p, j) \/ Fetch(p, j)

Next ==
  \/ \E p \in Plane, j \in Job, sel \in {None} \cup Machine : Request(p, j, sel)
  \/ \E p \in Plane, j \in Job : PlaneStep(p, j)
  \/ Environment

(* The workers tick for as long as their plane serves. *)
Fairness == \A p \in Plane, j \in Job : WF_vars(PlaneStep(p, j))
Spec == Init /\ [][Next]_vars
FairSpec == Spec /\ Fairness

-----------------------------------------------------------------------------
(* Properties. *)

(* Readings keep the instances under the ids this plane gives them; a job    *)
(* that runs has an executor, and one past its checks a place to go to.      *)
TypeOK ==
  /\ CatalogOK
  /\ dirs \in [Released -> Layouts]
  /\ stored \in [Released -> [Tag -> Platform \cup {None}]]
  /\ \A s \in Released, t \in Platform : stored[s][t] \in {None, t}
  /\ probed \in [Plane -> [Machine -> Platform \cup {None}]]
  /\ \A j \in Job :
       LET J == job[j] IN
       /\ J.st \in {"asked", "packing", "building", "compiling", "claimed", "scoped", "checked"}
            => J.plane \in Plane /\ J.machine \in Machine
       /\ J.st \in {"checked", "landed"} => J.site \in Place
       /\ J.stamp \in {None} \cup Platform /\ J.tag \in Tag

(* The hosts that machine m of service s stands for on plane p. *)
Meaning(p, s, m) ==
  IF m \in TargetIDs(p) THEN {Channel[p][m].host}
  ELSE {i.host : i \in {i \in Registrable : i.service = s /\ MachineIDForInstance(p, i) = m}}

(* A deploy lands on a host that the plane which executes it knows by the    *)
(* machine the caller named, however its reading changed meanwhile and       *)
(* whichever plane took the request; if that cannot be, it lands nowhere     *)
(* (executeDeploy: a choice that fails must not fall back to this machine).  *)
(* On a linux host reached over ssh it lands in runtimeDirs.linux, never in  *)
(* the channel's default nor in this machine's path.                         *)
LandsWhereTold ==
  \A j \in Job : job[j].st = "landed" =>
    LET at == job[j].site IN
    /\ at.host \in Meaning(job[j].plane, ServiceOf[j],
         IF job[j].asked = None THEN job[j].machine ELSE job[j].asked)
    /\ at.host # job[j].plane /\ PlatOf[at.host][1] = "linux" => at.dir = "linux"

(* A machine that the service never leaves and every plane has a channel for *)
(* is never refused for being unknown: an outage of the registry or an empty *)
(* cache is not "not bound" (Scope).                                         *)
BoundStaysDeployable ==
  \A j \in Job :
    LET m == job[j].machine IN
    /\ Settled(j)
    /\ \E i \in Fixed : i.service = ServiceOf[j]
         /\ \A p \in Plane : MachineIDForInstance(p, i) = m /\ m \in TargetIDs(p)
    => job[j].why # "machine"

(* While all planes serve, a queued deploy does not circle between planes    *)
(* for ever: it lands or it fails (RequeueDeploy records the platform).      *)
JobsSettle ==
  <>[](serving = Plane) => \A j \in Job : job[j].st = "ready" ~> Settled(j)
=============================================================================
