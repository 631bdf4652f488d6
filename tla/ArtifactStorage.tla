---------------------------- MODULE ArtifactStorage ----------------------------
(***************************************************************************)
(* Packages and the temporary directories they pass through (src/release.go*)
(* src/artifact_storage*.go, src/release_storage.go, src/artifact_store.go,*)
(* src/tempclean.go, and the calls in src/pipeline_worker.go,              *)
(* src/worker.go and src/main.go).                                         *)
(*                                                                         *)
(* A pipeline builds a tag unless the store has it, uploads the package,   *)
(* records in the artifacts table where it is, and queues a deploy; the    *)
(* deploy fetches it by the recorded path, waits for the project, and      *)
(* copies it out.  The store is a directory per plane, a GitHub release    *)
(* (an asset is never overwritten: delete, then upload under a new id) or  *)
(* an Aliyun repository (overwritten in one call).  Every step may fail    *)
(* and a plane may die at any time; what it leaves in the temp directory   *)
(* is removed at the next start, or by the janitor once it looks old.      *)
(***************************************************************************)

EXTENDS Naturals, Sequences, SequencesExt, FiniteSets

CONSTANTS
  Plane, Tag, None,
  PartOrder,      (* what a package consists of, in rsync's order           *)
  Backends,       (* \subseteq {"local", "github_release", "aliyun"}        *)
  MaxFaults       (* bound: failing steps and crashes                       *)

Part == ToSet(PartOrder)
ASSUME StorageAssumption ==
  /\ PartOrder \in Seq(Part) /\ IsInjective(PartOrder)
  /\ {"VERSION", "scripts"} \subseteq Part
  /\ Backends \subseteq {"local", "github_release", "aliyun"}
  /\ MaxFaults \in Nat

VARIABLES
  backend,
  shelf,          (* local: [Plane -> [Tag -> SUBSET Part]]                 *)
  released,       (* GitHub: tags that have a release                       *)
  asset,          (* has a tag an asset (GitHub) or object (Aliyun)?        *)
  row,            (* artifacts: the access path recorded for a tag, or None *)
  wanted,         (* tags with a queued deploy                              *)
  up,             (* "down", "serving" (before the clean-up) or "ready"     *)
  build, deploy,  (* the pipeline and the deploy a plane works on           *)
  temp,           (* its temporary directories                              *)
  faults
store == <<backend, shelf, released, asset>>
vars == <<store, row, wanted, up, build, deploy, temp, faults>>

(* References to an asset, in rows and in the memory of jobs. *)
Absent == 0
Current == 1
Deleted == 2

Idle == [st |-> "idle", tag |-> None, ref |-> None]
Dir(kind, mine, old) == [kind |-> kind, mine |-> mine, old |-> old]
BuildDirs == {"release-acp", "release-pkg"}
Mine(p, kind) == \E x \in temp[p] : x.kind = kind /\ x.mine

(* Bound: how many steps may go wrong. *)
Fault ==
  /\ faults < MaxFaults
  /\ faults' = faults + 1

(* removeAllForce, deferred: a job that ends takes its directories along. *)
Drop(p, kinds) ==
  temp' = [temp EXCEPT ![p] = {x \in @ : ~(x.mine /\ x.kind \in kinds)}]

-----------------------------------------------------------------------------
(* packageFromGit. *)

At(p, st) == build[p].st = st /\ up[p] # "down"
To(p, st) == build' = [build EXCEPT ![p].st = st]

PackEndKeepsStage(p) ==
  /\ build' = [build EXCEPT ![p] = Idle]
  /\ Drop(p, {"release-acp"})
PackEnd(p) ==
  /\ build' = [build EXCEPT ![p] = Idle]
  /\ Drop(p, BuildDirs)
PackFails(p) == PackEnd(p) /\ UNCHANGED <<store, row, wanted, up, deploy>>

PackStart(p, t) ==
  /\ At(p, "idle")
  /\ build' = [build EXCEPT ![p] = [st |-> "look", tag |-> t, ref |-> None]]
  /\ temp' = [temp EXCEPT ![p] = @ \cup {Dir("release-acp", TRUE, FALSE)}]
  /\ UNCHANGED <<store, row, wanted, up, deploy, faults>>

(* Does the store hold the tag?  A directory counts by its VERSION file. *)
LocalExists(p, t) == "VERSION" \in shelf[p][t]
AliyunExists(t) == asset[t] # Absent
ReleaseAssetExists(t) == t \in released /\ asset[t] # Absent
InStore(p, t) ==
  CASE backend = "local" -> LocalExists(p, t)
    [] backend = "aliyun" -> AliyunExists(t)
    [] backend = "github_release" -> ReleaseAssetExists(t)

(* A store that holds the tag saves the build; one that cannot be asked does *)
(* not.  Nothing is recorded for what was skipped.                           *)
Look(p) ==
  LET t == build[p].tag IN
  /\ At(p, "look") /\ Mine(p, "release-acp")
  /\ \/ /\ InStore(p, t)
        /\ wanted' = wanted \cup {t}
        /\ PackEnd(p)
        /\ UNCHANGED faults
     \/ /\ ~InStore(p, t) \/ backend # "local"
        /\ IF InStore(p, t) THEN Fault ELSE UNCHANGED faults
        /\ To(p, "build")
        /\ UNCHANGED <<wanted, temp>>
  /\ UNCHANGED <<store, row, up, deploy>>

Build(p) ==
  /\ At(p, "build") /\ Mine(p, "release-acp")
  /\ To(p, "stage")
  /\ temp' = [temp EXCEPT ![p] = @ \cup {Dir("release-pkg", TRUE, FALSE)}]
  /\ UNCHANGED <<store, row, wanted, up, deploy, faults>>

(* Any call of a job may fail, and does once its directory is gone. *)
Broken(p) ==
  \/ build[p].st \in {"look", "build"} /\ ~Mine(p, "release-acp")
  \/ build[p].st = "stage" /\ ~Mine(p, "release-pkg")
PackBreaks(p) ==
  /\ up[p] # "down"
  /\ \/ Broken(p) /\ UNCHANGED faults
     \/ build[p].st \notin {"idle", "look", "record"} /\ Fault
  /\ PackFails(p)

-----------------------------------------------------------------------------
(* Upload. *)

Uploaded(p, ref) ==
  build' = [build EXCEPT ![p] = [@ EXCEPT !.st = "record", !.ref = ref]]

(* rsync straight into the final directory, part by part. *)
UploadLocal(p) ==
  LET t == build[p].tag
      n == Cardinality(shelf[p][t] \cap Part)
  IN  /\ backend = "local" /\ At(p, "stage") /\ Mine(p, "release-pkg")
      /\ IF n < Len(PartOrder)
         THEN shelf' = [shelf EXCEPT ![p][t] = @ \cup {PartOrder[n + 1]}] /\ UNCHANGED build
         ELSE Uploaded(p, p) /\ UNCHANGED shelf
      /\ UNCHANGED <<backend, released, asset, row, wanted, up, deploy, temp, faults>>

UploadAliyunUnread(p) ==
  /\ backend = "aliyun" /\ At(p, "stage") /\ Mine(p, "release-pkg")
  /\ asset' \in {asset, [asset EXCEPT ![build[p].tag] = Current]}
  /\ Uploaded(p, Current)
  /\ UNCHANGED <<backend, shelf, released, row, wanted, up, deploy, temp, faults>>
(* One POST, under an address that never changes. *)
UploadAliyun(p) ==
  /\ backend = "aliyun" /\ At(p, "stage") /\ Mine(p, "release-pkg")
  /\ asset' = [asset EXCEPT ![build[p].tag] = Current]
  /\ Uploaded(p, Current)
  /\ UNCHANGED <<backend, shelf, released, row, wanted, up, deploy, temp, faults>>

GetReleaseAlwaysCreates(p) ==
  /\ backend = "github_release" /\ At(p, "stage") /\ Mine(p, "release-pkg")
  /\ build' = [build EXCEPT ![p].st = "create"]
  /\ UNCHANGED <<store, row, wanted, up, deploy, temp, faults>>
(* ghGetOrCreateRelease: what the release holds by now is what gets deleted. *)
GetRelease(p) ==
  /\ backend = "github_release" /\ At(p, "stage") /\ Mine(p, "release-pkg")
  /\ IF build[p].tag \in released
     THEN build' = [build EXCEPT ![p].st = "delete", ![p].ref = asset[build[p].tag]]
     ELSE build' = [build EXCEPT ![p].st = "create"]
  /\ UNCHANGED <<store, row, wanted, up, deploy, temp, faults>>

CreateRelease(p) ==
  /\ At(p, "create")
  /\ IF build[p].tag \in released
     THEN PackEnd(p) /\ UNCHANGED released
     ELSE /\ released' = released \cup {build[p].tag}
          /\ build' = [build EXCEPT ![p].st = "delete", ![p].ref = Absent]
          /\ UNCHANGED temp
  /\ UNCHANGED <<backend, shelf, asset, row, wanted, up, deploy, faults>>

(* Ids are never given out twice: who remembers the id of a deleted asset    *)
(* holds one that names nothing.                                             *)
Outdated(job, t) == IF job.tag = t /\ job.ref = Current THEN [job EXCEPT !.ref = Deleted] ELSE job

DeleteAsset(p) ==
  LET t == build[p].tag IN
  /\ At(p, "delete")
  /\ IF build[p].ref = Absent
     THEN To(p, "post") /\ UNCHANGED <<asset, row, deploy, temp>>
     ELSE IF build[p].ref = Deleted
     THEN PackEnd(p) /\ UNCHANGED <<asset, row, deploy>>
     ELSE /\ asset' = [asset EXCEPT ![t] = Absent]
          /\ row' = [row EXCEPT ![t] = IF @ = Current THEN Deleted ELSE @]
          /\ deploy' = [x \in Plane |-> Outdated(deploy[x], t)]
          /\ build' = [[x \in Plane |-> Outdated(build[x], t)] EXCEPT ![p].st = "post"]
          /\ UNCHANGED temp
  /\ UNCHANGED <<backend, shelf, released, wanted, up, faults>>

PostAsset(p) ==
  LET t == build[p].tag IN
  /\ At(p, "post")
  /\ IF asset[t] # Absent THEN PackEnd(p) /\ UNCHANGED asset
     ELSE /\ asset' = [asset EXCEPT ![t] = Current]
          /\ Uploaded(p, Current)
          /\ UNCHANGED temp
  /\ UNCHANGED <<backend, shelf, released, row, wanted, up, deploy, faults>>

(* RecordArtifact (an error is only logged), then the deploy is queued. *)
Record(p) ==
  LET t == build[p].tag IN
  /\ At(p, "record")
  /\ \/ row' = [row EXCEPT ![t] = build[p].ref] /\ UNCHANGED faults
     \/ UNCHANGED row /\ Fault
  /\ wanted' = wanted \cup {t}
  /\ PackEnd(p)
  /\ UNCHANGED <<store, up, deploy>>

-----------------------------------------------------------------------------
(* executeDeploy, as far as the package is concerned. *)

DeployEnd(p) ==
  /\ deploy' = [deploy EXCEPT ![p] = Idle]
  /\ Drop(p, {"deploy-pkg"})

DeployStart(p, t) ==
  /\ up[p] # "down" /\ deploy[p].st = "idle" /\ t \in wanted
  /\ wanted' = wanted \ {t}
  /\ deploy' = [deploy EXCEPT ![p] = [st |-> "fetch", tag |-> t, ref |-> row[t]]]
  /\ temp' = [temp EXCEPT ![p] = @ \cup {Dir("deploy-pkg", TRUE, FALSE)}]
  /\ UNCHANGED <<store, row, up, build, faults>>

(* A recorded path is used as it is, right or wrong; without one the store   *)
(* is asked.  A plane does not see the directories of another.               *)
LocalDownload(p, t, ref) == ref \in {None, p} /\ shelf[p][t] # {}
AliyunDownload(t) == asset[t] # Absent
ReleaseDownload(t, ref) == asset[t] # Absent /\ ref \in {None, Current}
Downloaded(p, t, ref) ==
  CASE backend = "local" -> LocalDownload(p, t, ref)
    [] backend = "aliyun" -> AliyunDownload(t)
    [] backend = "github_release" -> ReleaseDownload(t, ref)
(* A package without its VERSION or its restart script is refused.           *)
Fetched(p, t, ref) ==
  /\ Downloaded(p, t, ref)
  /\ backend = "local" => {"VERSION", "scripts"} \subseteq shelf[p][t]

(* rsync -a gives the directory the date of the stored package. *)
Fetch(p) ==
  /\ up[p] # "down" /\ deploy[p].st = "fetch"
  /\ IF Fetched(p, deploy[p].tag, deploy[p].ref) /\ Mine(p, "deploy-pkg")
     THEN /\ deploy' = [deploy EXCEPT ![p].st = "wait"]
          /\ \E old \in {FALSE, backend = "local"} :
               temp' = [temp EXCEPT ![p] =
                 {x \in @ : ~(x.mine /\ x.kind = "deploy-pkg")} \cup {Dir("deploy-pkg", TRUE, old)}]
     ELSE DeployEnd(p)
  /\ UNCHANGED <<store, row, wanted, up, build, faults>>

(* The graceful wait is over; the push fails if the directory is gone. *)
Push(p) ==
  /\ up[p] # "down" /\ deploy[p].st = "wait"
  /\ DeployEnd(p)
  /\ UNCHANGED <<store, row, wanted, up, build, faults>>

-----------------------------------------------------------------------------
(* Temporary directories and the life of a plane. *)

HasBuildPrefix(x) == x.kind \in BuildDirs
HasTempWorkPrefix(x) == x.kind \in BuildDirs \cup {"deploy-pkg"}

(* cleanupStaleTempWork every half hour, whoever uses the directory. *)
Sweep(p) ==
  LET due == {x \in temp[p] : HasTempWorkPrefix(x) /\ x.old} IN
  /\ up[p] = "ready"
  /\ due # {}
  /\ temp' = [temp EXCEPT ![p] = @ \ due]
  /\ UNCHANGED <<store, row, wanted, up, build, deploy, faults>>

(* An hour passes.  Bound: no work in progress takes as long as that.       *)
Age(p) ==
  LET aged == {x \in temp[p] : ~x.old /\ ~x.mine} IN
  /\ aged # {}
  /\ temp' = [temp EXCEPT ![p] = (@ \ aged) \cup {[x EXCEPT !.old = TRUE] : x \in aged}]
  /\ UNCHANGED <<store, row, wanted, up, build, deploy, faults>>

Die(p) ==
  /\ up[p] # "down"
  /\ Fault
  /\ up' = [up EXCEPT ![p] = "down"]
  /\ build' = [build EXCEPT ![p] = Idle]
  /\ deploy' = [deploy EXCEPT ![p] = Idle]
  /\ temp' = [temp EXCEPT ![p] = {[x EXCEPT !.mine = FALSE] : x \in @}]
  /\ UNCHANGED <<store, row, wanted>>

(* Listen and serve: from here on a request kicks the workers. *)
Boot(p) ==
  /\ up[p] = "down"
  /\ up' = [up EXCEPT ![p] = "serving"]
  /\ UNCHANGED <<store, row, wanted, build, deploy, temp, faults>>

(* cleanupStaleTempWork(0), then worker.Start and the janitor. *)
StartUpClean(p) ==
  /\ up[p] = "serving"
  /\ up' = [up EXCEPT ![p] = "ready"]
  /\ temp' = [temp EXCEPT ![p] = {x \in @ : ~HasTempWorkPrefix(x)}]
  /\ UNCHANGED <<store, row, wanted, build, deploy, faults>>

Init ==
  /\ backend \in Backends
  /\ shelf = [p \in Plane |-> [t \in Tag |-> {}]]
  /\ released = {}
  /\ asset = [t \in Tag |-> Absent]
  /\ row = [t \in Tag |-> None]
  /\ wanted = {}
  /\ up = [p \in Plane |-> "ready"]
  /\ build = [p \in Plane |-> Idle]
  /\ deploy = [p \in Plane |-> Idle]
  /\ temp = [p \in Plane |-> {}]
  /\ faults = 0

Worker(p) ==
  \/ Look(p) \/ Build(p) \/ PackBreaks(p) \/ Record(p)
  \/ UploadLocal(p) \/ UploadAliyun(p)
  \/ GetRelease(p) \/ CreateRelease(p) \/ DeleteAsset(p) \/ PostAsset(p)
DeployWorker(p) == Fetch(p) \/ Push(p)
Keeper(p) == Sweep(p) \/ Age(p) \/ Boot(p) \/ StartUpClean(p)

Next == \E p \in Plane :
  \/ \E t \in Tag : PackStart(p, t) \/ DeployStart(p, t)
  \/ Worker(p) \/ DeployWorker(p) \/ Keeper(p) \/ Die(p)

(* The workers go on, hours pass, a dead plane is started again; and the     *)
(* release is asked for again as long as it is wanted.                       *)
Fairness == \A p \in Plane :
  /\ WF_vars(Worker(p)) /\ WF_vars(DeployWorker(p))
  /\ WF_vars(Sweep(p)) /\ WF_vars(Age(p)) /\ WF_vars(Boot(p)) /\ WF_vars(StartUpClean(p))
  /\ \A t \in Tag : WF_vars(PackStart(p, t))
Spec == Init /\ [][Next]_vars
FairSpec == Spec /\ Fairness

-----------------------------------------------------------------------------
(* Properties. *)

(* A process's directories belong to a job it is working on: whatever way a  *)
(* job ends, its directories go with it (the deferred removeAllForce).       *)
TypeOK ==
  /\ \A p \in Plane : \A x \in temp[p] :
       /\ x \in [kind : BuildDirs \cup {"deploy-pkg"}, mine : BOOLEAN, old : BOOLEAN]
       /\ x.mine => (IF x.kind = "deploy-pkg" THEN deploy[p].st # "idle" ELSE build[p].st # "idle")
  /\ \A p \in Plane, t \in Tag :
       \E n \in 0..Len(PartOrder) : shelf[p][t] = {PartOrder[k] : k \in 1..n}
  /\ \A t \in Tag : asset[t] # Absent => backend # "local" /\ (backend = "github_release" => t \in released)
  /\ wanted \subseteq Tag /\ up \in [Plane -> {"down", "serving", "ready"}]
  /\ faults \in 0..MaxFaults

(* A deploy that a pipeline queued finds the package in the store, whatever  *)
(* failed or died before, unless the store is a GitHub release, where a      *)
(* second upload first deletes the first (uploadPackageToRelease).           *)
QueuedHasPackage ==
  \A t \in wanted : backend # "github_release" => \E p \in Plane : InStore(p, t)

(* Every directory left behind by a process that died is removed some day,   *)
(* at the next start or by the janitor (startTempWorkJanitor).               *)
NothingLeaks ==
  \A p \in Plane :
    (\E x \in temp[p] : ~x.mine) ~> (\A x \in temp[p] : x.mine)

(* No half-finished upload blocks the next one: a tag that is not in the     *)
(* store, be it that its old asset is deleted and the new one was never      *)
(* uploaded or that its release is empty, gets there when it is asked for.   *)
StoreHeals ==
  \A p \in Plane, t \in Tag : ~InStore(p, t) ~> InStore(p, t)

(* What a local store calls present is a whole package (localStorage.Exists: *)
(* VERSION is required "so a partial/empty dir is not treated as present").  *)
PresentIsWhole ==
  \A p \in Plane, t \in Tag :
    backend = "local" /\ InStore(p, t) /\ build[p].st = "idle" => shelf[p][t] = Part
=============================================================================
