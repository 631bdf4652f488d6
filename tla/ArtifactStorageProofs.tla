------------------------ MODULE ArtifactStorageProofs ------------------------
(* Proofs about ArtifactStorage, for every number of planes, tags and faults *)
(* and whatever a package consists of.                                       *)
EXTENDS ArtifactStorage, SequenceTheorems, FiniteSetTheorems, TLAPS

-----------------------------------------------------------------------------
(* The inductive invariant. *)

Kinds == BuildDirs \cup {"deploy-pkg"}
Ref == Plane \cup {None, Absent, Current, Deleted}
BuildJob == [st : {"idle", "look", "build", "stage", "create", "delete", "post", "record"},
             tag : Tag \cup {None}, ref : Ref]
DeployJob == [st : {"idle", "fetch", "wait"}, tag : Tag \cup {None}, ref : Ref]
TempDir == [kind : Kinds, mine : BOOLEAN, old : BOOLEAN]

StoreOK ==
  /\ backend \in Backends /\ released \subseteq Tag
  /\ shelf \in [Plane -> [Tag -> SUBSET Part]]
  /\ asset \in [Tag -> {Absent, Current}] /\ row \in [Tag -> Ref]
JobsOK ==
  /\ build \in [Plane -> BuildJob] /\ deploy \in [Plane -> DeployJob]
  /\ \A p \in Plane : build[p].st # "idle" => build[p].tag \in Tag
RestOK ==
  /\ wanted \subseteq Tag /\ up \in [Plane -> {"down", "serving", "ready"}]
  /\ faults \in 0..MaxFaults
(* Whose directory it is, is at work. *)
TempOK ==
  /\ temp \in [Plane -> SUBSET TempDir]
  /\ \A p \in Plane : \A x \in temp[p] : x.mine =>
       (IF x.kind = "deploy-pkg" THEN deploy[p].st # "idle" ELSE build[p].st # "idle")

(* rsync leaves the first n parts behind, wherever it stops.                 *)
FirstParts(n) == {PartOrder[k] : k \in 1..n}
ShelvesOK == \A p \in Plane, t \in Tag : \E n \in 0..Len(PartOrder) : shelf[p][t] = FirstParts(n)

(* Assets are uploaded to releases that exist. *)
AssetsOK ==
  /\ \A t \in Tag : asset[t] # Absent =>
       backend # "local" /\ (backend = "github_release" => t \in released)
  /\ \A p \in Plane : build[p].st \in {"create", "delete", "post"} => backend = "github_release"
  /\ \A p \in Plane : build[p].st \in {"delete", "post"} => build[p].tag \in released

(* Who is about to record a package has stored it.                           *)
StoredAt(p) ==
  build[p].st = "record" =>
    /\ backend = "local" => "VERSION" \in shelf[p][build[p].tag]
    /\ backend = "aliyun" => asset[build[p].tag] # Absent

Inv ==
  /\ StoreOK /\ JobsOK /\ RestOK /\ TempOK /\ ShelvesOK /\ AssetsOK
  /\ \A p \in Plane : StoredAt(p)
  /\ QueuedHasPackage

-----------------------------------------------------------------------------
(* Shelves. *)

LEMMA OrderIs ==
  /\ Len(PartOrder) \in Nat /\ PartOrder \in [1..Len(PartOrder) -> Part]
  /\ \A k, l \in 1..Len(PartOrder) : PartOrder[k] = PartOrder[l] => k = l
  /\ "VERSION" \in Part
BY StorageAssumption, LenProperties DEF IsInjective

LEMMA WholeIs == FirstParts(Len(PartOrder)) = Part
BY OrderIs DEF FirstParts, Part, ToSet

LEMMA PartsFinite == IsFiniteSet(Part)
<1>1. PartOrder \in Surjection(1..Len(PartOrder), Part)
  BY OrderIs DEF Part, ToSet, Surjection
<1>2. QED
  BY <1>1, OrderIs, FS_Interval, FS_Surjection

(* The first n parts are n parts ... *)
LEMMA FirstPartsCounted ==
  ASSUME NEW n \in 0..Len(PartOrder)
  PROVE  Cardinality(FirstParts(n) \cap Part) = n
<1> DEFINE f == [k \in 1..n |-> PartOrder[k]]
<1>1. n \in Nat /\ \A k \in 1..n : k \in 1..Len(PartOrder)
  BY OrderIs
<1>2. FirstParts(n) \cap Part = FirstParts(n)
  BY <1>1, OrderIs DEF FirstParts
<1>3. f \in Bijection(1..n, FirstParts(n))
  BY <1>1, OrderIs DEF FirstParts, Bijection, Injection, Surjection, IsInjective
<1>4. Cardinality(FirstParts(n)) = n
  BY <1>1, <1>3, FS_CountingElements DEF ExistsBijection
<1>5. QED
  BY <1>2, <1>4

(* ... and the next part makes them n + 1. *)
LEMMA FirstPartsGrow ==
  ASSUME NEW n \in Nat
  PROVE  FirstParts(n) \cup {PartOrder[n + 1]} = FirstParts(n + 1)
<1>1. 1..(n + 1) = 1..n \cup {n + 1}
  OBVIOUS
<1>2. QED
  BY <1>1 DEF FirstParts

-----------------------------------------------------------------------------
(* Types. *)

LEMMA StageNames ==
  /\ Idle \in BuildJob /\ Idle \in DeployJob
  /\ Absent # Current /\ Current # Deleted /\ Absent # Deleted
  /\ \A kind \in Kinds, mine, old \in BOOLEAN : Dir(kind, mine, old) \in TempDir
BY DEF Idle, BuildJob, DeployJob, Ref, Absent, Current, Deleted, Dir, TempDir

(* The job of one plane changes, to a job.                                   *)
LEMMA BuildBecomes ==
  ASSUME JobsOK, NEW p \in Plane, NEW b \in BuildJob, b.st # "idle" => b.tag \in Tag,
         build' = [build EXCEPT ![p] = b], deploy' = deploy
  PROVE  JobsOK'
BY DEF JobsOK

LEMMA DeployBecomes ==
  ASSUME JobsOK, NEW p \in Plane, NEW b \in DeployJob,
         deploy' = [deploy EXCEPT ![p] = b], build' = build
  PROVE  JobsOK'
BY DEF JobsOK

LEMMA BuildMoves ==
  ASSUME JobsOK, NEW p \in Plane, build[p].st # "idle",
         NEW st \in {"look", "build", "stage", "create", "delete", "post", "record"}, NEW ref \in Ref
  PROVE  /\ [build[p] EXCEPT !.st = st] \in BuildJob
         /\ [build[p] EXCEPT !.st = st, !.ref = ref] \in BuildJob
         /\ [build[p] EXCEPT !.st = st].tag \in Tag
         /\ [build[p] EXCEPT !.st = st, !.ref = ref].tag \in Tag
BY DEF JobsOK, BuildJob

LEMMA JobsStep ==
  ASSUME StoreOK, JobsOK, RestOK, [Next]_vars
  PROVE  JobsOK'
<1>1. CASE UNCHANGED <<build, deploy>>
  BY <1>1 DEF JobsOK
<1>2. ASSUME NEW p \in Plane, NEW t \in Tag, PackStart(p, t)
      PROVE  JobsOK'
  <2>1. [st |-> "look", tag |-> t, ref |-> None] \in BuildJob
    BY DEF BuildJob, Ref
  <2>2. QED
    BY <1>2, <2>1, BuildBecomes DEF PackStart
<1>3. ASSUME NEW p \in Plane, NEW t \in Tag, DeployStart(p, t)
      PROVE  JobsOK'
  <2>1. [st |-> "fetch", tag |-> t, ref |-> row[t]] \in DeployJob
    BY DEF StoreOK, DeployJob
  <2>2. QED
    BY <1>3, <2>1, DeployBecomes DEF DeployStart
<1>4. ASSUME NEW p \in Plane, PackEnd(p), deploy' = deploy
      PROVE  JobsOK'
  <2>1. Idle \in BuildJob /\ Idle.st = "idle"
    BY StageNames DEF Idle
  <2>2. QED
    BY <1>4, <2>1, BuildBecomes DEF PackEnd
<1>5. ASSUME NEW p \in Plane, NEW st \in {"build", "stage", "post"}, build[p].st # "idle",
             To(p, st), deploy' = deploy
      PROVE  JobsOK'
  <2> DEFINE b == [build[p] EXCEPT !.st = st]
  <2>1. b \in BuildJob /\ b.tag \in Tag
    BY <1>5, BuildMoves DEF StoreOK, Ref
  <2>2. build' = [build EXCEPT ![p] = b]
    BY <1>5 DEF To
  <2> HIDE DEF b
  <2>3. QED
    BY <1>5, <2>1, <2>2, BuildBecomes
<1>6. ASSUME NEW p \in Plane, NEW ref \in Ref, build[p].st # "idle", Uploaded(p, ref), deploy' = deploy
      PROVE  JobsOK'
  <2>1. build' = [build EXCEPT ![p] = [build[p] EXCEPT !.st = "record", !.ref = ref]]
    BY <1>6 DEF Uploaded
  <2>2. QED
    BY <1>6, <2>1, BuildMoves, BuildBecomes
<1>7. ASSUME NEW p \in Plane, Look(p) \/ Build(p) \/ PackBreaks(p) \/ Record(p)
      PROVE  JobsOK'
  BY <1>4, <1>5, <1>7 DEF Look, Build, PackBreaks, PackFails, Record, At
<1>8. ASSUME NEW p \in Plane, UploadLocal(p) \/ UploadAliyun(p) \/ PostAsset(p)
      PROVE  JobsOK'
  <2>1. p \in Ref /\ Current \in Ref
    BY DEF Ref
  <2>2. QED
    BY <1>1, <1>4, <1>6, <1>8, <2>1 DEF UploadLocal, UploadAliyun, PostAsset, At
<1>9. ASSUME NEW p \in Plane, GetRelease(p)
      PROVE  JobsOK'
  <2> DEFINE ref == asset[build[p].tag]
  <2>1. build[p].st = "stage" /\ deploy' = deploy
    BY <1>9 DEF GetRelease, At
  <2>2. ref \in Ref
    BY <2>1 DEF StoreOK, JobsOK, Ref
  <2>3. CASE build' = [build EXCEPT ![p].st = "create"]
    <3>1. build' = [build EXCEPT ![p] = [build[p] EXCEPT !.st = "create"]]
      BY <2>3
    <3>2. QED
      BY <2>1, <2>2, <3>1, BuildMoves, BuildBecomes
  <2>4. CASE build' = [build EXCEPT ![p].st = "delete", ![p].ref = ref]
    <3>1. build' = [build EXCEPT ![p] = [build[p] EXCEPT !.st = "delete", !.ref = ref]]
      BY <2>4 DEF JobsOK
    <3>2. QED
      BY <2>1, <2>2, <3>1, BuildMoves, BuildBecomes
  <2>5. QED
    BY <1>9, <2>3, <2>4 DEF GetRelease
<1>10. ASSUME NEW p \in Plane, CreateRelease(p)
       PROVE  JobsOK'
  <2>1. build[p].st = "create" /\ deploy' = deploy
    BY <1>10 DEF CreateRelease, At
  <2>2. CASE build' = [build EXCEPT ![p].st = "delete", ![p].ref = Absent]
    <3>1. build' = [build EXCEPT ![p] = [build[p] EXCEPT !.st = "delete", !.ref = Absent]]
      BY <2>2 DEF JobsOK
    <3>2. Absent \in Ref
      BY DEF Ref
    <3>3. QED
      BY <2>1, <3>1, <3>2, BuildMoves, BuildBecomes
  <2>3. QED
    BY <1>4, <1>10, <2>1, <2>2 DEF CreateRelease
<1>11. ASSUME NEW p \in Plane, DeleteAsset(p)
       PROVE  JobsOK'
  <2> DEFINE t == build[p].tag
             bs == [x \in Plane |-> Outdated(build[x], t)]
  <2>1. build[p].st = "delete"
    BY <1>11 DEF DeleteAsset, At
  <2>2. CASE deploy' = [x \in Plane |-> Outdated(deploy[x], t)] /\ build' = [bs EXCEPT ![p].st = "post"]
    <3>1. \A x \in Plane : Outdated(deploy[x], t) \in DeployJob
      BY DEF JobsOK, DeployJob, Outdated, Ref
    <3>2. \A x \in Plane : bs[x] \in BuildJob /\ bs[x].st = build[x].st /\ bs[x].tag = build[x].tag
      BY DEF JobsOK, BuildJob, Outdated, Ref
    <3>3. [bs[p] EXCEPT !.st = "post"] \in BuildJob /\ [bs[p] EXCEPT !.st = "post"].tag = build[p].tag
      BY <3>2 DEF BuildJob
    <3> HIDE DEF bs
    <3>4. bs \in [Plane -> BuildJob]
      BY <3>2 DEF bs
    <3>5. /\ build' \in [Plane -> BuildJob] /\ build'[p].tag = build[p].tag
          /\ \A x \in Plane \ {p} : build'[x] = bs[x]
      BY <2>2, <3>3, <3>4
    <3>6. deploy' \in [Plane -> DeployJob]
      BY <2>2, <3>1
    <3>7. QED
      BY <2>1, <3>2, <3>5, <3>6 DEF JobsOK
  <2>3. QED
    BY <1>4, <1>5, <1>11, <2>1, <2>2 DEF DeleteAsset
<1>12. ASSUME NEW p \in Plane, DeployEnd(p), build' = build
       PROVE  JobsOK'
  BY <1>12, StageNames, DeployBecomes DEF DeployEnd
<1>13. ASSUME NEW p \in Plane, Fetch(p) \/ Push(p)
       PROVE  JobsOK'
  <2>1. CASE deploy' = [deploy EXCEPT ![p].st = "wait"]
    <3>1. deploy' = [deploy EXCEPT ![p] = [deploy[p] EXCEPT !.st = "wait"]]
      BY <2>1
    <3>2. [deploy[p] EXCEPT !.st = "wait"] \in DeployJob
      BY DEF JobsOK, DeployJob
    <3>3. QED
      BY <1>13, <3>1, <3>2, DeployBecomes DEF Fetch, Push
  <2>2. QED
    BY <1>12, <1>13, <2>1 DEF Fetch, Push
<1>14. ASSUME NEW p \in Plane, Die(p)
       PROVE  JobsOK'
  BY <1>14, StageNames DEF Die, JobsOK, Idle
<1>15. QED
  BY <1>1, <1>2, <1>3, <1>7, <1>8, <1>9, <1>10, <1>11, <1>13, <1>14
     DEF Next, Worker, DeployWorker, Keeper, Sweep, Age, Boot, StartUpClean, vars

LEMMA StoreStep ==
  ASSUME StoreOK, JobsOK, RestOK, [Next]_vars
  PROVE  StoreOK'
<1> USE DEF StoreOK, Ref, Absent, Current, Deleted
<1>1. CASE UNCHANGED <<store, row>>
  BY <1>1 DEF store
<1>2. ASSUME NEW p \in Plane, Record(p)
      PROVE  StoreOK'
  <2>1. build[p].ref \in Ref /\ build[p].tag \in Tag
    BY <1>2 DEF JobsOK, BuildJob, Record, At
  <2>2. QED
    BY <1>2, <2>1 DEF Record, store
<1>3. ASSUME NEW p \in Plane, UploadLocal(p)
      PROVE  StoreOK'
  <2> DEFINE t == build[p].tag
             n == Cardinality(shelf[p][t] \cap Part)
  <2>1. t \in Tag
    BY <1>3 DEF JobsOK, UploadLocal, At
  <2>2. CASE n < Len(PartOrder)
    <3>1. PartOrder[n + 1] \in Part
      <4>1. IsFiniteSet(Part)
        BY PartsFinite
      <4>2. n \in Nat
        BY <4>1, FS_Subset, FS_CardinalityType
      <4>3. QED
        BY <2>2, <4>2, OrderIs
    <3>2. QED
      BY <1>3, <2>1, <2>2, <3>1 DEF UploadLocal
  <2>3. CASE ~(n < Len(PartOrder))
    BY <1>3, <2>3 DEF UploadLocal
  <2>4. QED
    BY <2>2, <2>3
<1>4. ASSUME NEW p \in Plane, UploadAliyun(p) \/ CreateRelease(p) \/ PostAsset(p) \/ DeleteAsset(p)
      PROVE  StoreOK'
  BY <1>4 DEF UploadAliyun, CreateRelease, PostAsset, DeleteAsset, At, JobsOK
<1>5. QED
  BY <1>1, <1>2, <1>3, <1>4
     DEF Next, PackStart, DeployStart, Worker, Look, Build, PackBreaks, PackFails, GetRelease, DeployWorker, Fetch, Push,
         Keeper, Sweep, Age, Boot, StartUpClean, Die, vars, store

LEMMA RestStep ==
  ASSUME StoreOK, JobsOK, RestOK, [Next]_vars
  PROVE  RestOK'
<1> USE StorageAssumption DEF RestOK
<1>1. CASE UNCHANGED <<wanted, up>> /\ (Fault \/ UNCHANGED faults)
  BY <1>1 DEF Fault
<1>2. ASSUME NEW p \in Plane, NEW t \in Tag, DeployStart(p, t)
      PROVE  RestOK'
  BY <1>2 DEF DeployStart
<1>3. ASSUME NEW p \in Plane, Look(p) \/ Record(p)
      PROVE  RestOK'
  BY <1>3 DEF Look, Record, At, JobsOK, Fault
<1>4. ASSUME NEW p \in Plane, Boot(p) \/ StartUpClean(p) \/ Die(p)
      PROVE  RestOK'
  BY <1>4 DEF Boot, StartUpClean, Die, Fault
<1>5. QED
  BY <1>1, <1>2, <1>3, <1>4
     DEF Next, PackStart, Worker, Build, PackBreaks, PackFails, UploadLocal, UploadAliyun, GetRelease, CreateRelease,
         DeleteAsset, PostAsset, DeployWorker, Fetch, Push, Keeper, Sweep, Age, vars, store

(* Directories of one plane change, and the jobs of no other.                *)
Own(p, x) == x.mine => (IF x.kind = "deploy-pkg" THEN deploy[p].st # "idle" ELSE build[p].st # "idle")

LEMMA DirsBecome ==
  ASSUME TempOK, NEW p \in Plane, NEW dirs \in SUBSET TempDir, temp' = [temp EXCEPT ![p] = dirs],
         \A q \in Plane \ {p} : build'[q] = build[q] /\ deploy'[q] = deploy[q],
         \A x \in dirs : Own(p, x)'
  PROVE  TempOK'
BY DEF TempOK, Own

LEMMA TempStep ==
  ASSUME JobsOK, TempOK, [Next]_vars
  PROVE  TempOK'
<1>1. CASE UNCHANGED <<build, deploy, temp>>
  BY <1>1 DEF TempOK
<1>2. \A p \in Plane : temp[p] \subseteq TempDir /\ \A x \in temp[p] : Own(p, x)
  BY DEF TempOK, Own
<1>3. ASSUME NEW p \in Plane, NEW t \in Tag, PackStart(p, t)
      PROVE  TempOK'
  <2> DEFINE dirs == temp[p] \cup {Dir("release-acp", TRUE, FALSE)}
  <2>1. temp' = [temp EXCEPT ![p] = dirs] /\ deploy' = deploy /\ dirs \subseteq TempDir
    BY <1>2, <1>3, StageNames DEF PackStart, Kinds, BuildDirs
  <2>2. build'[p].st = "look" /\ \A q \in Plane \ {p} : build'[q] = build[q]
    BY <1>3 DEF PackStart, JobsOK
  <2>3. \A x \in dirs : Own(p, x)'
    BY <1>2, <2>1, <2>2 DEF Own, Dir
  <2> HIDE DEF dirs
  <2>4. QED
    BY <2>1, <2>2, <2>3, DirsBecome
<1>4. ASSUME NEW p \in Plane, NEW t \in Tag, DeployStart(p, t)
      PROVE  TempOK'
  <2> DEFINE dirs == temp[p] \cup {Dir("deploy-pkg", TRUE, FALSE)}
  <2>1. temp' = [temp EXCEPT ![p] = dirs] /\ build' = build /\ dirs \subseteq TempDir
    BY <1>2, <1>4, StageNames DEF DeployStart, Kinds
  <2>2. deploy'[p].st = "fetch" /\ \A q \in Plane \ {p} : deploy'[q] = deploy[q]
    BY <1>4 DEF DeployStart, JobsOK
  <2>3. \A x \in dirs : Own(p, x)'
    BY <1>2, <2>1, <2>2 DEF Own, Dir
  <2> HIDE DEF dirs
  <2>4. QED
    BY <2>1, <2>2, <2>3, DirsBecome
<1>5. ASSUME NEW p \in Plane, NEW S, temp' = [temp EXCEPT ![p] = S], S \subseteq temp[p],
             UNCHANGED <<build, deploy>>
      PROVE  TempOK'
  BY <1>2, <1>5, DirsBecome DEF Own
<1>6. ASSUME NEW p \in Plane, PackEnd(p), deploy' = deploy
      PROVE  TempOK'
  <2> DEFINE dirs == {x \in temp[p] : ~(x.mine /\ x.kind \in BuildDirs)}
  <2>1. temp' = [temp EXCEPT ![p] = dirs] /\ dirs \subseteq temp[p]
    BY <1>6 DEF PackEnd, Drop
  <2>2. \A q \in Plane \ {p} : build'[q] = build[q]
    BY <1>6 DEF PackEnd, JobsOK
  <2>3. \A x \in dirs : Own(p, x)'
    BY <1>2, <1>6 DEF Own, TempDir, Kinds
  <2> HIDE DEF dirs
  <2>4. QED
    BY <1>2, <1>6, <2>1, <2>2, <2>3, DirsBecome
<1>7. ASSUME NEW p \in Plane, DeployEnd(p), build' = build
      PROVE  TempOK'
  <2> DEFINE dirs == {x \in temp[p] : ~(x.mine /\ x.kind \in {"deploy-pkg"})}
  <2>1. temp' = [temp EXCEPT ![p] = dirs] /\ dirs \subseteq temp[p]
    BY <1>7 DEF DeployEnd, Drop
  <2>2. \A q \in Plane \ {p} : deploy'[q] = deploy[q]
    BY <1>7 DEF DeployEnd, JobsOK
  <2>3. \A x \in dirs : Own(p, x)'
    BY <1>2, <1>7 DEF Own
  <2> HIDE DEF dirs
  <2>4. QED
    BY <1>2, <1>7, <2>1, <2>2, <2>3, DirsBecome
<1>8. ASSUME temp' = temp,
             \A q \in Plane : /\ build'[q].st = "idle" => build[q].st = "idle"
                              /\ deploy'[q].st = "idle" => deploy[q].st = "idle"
      PROVE  TempOK'
  BY <1>8 DEF TempOK
<1>9. ASSUME NEW p \in Plane, NEW st \in {"build", "post"}, To(p, st), UNCHANGED <<deploy, temp>>
      PROVE  TempOK'
  <2>1. \A q \in Plane : build'[q].st = "idle" => build[q].st = "idle"
    BY <1>9 DEF To, JobsOK, BuildJob
  <2>2. QED
    BY <1>8, <1>9, <2>1
<1>10. ASSUME NEW p \in Plane, NEW ref, Uploaded(p, ref), UNCHANGED <<deploy, temp>>
       PROVE  TempOK'
  <2>1. \A q \in Plane : build'[q].st = "idle" => build[q].st = "idle"
    BY <1>10 DEF Uploaded, JobsOK, BuildJob
  <2>2. QED
    BY <1>8, <1>10, <2>1
<1>11. ASSUME NEW p \in Plane, Build(p)
       PROVE  TempOK'
  <2> DEFINE dirs == temp[p] \cup {Dir("release-pkg", TRUE, FALSE)}
  <2>1. temp' = [temp EXCEPT ![p] = dirs] /\ deploy' = deploy /\ dirs \subseteq TempDir
    BY <1>2, <1>11, StageNames DEF Build, Kinds, BuildDirs
  <2>2. build'[p].st = "stage" /\ \A q \in Plane \ {p} : build'[q] = build[q]
    BY <1>11 DEF Build, To, JobsOK, BuildJob
  <2>3. \A x \in dirs : Own(p, x)'
    BY <1>2, <2>1, <2>2 DEF Own, Dir
  <2> HIDE DEF dirs
  <2>4. QED
    BY <2>1, <2>2, <2>3, DirsBecome
<1>12. ASSUME NEW p \in Plane, Look(p) \/ PackBreaks(p) \/ Record(p)
       PROVE  TempOK'
  BY <1>6, <1>9, <1>12 DEF Look, PackBreaks, PackFails, Record
<1>13. ASSUME NEW p \in Plane, UploadLocal(p) \/ UploadAliyun(p) \/ PostAsset(p)
       PROVE  TempOK'
  BY <1>1, <1>6, <1>10, <1>13 DEF UploadLocal, UploadAliyun, PostAsset
<1>14. ASSUME NEW p \in Plane, GetRelease(p) \/ CreateRelease(p)
       PROVE  TempOK'
  <2>1. CASE PackEnd(p)
    BY <1>6, <1>14, <2>1 DEF GetRelease, CreateRelease
  <2>2. CASE ~PackEnd(p)
    <3>1. \A q \in Plane : build'[q].st = "idle" => build[q].st = "idle"
      BY <1>14, <2>2 DEF GetRelease, CreateRelease, JobsOK, BuildJob
    <3>2. QED
      BY <1>8, <1>14, <2>2, <3>1 DEF GetRelease, CreateRelease
  <2>3. QED
    BY <2>1, <2>2
<1>15. ASSUME NEW p \in Plane, DeleteAsset(p)
       PROVE  TempOK'
  <2> DEFINE t == build[p].tag
             bs == [x \in Plane |-> Outdated(build[x], t)]
  <2>1. CASE /\ deploy' = [x \in Plane |-> Outdated(deploy[x], t)]
             /\ build' = [bs EXCEPT ![p].st = "post"]
             /\ temp' = temp
    <3>1. \A q \in Plane : bs[q].st = build[q].st /\ bs[q] \in BuildJob
      BY DEF Outdated, JobsOK, BuildJob, Ref
    <3>2. \A q \in Plane : deploy'[q].st = deploy[q].st
      BY <2>1 DEF Outdated, JobsOK, DeployJob
    <3>3. bs \in [Plane -> BuildJob]
      BY <3>1
    <3> HIDE DEF bs
    <3>4. \A q \in Plane : build'[q].st = "idle" => build[q].st = "idle"
      BY <2>1, <3>1, <3>3 DEF BuildJob
    <3>5. QED
      BY <1>8, <2>1, <3>2, <3>4
  <2>2. QED
    BY <1>6, <1>9, <1>15, <2>1 DEF DeleteAsset
<1>16. ASSUME NEW p \in Plane, Fetch(p) \/ Push(p)
       PROVE  TempOK'
  <2>1. CASE DeployEnd(p)
    BY <1>7, <1>16, <2>1 DEF Fetch, Push
  <2>2. CASE ~DeployEnd(p)
    <3>1. PICK old \in BOOLEAN : temp' = [temp EXCEPT ![p] =
            {x \in temp[p] : ~(x.mine /\ x.kind = "deploy-pkg")} \cup {Dir("deploy-pkg", TRUE, old)}]
      BY <1>16, <2>2 DEF Fetch, Push
    <3> DEFINE dirs == {x \in temp[p] : ~(x.mine /\ x.kind = "deploy-pkg")} \cup {Dir("deploy-pkg", TRUE, old)}
    <3>2. build' = build /\ deploy'[p].st = "wait" /\ \A q \in Plane \ {p} : deploy'[q] = deploy[q]
      BY <1>16, <2>2 DEF Fetch, Push, JobsOK, DeployJob
    <3>3. Dir("deploy-pkg", TRUE, old) \in TempDir
      BY StageNames DEF Kinds
    <3>4. dirs \subseteq TempDir
      BY <1>2, <3>3
    <3>5. \A x \in temp[p] : ~(x.mine /\ x.kind = "deploy-pkg") => Own(p, x)'
      BY <1>2, <3>2 DEF Own
    <3>6. Own(p, Dir("deploy-pkg", TRUE, old))'
      BY <3>2 DEF Own, Dir
    <3>7. \A x \in dirs : Own(p, x)'
      BY <3>5, <3>6
    <3>8. temp' = [temp EXCEPT ![p] = dirs]
      BY <3>1
    <3> HIDE DEF dirs
    <3>9. QED
      BY <3>2, <3>4, <3>7, <3>8, DirsBecome
  <2>3. QED
    BY <2>1, <2>2
<1>17. ASSUME NEW p \in Plane, Sweep(p) \/ StartUpClean(p)
       PROVE  TempOK'
  BY <1>5, <1>17 DEF Sweep, StartUpClean
<1>18. ASSUME NEW p \in Plane, Age(p)
       PROVE  TempOK'
  <2> DEFINE aged == {x \in temp[p] : ~x.old /\ ~x.mine}
             dirs == (temp[p] \ aged) \cup {[x EXCEPT !.old = TRUE] : x \in aged}
  <2>1. temp' = [temp EXCEPT ![p] = dirs] /\ UNCHANGED <<build, deploy>>
    BY <1>18 DEF Age
  <2>2. \A x \in aged : [x EXCEPT !.old = TRUE] \in TempDir /\ ~[x EXCEPT !.old = TRUE].mine
    BY <1>2 DEF TempDir
  <2>3. dirs \subseteq TempDir /\ \A x \in dirs : Own(p, x)'
    BY <1>2, <2>1, <2>2 DEF Own
  <2> HIDE DEF dirs
  <2>4. QED
    BY <2>1, <2>3, DirsBecome
<1>19. ASSUME NEW p \in Plane, Die(p)
       PROVE  TempOK'
  <2> DEFINE dirs == {[x EXCEPT !.mine = FALSE] : x \in temp[p]}
  <2>1. temp' = [temp EXCEPT ![p] = dirs]
    BY <1>19 DEF Die
  <2>2. \A q \in Plane \ {p} : build'[q] = build[q] /\ deploy'[q] = deploy[q]
    BY <1>19 DEF Die, JobsOK
  <2>3. \A x \in temp[p] : [x EXCEPT !.mine = FALSE] \in TempDir /\ ~[x EXCEPT !.mine = FALSE].mine
    BY <1>2 DEF TempDir
  <2>4. dirs \subseteq TempDir /\ \A x \in dirs : Own(p, x)'
    BY <2>3 DEF Own
  <2> HIDE DEF dirs
  <2>5. QED
    BY <2>1, <2>2, <2>4, DirsBecome
<1>20. QED
  BY <1>1, <1>3, <1>4, <1>11, <1>12, <1>13, <1>14, <1>15, <1>16, <1>17, <1>18, <1>19
     DEF Next, Worker, DeployWorker, Keeper, Boot, vars

-----------------------------------------------------------------------------
(* What is stored. *)

(* Parts come one by one, in rsync's order. *)
LEMMA ShelvesStep ==
  ASSUME StoreOK, JobsOK, ShelvesOK, [Next]_vars
  PROVE  ShelvesOK' /\ \A p \in Plane, t \in Tag : shelf[p][t] \subseteq shelf'[p][t]
<1>1. CASE UNCHANGED shelf
  BY <1>1 DEF ShelvesOK, FirstParts
<1>2. ASSUME NEW p \in Plane, UploadLocal(p), shelf' # shelf
      PROVE  ShelvesOK' /\ \A q \in Plane, t \in Tag : shelf[q][t] \subseteq shelf'[q][t]
  <2> DEFINE t == build[p].tag
  <2>1. t \in Tag
    BY <1>2 DEF JobsOK, UploadLocal, At
  <2>2. PICK n \in 0..Len(PartOrder) : shelf[p][t] = FirstParts(n)
    BY <2>1 DEF ShelvesOK
  <2>3. Cardinality(shelf[p][t] \cap Part) = n /\ n \in Nat
    BY <2>2, FirstPartsCounted, OrderIs
  <2>4. n < Len(PartOrder) /\ shelf' = [shelf EXCEPT ![p][t] = shelf[p][t] \cup {PartOrder[n + 1]}]
    BY <1>2, <2>3 DEF UploadLocal
  <2>5. shelf'[p][t] = FirstParts(n + 1) /\ n + 1 \in 0..Len(PartOrder)
    <3>1. shelf'[p][t] = FirstParts(n) \cup {PartOrder[n + 1]}
      BY <2>1, <2>2, <2>4 DEF StoreOK
    <3>2. shelf'[p][t] = FirstParts(n + 1)
      BY <2>3, <3>1, FirstPartsGrow
    <3>3. n + 1 \in 0..Len(PartOrder)
      BY <2>3, <2>4, OrderIs
    <3>4. QED
      BY <3>2, <3>3
  <2>6. \A q \in Plane, u \in Tag : (q # p \/ u # t) => shelf'[q][u] = shelf[q][u]
    BY <2>1, <2>4 DEF StoreOK
  <2>7. shelf[p][t] \subseteq shelf'[p][t]
    BY <2>1, <2>4 DEF StoreOK
  <2>8. \A q \in Plane, u \in Tag : \E k \in 0..Len(PartOrder) : shelf'[q][u] = FirstParts(k)
    BY <2>5, <2>6 DEF ShelvesOK
  <2> HIDE DEF t
  <2>9. QED
    BY <2>6, <2>7, <2>8 DEF ShelvesOK, FirstParts
<1>3. QED
  BY <1>1, <1>2
     DEF Next, PackStart, DeployStart, Worker, Look, Build, PackBreaks, PackFails, Record, UploadAliyun, GetRelease, CreateRelease,
         DeleteAsset, PostAsset, DeployWorker, Fetch, Push, Keeper, Sweep, Age, Boot, StartUpClean, Die, vars, store

(* Another plane may delete an asset under a job, but changes neither its    *)
(* stage nor its tag.                                                        *)
LEMMA OthersKeep ==
  ASSUME JobsOK, NEW p \in Plane, DeleteAsset(p), NEW q \in Plane \ {p}
  PROVE  build'[q].st = build[q].st /\ build'[q].tag = build[q].tag
<1>1. PackEnd(p) \/ To(p, "post") => build'[q] = build[q]
  BY DEF PackEnd, To, JobsOK
<1>2. Outdated(build[q], build[p].tag).st = build[q].st /\ Outdated(build[q], build[p].tag).tag = build[q].tag
  BY DEF Outdated, JobsOK, BuildJob
<1>3. CASE build' = [[x \in Plane |-> Outdated(build[x], build[p].tag)] EXCEPT ![p].st = "post"]
  <2>1. build'[q] = Outdated(build[q], build[p].tag)
    BY <1>3
  <2>2. QED
    BY <1>2, <2>1
<1>4. QED
  BY <1>1, <1>3 DEF DeleteAsset

(* Where a step leaves a build. *)
Goes(p, from, to) ==
  /\ build[p].st = from /\ build'[p].st = to /\ build'[p].tag = build[p].tag
  /\ \A q \in Plane \ {p} : build'[q].st = build[q].st /\ build'[q].tag = build[q].tag
Ends(p) ==
  /\ build'[p].st = "idle"
  /\ \A q \in Plane \ {p} : build'[q].st = build[q].st /\ build'[q].tag = build[q].tag

LEMMA PackEndIs ==
  ASSUME JobsOK, NEW p \in Plane, PackEnd(p)
  PROVE  Ends(p)
BY DEF PackEnd, Ends, Idle, JobsOK

LEMMA ToIs ==
  ASSUME JobsOK, NEW p \in Plane, NEW st, To(p, st)
  PROVE  Goes(p, build[p].st, st)
BY DEF To, Goes, JobsOK, BuildJob

LEMMA UploadedIs ==
  ASSUME JobsOK, NEW p \in Plane, NEW ref, Uploaded(p, ref)
  PROVE  Goes(p, build[p].st, "record")
BY DEF Uploaded, Goes, JobsOK, BuildJob

LEMMA GetReleaseIs ==
  ASSUME JobsOK, NEW p \in Plane, GetRelease(p)
  PROVE  Goes(p, "stage", "create") \/ (build[p].tag \in released /\ Goes(p, "stage", "delete"))
BY DEF GetRelease, At, Goes, JobsOK, BuildJob

LEMMA CreateReleaseIs ==
  ASSUME JobsOK, NEW p \in Plane, CreateRelease(p)
  PROVE  Ends(p) \/ (released' = released \cup {build[p].tag} /\ Goes(p, "create", "delete"))
BY PackEndIs DEF CreateRelease, At, Goes, JobsOK, BuildJob

LEMMA DeleteAssetIs ==
  ASSUME JobsOK, NEW p \in Plane, DeleteAsset(p)
  PROVE  Ends(p) \/ Goes(p, "delete", "post")
<1>1. build[p].st = "delete" /\ \A q \in Plane \ {p} : build'[q].st = build[q].st /\ build'[q].tag = build[q].tag
  BY OthersKeep DEF DeleteAsset, At
<1>2. CASE PackEnd(p) \/ To(p, "post")
  BY <1>1, <1>2, PackEndIs, ToIs
<1>3. CASE build' = [[x \in Plane |-> Outdated(build[x], build[p].tag)] EXCEPT ![p].st = "post"]
  <2>1. Outdated(build[p], build[p].tag).tag = build[p].tag /\ Outdated(build[p], build[p].tag) \in BuildJob
    BY DEF Outdated, JobsOK, BuildJob, Ref
  <2>2. build'[p] = [Outdated(build[p], build[p].tag) EXCEPT !.st = "post"]
    BY <1>3
  <2>3. build'[p].st = "post" /\ build'[p].tag = build[p].tag
    BY <2>1, <2>2 DEF BuildJob
  <2>4. QED
    BY <1>1, <2>3 DEF Goes
<1>4. QED
  BY <1>2, <1>3 DEF DeleteAsset

(* A step of the pipelines, by what it does to build. *)
LEMMA AssetsStep ==
  ASSUME StoreOK, JobsOK, AssetsOK, [Next]_vars
  PROVE  AssetsOK'
<1>1. ASSUME UNCHANGED <<backend, released, asset>>,
             \A q \in Plane : build'[q].st \in {"create", "delete", "post"} =>
               build'[q].st = build[q].st /\ build'[q].tag = build[q].tag
      PROVE  AssetsOK'
  BY <1>1 DEF AssetsOK
<1>2. ASSUME NEW p \in Plane, Ends(p), UNCHANGED <<backend, released, asset>>
      PROVE  AssetsOK'
  BY <1>1, <1>2 DEF Ends
<1>3. ASSUME NEW p \in Plane, NEW from, NEW to \in {"look", "build", "stage", "record"}, Goes(p, from, to),
             UNCHANGED <<backend, released, asset>>
      PROVE  AssetsOK'
  BY <1>1, <1>3 DEF Goes
<1>4. CASE UNCHANGED <<backend, released, asset, build>>
  BY <1>1, <1>4
<1>5. ASSUME NEW p \in Plane, NEW t \in Tag, PackStart(p, t)
      PROVE  AssetsOK'
  BY <1>1, <1>5 DEF PackStart, At, JobsOK, store
<1>6. ASSUME NEW p \in Plane, Look(p) \/ Build(p) \/ PackBreaks(p) \/ Record(p)
      PROVE  AssetsOK'
  BY <1>2, <1>3, <1>6, PackEndIs, ToIs DEF Look, Build, PackBreaks, PackFails, Record, store
<1>7. ASSUME NEW p \in Plane, UploadLocal(p)
      PROVE  AssetsOK'
  BY <1>3, <1>4, <1>7, UploadedIs DEF UploadLocal
<1>8. ASSUME NEW p \in Plane, UploadAliyun(p)
      PROVE  AssetsOK'
  <2>1. Goes(p, build[p].st, "record") /\ backend = "aliyun" /\ UNCHANGED <<backend, released>>
    BY <1>8, UploadedIs DEF UploadAliyun
  <2>2. QED
    BY <2>1 DEF AssetsOK, Goes
<1>9. ASSUME NEW p \in Plane, GetRelease(p)
      PROVE  AssetsOK'
  <2>1. backend = "github_release" /\ UNCHANGED <<backend, released, asset>>
    BY <1>9 DEF GetRelease, store
  <2>2. QED
    BY <1>9, <2>1, GetReleaseIs DEF AssetsOK, Goes
<1>10. ASSUME NEW p \in Plane, CreateRelease(p)
       PROVE  AssetsOK'
  <2>1. UNCHANGED <<backend, asset>> /\ released \subseteq released'
    BY <1>10 DEF CreateRelease
  <2>2. backend = "github_release"
    BY <1>10 DEF CreateRelease, At, AssetsOK
  <2>3. QED
    BY <1>10, <2>1, <2>2, CreateReleaseIs DEF AssetsOK, Ends, Goes
<1>11. ASSUME NEW p \in Plane, DeleteAsset(p)
       PROVE  AssetsOK'
  <2>1. backend = "github_release" /\ build[p].tag \in released /\ UNCHANGED <<backend, released>>
    BY <1>11 DEF DeleteAsset, At, AssetsOK
  <2>2. \A t \in Tag : asset'[t] # Absent => asset[t] # Absent
    BY <1>11 DEF DeleteAsset, StoreOK, Absent, Current
  <2>3. QED
    BY <1>11, <2>1, <2>2, DeleteAssetIs DEF AssetsOK, Ends, Goes
<1>12. ASSUME NEW p \in Plane, PostAsset(p)
       PROVE  AssetsOK'
  <2>1. backend = "github_release" /\ build[p].tag \in released /\ UNCHANGED <<backend, released>>
    BY <1>12 DEF PostAsset, At, AssetsOK
  <2>2. Ends(p) \/ Goes(p, build[p].st, "record")
    BY <1>12, PackEndIs, UploadedIs DEF PostAsset
  <2>3. \A t \in Tag : asset'[t] # Absent => asset[t] # Absent \/ t = build[p].tag
    BY <1>12 DEF PostAsset, StoreOK
  <2>4. QED
    BY <2>1, <2>2, <2>3 DEF AssetsOK, Ends, Goes
<1>13. ASSUME NEW p \in Plane, Die(p)
       PROVE  AssetsOK'
  BY <1>1, <1>13 DEF Die, Idle, JobsOK, store
<1>14. QED
  BY <1>4, <1>5, <1>6, <1>7, <1>8, <1>9, <1>10, <1>11, <1>12, <1>13
     DEF Next, DeployStart, Worker, DeployWorker, Fetch, Push, Keeper, Sweep, Age, Boot, StartUpClean, vars, store

(* Outside a GitHub release nothing that is stored goes away. *)
LEMMA StoreKeeps ==
  ASSUME StoreOK, JobsOK, AssetsOK, ShelvesOK, [Next]_vars
  PROVE  /\ backend' = backend
         /\ \A p \in Plane, t \in Tag : shelf[p][t] \subseteq shelf'[p][t]
         /\ backend = "aliyun" => \A t \in Tag : asset[t] # Absent => asset'[t] # Absent
<1>1. backend' = backend
  BY DEF Next, PackStart, DeployStart, Worker, Look, Build, PackBreaks, PackFails, Record, UploadLocal, UploadAliyun,
         GetRelease, CreateRelease, DeleteAsset, PostAsset, DeployWorker, Fetch, Push, Keeper, Sweep, Age, Boot,
         StartUpClean, Die, vars, store
<1>2. ASSUME backend = "aliyun", NEW t \in Tag, asset[t] # Absent
      PROVE  asset'[t] # Absent
  <2>1. \A p \in Plane : ~DeleteAsset(p)
    BY <1>2 DEF DeleteAsset, At, AssetsOK
  <2>2. ASSUME NEW p \in Plane, UploadAliyun(p) \/ PostAsset(p)
        PROVE  asset'[t] # Absent
    BY <1>2, <2>2 DEF UploadAliyun, PostAsset, StoreOK, Absent, Current
  <2>3. QED
    BY <1>2, <2>1, <2>2
       DEF Next, PackStart, DeployStart, Worker, Look, Build, PackBreaks, PackFails, Record, UploadLocal,
           GetRelease, CreateRelease, DeployWorker, Fetch, Push, Keeper, Sweep, Age, Boot, StartUpClean, Die, vars, store
<1>3. QED
  BY <1>1, <1>2, ShelvesStep

(* A local upload ends when all parts are there. *)
LEMMA UploadLocalStores ==
  ASSUME StoreOK, JobsOK, ShelvesOK, NEW p \in Plane, UploadLocal(p), build'[p].st = "record"
  PROVE  "VERSION" \in shelf'[p][build'[p].tag]
<1> DEFINE t == build[p].tag
<1>1. t \in Tag /\ build[p].st = "stage"
  BY DEF JobsOK, UploadLocal, At
<1>2. PICK n \in 0..Len(PartOrder) : shelf[p][t] = FirstParts(n)
  BY <1>1 DEF ShelvesOK
<1>3. Cardinality(shelf[p][t] \cap Part) = n
  BY <1>2, FirstPartsCounted
<1>4. ~(n < Len(PartOrder)) /\ shelf' = shelf /\ Uploaded(p, p)
  BY <1>1, <1>3 DEF UploadLocal
<1>5. n = Len(PartOrder)
  <2>1. Len(PartOrder) \in Nat /\ n \in 0..Len(PartOrder)
    BY <1>2, OrderIs
  <2>2. ~(n < Len(PartOrder))
    BY <1>4
  <2>3. QED
    BY <2>1, <2>2
<1>6. "VERSION" \in shelf[p][t]
  BY <1>2, <1>5, WholeIs, OrderIs
<1>7. build'[p].tag = t
  BY <1>4, UploadedIs DEF Goes
<1>8. QED
  BY <1>4, <1>6, <1>7

LEMMA StoredStep ==
  ASSUME StoreOK, JobsOK, AssetsOK, ShelvesOK, \A p \in Plane : StoredAt(p), [Next]_vars
  PROVE  \A p \in Plane : StoredAt(p)'
<1>1. ASSUME NEW q \in Plane,
             build'[q].st = "record" => build[q].st = "record" /\ build'[q].tag = build[q].tag
      PROVE  StoredAt(q)'
  <2>1. build[q].st = "record" => build[q].tag \in Tag
    BY DEF JobsOK
  <2>2. QED
    BY <1>1, <2>1, StoreKeeps DEF StoredAt
<1>2. CASE UNCHANGED build
  BY <1>1, <1>2
<1>3. ASSUME NEW p \in Plane, Ends(p)
      PROVE  \A q \in Plane : StoredAt(q)'
  BY <1>1, <1>3 DEF Ends
<1>4. ASSUME NEW p \in Plane, NEW from, NEW to \in {"build", "stage", "create", "delete", "post"}, Goes(p, from, to)
      PROVE  \A q \in Plane : StoredAt(q)'
  BY <1>1, <1>4 DEF Goes
<1>5. ASSUME NEW p \in Plane, NEW from, Goes(p, from, "record"), StoredAt(p)'
      PROVE  \A q \in Plane : StoredAt(q)'
  BY <1>1, <1>5 DEF Goes
<1>6. ASSUME NEW p \in Plane, NEW t \in Tag, PackStart(p, t)
      PROVE  \A q \in Plane : StoredAt(q)'
  BY <1>1, <1>6 DEF PackStart, JobsOK
<1>7. ASSUME NEW p \in Plane, Look(p) \/ Build(p) \/ PackBreaks(p) \/ Record(p)
      PROVE  \A q \in Plane : StoredAt(q)'
  BY <1>3, <1>4, <1>7, PackEndIs, ToIs DEF Look, Build, PackBreaks, PackFails, Record
<1>8. ASSUME NEW p \in Plane, UploadLocal(p)
      PROVE  \A q \in Plane : StoredAt(q)'
  <2>1. CASE Uploaded(p, p)
    <3>1. Goes(p, build[p].st, "record") /\ backend' = "local"
      BY <1>8, <2>1, UploadedIs DEF UploadLocal
    <3>2. StoredAt(p)'
      BY <1>8, <3>1, UploadLocalStores DEF Goes, StoredAt
    <3>3. QED
      BY <1>5, <3>1, <3>2
  <2>2. QED
    BY <1>2, <1>8, <2>1 DEF UploadLocal
<1>9. ASSUME NEW p \in Plane, UploadAliyun(p)
      PROVE  \A q \in Plane : StoredAt(q)'
  <2>1. Goes(p, build[p].st, "record") /\ backend' = "aliyun" /\ build[p].tag \in Tag
    BY <1>9, UploadedIs DEF UploadAliyun, At, JobsOK
  <2>2. asset'[build'[p].tag] # Absent
    BY <1>9, <2>1 DEF UploadAliyun, Goes, StoreOK, Absent, Current
  <2>3. QED
    BY <1>5, <2>1, <2>2 DEF StoredAt
<1>10. ASSUME NEW p \in Plane, PostAsset(p)
       PROVE  \A q \in Plane : StoredAt(q)'
  <2>1. backend' = "github_release"
    BY <1>10 DEF PostAsset, At, AssetsOK
  <2>2. QED
    BY <2>1 DEF StoredAt
<1>11. ASSUME NEW p \in Plane, GetRelease(p) \/ CreateRelease(p) \/ DeleteAsset(p)
       PROVE  \A q \in Plane : StoredAt(q)'
  BY <1>3, <1>4, <1>11, GetReleaseIs, CreateReleaseIs, DeleteAssetIs
<1>12. ASSUME NEW p \in Plane, Die(p)
       PROVE  \A q \in Plane : StoredAt(q)'
  BY <1>1, <1>12 DEF Die, Idle, JobsOK
<1>13. QED
  BY <1>2, <1>6, <1>7, <1>8, <1>9, <1>10, <1>11, <1>12
     DEF Next, DeployStart, Worker, DeployWorker, Fetch, Push, Keeper, Sweep, Age, Boot, StartUpClean, vars

(* What is wanted was in the store when it was queued: it was found there,   *)
(* or its upload had been completed.                                         *)
LEMMA QueuedStep ==
  ASSUME StoreOK, JobsOK, RestOK, AssetsOK, ShelvesOK, \A p \in Plane : StoredAt(p), QueuedHasPackage, [Next]_vars
  PROVE  QueuedHasPackage'
<1> DEFINE Stored(t) == \E p \in Plane : InStore(p, t)
<1>1. backend \in {"local", "github_release", "aliyun"}
  BY StorageAssumption DEF StoreOK
<1>2. ASSUME NEW t \in Tag, Stored(t), backend # "github_release"
      PROVE  Stored(t)'
  <2>1. PICK p \in Plane : InStore(p, t)
    BY <1>2
  <2>2. InStore(p, t)'
    BY <1>1, <1>2, <2>1, StoreKeeps DEF InStore, LocalExists, AliyunExists
  <2>3. QED
    BY <2>2
<1>3. ASSUME NEW t \in wanted', t \notin wanted, backend # "github_release"
      PROVE  Stored(t)
  <2>1. PICK p \in Plane : (Look(p) \/ Record(p)) /\ t = build[p].tag
    BY <1>3 DEF Next, PackStart, DeployStart, Worker, Look, Build, PackBreaks, PackFails, Record, UploadLocal,
       UploadAliyun, GetRelease, CreateRelease, DeleteAsset, PostAsset, DeployWorker, Fetch, Push, Keeper, Sweep, Age,
       Boot, StartUpClean, Die, vars
  <2>2. CASE Look(p)
    BY <1>3, <2>1, <2>2 DEF Look
  <2>3. CASE Record(p)
    <3>1. build[p].st = "record"
      BY <2>3 DEF Record, At
    <3>2. InStore(p, t)
      BY <1>1, <1>3, <2>1, <3>1 DEF StoredAt, InStore, LocalExists, AliyunExists
    <3>3. QED
      BY <3>2
  <2>4. QED
    BY <2>1, <2>2, <2>3
<1>4. wanted' \subseteq Tag
  BY RestStep DEF RestOK
<1>5. ASSUME NEW t \in wanted', backend' # "github_release"
      PROVE  Stored(t)'
  <2>1. backend # "github_release"
    BY <1>5, StoreKeeps
  <2>2. Stored(t)
    BY <1>3, <1>5, <2>1 DEF QueuedHasPackage
  <2>3. QED
    BY <1>2, <1>4, <2>1, <2>2
<1>6. QED
  BY <1>5 DEF QueuedHasPackage

-----------------------------------------------------------------------------
LEMMA InvInit == Init => Inv
<1> SUFFICES ASSUME Init PROVE Inv
  OBVIOUS
<1>1. StoreOK /\ JobsOK /\ RestOK /\ TempOK
  BY StageNames, StorageAssumption DEF Init, StoreOK, JobsOK, RestOK, TempOK, Ref, Idle, Absent
<1>2. ShelvesOK
  <2>1. FirstParts(0) = {} /\ 0 \in 0..Len(PartOrder)
    BY OrderIs DEF FirstParts
  <2>2. QED
    BY <2>1 DEF Init, ShelvesOK
<1>3. AssetsOK /\ QueuedHasPackage /\ \A p \in Plane : StoredAt(p)
  BY DEF Init, AssetsOK, QueuedHasPackage, StoredAt, Idle
<1>4. QED
  BY <1>1, <1>2, <1>3 DEF Inv

LEMMA InvAlways == Spec => []Inv
<1>1. Inv /\ [Next]_vars => Inv'
  BY StoreStep, JobsStep, RestStep, TempStep, ShelvesStep, AssetsStep, StoredStep, QueuedStep DEF Inv
<1>2. QED
  BY <1>1, InvInit, PTL DEF Spec

(* A plane's own directories belong to a job it is working on, shelves hold  *)
(* packages as far as rsync came, and no asset is outside its release.       *)
THEOREM StorageTypes == Spec => []TypeOK
<1>1. Inv => TypeOK
  BY DEF Inv, StoreOK, RestOK, TempOK, ShelvesOK, FirstParts, AssetsOK, TempDir, Kinds, TypeOK
<1>2. QED
  BY <1>1, InvAlways, PTL

(* A deploy that a pipeline queued finds its package, whatever steps failed  *)
(* and whichever planes died; only a GitHub release deletes before it        *)
(* uploads again.                                                            *)
THEOREM PackageIsThere == Spec => []QueuedHasPackage
<1>1. Inv => QueuedHasPackage
  BY DEF Inv
<1>2. QED
  BY <1>1, InvAlways, PTL
=============================================================================
