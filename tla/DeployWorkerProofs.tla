------------------------- MODULE DeployWorkerProofs -------------------------
(* Proofs about DeployWorker, for every number of planes, hosts, deploys,   *)
(* services, directories and platforms, and every request table.            *)
EXTENDS DeployWorker, TLAPS

-----------------------------------------------------------------------------
(* Type correctness. *)

(* A step that leaves a group of variables alone keeps their types. *)
LEMMA Frame ==
  /\ UNCHANGED rowVars => (RowsOK <=> RowsOK')
  /\ UNCHANGED planeVars => (PlanesOK <=> PlanesOK')
  /\ UNCHANGED tickVars => (TicksOK <=> TicksOK')
  /\ UNCHANGED execVars => (ExecsOK <=> ExecsOK')
  /\ UNCHANGED hostVars => (HostsOK <=> HostsOK')
<1>1. UNCHANGED rowVars => (RowsOK <=> RowsOK')
  BY DEF rowVars, RowsOK
<1>2. UNCHANGED planeVars => (PlanesOK <=> PlanesOK')
  BY DEF planeVars, PlanesOK
<1>3. UNCHANGED tickVars => (TicksOK <=> TicksOK')
  BY DEF tickVars, TicksOK
<1>4. UNCHANGED execVars => (ExecsOK <=> ExecsOK')
  BY DEF execVars, ExecsOK
<1>5. UNCHANGED hostVars => (HostsOK <=> HostsOK')
  BY DEF hostVars, HostsOK
<1>6. QED
  BY <1>1, <1>2, <1>3, <1>4, <1>5

(* Where a deploy runs and which directory it gets. *)
LEMMA SiteType ==
  ASSUME TypeOK, NEW p \in Plane, NEW d \in Deploy
  PROVE  /\ Dest(p, d) \in Host
         /\ RuntimeDir(p, d) \in Dir
         /\ RuntimeDir(Dest(p, d), d) \in Dir
         /\ ExplicitPlatform(d, platform[d]) \in Platform \cup {Unknown}
<1>1. Dest(p, d) \in Host
  BY PlaneAssumption, RequestAssumption, SMT DEF Dest, Remote
<1>2. contract \in [Service -> [Platform -> Dir]]
  BY SiteAssumption DEF TypeOK, RowsOK
<1>3. ServiceOf[d] \in Service /\ PlatOf[p] \in Platform /\ PlatOf[Dest(p, d)] \in Platform
  BY <1>1, PlaneAssumption, RequestAssumption, SiteAssumption
<1>4. QED
  BY <1>1, <1>2, <1>3, RequestAssumption DEF RuntimeDir, ExplicitPlatform, TypeOK, RowsOK

(* What a killed process leaves behind is well-typed. *)
LEMMA KillPlaneType ==
  ASSUME TypeOK, NEW q \in Plane, NEW ph \in [Plane -> [Deploy -> Phase]],
         NEW left \in SUBSET Stray, KillPlane(q, ph, left)
  PROVE  /\ TicksOK' /\ ExecsOK'
         /\ status' \in [Plane -> {"down", "starting", "reconciling", "up"}]
         /\ kicked' \in [Plane -> BOOLEAN]
         /\ draining' \in [Plane -> Deploy \cup {NoDeploy}]
         /\ orphans' \in [Plane -> SUBSET Deploy]
         /\ live' \in [Host -> [Dir -> Deploy \cup {Old, Torn, Mixed, Down}]]
         /\ strays' \subseteq Stray
<1>1. /\ {} \in SUBSET Deploy
      /\ {} \in SUBSET (Deploy \X (Platform \cup {Unknown}))
      /\ [x \in Dir |-> NoDeploy] \in [Dir -> Deploy \cup {NoDeploy}]
      /\ [d \in Deploy |-> "idle"] \in [Deploy -> Phase]
      /\ [d \in Deploy |-> NoDir] \in [Deploy -> Dir \cup {NoDir}]
  BY DEF Phase
<1>2. /\ status' \in [Plane -> {"down", "starting", "reconciling", "up"}]
      /\ kicked' \in [Plane -> BOOLEAN]
      /\ draining' \in [Plane -> Deploy \cup {NoDeploy}]
      /\ orphans' \in [Plane -> SUBSET Deploy]
  BY <1>1 DEF KillPlane, TypeOK, PlanesOK
<1>3. TicksOK'
  BY <1>1 DEF KillPlane, TypeOK, TicksOK
<1>4. ExecsOK'
  BY <1>1 DEF KillPlane, TypeOK, ExecsOK
<1>5. live' \in [Host -> [Dir -> Deploy \cup {Old, Torn, Mixed, Down}]]
  BY PlaneAssumption, SiteAssumption DEF KillPlane, TypeOK, HostsOK
<1>6. strays' \subseteq Stray
  <2>1. PICK caught \in SUBSET Catchable(q) : strays' = left \cup Outliving(q, caught)
    BY DEF KillPlane
  <2>2. ASSUME NEW d \in caught \cup {e \in Deploy : phase[q][e] = "pushing"}
        PROVE  <<Command[phase[q][d]], d, Dest(q, d), site[q][d]>> \in Stray
    <3>1. d \in Deploy /\ phase[q][d] \in {"pushing", "pushed", "stopped"}
      BY <2>2 DEF Catchable
    <3>2. Command[phase[q][d]] \in {"rsync", "stop", "start"}
      BY <3>1 DEF Command
    <3>3. site[q][d] \in Dir \cup {NoDir} /\ Dest(q, d) \in Host
      BY <3>1, SiteType DEF TypeOK, ExecsOK
    <3>4. QED
      BY <3>1, <3>2, <3>3 DEF Stray
  <2>3. Outliving(q, caught) \subseteq Stray
    BY <2>2 DEF Outliving
  <2>4. QED
    BY <2>1, <2>3
<1>7. QED
  BY <1>2, <1>3, <1>4, <1>5, <1>6

(* So is what a stop leaves behind, whether it stops anything or not. *)
LEMMA StopType ==
  ASSUME TypeOK, NEW h \in Host, NEW x \in Dir \cup {NoDir},
         NEW ph \in [Plane -> [Deploy -> Phase]], NEW left \in SUBSET Stray,
         Stop(h, x, ph, left)
  PROVE  /\ TicksOK' /\ ExecsOK'
         /\ status' \in [Plane -> {"down", "starting", "reconciling", "up"}]
         /\ kicked' \in [Plane -> BOOLEAN]
         /\ draining' \in [Plane -> Deploy \cup {NoDeploy}]
         /\ orphans' \in [Plane -> SUBSET Deploy]
         /\ live' \in [Host -> [Dir -> Deploy \cup {Old, Torn, Mixed, Down}]]
         /\ strays' \subseteq Stray
<1>1. CASE IsPlane(h, x) /\ KillPlane(h, ph, left)
  <2>1. h \in Plane
    BY <1>1 DEF IsPlane
  <2>2. QED
    BY <1>1, <2>1, KillPlaneType
<1>2. CASE ~(IsPlane(h, x) /\ KillPlane(h, ph, left))
  <2>1. /\ live' = live \/ live' = [live EXCEPT ![h][x] = Down]
        /\ phase' = ph /\ strays' = left
        /\ UNCHANGED <<status, kicked, draining, orphans, tickVars, unit, site>>
    BY <1>2 DEF Stop
  <2>2. TicksOK' /\ ExecsOK'
    BY <2>1 DEF TypeOK, TicksOK, ExecsOK, tickVars
  <2>3. live' \in [Host -> [Dir -> Deploy \cup {Old, Torn, Mixed, Down}]]
    BY <2>1 DEF TypeOK, HostsOK
  <2>4. QED
    BY <2>1, <2>2, <2>3 DEF TypeOK, PlanesOK
<1>3. QED
  BY <1>1, <1>2

LEMMA ReleaseUnitType ==
  ASSUME TypeOK, NEW p \in Plane, NEW d \in Deploy, ReleaseUnit(p, d)
  PROVE  /\ active' \in [Plane -> [Dir -> Deploy \cup {NoDeploy}]]
         /\ unit' \in [Plane -> [Deploy -> Dir \cup {NoDir}]]
BY DEF ReleaseUnit, TypeOK, TicksOK, ExecsOK

(* Every step of the scan keeps the types. *)
LEMMA TickType ==
  ASSUME TypeOK, NEW p \in Plane, Tick(p)
  PROVE  TypeOK'
<1> USE DEF TypeOK
<1>1. CASE TickStart(p)
  <2>1. {<<d, platform[d]>> : d \in Queued} \in SUBSET (Deploy \X (Platform \cup {Unknown}))
    BY DEF Queued, RowsOK
  <2>2. PlanesOK' /\ TicksOK'
    BY <1>1, <2>1 DEF TickStart, PlanesOK, TicksOK
  <2>3. QED
    BY <1>1, <2>2, Frame DEF TickStart
<1>2. CASE TickEnd(p)
  <2>1. TicksOK'
    BY <1>2 DEF TickEnd, TicksOK
  <2>2. QED
    BY <1>2, <2>1, Frame DEF TickEnd
<1>3. ASSUME NEW c \in todo[p], TickSkip(p, c) \/ TickReserve(p, c)
      PROVE  TypeOK'
  <2>1. c \in Deploy \X (Platform \cup {Unknown}) /\ c[1] \in Deploy
    BY DEF TicksOK
  <2>2. todo' \in [Plane -> SUBSET (Deploy \X (Platform \cup {Unknown}))]
    BY <1>3 DEF TickSkip, TickReserve, DropCandidate, TicksOK
  <2>3. CASE TickSkip(p, c)
    <3>1. TicksOK'
      BY <2>2, <2>3 DEF TickSkip, TicksOK
    <3>2. QED
      BY <2>3, <3>1, Frame DEF TickSkip
  <2>4. CASE TickReserve(p, c)
    <3>1. DeployUnit(p, c[1]) \in Dir
      BY <2>1, SiteType DEF DeployUnit
    <3>2. TicksOK' /\ ExecsOK'
      BY <2>1, <2>2, <2>4, <3>1 DEF TickReserve, TicksOK, ExecsOK
    <3>3. QED
      BY <2>4, <3>2, Frame DEF TickReserve
  <2>5. QED
    BY <1>3, <2>3, <2>4
<1>4. ASSUME NEW d \in Deploy, TickClaim(p, d) \/ TickLost(p, d) \/ TickFault(p, d)
      PROVE  TypeOK'
  <2>1. CASE TickClaim(p, d)
    <3>1. RowsOK' /\ TicksOK' /\ ExecsOK'
      BY <2>1 DEF TickClaim, ClaimQueued, Phase, Working, RowState, RowsOK, TicksOK, ExecsOK
    <3>2. QED
      BY <2>1, <3>1, Frame DEF TickClaim
  <2>2. CASE TickLost(p, d)
    <3>1. TicksOK' /\ ExecsOK'
      BY <2>2, ReleaseUnitType DEF TickLost, TicksOK, ExecsOK
    <3>2. QED
      BY <2>2, <3>1, Frame DEF TickLost
  <2>3. CASE TickFault(p, d)
    <3>1. RowsOK'
      BY <2>3 DEF TickFault, ClaimQueued, RowState, RowsOK
    <3>2. TicksOK' /\ ExecsOK'
      BY <2>3, ReleaseUnitType DEF TickFault, TicksOK, ExecsOK
    <3>3. QED
      BY <2>3, <3>1, <3>2, Frame DEF TickFault
  <2>4. QED
    BY <1>4, <2>1, <2>2, <2>3
<1>5. QED
  BY <1>1, <1>2, <1>3, <1>4 DEF Tick

(* Writing a verdict, or handing a row back, keeps the rows well-typed. *)
LEMMA VerdictType ==
  ASSUME TypeOK, NEW d \in Deploy, UNCHANGED <<at, clock, contract>>
  PROVE  /\ \A v \in Terminal : FinishDeploy(d, v) /\ UNCHANGED platform => RowsOK'
         /\ \A k \in Platform \cup {Unknown} : RequeueDeploy(d, k) => RowsOK'
BY DEF FinishDeploy, RequeueDeploy, TypeOK, RowsOK, RowState, Terminal

LEMMA MoveType ==
  ASSUME TypeOK, NEW p \in Plane, NEW d \in Deploy, NEW from, NEW to \in Phase,
         Move(p, d, from, to), unit' = unit
  PROVE  /\ UNCHANGED site => ExecsOK'
         /\ \A x \in Dir : site' = [site EXCEPT ![p][d] = x] => ExecsOK'
<1>1. phase' \in [Plane -> [Deploy -> Phase]]
  BY DEF Move, TypeOK, ExecsOK
<1>2. unit' \in [Plane -> [Deploy -> Dir \cup {NoDir}]]
  BY DEF TypeOK, ExecsOK
<1>3. UNCHANGED site => site' \in [Plane -> [Deploy -> Dir \cup {NoDir}]]
  BY DEF TypeOK, ExecsOK
<1>4. ASSUME NEW x \in Dir, site' = [site EXCEPT ![p][d] = x]
      PROVE  site' \in [Plane -> [Deploy -> Dir \cup {NoDir}]]
  BY <1>4 DEF TypeOK, ExecsOK
<1>5. QED
  BY <1>1, <1>2, <1>3, <1>4 DEF ExecsOK

(* Every step of executeDeploy keeps the types. *)
LEMMA ExecuteType ==
  ASSUME TypeOK, NEW p \in Plane, NEW d \in Deploy, Execute(p, d)
  PROVE  TypeOK'
<1> USE DEF TypeOK
<1>a. /\ Dest(p, d) \in Host
      /\ RuntimeDir(Dest(p, d), d) \in Dir
      /\ ExplicitPlatform(d, platform[d]) \in Platform \cup {Unknown}
      /\ Seen(d) \in Platform \cup {Unknown}
  BY SiteType, RequestAssumption DEF Seen
<1>b. Phase = {"claimed", "loaded", "fetched", "waiting", "pushing", "pushed",
               "stopped", "started", "beside", "idle", "exit", "handed"}
  BY DEF Phase, Working
<1>c. {"succeeded", "failed"} = Terminal
  BY DEF Terminal
<1>1. CASE LoadGone(p, d)
  <2>1. ExecsOK'
    BY <1>1, <1>b, MoveType DEF LoadGone
  <2>2. QED
    BY <1>1, <2>1, Frame DEF LoadGone
<1>2. CASE LoadBounce(p, d)
  <2>1. RowsOK' /\ ExecsOK'
    BY <1>2, <1>a, <1>b, MoveType, VerdictType DEF LoadBounce
  <2>2. QED
    BY <1>2, <2>1, Frame DEF LoadBounce
<1>3. CASE Load(p, d)
  <2>1. ExecsOK'
    BY <1>3, <1>a, <1>b, MoveType DEF Load
  <2>2. QED
    BY <1>3, <2>1, Frame DEF Load
<1>4. CASE Fetch(p, d)
  <2>1. ExecsOK'
    BY <1>4, <1>b, MoveType DEF Fetch
  <2>2. QED
    BY <1>4, <2>1, Frame DEF Fetch
<1>5. CASE FetchBounce(p, d)
  <2>1. RowsOK' /\ ExecsOK'
    BY <1>5, <1>a, <1>b, MoveType, VerdictType DEF FetchBounce
  <2>2. QED
    BY <1>5, <2>1, Frame DEF FetchBounce
<1>6. CASE Notify(p, d)
  <2>1. ExecsOK'
    BY <1>6, <1>b, MoveType DEF Notify
  <2>2. PlanesOK'
    BY <1>6, <1>a DEF Notify, IsPlane, PlanesOK
  <2>3. QED
    BY <1>6, <2>1, <2>2, Frame DEF Notify
<1>7. CASE BeginPush(p, d)
  <2>1. ExecsOK'
    BY <1>7, <1>b, MoveType DEF BeginPush
  <2>2. HostsOK'
    BY <1>7, <1>a DEF BeginPush, HostsOK
  <2>3. QED
    BY <1>7, <2>1, <2>2, Frame DEF BeginPush
<1>8. CASE EndPush(p, d)
  <2>1. ExecsOK'
    BY <1>8, <1>b, MoveType DEF EndPush
  <2>2. HostsOK'
    BY <1>8, <1>a DEF EndPush, HostsOK
  <2>3. QED
    BY <1>8, <2>1, <2>2, Frame DEF EndPush
<1>9. CASE Handoff(p, d)
  <2>1. ExecsOK'
    BY <1>9, <1>b, MoveType DEF Handoff
  <2>2. PlanesOK'
    BY <1>9 DEF Handoff, PlanesOK
  <2>3. QED
    BY <1>9, <2>1, <2>2, Frame DEF Handoff
<1>10. CASE StopService(p, d)
  <2>1. [phase EXCEPT ![p][d] = "stopped"] \in [Plane -> [Deploy -> Phase]]
    BY <1>b DEF ExecsOK
  <2>2. strays \in SUBSET Stray /\ site[p][d] \in Dir \cup {NoDir}
    BY DEF HostsOK, ExecsOK
  <2>3. Stop(Dest(p, d), site[p][d], [phase EXCEPT ![p][d] = "stopped"], strays)
    BY <1>10 DEF StopService
  <2>4. PlanesOK' /\ TicksOK' /\ ExecsOK' /\ HostsOK'
    BY <1>10, <1>a, <2>1, <2>2, <2>3, StopType DEF StopService, PlanesOK, HostsOK
  <2>5. QED
    BY <1>10, <2>4, Frame DEF StopService
<1>11. CASE StartService(p, d)
  <2>1. ExecsOK'
    BY <1>11, <1>b, MoveType DEF StartService
  <2>2. HostsOK'
    <3>1. CASE live' = live
      BY <1>11, <3>1 DEF StartService, HostsOK
    <3>2. CASE live' = [live EXCEPT ![Dest(p, d)][site[p][d]] = disk[Dest(p, d)][site[p][d]]]
      <4>1. CASE site[p][d] \in Dir
        BY <1>11, <3>2, <4>1, <1>a DEF StartService, HostsOK
      <4>2. CASE site[p][d] \notin Dir
        <5>1. live[Dest(p, d)] \in [Dir -> Deploy \cup {Old, Torn, Mixed, Down}]
          BY <1>a DEF HostsOK
        <5>2. [live[Dest(p, d)] EXCEPT ![site[p][d]] = disk[Dest(p, d)][site[p][d]]]
                 = live[Dest(p, d)]
          BY <4>2, <5>1
        <5>3. QED
          BY <3>2, <5>2, <1>11, <1>a DEF StartService, HostsOK
      <4>3. QED
        BY <4>1, <4>2
    <3>3. QED
      BY <1>11, <3>1, <3>2 DEF StartService
  <2>3. QED
    BY <1>11, <2>1, <2>2, Frame DEF StartService
<1>12. CASE HealthPass(p, d)
  <2>1. RowsOK' /\ ExecsOK'
    BY <1>12, <1>b, <1>c, MoveType, VerdictType DEF HealthPass
  <2>2. QED
    BY <1>12, <2>1, Frame DEF HealthPass
<1>13. CASE Fail(p, d)
  <2>1. RowsOK'
    BY <1>13, <1>c, VerdictType DEF Fail
  <2>2. ExecsOK'
    BY <1>13, <1>b DEF Fail, ExecsOK
  <2>3. QED
    BY <1>13, <2>1, <2>2, Frame DEF Fail
<1>14. CASE Exit(p, d)
  <2>1. ExecsOK' /\ TicksOK'
    BY <1>14, <1>b, ReleaseUnitType DEF Exit, ExecsOK, TicksOK
  <2>2. PlanesOK'
    BY <1>14 DEF Exit, PlanesOK
  <2>3. QED
    BY <1>14, <2>1, <2>2, Frame DEF Exit
<1>15. QED
  BY <1>1, <1>2, <1>3, <1>4, <1>5, <1>6, <1>7, <1>8, <1>9, <1>10, <1>11,
     <1>12, <1>13, <1>14 DEF Execute

(* Start-up, crashes and the upgrader keep the types. *)
LEMMA ProcessType ==
  ASSUME TypeOK, NEW p \in Plane, StartUp(p) \/ Crash(p) \/ UpgraderStop(p)
  PROVE  TypeOK'
<1> USE DEF TypeOK
<1>s. strays \in SUBSET Stray /\ phase \in [Plane -> [Deploy -> Phase]]
  BY DEF HostsOK, ExecsOK
<1>1. CASE Boot(p)
  <2>1. PlanesOK'
    BY <1>1 DEF Boot, PlanesOK
  <2>2. HostsOK'
    BY <1>1, PlaneAssumption, SiteAssumption DEF Boot, HostsOK
  <2>3. QED
    BY <1>1, <2>1, <2>2, Frame DEF Boot
<1>2. CASE ReconcileList(p)
  <2>1. RunningRows \in SUBSET Deploy
    BY DEF RunningRows
  <2>2. PlanesOK'
    BY <1>2, <2>1 DEF ReconcileList, PlanesOK
  <2>3. QED
    BY <1>2, <2>2, Frame DEF ReconcileList
<1>3. ASSUME NEW d \in Deploy, ReconcileOne(p, d)
      PROVE  TypeOK'
  <2>1. RowsOK'
    <3>1. PICK v \in Terminal : FinishDeploy(d, v)
      BY <1>3 DEF ReconcileOne, Terminal
    <3>2. QED
      BY <1>3, <3>1, VerdictType DEF ReconcileOne
  <2>2. PlanesOK'
    BY <1>3 DEF ReconcileOne, PlanesOK
  <2>3. QED
    BY <1>3, <2>1, <2>2, Frame DEF ReconcileOne
<1>4. CASE StartWorker(p)
  <2>1. PlanesOK'
    BY <1>4 DEF StartWorker, PlanesOK
  <2>2. QED
    BY <1>4, <2>1, Frame DEF StartWorker
<1>5. CASE Crash(p)
  <2>1. KillPlane(p, phase, strays)
    BY <1>5 DEF Crash
  <2>2. crashes' \in Nat /\ upgradeReq' = upgradeReq /\ disk' = disk
    BY <1>5 DEF Crash, PlanesOK
  <2>3. TicksOK' /\ ExecsOK' /\ PlanesOK' /\ HostsOK'
    BY <1>s, <2>1, <2>2, KillPlaneType DEF PlanesOK, HostsOK
  <2>4. QED
    BY <1>5, <2>3, Frame DEF Crash
<1>6. CASE UpgraderStop(p)
  <2>1. TicksOK' /\ ExecsOK' /\ PlanesOK' /\ HostsOK'
    BY <1>6, <1>s, StopType, PlaneAssumption, SiteAssumption
       DEF UpgraderStop, PlanesOK, HostsOK, ExecsOK
  <2>2. QED
    BY <1>6, <2>1, Frame DEF UpgraderStop
<1>7. QED
  BY <1>1, <1>2, <1>3, <1>4, <1>5, <1>6 DEF StartUp

(* So does what outlives its plane. *)
LEMMA StrayType ==
  ASSUME TypeOK, NEW d \in Deploy, NEW h \in Host, NEW x \in Dir, StrayEnds(d, h, x)
  PROVE  TypeOK'
<1> USE DEF TypeOK
<1>1. CASE StrayRsync(d, h, x)
  <2>1. HostsOK'
    BY <1>1 DEF StrayRsync, HostsOK
  <2>2. QED
    BY <1>1, <2>1, Frame DEF StrayRsync
<1>2. CASE StrayStop(d, h, x)
  <2>1. /\ strays \ {<<"stop", d, h, x>>} \in SUBSET Stray
        /\ phase \in [Plane -> [Deploy -> Phase]]
    BY DEF HostsOK, ExecsOK
  <2>2. TicksOK' /\ ExecsOK' /\ PlanesOK' /\ HostsOK'
    BY <1>2, <2>1, StopType DEF StrayStop, PlanesOK, HostsOK
  <2>3. QED
    BY <1>2, <2>2, Frame DEF StrayStop
<1>3. CASE StrayStart(d, h, x)
  <2>1. HostsOK'
    BY <1>3 DEF StrayStart, HostsOK
  <2>2. QED
    BY <1>3, <2>1, Frame DEF StrayStart
<1>4. QED
  BY <1>1, <1>2, <1>3 DEF StrayEnds

LEMMA TypeInit == Init => TypeOK
<1> SUFFICES ASSUME Init PROVE TypeOK
  OBVIOUS
<1> USE DEF Init
<1>1. RowsOK
  BY RequestAssumption DEF RowsOK, RowState
<1>2. PlanesOK
  BY DEF PlanesOK
<1>3. TicksOK
  BY DEF TicksOK
<1>4. ExecsOK
  BY DEF ExecsOK, Phase
<1>5. HostsOK
  BY DEF HostsOK
<1>6. QED
  BY <1>1, <1>2, <1>3, <1>4, <1>5 DEF TypeOK

LEMMA TypeStep == TypeOK /\ [Next]_vars => TypeOK'
<1> SUFFICES ASSUME TypeOK, [Next]_vars PROVE TypeOK'
  OBVIOUS
<1>1. CASE UNCHANGED vars
  BY <1>1, Frame DEF vars, TypeOK
<1>2. CASE PutContract
  <2>1. RowsOK'
    BY <1>2 DEF PutContract, TypeOK, RowsOK
  <2>2. QED
    BY <1>2, <2>1, Frame DEF PutContract, TypeOK
<1>3. ASSUME NEW p \in Plane, NEW d \in Deploy, Submit(p, d)
      PROVE  TypeOK'
  <2>1. RowsOK' /\ PlanesOK'
    BY <1>3 DEF Submit, TypeOK, RowsOK, PlanesOK, RowState
  <2>2. QED
    BY <1>3, <2>1, Frame DEF Submit, TypeOK
<1>4. QED
  BY <1>1, <1>2, <1>3, TickType, ExecuteType, ProcessType, StrayType DEF Next

(* Every variable always has the type the code gives it: states, phases and *)
(* reservations never leave the sets the handlers write.                    *)
THEOREM TypeCorrect == Spec => []TypeOK
<1>1. QED
  BY TypeInit, TypeStep, PTL DEF Spec

-----------------------------------------------------------------------------
(* One worker per deploy. *)

(* The inductive form of ExclusiveExecution: on top of it, a row that can   *)
(* be claimed, now or after its INSERT, is worked on by nobody; and start-  *)
(* up only ever lists rows that exist.                                      *)
OneWorker ==
  /\ \A d \in Deploy : \A p, q \in Plane :
       phase[p][d] \in Working /\ phase[q][d] \in Working => p = q
  /\ \A d \in Deploy : row[d] \in {"absent", "queued"} =>
       \A p \in Plane : phase[p][d] \notin Working
  /\ \A p \in Plane : \A d \in orphans[p] : row[d] # "absent"

(* A step in which nobody starts to work, no row becomes claimable and no   *)
(* row is listed that does not exist.                                       *)
NoClaim ==
  /\ \A p \in Plane, d \in Deploy : phase'[p][d] \in Working => phase[p][d] \in Working
  /\ \A d \in Deploy : row'[d] \in {"absent", "queued"} => row[d] \in {"absent", "queued"}
  /\ \A d \in Deploy : row'[d] = "absent" => row[d] = "absent"
  /\ \A p \in Plane : \A d \in orphans'[p] : 
       d \in orphans[p] \/ (d \in Deploy /\ row[d] # "absent")

LEMMA NoClaimKeeps ==
  ASSUME TypeOK, OneWorker, NoClaim
  PROVE  OneWorker'
<1>1. orphans \in [Plane -> SUBSET Deploy]
  BY DEF TypeOK, PlanesOK
<1>2. \A d \in Deploy : \A p, q \in Plane :
        phase'[p][d] \in Working /\ phase'[q][d] \in Working => p = q
  BY DEF OneWorker, NoClaim
<1>3. \A d \in Deploy : row'[d] \in {"absent", "queued"} =>
        \A p \in Plane : phase'[p][d] \notin Working
  BY DEF OneWorker, NoClaim
<1>4. \A p \in Plane : \A d \in orphans'[p] : row'[d] # "absent"
  BY <1>1 DEF OneWorker, NoClaim
<1>5. QED
  BY <1>2, <1>3, <1>4 DEF OneWorker

LEMMA WorkingIs ==
  Working = {"claimed", "loaded", "fetched", "waiting", "pushing", "pushed",
             "stopped", "started", "beside"}
BY DEF Working

(* Killing a process ends its goroutines and forgets its list. *)
LEMMA KillPlaneNoClaim ==
  ASSUME TypeOK, NEW q \in Plane, NEW ph \in [Plane -> [Deploy -> Phase]],
         NEW left, KillPlane(q, ph, left), UNCHANGED row,
         \A p \in Plane, d \in Deploy : ph[p][d] \in Working => phase[p][d] \in Working
  PROVE  NoClaim
<1>1. \A p \in Plane, d \in Deploy : phase'[p][d] \in {ph[p][d], "idle"}
  BY DEF KillPlane, TypeOK, ExecsOK
<1>2. \A p \in Plane : orphans'[p] \in {orphans[p], {}}
  BY DEF KillPlane, TypeOK, PlanesOK
<1>3. "idle" \notin Working
  BY WorkingIs
<1>4. QED
  BY <1>1, <1>2, <1>3 DEF NoClaim

LEMMA StopNoClaim ==
  ASSUME TypeOK, NEW h, NEW x, NEW ph \in [Plane -> [Deploy -> Phase]], NEW left,
         Stop(h, x, ph, left), UNCHANGED row,
         \A p \in Plane, d \in Deploy : ph[p][d] \in Working => phase[p][d] \in Working
  PROVE  NoClaim
<1>1. CASE IsPlane(h, x) /\ KillPlane(h, ph, left)
  BY <1>1, KillPlaneNoClaim DEF IsPlane
<1>2. CASE phase' = ph /\ orphans' = orphans
  BY <1>2 DEF NoClaim
<1>3. QED
  BY <1>1, <1>2 DEF Stop

(* A goroutine that moves on, or stops, takes nothing. *)
LEMMA MoveNoClaim ==
  ASSUME TypeOK, NEW p \in Plane, NEW d \in Deploy, NEW from \in Working, NEW to,
         Move(p, d, from, to), UNCHANGED <<row, orphans>>
  PROVE  NoClaim
BY DEF Move, NoClaim, TypeOK, ExecsOK

LEMMA StopServiceNoClaim ==
  ASSUME TypeOK, NEW p \in Plane, NEW d \in Deploy, StopService(p, d)
  PROVE  NoClaim
<1>1. /\ [phase EXCEPT ![p][d] = "stopped"] \in [Plane -> [Deploy -> Phase]]
      /\ \A q \in Plane, e \in Deploy :
           [phase EXCEPT ![p][d] = "stopped"][q][e] \in Working => phase[q][e] \in Working
  BY WorkingIs DEF StopService, TypeOK, ExecsOK, Phase
<1>2. UNCHANGED row
  BY DEF StopService, rowVars
<1>3. QED
  BY <1>1, <1>2, StopNoClaim DEF StopService

(* The steps of executeDeploy that touch no row. *)
LEMMA QuietStepNoClaim ==
  ASSUME TypeOK, NEW p \in Plane, NEW d \in Deploy,
         \/ LoadGone(p, d) \/ Load(p, d) \/ Fetch(p, d) \/ Notify(p, d)
         \/ BeginPush(p, d) \/ EndPush(p, d) \/ Handoff(p, d)
         \/ StartService(p, d)
  PROVE  NoClaim
<1> USE WorkingIs DEF rowVars, planeVars
<1>1. CASE LoadGone(p, d)
  BY <1>1, MoveNoClaim DEF LoadGone
<1>2. CASE Load(p, d)
  BY <1>2, MoveNoClaim DEF Load
<1>3. CASE Fetch(p, d)
  BY <1>3, MoveNoClaim DEF Fetch
<1>4. CASE Notify(p, d)
  BY <1>4, MoveNoClaim DEF Notify
<1>5. CASE BeginPush(p, d)
  BY <1>5, MoveNoClaim DEF BeginPush
<1>6. CASE EndPush(p, d)
  BY <1>6, MoveNoClaim DEF EndPush
<1>7. CASE Handoff(p, d)
  BY <1>7, MoveNoClaim DEF Handoff
<1>8. CASE StartService(p, d)
  BY <1>8, MoveNoClaim DEF StartService
<1>9. QED
  BY <1>1, <1>2, <1>3, <1>4, <1>5, <1>6, <1>7, <1>8

(* A worker that leaves without handing the row back: what it writes is a   *)
(* verdict.                                                                 *)
LEMMA VerdictNoClaim ==
  ASSUME TypeOK, NEW p \in Plane, NEW d \in Deploy,
         HealthPass(p, d) \/ Fail(p, d) \/ Exit(p, d)
  PROVE  NoClaim
<1>1. CASE HealthPass(p, d)
  BY <1>1, WorkingIs DEF HealthPass, Move, FinishDeploy, NoClaim, planeVars,
     TypeOK, ExecsOK, RowsOK
<1>2. CASE Fail(p, d)
  BY <1>2, WorkingIs DEF Fail, FinishDeploy, NoClaim, planeVars, TypeOK, ExecsOK, RowsOK
<1>3. CASE Exit(p, d)
  BY <1>3, WorkingIs DEF Exit, NoClaim, rowVars, TypeOK, ExecsOK
<1>4. QED
  BY <1>1, <1>2, <1>3

(* Handing a row back: only the worker itself may, so it was alone, and it  *)
(* stops in the same step.                                                  *)
LEMMA HandBackKeeps ==
  ASSUME TypeOK, OneWorker, NEW p \in Plane, NEW d \in Deploy, NEW k,
         NEW from \in Working, Move(p, d, from, "exit"),
         RequeueDeploy(d, k), UNCHANGED orphans
  PROVE  OneWorker'
<1>1. phase[p][d] \in Working
  BY DEF Move
<1>2. /\ phase'[p][d] = "exit"
      /\ \A q \in Plane, e \in Deploy :
           q # p \/ e # d => phase'[q][e] = phase[q][e]
  BY DEF Move, TypeOK, ExecsOK
<1>3. /\ row'[d] \in {"queued", "failed", row[d]}
      /\ \A e \in Deploy : e # d => row'[e] = row[e]
  BY DEF RequeueDeploy, FinishDeploy, TypeOK, RowsOK
<1>4. \A q \in Plane : phase'[q][d] \notin Working
  BY <1>1, <1>2, WorkingIs DEF OneWorker
<1>5. orphans \in [Plane -> SUBSET Deploy]
  BY DEF TypeOK, PlanesOK
<1>6. QED
  BY <1>2, <1>3, <1>4, <1>5 DEF OneWorker

(* The CAS of ClaimQueued: only a queued row is taken, and by one plane. *)
LEMMA ClaimKeeps ==
  ASSUME TypeOK, OneWorker, NEW p \in Plane, NEW d \in Deploy, TickClaim(p, d)
  PROVE  OneWorker'
<1>1. /\ row[d] = "queued" /\ row'[d] = "running"
      /\ \A e \in Deploy : e # d => row'[e] = row[e]
  BY DEF TickClaim, ClaimQueued, TypeOK, RowsOK
<1>2. /\ phase'[p][d] = "claimed"
      /\ \A q \in Plane, e \in Deploy :
           q # p \/ e # d => phase'[q][e] = phase[q][e]
  BY DEF TickClaim, TypeOK, ExecsOK
<1>3. \A q \in Plane : phase[q][d] \notin Working
  BY <1>1 DEF OneWorker
<1>4. orphans' = orphans /\ orphans \in [Plane -> SUBSET Deploy]
  BY DEF TickClaim, planeVars, TypeOK, PlanesOK
<1>5. QED
  BY <1>1, <1>2, <1>3, <1>4 DEF OneWorker

(* The rest of the scan. *)
LEMMA ScanNoClaim ==
  ASSUME TypeOK, NEW p \in Plane, Tick(p),
         \A d \in Deploy : ~TickClaim(p, d)
  PROVE  NoClaim
<1> USE DEF NoClaim, rowVars, planeVars, execVars, TypeOK, RowsOK, PlanesOK
<1>1. CASE TickStart(p) \/ TickEnd(p)
  BY <1>1 DEF TickStart, TickEnd
<1>2. ASSUME NEW c \in todo[p], TickSkip(p, c) \/ TickReserve(p, c)
      PROVE  NoClaim
  BY <1>2 DEF TickSkip, TickReserve
<1>3. ASSUME NEW d \in Deploy, TickLost(p, d) \/ TickFault(p, d)
      PROVE  NoClaim
  BY <1>3 DEF TickLost, TickFault, ClaimQueued
<1>4. QED
  BY <1>1, <1>2, <1>3 DEF Tick

(* Start-up, crashes and the upgrader. *)
LEMMA ProcessNoClaim ==
  ASSUME TypeOK, OneWorker, NEW p \in Plane, StartUp(p) \/ Crash(p) \/ UpgraderStop(p)
  PROVE  NoClaim
<1>1. CASE Boot(p) \/ StartWorker(p)
  BY <1>1 DEF Boot, StartWorker, NoClaim, rowVars, execVars
<1>2. CASE ReconcileList(p)
  <2>1. UNCHANGED <<row, phase>>
    BY <1>2 DEF ReconcileList, rowVars, execVars
  <2>2. \A q \in Plane : orphans'[q] \in {orphans[q], RunningRows}
    BY <1>2 DEF ReconcileList, TypeOK, PlanesOK
  <2>3. QED
    BY <2>1, <2>2 DEF NoClaim, RunningRows
<1>3. ASSUME NEW d \in Deploy, ReconcileOne(p, d)
      PROVE  NoClaim
  <2>1. UNCHANGED phase /\ \A q \in Plane : orphans'[q] \subseteq orphans[q]
    BY <1>3 DEF ReconcileOne, execVars, TypeOK, PlanesOK
  <2>2. row'[d] \in Terminal \cup {row[d]} /\ \A e \in Deploy : e # d => row'[e] = row[e]
    BY <1>3 DEF ReconcileOne, FinishDeploy, Terminal, TypeOK, RowsOK
  <2>3. QED
    BY <2>1, <2>2 DEF NoClaim, Terminal
<1>4. CASE Crash(p) \/ UpgraderStop(p)
  <2>1. phase \in [Plane -> [Deploy -> Phase]] /\ UNCHANGED row
    BY <1>4 DEF Crash, UpgraderStop, rowVars, TypeOK, ExecsOK
  <2>2. CASE KillPlane(p, phase, strays)
    BY <2>1, <2>2, KillPlaneNoClaim
  <2>3. CASE Stop(p, Home[p], phase, strays)
    BY <2>1, <2>3, StopNoClaim
  <2>4. QED
    BY <1>4, <2>2, <2>3 DEF Crash, UpgraderStop
<1>5. QED
  BY <1>1, <1>2, <1>3, <1>4 DEF StartUp

LEMMA StrayNoClaim ==
  ASSUME TypeOK, NEW d \in Deploy, NEW h \in Host, NEW x \in Dir, StrayEnds(d, h, x)
  PROVE  NoClaim
<1>1. CASE StrayRsync(d, h, x) \/ StrayStart(d, h, x)
  BY <1>1 DEF StrayRsync, StrayStart, NoClaim, rowVars, planeVars, execVars
<1>2. CASE StrayStop(d, h, x)
  <2>1. phase \in [Plane -> [Deploy -> Phase]] /\ UNCHANGED row
    BY <1>2 DEF StrayStop, rowVars, TypeOK, ExecsOK
  <2>2. QED
    BY <1>2, <2>1, StopNoClaim DEF StrayStop
<1>3. QED
  BY <1>1, <1>2 DEF StrayEnds

LEMMA OneWorkerStep == TypeOK /\ OneWorker /\ [Next]_vars => OneWorker'
<1> SUFFICES ASSUME TypeOK, OneWorker, [Next]_vars PROVE OneWorker'
  OBVIOUS
<1>1. CASE UNCHANGED vars \/ PutContract
  <2>1. UNCHANGED <<row, phase, orphans>>
    BY <1>1 DEF PutContract, vars, rowVars, planeVars, execVars
  <2>2. QED
    BY <2>1 DEF OneWorker
<1>2. ASSUME NEW p \in Plane, NEW d \in Deploy, Submit(p, d)
      PROVE  OneWorker'
  <2>1. NoClaim
    BY <1>2 DEF Submit, NoClaim, execVars, TypeOK, RowsOK, PlanesOK
  <2>2. QED
    BY <2>1, NoClaimKeeps
<1>3. ASSUME NEW p \in Plane, Tick(p)
      PROVE  OneWorker'
  BY <1>3, ClaimKeeps, ScanNoClaim, NoClaimKeeps
<1>4. ASSUME NEW p \in Plane, NEW d \in Deploy, Execute(p, d)
      PROVE  OneWorker'
  <2>1. CASE LoadBounce(p, d)
    BY <2>1, HandBackKeeps, WorkingIs DEF LoadBounce, planeVars
  <2>2. CASE FetchBounce(p, d)
    BY <2>2, HandBackKeeps, WorkingIs DEF FetchBounce, planeVars
  <2>3. CASE ~LoadBounce(p, d) /\ ~FetchBounce(p, d)
    BY <1>4, <2>3, QuietStepNoClaim, StopServiceNoClaim, VerdictNoClaim, NoClaimKeeps
       DEF Execute
  <2>4. QED
    BY <2>1, <2>2, <2>3
<1>5. ASSUME NEW p \in Plane, StartUp(p) \/ Crash(p) \/ UpgraderStop(p)
      PROVE  OneWorker'
  BY <1>5, ProcessNoClaim, NoClaimKeeps
<1>6. ASSUME NEW d \in Deploy, NEW h \in Host, NEW x \in Dir, StrayEnds(d, h, x)
      PROVE  OneWorker'
  BY <1>6, StrayNoClaim, NoClaimKeeps
<1>7. QED
  BY <1>1, <1>2, <1>3, <1>4, <1>5, <1>6 DEF Next

LEMMA OneWorkerInit == Init => OneWorker
BY WorkingIs DEF Init, OneWorker

LEMMA OneWorkerAlways == Spec => [](TypeOK /\ OneWorker)
<1>1. QED
  BY TypeInit, TypeStep, OneWorkerInit, OneWorkerStep, PTL DEF Spec

(* A deploy is never executed by two control planes, whatever their ticks,  *)
(* hand-backs, crashes and start-up reconciliations do to one another: the  *)
(* conditional UPDATE of ClaimQueued and the guard of RequeueDeploy are     *)
(* enough.                                                                  *)
THEOREM OneExecutor == Spec => []ExclusiveExecution
<1>1. OneWorker => ExclusiveExecution
  BY DEF OneWorker, ExclusiveExecution, WorkedBy
<1>2. QED
  BY OneWorkerAlways, <1>1, PTL

-----------------------------------------------------------------------------
(* DeployWorker implements DeployQueue. *)

(* The plane that works on a deploy is the one the refinement names. *)
LEMMA WorkerIs ==
  ASSUME OneWorker, NEW d \in Deploy
  PROVE  /\ Worker(d) \in Plane \cup {NoPlane}
         /\ \A p \in Plane : phase[p][d] \in Working <=> Worker(d) = p
         /\ Worker(d) = NoPlane <=> \A p \in Plane : phase[p][d] \notin Working
<1>1. CASE WorkedBy(d) = {}
  BY <1>1, PlaneAssumption DEF Worker, WorkedBy
<1>2. CASE WorkedBy(d) # {}
  <2>1. PICK q \in Plane : WorkedBy(d) = {q}
    BY <1>2 DEF WorkedBy, OneWorker
  <2>2. Worker(d) = q
    BY <2>1 DEF Worker
  <2>3. QED
    BY <2>1, <2>2, PlaneAssumption DEF WorkedBy
<1>3. QED
  BY <1>1, <1>2

LEMMA WorkerNextIs ==
  ASSUME OneWorker', NEW d \in Deploy
  PROVE  /\ Worker(d)' \in Plane \cup {NoPlane}
         /\ \A p \in Plane : phase'[p][d] \in Working <=> Worker(d)' = p
         /\ Worker(d)' = NoPlane <=> \A p \in Plane : phase'[p][d] \notin Working
<1>1. CASE WorkedBy(d)' = {}
  BY <1>1, PlaneAssumption DEF Worker, WorkedBy
<1>2. CASE WorkedBy(d)' # {}
  <2>1. PICK q \in Plane : WorkedBy(d)' = {q}
    BY <1>2 DEF WorkedBy, OneWorker
  <2>2. Worker(d)' = q
    BY <2>1 DEF Worker
  <2>3. QED
    BY <2>1, <2>2, PlaneAssumption DEF WorkedBy
<1>3. QED
  BY <1>1, <1>2

(* A goroutine that does not move leaves the worker of its deploy alone. *)
LEMMA SameWorker ==
  ASSUME NEW d \in Deploy,
         \A p \in Plane : phase'[p][d] \in Working <=> phase[p][d] \in Working
  PROVE  Worker(d)' = Worker(d)
<1>1. WorkedBy(d)' = WorkedBy(d)
  BY DEF WorkedBy
<1>2. QED
  BY <1>1 DEF Worker

(* Whatever takes no row and writes no row is, at most, workers stopping. *)
LEMMA QuietIsAbandon ==
  ASSUME OneWorker, OneWorker', NoClaim, UNCHANGED row
  PROVE  Queue!Next
<1> DEFINE S == {d \in Deploy : Worker(d)' = NoPlane}
<1>1. \A d \in Deploy \ S : Worker(d)' = Worker(d)
  BY WorkerIs, WorkerNextIs DEF NoClaim
<1>2. Queue!Abandon(S)
  BY <1>1 DEF Queue!Abandon
<1>3. S \in SUBSET Deploy
  OBVIOUS
<1>4. QED
  BY <1>2, <1>3 DEF Queue!Next

(* A step about one deploy: the other rows and workers stay. *)
LEMMA OneDeploy ==
  ASSUME TypeOK, NEW d \in Deploy, NEW r, NEW w,
         row' = [row EXCEPT ![d] = r], Worker(d)' = w,
         \A p \in Plane, e \in Deploy : e # d => phase'[p][e] = phase[p][e]
  PROVE  [e \in Deploy |-> Worker(e)]' = [[e \in Deploy |-> Worker(e)] EXCEPT ![d] = w]
<1>1. \A e \in Deploy : e # d => Worker(e)' = Worker(e)
  BY SameWorker
<1>2. QED
  BY <1>1

LEMMA SubmitRefines ==
  ASSUME TypeOK, OneWorker, NEW p \in Plane, NEW d \in Deploy, Submit(p, d)
  PROVE  Queue!Next
<1>1. UNCHANGED phase
  BY DEF Submit, execVars
<1>2. \A e \in Deploy : Worker(e)' = Worker(e)
  BY <1>1, SameWorker
<1>3. Queue!Submit(d)
  BY <1>2 DEF Submit, Queue!Submit
<1>4. QED
  BY <1>3 DEF Queue!Next

LEMMA ClaimRefines ==
  ASSUME TypeOK, OneWorker, OneWorker', NEW p \in Plane, NEW d \in Deploy, TickClaim(p, d)
  PROVE  Queue!Next
<1>1. /\ row[d] = "queued"
      /\ row' = [row EXCEPT ![d] = "running"]
      /\ phase' = [phase EXCEPT ![p][d] = "claimed"]
  BY DEF TickClaim, ClaimQueued
<1>2. Worker(d) = NoPlane
  BY <1>1, WorkerIs DEF OneWorker
<1>3. /\ phase'[p][d] \in Working
      /\ \A q \in Plane, e \in Deploy : e # d => phase'[q][e] = phase[q][e]
  BY <1>1, WorkingIs DEF TypeOK, ExecsOK
<1>4. Worker(d)' = p
  BY <1>3, WorkerNextIs
<1>5. [e \in Deploy |-> Worker(e)]' = [[e \in Deploy |-> Worker(e)] EXCEPT ![d] = p]
  BY <1>1, <1>3, <1>4, OneDeploy
<1>6. Queue!Claim(d, p)
  BY <1>1, <1>2, <1>5 DEF Queue!Claim
<1>7. QED
  BY <1>6 DEF Queue!Next

(* The claim that succeeds and is reported as failed. *)
LEMMA FaultRefines ==
  ASSUME TypeOK, OneWorker, NEW p \in Plane, NEW d \in Deploy, TickFault(p, d),
         ClaimQueued(d)
  PROVE  Queue!Next
<1>1. UNCHANGED phase
  BY DEF TickFault
<1>2. Worker(d) = NoPlane
  BY WorkerIs DEF OneWorker, ClaimQueued
<1>3. \A e \in Deploy : Worker(e)' = Worker(e)
  BY <1>1, SameWorker
<1>4. [e \in Deploy |-> Worker(e)]' = [[e \in Deploy |-> Worker(e)] EXCEPT ![d] = NoPlane]
  BY <1>2, <1>3
<1>5. Queue!Claim(d, NoPlane)
  BY <1>2, <1>4 DEF Queue!Claim, ClaimQueued
<1>6. QED
  BY <1>5 DEF Queue!Next

(* A worker that writes the row and stops. *)
LEMMA LastStep ==
  ASSUME TypeOK, OneWorker, OneWorker', NEW p \in Plane, NEW d \in Deploy,
         phase[p][d] \in Working, phase' = [phase EXCEPT ![p][d] = "exit"]
  PROVE  /\ Worker(d) = p /\ Worker(d)' = NoPlane
         /\ row[d] # "absent"
         /\ \A q \in Plane, e \in Deploy : e # d => phase'[q][e] = phase[q][e]
<1>1. \A q \in Plane, e \in Deploy :
        phase'[q][e] = IF q = p /\ e = d THEN "exit" ELSE phase[q][e]
  BY DEF TypeOK, ExecsOK
<1>2. Worker(d) = p /\ row[d] # "absent"
  BY WorkerIs DEF OneWorker
<1>3. \A q \in Plane : phase'[q][d] \notin Working
  BY <1>1, WorkingIs DEF OneWorker
<1>4. QED
  BY <1>1, <1>2, <1>3, WorkerNextIs

LEMMA FinishRefines ==
  ASSUME TypeOK, OneWorker, OneWorker', NEW p \in Plane, NEW d \in Deploy,
         phase[p][d] \in Working, phase' = [phase EXCEPT ![p][d] = "exit"],
         NEW v \in Terminal, FinishDeploy(d, v)
  PROVE  Queue!Next
<1>1. /\ Worker(d)' = NoPlane /\ row[d] # "absent"
      /\ \A q \in Plane, e \in Deploy : e # d => phase'[q][e] = phase[q][e]
  BY LastStep
<1>2. PICK r : row' = [row EXCEPT ![d] = r] /\ (r = v \/ row' = row)
  <2>1. row = [row EXCEPT ![d] = row[d]]
    BY DEF TypeOK, RowsOK
  <2>2. QED
    BY <2>1 DEF FinishDeploy
<1>3. [e \in Deploy |-> Worker(e)]' = [[e \in Deploy |-> Worker(e)] EXCEPT ![d] = NoPlane]
  BY <1>1, <1>2, OneDeploy
<1>4. CASE r = v
  <2>1. Queue!Finish(d, v, NoPlane)
    BY <1>1, <1>2, <1>3, <1>4 DEF Queue!Finish
  <2>2. QED
    BY <2>1 DEF Queue!Next, Queue!Terminal, Terminal
<1>5. CASE row' = row
  <2>1. [e \in Deploy |-> Worker(e)]'
          = [e \in Deploy |-> IF e \in {d} THEN NoPlane ELSE Worker(e)]
    BY <1>3
  <2>2. Queue!Abandon({d})
    BY <1>5, <2>1 DEF Queue!Abandon
  <2>3. QED
    BY <2>2 DEF Queue!Next
<1>6. QED
  BY <1>2, <1>4, <1>5

LEMMA HandBackRefines ==
  ASSUME TypeOK, OneWorker, OneWorker', NEW p \in Plane, NEW d \in Deploy, NEW k,
         phase[p][d] \in Working, phase' = [phase EXCEPT ![p][d] = "exit"],
         RequeueDeploy(d, k)
  PROVE  Queue!Next
<1>1. CASE row[d] = "running" /\ row' = [row EXCEPT ![d] = "queued"]
  <2>1. /\ Worker(d) # NoPlane /\ Worker(d)' = NoPlane
        /\ \A q \in Plane, e \in Deploy : e # d => phase'[q][e] = phase[q][e]
    BY LastStep, PlaneAssumption
  <2>2. [e \in Deploy |-> Worker(e)]' = [[e \in Deploy |-> Worker(e)] EXCEPT ![d] = NoPlane]
    BY <1>1, <2>1, OneDeploy
  <2>3. Queue!HandBack(d)
    BY <1>1, <2>1, <2>2 DEF Queue!HandBack
  <2>4. QED
    BY <2>3 DEF Queue!Next
<1>2. CASE FinishDeploy(d, "failed")
  BY <1>2, FinishRefines DEF Terminal
<1>3. QED
  BY <1>1, <1>2 DEF RequeueDeploy

(* A start-up closes a row under whoever works on it. *)
LEMMA ReconcileRefines ==
  ASSUME TypeOK, OneWorker, NEW p \in Plane, NEW d \in Deploy, ReconcileOne(p, d)
  PROVE  Queue!Next
<1>1. UNCHANGED phase /\ row[d] # "absent"
  BY DEF ReconcileOne, execVars, OneWorker
<1>2. PICK v \in Terminal : row' = [row EXCEPT ![d] = v] \/ row' = row
  BY DEF ReconcileOne, FinishDeploy, Terminal
<1>3. \A e \in Deploy : Worker(e)' = Worker(e)
  BY <1>1, SameWorker
<1>4. [e \in Deploy |-> Worker(e)]' = [[e \in Deploy |-> Worker(e)] EXCEPT ![d] = Worker(d)]
  BY <1>3
<1>5. CASE row' = [row EXCEPT ![d] = v]
  <2>1. Queue!Finish(d, v, Worker(d))
    BY <1>1, <1>4, <1>5 DEF Queue!Finish
  <2>2. QED
    BY <2>1, WorkerIs DEF Queue!Next, Queue!Terminal, Terminal
<1>6. CASE row' = row
  <2>1. Queue!Abandon({})
    BY <1>3, <1>6 DEF Queue!Abandon
  <2>2. QED
    BY <2>1 DEF Queue!Next
<1>7. QED
  BY <1>2, <1>5, <1>6

LEMMA StepRefines ==
  ASSUME TypeOK, OneWorker, [Next]_vars
  PROVE  [Queue!Next]_(Queue!qvars)
<1>0. OneWorker'
  BY OneWorkerStep
<1>1. CASE UNCHANGED vars \/ PutContract
  <2>1. UNCHANGED <<row, phase>>
    BY <1>1 DEF PutContract, vars, rowVars, planeVars, execVars
  <2>2. \A e \in Deploy : Worker(e)' = Worker(e)
    BY <2>1, SameWorker
  <2>3. QED
    BY <2>1, <2>2 DEF Queue!qvars
<1>2. ASSUME NEW p \in Plane, NEW d \in Deploy, Submit(p, d)
      PROVE  Queue!Next
  BY <1>2, SubmitRefines
<1>3. ASSUME NEW p \in Plane, Tick(p)
      PROVE  Queue!Next
  <2>1. ASSUME NEW d \in Deploy, TickClaim(p, d)
        PROVE  Queue!Next
    BY <1>0, <2>1, ClaimRefines
  <2>2. ASSUME NEW d \in Deploy, TickFault(p, d), ClaimQueued(d)
        PROVE  Queue!Next
    BY <2>2, FaultRefines
  <2>3. CASE \A d \in Deploy : ~TickClaim(p, d) /\ ~(TickFault(p, d) /\ ClaimQueued(d))
    <3>1. UNCHANGED row
      BY <1>3, <2>3 DEF Tick, TickStart, TickEnd, TickSkip, TickReserve, TickLost,
         TickFault, rowVars
    <3>2. QED
      BY <1>0, <1>3, <2>3, <3>1, ScanNoClaim, QuietIsAbandon
  <2>4. QED
    BY <2>1, <2>2, <2>3
<1>4. ASSUME NEW p \in Plane, NEW d \in Deploy, Execute(p, d)
      PROVE  Queue!Next
  <2>1. CASE LoadBounce(p, d)
    BY <1>0, <2>1, HandBackRefines, WorkingIs DEF LoadBounce, Move
  <2>2. CASE FetchBounce(p, d)
    BY <1>0, <2>2, HandBackRefines, WorkingIs DEF FetchBounce, Move
  <2>3. CASE HealthPass(p, d)
    BY <1>0, <2>3, FinishRefines, WorkingIs DEF HealthPass, Move, Terminal
  <2>4. CASE Fail(p, d)
    BY <1>0, <2>4, FinishRefines DEF Fail, Terminal
  <2>5. CASE Exit(p, d)
    BY <1>0, <2>5, VerdictNoClaim, QuietIsAbandon DEF Exit, rowVars
  <2>6. CASE StopService(p, d)
    BY <1>0, <2>6, StopServiceNoClaim, QuietIsAbandon DEF StopService, rowVars
  <2>7. CASE \/ LoadGone(p, d) \/ Load(p, d) \/ Fetch(p, d) \/ Notify(p, d)
             \/ BeginPush(p, d) \/ EndPush(p, d) \/ Handoff(p, d)
             \/ StartService(p, d)
    <3>1. UNCHANGED row
      BY <2>7 DEF LoadGone, Load, Fetch, Notify, BeginPush, EndPush, Handoff,
         StartService, rowVars
    <3>2. QED
      BY <1>0, <2>7, <3>1, QuietStepNoClaim, QuietIsAbandon
  <2>8. QED
    BY <1>4, <2>1, <2>2, <2>3, <2>4, <2>5, <2>6, <2>7 DEF Execute
<1>5. ASSUME NEW p \in Plane, StartUp(p) \/ Crash(p) \/ UpgraderStop(p)
      PROVE  Queue!Next
  <2>1. ASSUME NEW d \in Deploy, ReconcileOne(p, d)
        PROVE  Queue!Next
    BY <2>1, ReconcileRefines
  <2>2. CASE \A d \in Deploy : ~ReconcileOne(p, d)
    <3>1. UNCHANGED row
      BY <1>5, <2>2 DEF StartUp, Boot, ReconcileList, StartWorker, Crash, UpgraderStop, rowVars
    <3>2. QED
      BY <1>0, <1>5, <3>1, ProcessNoClaim, QuietIsAbandon
  <2>3. QED
    BY <2>1, <2>2
<1>6. ASSUME NEW d \in Deploy, NEW h \in Host, NEW x \in Dir, StrayEnds(d, h, x)
      PROVE  Queue!Next
  <2>1. UNCHANGED row
    BY <1>6 DEF StrayEnds, StrayRsync, StrayStop, StrayStart, rowVars
  <2>2. QED
    BY <1>0, <1>6, <2>1, StrayNoClaim, QuietIsAbandon
<1>7. QED
  BY <1>1, <1>2, <1>3, <1>4, <1>5, <1>6 DEF Next

LEMMA InitRefines == Init => Queue!Init
<1> SUFFICES ASSUME Init PROVE Queue!Init
  OBVIOUS
<1>1. \A d \in Deploy : Worker(d) = NoPlane
  BY OneWorkerInit, WorkerIs, WorkingIs DEF Init
<1>2. QED
  BY <1>1 DEF Init, Queue!Init

(* However many planes share the table, it behaves as DeployQueue promises: *)
(* every step of every plane is a submission, a claim of an unowned row, a  *)
(* hand-back or verdict, or a worker that stops.                            *)
THEOREM ImplementsQueue == Spec => QueueSpec
<1>1. Spec => Queue!Spec
  BY InitRefines, StepRefines, OneWorkerAlways, PTL DEF Spec, Queue!Spec
<1>2. QED
  BY <1>1 DEF QueueSpec

(* A verdict is final: no step of any plane makes a finished row queued or  *)
(* running again (the state guards of ClaimQueued and RequeueDeploy).       *)
THEOREM VerdictIsFinal == Spec => NoResurrection
<1>1. ASSUME TypeOK, OneWorker, [Next]_vars
      PROVE  [\A d \in Deploy : row[d] \in Terminal => row'[d] \in Terminal]_vars
  <2>1. [Queue!Next]_(Queue!qvars)
    BY <1>1, StepRefines
  <2>2. CASE UNCHANGED Queue!qvars
    BY <2>2 DEF Queue!qvars
  <2>3. CASE Queue!Next
    BY <1>1, <2>3 DEF Queue!Next, Queue!Submit, Queue!Claim, Queue!HandBack, Queue!Finish,
       Queue!Abandon, Queue!Terminal, Terminal, TypeOK, RowsOK
  <2>4. QED
    BY <2>1, <2>2, <2>3
<1>2. QED
  BY <1>1, OneWorkerAlways, PTL DEF Spec, NoResurrection
=============================================================================
