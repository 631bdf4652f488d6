---------------------- MODULE DeployWorkerPackageProofs ---------------------
(* When a success that a control plane reports is one: a deploy that passes *)
(* its health check, and whose start found the old process gone, runs its   *)
(* own package as long as no other execution writes the same directory      *)
(* meanwhile, and which sites see to that.  The rsync of a killed plane is  *)
(* nobody's execution: where it met another one, the directory is Mixed.    *)
EXTENDS DeployWorkerSafetyProofs

-----------------------------------------------------------------------------
(* What the argument is about. *)

Sited == Working \ {"claimed"}
Installed == {"pushed", "stopped", "started"}

(* No directory of a machine is rsynced or restarted by two executions;     *)
(* of what killed planes have left behind nothing is said.                  *)
OneWriter ==
  \A p, q \in Plane, d, e \in Deploy :
    /\ phase[p][d] \in Touching /\ phase[q][e] \in Touching
    /\ Dest(p, d) = Dest(q, e) /\ site[p][d] = site[q][e]
    => p = q /\ d = e

(* An rsync finds another one's traces, a killed plane's, only in a         *)
(* directory that is Mixed; when it is done, its package or the mixture is  *)
(* there, and that is what a start finds and runs.                          *)
PackageInPlace ==
  \A p \in Plane, d \in Deploy :
    LET h == Dest(p, d)
        x == site[p][d]
    IN
    /\ phase[p][d] = "pushing" =>
         /\ disk[h][x] \in {Torn, Mixed}
         /\ \A e \in Deploy : <<"rsync", e, h, x>> \in strays => disk[h][x] = Mixed
    /\ phase[p][d] \in Installed => disk[h][x] \in {d, Mixed}
    /\ phase[p][d] = "started" => live[h][x] \in {d, Mixed, Down}

(* What is loaded has a directory.                                          *)
SiteChosen ==
  \A p \in Plane, d \in Deploy : phase[p][d] \in Sited => site[p][d] \in Dir

(* An execution works where the contract says and has reserved what it says. *)
AsContracted ==
  \A p \in Plane, d \in Deploy :
    /\ phase[p][d] \in Sited => site[p][d] = RuntimeDir(Dest(p, d), d)
    /\ unit[p][d] # NoDir => unit[p][d] = DeployUnit(p, d)

(* No operator edits a contract ...                                         *)
NoEdits == \A one, other \in Layouts : one = other

DirIn(c, h, d) == c[ServiceOf[d]][PlatOf[h]]
SamePlace(c, p, d, q, e) ==
  /\ Dest(p, d) = Dest(q, e)
  /\ DirIn(c, Dest(p, d), d) = DirIn(c, Dest(q, e), e)

(* ... a directory of a machine is deployed to by one plane only ...        *)
PlanesApart ==
  \A c \in Layouts, p, q \in Plane, d, e \in Deploy :
    d # e /\ SamePlace(c, p, d, q, e) => p = q

(* ... and what shares a directory there shares a unit on that plane.       *)
UnitsFollowPlaces ==
  \A c \in Layouts, p \in Plane, d, e \in Deploy :
    SamePlace(c, p, d, p, e) => DirIn(c, p, d) = DirIn(c, p, e)

OneWriterSite == NoEdits /\ PlanesApart /\ UnitsFollowPlaces

-----------------------------------------------------------------------------
(* Steps. *)

(* The execution of d on p stays as far as it is and where it is.           *)
Stays(p, d) == phase'[p][d] = phase[p][d] /\ site'[p][d] = site[p][d]

(* What a step that does not end an execution on p does to it.              *)
Advances(p, d) ==
  \/ Stays(p, d)
  \/ phase'[p][d] = "claimed"
  \/ phase'[p][d] = "loaded" /\ site'[p][d] = RuntimeDir(Dest(p, d), d)
  \/ /\ phase[p][d] \in Sited /\ site'[p][d] = site[p][d]
     /\ \/ phase'[p][d] \notin Installed \cup {"pushing"}
        \/ phase'[p][d] = "pushing" /\ BeginPush(p, d)
        \/ phase'[p][d] = "pushed" /\ EndPush(p, d)
        \/ phase[p][d] = "pushed" /\ phase'[p][d] = "stopped"
        \/ phase[p][d] = "stopped" /\ phase'[p][d] = "started" /\ StartService(p, d)

Ends(p, d) == phase'[p][d] \in {"idle", "exit", "handed"}

Goes(p, d) == Advances(p, d) \/ Ends(p, d)

(* A killed process takes its executions with it and nobody else's, and of  *)
(* the commands it leaves the rsyncs are those of its pushes.               *)
LEMMA KillSites ==
  ASSUME TypeOK, NEW q \in Plane, NEW ph \in [Plane -> [Deploy -> Phase]], NEW left,
         KillPlane(q, ph, left)
  PROVE  /\ \A d \in Deploy : phase'[q][d] = "idle" /\ unit'[q][d] = NoDir
         /\ \A p \in Plane : p # q =>
              phase'[p] = ph[p] /\ site'[p] = site[p] /\ unit'[p] = unit[p]
BY PlaneAssumption, SiteAssumption DEF KillPlane, TypeOK, ExecsOK, HostsOK

LeftBehind(h, x, e) ==
  \E q \in Plane : /\ phase[q][e] = "pushing" /\ phase'[q][e] = "idle"
                   /\ Dest(q, e) = h /\ site[q][e] = x

LEMMA KillLeaves ==
  ASSUME TypeOK, NEW q \in Plane, NEW ph \in [Plane -> [Deploy -> Phase]],
         NEW left \in SUBSET strays, KillPlane(q, ph, left),
         NEW e \in Deploy, NEW h, NEW x, <<"rsync", e, h, x>> \in strays' \ strays
  PROVE  LeftBehind(h, x, e)
<1>1. PICK caught \in SUBSET Catchable(q) : strays' = left \cup Outliving(q, caught)
  BY DEF KillPlane
<1>2. PICK d \in caught \cup {f \in Deploy : phase[q][f] = "pushing"} :
         <<"rsync", e, h, x>> = <<Command[phase[q][d]], d, Dest(q, d), site[q][d]>>
  BY <1>1 DEF Outliving
<1>3. d = e /\ Dest(q, e) = h /\ site[q][e] = x /\ Command[phase[q][e]] = "rsync"
  BY <1>2
<1>4. phase[q][e] \in {"pushing", "pushed", "stopped"}
  BY <1>2, <1>3 DEF Catchable
<1>5. phase[q][e] = "pushing"
  BY <1>3, <1>4 DEF Command
<1>6. phase'[q][e] = "idle"
  BY DEF KillPlane, TypeOK, ExecsOK
<1>7. QED
  BY <1>3, <1>5, <1>6 DEF LeftBehind

(* A goroutine that moves on leaves the others where they are.              *)
LEMMA MoveGoes ==
  ASSUME TypeOK, NEW q \in Plane, NEW e \in Deploy, NEW from, NEW to,
         Move(q, e, from, to), UNCHANGED site
  PROVE  /\ phase[q][e] = from /\ phase'[q][e] = to
         /\ \A p \in Plane, d \in Deploy : <<p, d>> # <<q, e>> => Stays(p, d)
BY DEF Move, Stays, TypeOK, ExecsOK

(* A stop ends executions or is a step of its own.                          *)
LEMMA StopGoes ==
  ASSUME TypeOK, SiteChosen, NEW q \in Plane, NEW e \in Deploy, StopService(q, e),
         NEW p \in Plane, NEW d \in Deploy
  PROVE  Goes(p, d)
<1> DEFINE h == Dest(q, e)
           ph == [phase EXCEPT ![q][e] = "stopped"]
<1>1. phase[q][e] = "pushed" /\ "pushed" \in Sited
  BY DEF StopService, Sited, Working
<1>2. /\ ph \in [Plane -> [Deploy -> Phase]]
      /\ ph[q][e] = "stopped"
      /\ <<p, d>> # <<q, e>> => ph[p][d] = phase[p][d]
  BY DEF TypeOK, ExecsOK, Phase, Working
<1>3. \/ h \in Plane /\ KillPlane(h, ph, strays)
      \/ phase' = ph /\ UNCHANGED site
  BY StopCases DEF StopService
<1> HIDE DEF ph, h
<1>4. CASE h \in Plane /\ KillPlane(h, ph, strays)
  <2>1. /\ p = h => phase'[p][d] = "idle"
        /\ p # h => phase'[p] = ph[p] /\ site'[p] = site[p]
    BY <1>2, <1>4, KillSites
  <2>2. QED
    BY <1>1, <1>2, <2>1 DEF Goes, Advances, Ends, Stays
<1>5. CASE phase' = ph /\ UNCHANGED site
  BY <1>1, <1>2, <1>5 DEF Goes, Advances, Stays
<1>6. QED
  BY <1>3, <1>4, <1>5

(* One goroutine's step ends or advances every execution.                   *)
LEMMA ExecuteGoes ==
  ASSUME TypeOK, SiteChosen, NEW q \in Plane, NEW e \in Deploy, Execute(q, e),
         NEW p \in Plane, NEW d \in Deploy
  PROVE  Goes(p, d)
<1> USE DEF Goes, Advances, Ends
<1>1. CASE LoadGone(q, e) \/ LoadBounce(q, e) \/ FetchBounce(q, e) \/ HealthPass(q, e)
  <2>1. UNCHANGED site /\ \E from \in Phase : Move(q, e, from, "exit")
    BY <1>1 DEF LoadGone, LoadBounce, FetchBounce, HealthPass, Phase, Working
  <2>2. QED
    BY <2>1, MoveGoes
<1>2. CASE Load(q, e)
  BY <1>2 DEF Load, Move, Stays, TypeOK, ExecsOK
<1>3. CASE Fetch(q, e) \/ Notify(q, e)
  <2>1. /\ UNCHANGED site
        /\ \E from \in Sited, to \in {"fetched", "waiting"} : Move(q, e, from, to)
    BY <1>3 DEF Fetch, Notify, Sited, Working
  <2>2. QED
    BY <2>1, MoveGoes DEF Installed
<1>b. CASE BeginPush(q, e)
  <2>1. /\ UNCHANGED site
        /\ \E from \in Sited : Move(q, e, from, "pushing")
    BY <1>b DEF BeginPush, Sited, Working
  <2>2. QED
    BY <1>b, <2>1, MoveGoes
<1>4. CASE EndPush(q, e)
  <2>1. Move(q, e, "pushing", "pushed") /\ UNCHANGED site /\ "pushing" \in Sited
    BY <1>4 DEF EndPush, Sited, Working
  <2>2. /\ phase[q][e] = "pushing" /\ phase'[q][e] = "pushed" /\ site'[q][e] = site[q][e]
        /\ <<p, d>> # <<q, e>> => Stays(p, d)
    BY <2>1, MoveGoes
  <2>3. QED
    BY <1>4, <2>1, <2>2
<1>5. CASE Handoff(q, e)
  BY <1>5, MoveGoes DEF Handoff
<1>6. CASE StopService(q, e)
  BY <1>6, StopGoes
<1>7. CASE StartService(q, e)
  <2>1. /\ UNCHANGED site /\ "stopped" \in Sited
        /\ Move(q, e, "stopped", "started") \/ Move(q, e, "stopped", "beside")
    BY <1>7 DEF StartService, Sited, Working
  <2>2. QED
    BY <1>7, <2>1, MoveGoes DEF Installed
<1>8. CASE Fail(q, e)
  <2>1. UNCHANGED site /\ Move(q, e, phase[q][e], "exit")
    BY <1>8 DEF Fail, Move
  <2>2. QED
    BY <2>1, MoveGoes
<1>9. CASE Exit(q, e)
  BY <1>9 DEF Exit, Stays, TypeOK, ExecsOK
<1>10. QED
  BY <1>1, <1>2, <1>3, <1>b, <1>4, <1>5, <1>6, <1>7, <1>8, <1>9 DEF Execute

(* A scan starts an execution at most.                                      *)
LEMMA TickGoes ==
  ASSUME TypeOK, NEW q \in Plane, Tick(q), NEW p \in Plane, NEW d \in Deploy
  PROVE  Goes(p, d)
<1>1. UNCHANGED site /\ (Stays(p, d) \/ phase'[p][d] = "claimed")
  <2>1. CASE TickStart(q) \/ TickEnd(q)
    BY <2>1 DEF TickStart, TickEnd, execVars, Stays
  <2>2. CASE \E c \in todo[q] : TickSkip(q, c) \/ TickReserve(q, c)
    BY <2>2 DEF TickSkip, TickReserve, execVars, Stays
  <2>3. ASSUME NEW e \in Deploy, TickClaim(q, e)
        PROVE  UNCHANGED site /\ (Stays(p, d) \/ phase'[p][d] = "claimed")
    BY <2>3 DEF TickClaim, Stays, TypeOK, ExecsOK
  <2>4. CASE \E e \in Deploy : TickLost(q, e) \/ TickFault(q, e)
    BY <2>4 DEF TickLost, TickFault, Stays
  <2>5. QED
    BY <2>1, <2>2, <2>3, <2>4 DEF Tick
<1>2. QED
  BY <1>1 DEF Goes, Advances

(* Whatever happens, an execution ends or advances.                         *)
LEMMA StepGoes ==
  ASSUME TypeOK, SiteChosen, [Next]_vars, NEW p \in Plane, NEW d \in Deploy
  PROVE  Goes(p, d)
<1>1. ASSUME NEW q \in Plane, Crash(q) \/ UpgraderStop(q)
      PROVE  Goes(p, d)
  <2>1. phase \in [Plane -> [Deploy -> Phase]]
    BY DEF TypeOK, ExecsOK
  <2>2. \/ KillPlane(q, phase, strays)
        \/ phase' = phase /\ UNCHANGED site
    BY <1>1, StopCases DEF Crash, UpgraderStop
  <2>3. QED
    BY <2>1, <2>2, KillSites DEF Goes, Advances, Ends, Stays
<1>s. ASSUME NEW e \in Deploy, NEW h \in Host, NEW x \in Dir, StrayEnds(e, h, x)
      PROVE  Goes(p, d)
  <2>1. phase \in [Plane -> [Deploy -> Phase]]
    BY DEF TypeOK, ExecsOK
  <2>2. \/ h \in Plane /\ KillPlane(h, phase, strays \ {<<"stop", e, h, x>>})
        \/ phase' = phase /\ UNCHANGED site
    BY <1>s, StopCases DEF StrayEnds, StrayRsync, StrayStop, StrayStart, execVars
  <2>3. QED
    BY <2>1, <2>2, KillSites DEF Goes, Advances, Ends, Stays
<1>2. ASSUME UNCHANGED execVars
      PROVE  Goes(p, d)
  BY <1>2 DEF execVars, Goes, Advances, Stays
<1>3. ASSUME NEW q \in Plane, StartUp(q)
      PROVE  UNCHANGED execVars
  BY <1>3 DEF StartUp, Boot, ReconcileList, ReconcileOne, StartWorker
<1>4. CASE PutContract \/ UNCHANGED vars \/ \E q \in Plane, e \in Deploy : Submit(q, e)
  BY <1>2, <1>4 DEF PutContract, Submit, vars
<1>5. CASE \E q \in Plane : Tick(q) \/ \E e \in Deploy : Execute(q, e)
  BY <1>5, TickGoes, ExecuteGoes
<1>6. QED
  BY <1>1, <1>s, <1>2, <1>3, <1>4, <1>5 DEF Next

(* The rsync of e, that q executes, begins or ends in a directory.          *)
Writes(q, e, h, x) ==
  /\ BeginPush(q, e) \/ EndPush(q, e)
  /\ Dest(q, e) = h /\ site'[q][e] = x /\ phase'[q][e] \in {"pushing", "pushed"}

(* Who writes a directory: an execution, or an rsync that is left alone.    *)
LEMMA DiskIs ==
  ASSUME TypeOK, [Next]_vars, NEW h \in Host, NEW x \in Dir, disk'[h][x] # disk[h][x]
  PROVE  \/ \E q \in Plane, e \in Deploy : Writes(q, e, h, x)
         \/ disk[h][x] = Torn /\ \E e \in Deploy : <<"rsync", e, h, x>> \in strays
<1> DEFINE Goal == \/ \E q \in Plane, e \in Deploy : Writes(q, e, h, x)
                   \/ disk[h][x] = Torn /\ \E e \in Deploy : <<"rsync", e, h, x>> \in strays
<1>1. ASSUME NEW q \in Plane, NEW e \in Deploy, BeginPush(q, e) \/ EndPush(q, e)
      PROVE  Writes(q, e, h, x)
  <2>1. /\ phase'[q][e] = "pushing" \/ phase'[q][e] = "pushed"
        /\ site'[q][e] = site[q][e]
    BY <1>1 DEF BeginPush, EndPush, Move, TypeOK, ExecsOK
  <2>2. Dest(q, e) = h /\ site[q][e] = x
    BY <1>1 DEF BeginPush, EndPush, TypeOK, HostsOK
  <2>3. QED
    BY <1>1, <2>1, <2>2 DEF Writes
<1>2. ASSUME NEW q \in Plane, NEW e \in Deploy, Execute(q, e)
      PROVE  BeginPush(q, e) \/ EndPush(q, e)
  BY <1>2 DEF Execute, LoadGone, LoadBounce, Load, Fetch, FetchBounce, Notify, Handoff,
              StopService, StartService, HealthPass, Fail, Exit, hostVars
<1>3. ASSUME NEW q \in Plane, Tick(q) \/ StartUp(q) \/ Crash(q) \/ UpgraderStop(q)
      PROVE  FALSE
  BY <1>3 DEF Tick, TickStart, TickEnd, TickSkip, TickReserve, TickClaim, TickLost, TickFault,
              StartUp, Boot, ReconcileList, ReconcileOne, StartWorker, Crash, UpgraderStop, hostVars
<1>4. CASE PutContract \/ UNCHANGED vars \/ \E q \in Plane, e \in Deploy : Submit(q, e)
  BY <1>4 DEF PutContract, Submit, vars, hostVars
<1>5. ASSUME NEW e \in Deploy, NEW g \in Host, NEW y \in Dir, StrayEnds(e, g, y)
      PROVE  Goal
  <2>1. StrayRsync(e, g, y)
    BY <1>5 DEF StrayEnds, StrayStop, StrayStart
  <2>2. g = h /\ y = x /\ disk[h][x] = Torn
    BY <2>1 DEF StrayRsync, TypeOK, HostsOK
  <2>3. QED
    BY <2>1, <2>2 DEF StrayRsync
<1>6. QED
  BY <1>1, <1>2, <1>3, <1>4, <1>5 DEF Next

(* A new rsync that is left alone is that of a push whose plane was killed. *)
LEMMA StrayIsLeft ==
  ASSUME TypeOK, [Next]_vars, NEW e \in Deploy, NEW h \in Host, NEW x \in Dir,
         <<"rsync", e, h, x>> \in strays' \ strays
  PROVE  LeftBehind(h, x, e)
<1>0. strays \in SUBSET strays /\ phase \in [Plane -> [Deploy -> Phase]]
  BY DEF TypeOK, ExecsOK
<1>1. ASSUME NEW q \in Host, NEW y, NEW ph \in [Plane -> [Deploy -> Phase]],
             NEW left \in SUBSET strays, Stop(q, y, ph, left)
      PROVE  LeftBehind(h, x, e)
  BY <1>1, StopCases, KillLeaves
<1>2. ASSUME NEW q \in Plane, NEW f \in Deploy, Execute(q, f)
      PROVE  LeftBehind(h, x, e)
  <2>1. StopService(q, f)
    BY <1>2 DEF Execute, LoadGone, LoadBounce, Load, Fetch, FetchBounce, Notify, Handoff,
                BeginPush, EndPush, StartService, HealthPass, Fail, Exit, hostVars
  <2>2. [phase EXCEPT ![q][f] = "stopped"] \in [Plane -> [Deploy -> Phase]]
    BY <1>0 DEF Phase, Working
  <2>3. QED
    BY <1>0, <1>1, <2>1, <2>2, SiteType DEF StopService
<1>3. ASSUME NEW q \in Plane, Tick(q) \/ StartUp(q)
      PROVE  FALSE
  BY <1>3 DEF Tick, TickStart, TickEnd, TickSkip, TickReserve, TickClaim, TickLost, TickFault,
              StartUp, Boot, ReconcileList, ReconcileOne, StartWorker, hostVars
<1>4. ASSUME NEW q \in Plane, Crash(q) \/ UpgraderStop(q)
      PROVE  LeftBehind(h, x, e)
  BY <1>0, <1>1, <1>4, KillLeaves, PlaneAssumption DEF Crash, UpgraderStop
<1>5. CASE PutContract \/ UNCHANGED vars \/ \E q \in Plane, f \in Deploy : Submit(q, f)
  BY <1>5 DEF PutContract, Submit, vars, hostVars
<1>6. ASSUME NEW f \in Deploy, NEW g \in Host, NEW y \in Dir, StrayEnds(f, g, y)
      PROVE  LeftBehind(h, x, e)
  <2>1. StrayStop(f, g, y)
    BY <1>6 DEF StrayEnds, StrayRsync, StrayStart
  <2>2. strays \ {<<"stop", f, g, y>>} \in SUBSET strays
    OBVIOUS
  <2>3. QED
    BY <1>0, <1>1, <2>1, <2>2 DEF StrayStop
<1>7. QED
  BY <1>2, <1>3, <1>4, <1>5, <1>6 DEF Next

(* What a machine runs: what it ran, nothing, or what the directory holds.  *)
LEMMA LiveIs ==
  ASSUME TypeOK, [Next]_vars, NEW h \in Host, NEW x \in Dir
  PROVE  live'[h][x] \in {live[h][x], Down, disk[h][x]}
<1> USE DEF TypeOK, HostsOK
<1>1. ASSUME UNCHANGED live
      PROVE  live'[h][x] \in {live[h][x], Down, disk[h][x]}
  BY <1>1
<1>2. ASSUME NEW q \in Plane, NEW ph, NEW left, KillPlane(q, ph, left)
      PROVE  live'[h][x] \in {live[h][x], Down, disk[h][x]}
  BY <1>2 DEF KillPlane
<1>t. ASSUME NEW g, NEW y, NEW ph, NEW left, Stop(g, y, ph, left)
      PROVE  live'[h][x] \in {live[h][x], Down, disk[h][x]}
  BY <1>1, <1>2, <1>t, StopCases
<1>3. ASSUME NEW q \in Plane, NEW e \in Deploy, StopService(q, e)
      PROVE  live'[h][x] \in {live[h][x], Down, disk[h][x]}
  BY <1>t, <1>3 DEF StopService
<1>4. ASSUME NEW q \in Plane, NEW e \in Deploy, StartService(q, e)
      PROVE  live'[h][x] \in {live[h][x], Down, disk[h][x]}
  BY <1>4 DEF StartService
<1>5. ASSUME NEW q \in Plane, NEW e \in Deploy, Execute(q, e)
      PROVE  live'[h][x] \in {live[h][x], Down, disk[h][x]}
  BY <1>1, <1>3, <1>4, <1>5 DEF Execute, LoadGone, LoadBounce, Load, Fetch, FetchBounce, Notify,
              BeginPush, EndPush, Handoff, HealthPass, Fail, Exit, hostVars
<1>6. ASSUME NEW q \in Plane, Tick(q) \/ Crash(q) \/ UpgraderStop(q)
      PROVE  live'[h][x] \in {live[h][x], Down, disk[h][x]}
  BY <1>1, <1>2, <1>t, <1>6 DEF Tick, TickStart, TickEnd, TickSkip, TickReserve, TickClaim,
              TickLost, TickFault, Crash, UpgraderStop, hostVars
<1>7. ASSUME NEW q \in Plane, StartUp(q)
      PROVE  live'[h][x] \in {live[h][x], Down, disk[h][x]}
  BY <1>7 DEF StartUp, Boot, ReconcileList, ReconcileOne, StartWorker, hostVars
<1>8. CASE PutContract \/ UNCHANGED vars \/ \E q \in Plane, e \in Deploy : Submit(q, e)
  BY <1>1, <1>8 DEF PutContract, Submit, vars, hostVars
<1>9. ASSUME NEW e \in Deploy, NEW g \in Host, NEW y \in Dir, StrayEnds(e, g, y)
      PROVE  live'[h][x] \in {live[h][x], Down, disk[h][x]}
  BY <1>1, <1>t, <1>9 DEF StrayEnds, StrayRsync, StrayStop, StrayStart
<1>10. QED
  BY <1>5, <1>6, <1>7, <1>8, <1>9 DEF Next

-----------------------------------------------------------------------------
(* One writer is enough. *)

PackageInv == TypeOK /\ SiteChosen /\ PackageInPlace

(* A directory that is chosen stays.                                        *)
LEMMA SiteChosenStep ==
  ASSUME TypeOK, SiteChosen, [Next]_vars
  PROVE  SiteChosen'
<1> SUFFICES ASSUME NEW p \in Plane, NEW d \in Deploy, phase'[p][d] \in Sited
             PROVE  site'[p][d] \in Dir
  BY DEF SiteChosen
<1>1. Advances(p, d)
  BY StepGoes DEF Goes, Ends, Sited, Working
<1>2. RuntimeDir(Dest(p, d), d) \in Dir
  BY SiteType
<1>3. QED
  BY <1>1, <1>2 DEF Advances, Stays, SiteChosen, Sited, Working

(* An execution that rsyncs or is past its rsync did so before, or was one  *)
(* step earlier.                                                            *)
LEMMA InstalledIs ==
  ASSUME TypeOK, SiteChosen, [Next]_vars, NEW p \in Plane, NEW d \in Deploy,
         phase'[p][d] \in Installed \cup {"pushing"}
  PROVE  /\ site'[p][d] = site[p][d] /\ site[p][d] \in Dir
         /\ \/ phase'[p][d] = phase[p][d]
            \/ phase'[p][d] = "pushing" /\ BeginPush(p, d)
            \/ phase'[p][d] = "pushed" /\ EndPush(p, d)
            \/ phase[p][d] = "pushed" /\ phase'[p][d] = "stopped"
            \/ phase[p][d] = "stopped" /\ phase'[p][d] = "started" /\ StartService(p, d)
<1>1. Advances(p, d)
  BY StepGoes DEF Goes, Ends, Installed
<1>2. phase[p][d] \in Sited /\ site'[p][d] = site[p][d]
  BY <1>1 DEF Advances, Stays, Installed, Sited, Working
<1>3. QED
  BY <1>1, <1>2 DEF Advances, Stays, Installed, SiteChosen

(* While an execution has a directory to itself, only it changes it.        *)
LEMMA DiskHeld ==
  ASSUME TypeOK, SiteChosen, PackageInPlace, [Next]_vars, OneWriter',
         NEW p \in Plane, NEW d \in Deploy,
         phase[p][d] \in Installed \cup {"pushing"}, phase'[p][d] \in Installed \cup {"pushing"},
         ~BeginPush(p, d), ~EndPush(p, d)
  PROVE  disk'[Dest(p, d)][site[p][d]] = disk[Dest(p, d)][site[p][d]]
<1> DEFINE h == Dest(p, d)
           x == site[p][d]
<1>1. h \in Host /\ x \in Dir /\ site'[p][d] = x
  BY InstalledIs, SiteType
<1>2. /\ disk[h][x] \in {Torn, Mixed, d}
      /\ disk[h][x] = Torn => \A e \in Deploy : <<"rsync", e, h, x>> \notin strays
  BY NameAssumption DEF PackageInPlace
<1> HIDE DEF h, x
<1>3. ASSUME NEW q \in Plane, NEW e \in Deploy, Writes(q, e, h, x)
      PROVE  FALSE
  <2>1. q = p /\ e = d
    BY <1>1, <1>3 DEF OneWriter, Writes, Touching, Installed, Dest, h
  <2>2. QED
    BY <1>3, <2>1 DEF Writes
<1>4. disk'[h][x] = disk[h][x]
  BY <1>1, <1>2, <1>3, DiskIs
<1>5. QED
  BY <1>4 DEF h, x

(* The package stays in place: no other execution writes there, and what    *)
(* killed planes have left shows.                                           *)
LEMMA PackageStep ==
  ASSUME TypeOK, SiteChosen, PackageInPlace, [Next]_vars, OneWriter, OneWriter'
  PROVE  PackageInPlace'
<1> SUFFICES ASSUME NEW p \in Plane, NEW d \in Deploy,
                    phase'[p][d] \in Installed \cup {"pushing"}
             PROVE  /\ phase'[p][d] = "pushing" =>
                         /\ disk'[Dest(p, d)][site'[p][d]] \in {Torn, Mixed}
                         /\ \A e \in Deploy :
                              <<"rsync", e, Dest(p, d), site'[p][d]>> \in strays'
                                => disk'[Dest(p, d)][site'[p][d]] = Mixed
                    /\ phase'[p][d] \in Installed => disk'[Dest(p, d)][site'[p][d]] \in {d, Mixed}
                    /\ phase'[p][d] = "started" =>
                         live'[Dest(p, d)][site'[p][d]] \in {d, Mixed, Down}
  BY DEF PackageInPlace, Installed, Dest, Remote
<1> DEFINE h == Dest(p, d)
           x == site[p][d]
<1>1. /\ site'[p][d] = x /\ x \in Dir /\ h \in Host
      /\ \/ phase'[p][d] = phase[p][d]
         \/ phase'[p][d] = "pushing" /\ BeginPush(p, d)
         \/ phase'[p][d] = "pushed" /\ EndPush(p, d)
         \/ phase[p][d] = "pushed" /\ phase'[p][d] = "stopped"
         \/ phase[p][d] = "stopped" /\ phase'[p][d] = "started" /\ StartService(p, d)
  BY InstalledIs, SiteType
<1>2. /\ phase[p][d] = "pushing" =>
           /\ disk[h][x] \in {Torn, Mixed}
           /\ \A e \in Deploy : <<"rsync", e, h, x>> \in strays => disk[h][x] = Mixed
      /\ phase[p][d] \in Installed => disk[h][x] \in {d, Mixed}
      /\ phase[p][d] = "started" => live[h][x] \in {d, Mixed, Down}
  BY DEF PackageInPlace
<1>w. \A e \in Deploy : <<"rsync", e, h, x>> \in strays => Written(h, x)
  <2>1. SUFFICES ASSUME NEW e \in Deploy, <<"rsync", e, h, x>> \in strays
                 PROVE  Written(h, x)
    OBVIOUS
  <2>2. <<NoPlane, e>> \in Writers(h, x)
    BY <2>1 DEF Writers
  <2>3. QED
    BY <2>2 DEF Written
<1>b. BeginPush(p, d) =>
        disk'[h][x] = (IF Written(h, x) THEN Mixed ELSE Torn) /\ strays' = strays
  BY <1>1 DEF BeginPush, TypeOK, HostsOK
<1>e. EndPush(p, d) =>
        /\ phase[p][d] = "pushing"
        /\ disk'[h][x] = (IF disk[h][x] = Torn THEN d ELSE disk[h][x])
  BY <1>1 DEF EndPush, Move, TypeOK, HostsOK
<1>d. phase[p][d] \in Installed \cup {"pushing"} /\ ~BeginPush(p, d) /\ ~EndPush(p, d)
        => disk'[h][x] = disk[h][x]
  BY DiskHeld
<1>l. live'[h][x] \in {live[h][x], Down, disk[h][x]}
  BY <1>1, LiveIs
<1>s. phase[p][d] = "stopped" /\ phase'[p][d] = "started" /\ StartService(p, d)
        => live[h][x] = Down
  BY DEF StartService, Move, TypeOK, ExecsOK
<1>n. phase[p][d] = "pushing" /\ phase'[p][d] = "pushing" =>
        \A e \in Deploy : <<"rsync", e, h, x>> \notin strays' \ strays
  <2> SUFFICES ASSUME phase[p][d] = "pushing", phase'[p][d] = "pushing",
                      NEW e \in Deploy, <<"rsync", e, h, x>> \in strays' \ strays
               PROVE  FALSE
    OBVIOUS
  <2>1. PICK q \in Plane : /\ phase[q][e] = "pushing" /\ phase'[q][e] = "idle"
                           /\ Dest(q, e) = h /\ site[q][e] = x
    BY <1>1, StrayIsLeft DEF LeftBehind
  <2>2. q = p /\ e = d
    BY <2>1 DEF OneWriter, Touching
  <2>3. QED
    BY <2>1, <2>2
<1> HIDE DEF h, x
<1>3. CASE BeginPush(p, d) /\ phase'[p][d] = "pushing"
  BY <1>1, <1>3, <1>b, <1>w DEF h, Installed
<1>4. CASE EndPush(p, d) /\ phase'[p][d] = "pushed"
  BY <1>1, <1>2, <1>4, <1>e DEF h, Installed
<1>5. CASE ~BeginPush(p, d) /\ ~EndPush(p, d) /\ phase[p][d] \in Installed \cup {"pushing"}
  <2>1. disk'[h][x] = disk[h][x]
    BY <1>5, <1>d
  <2>2. CASE phase'[p][d] = "pushing"
    <3>1. phase[p][d] = "pushing"
      BY <1>1, <1>5, <2>2
    <3>2. /\ disk'[h][x] \in {Torn, Mixed}
          /\ \A e \in Deploy : <<"rsync", e, h, x>> \in strays' => disk'[h][x] = Mixed
      BY <1>2, <1>n, <2>1, <2>2, <3>1
    <3>3. QED
      BY <1>1, <2>2, <3>2 DEF h, Installed
  <2>3. CASE phase'[p][d] \in Installed
    BY <1>1, <1>2, <1>l, <1>s, <1>5, <2>1, <2>3 DEF h, Installed
  <2>4. QED
    BY <2>2, <2>3
<1>6. BeginPush(p, d) => phase'[p][d] = "pushing"
  BY DEF BeginPush, Move, TypeOK, ExecsOK
<1>7. EndPush(p, d) => phase'[p][d] = "pushed"
  BY DEF EndPush, Move, TypeOK, ExecsOK
<1>8. QED
  BY <1>1, <1>3, <1>4, <1>5, <1>6, <1>7 DEF Installed

(* Who reports a success: the health check that passed.                     *)
LEMMA SuccessIs ==
  ASSUME TypeOK, SiteChosen, [Next]_vars, NEW p \in Plane, NEW d \in Deploy,
         phase[p][d] = "started", phase'[p][d] = "exit",
         row'[d] = "succeeded", row[d] # "succeeded"
  PROVE  live[Dest(p, d)][site[p][d]] # Down
<1>1. ASSUME NEW q \in Plane, NEW e \in Deploy, Execute(q, e)
      PROVE  HealthPass(q, e) /\ e = d
  BY <1>1 DEF Execute, LoadGone, LoadBounce, Load, Fetch, FetchBounce, Notify, BeginPush, EndPush,
              Handoff, StopService, StartService, HealthPass, Fail, Exit, rowVars, RequeueDeploy,
              FinishDeploy, TypeOK, RowsOK
<1>2. ASSUME NEW q \in Plane, HealthPass(q, d)
      PROVE  q = p /\ live[Dest(p, d)][site[p][d]] # Down
  BY <1>2 DEF HealthPass, Move, TypeOK, ExecsOK
<1>3. ASSUME NEW q \in Plane, Crash(q) \/ UpgraderStop(q)
      PROVE  FALSE
  BY <1>3 DEF Crash, UpgraderStop, rowVars
<1>s. ASSUME NEW e \in Deploy, NEW g \in Host, NEW y \in Dir, StrayEnds(e, g, y)
      PROVE  FALSE
  BY <1>s DEF StrayEnds, StrayRsync, StrayStop, StrayStart, rowVars
<1>4. ASSUME UNCHANGED phase
      PROVE  FALSE
  BY <1>4
<1>5. ASSUME NEW q \in Plane, Tick(q)
      PROVE  FALSE
  BY <1>5 DEF Tick, TickStart, TickEnd, TickSkip, TickReserve, TickClaim, TickLost, TickFault,
              ClaimQueued, rowVars, TypeOK, RowsOK
<1>6. ASSUME NEW q \in Plane, StartUp(q)
      PROVE  UNCHANGED phase
  BY <1>6 DEF StartUp, Boot, ReconcileList, ReconcileOne, StartWorker, execVars
<1>7. CASE PutContract \/ UNCHANGED vars \/ \E q \in Plane, e \in Deploy : Submit(q, e)
  BY <1>7 DEF PutContract, Submit, vars, execVars
<1>8. QED
  BY <1>1, <1>2, <1>3, <1>s, <1>4, <1>5, <1>6, <1>7 DEF Next

(* Nothing is executed at first.                                            *)
LEMMA PackageInit == Init => PackageInv
<1> SUFFICES ASSUME Init
             PROVE  SiteChosen /\ PackageInPlace
  BY TypeInit DEF PackageInv
<1>1. \A p \in Plane, d \in Deploy : phase[p][d] = "idle"
  BY DEF Init
<1>2. QED
  BY <1>1 DEF SiteChosen, PackageInPlace, Sited, Working, Installed

(* When no directory of a machine is written by two executions at once, a   *)
(* success that a plane reports is one: the process that answered its       *)
(* health check, if it is the one that the deploy has started, runs the     *)
(* package of that very deploy or, where the rsync of a killed plane was    *)
(* still at work, a directory known to be mixed.  Stops may fail, planes    *)
(* may be killed and contracts edited at any step (runDeployRestart and the *)
(* health check of executeDeploy).                                          *)
THEOREM OneWriterSuffices == Spec /\ []OneWriter => SucceededRunsPackage
<1> DEFINE Ran(p, d) ==
             (phase[p][d] = "started" /\ row'[d] = "succeeded" /\ row[d] # "succeeded"
                /\ phase'[p][d] = "exit")
             => live[Dest(p, d)][site[p][d]] \in {d, Mixed}
<1>1. PackageInv /\ [Next]_vars /\ OneWriter /\ OneWriter' => PackageInv'
  BY TypeStep, SiteChosenStep, PackageStep DEF PackageInv
<1>2. PackageInv /\ [Next]_vars => [\A p \in Plane, d \in Deploy : Ran(p, d)]_vars
  BY SuccessIs DEF PackageInv, PackageInPlace
<1>3. QED
  BY PackageInit, <1>1, <1>2, PTL DEF Spec, SucceededRunsPackage

-----------------------------------------------------------------------------
(* Where there is one writer. *)

(* A reservation is kept, released, or made by the contract of the moment.  *)
LEMMA UnitIs ==
  ASSUME TypeOK, [Next]_vars, NEW p \in Plane, NEW d \in Deploy
  PROVE  unit'[p][d] \in {unit[p][d], NoDir, DeployUnit(p, d)}
<1> USE DEF TypeOK, ExecsOK
<1>1. ASSUME UNCHANGED unit
      PROVE  unit'[p][d] = unit[p][d]
  BY <1>1
<1>2. ASSUME NEW q \in Plane, NEW e \in Deploy, ReleaseUnit(q, e)
      PROVE  unit'[p][d] \in {unit[p][d], NoDir}
  BY <1>2 DEF ReleaseUnit
<1>3. ASSUME NEW q \in Plane, NEW ph, NEW left, KillPlane(q, ph, left)
      PROVE  unit'[p][d] \in {unit[p][d], NoDir}
  BY <1>3 DEF KillPlane
<1>t. ASSUME NEW h, NEW x, NEW ph, NEW left, Stop(h, x, ph, left)
      PROVE  unit'[p][d] \in {unit[p][d], NoDir}
  BY <1>1, <1>3, <1>t, StopCases
<1>4. ASSUME NEW q \in Plane, NEW e \in Deploy, Execute(q, e)
      PROVE  unit'[p][d] \in {unit[p][d], NoDir}
  <2>1. CASE StopService(q, e)
    BY <1>t, <2>1 DEF StopService
  <2>2. CASE Exit(q, e)
    BY <1>2, <2>2 DEF Exit
  <2>3. CASE ~StopService(q, e) /\ ~Exit(q, e)
    BY <1>1, <1>4, <2>3 DEF Execute, LoadGone, LoadBounce, Load, Fetch, FetchBounce, Notify,
                BeginPush, EndPush, Handoff, StartService, HealthPass, Fail, execVars
  <2>4. QED
    BY <2>1, <2>2, <2>3
<1>5. ASSUME NEW q \in Plane, Tick(q)
      PROVE  unit'[p][d] \in {unit[p][d], NoDir, DeployUnit(p, d)}
  <2>1. ASSUME NEW c \in todo[q], TickReserve(q, c)
        PROVE  unit'[p][d] \in {unit[p][d], DeployUnit(p, d)}
    BY <2>1 DEF TickReserve
  <2>2. ASSUME NEW e \in Deploy, TickLost(q, e) \/ TickFault(q, e)
        PROVE  unit'[p][d] \in {unit[p][d], NoDir}
    BY <1>2, <2>2 DEF TickLost, TickFault
  <2>3. QED
    BY <1>1, <1>5, <2>1, <2>2 DEF Tick, TickStart, TickEnd, TickSkip, TickClaim, execVars
<1>6. ASSUME NEW q \in Plane, StartUp(q) \/ Crash(q) \/ UpgraderStop(q)
      PROVE  unit'[p][d] \in {unit[p][d], NoDir}
  BY <1>1, <1>3, <1>t, <1>6 DEF StartUp, Boot, ReconcileList, ReconcileOne, StartWorker, Crash,
              UpgraderStop, execVars
<1>s. ASSUME NEW e \in Deploy, NEW h \in Host, NEW x \in Dir, StrayEnds(e, h, x)
      PROVE  unit'[p][d] \in {unit[p][d], NoDir}
  BY <1>1, <1>t, <1>s DEF StrayEnds, StrayRsync, StrayStop, StrayStart, execVars
<1>7. CASE PutContract \/ UNCHANGED vars \/ \E q \in Plane, e \in Deploy : Submit(q, e)
  BY <1>1, <1>7 DEF PutContract, Submit, vars, execVars
<1>8. QED
  BY <1>4, <1>5, <1>6, <1>s, <1>7 DEF Next

(* Without edits an execution stays where the contract says.                *)
LEMMA AsContractedStep ==
  ASSUME NoEdits, TypeOK, TypeOK', SiteChosen, AsContracted, [Next]_vars
  PROVE  AsContracted'
<1> SUFFICES ASSUME NEW p \in Plane, NEW d \in Deploy
             PROVE  /\ phase'[p][d] \in Sited => site'[p][d] = RuntimeDir(Dest(p, d), d)'
                    /\ unit'[p][d] # NoDir => unit'[p][d] = DeployUnit(p, d)'
  BY DEF AsContracted
<1>1. contract' = contract
  BY DEF NoEdits, TypeOK, RowsOK
<1>2. RuntimeDir(Dest(p, d), d)' = RuntimeDir(Dest(p, d), d) /\ DeployUnit(p, d)' = DeployUnit(p, d)
  BY <1>1 DEF RuntimeDir, DeployUnit, Dest, Remote
<1>3. ASSUME phase'[p][d] \in Sited
      PROVE  site'[p][d] = RuntimeDir(Dest(p, d), d)
  <2>1. Advances(p, d)
    BY <1>3, StepGoes DEF Goes, Ends, Sited, Working
  <2>2. QED
    BY <1>3, <2>1 DEF Advances, Stays, AsContracted, Sited, Working
<1>4. unit'[p][d] # NoDir => unit'[p][d] = DeployUnit(p, d)
  BY UnitIs DEF AsContracted
<1>5. QED
  BY <1>2, <1>3, <1>4

(* Two executions in one directory would hold one reservation.              *)
LEMMA Alone ==
  ASSUME OneWriterSite, TypeOK, AsContracted, ExclusiveExecution, UnitHeld
  PROVE  OneWriter
<1> SUFFICES ASSUME NEW p \in Plane, NEW q \in Plane, NEW d \in Deploy, NEW e \in Deploy,
                    phase[p][d] \in Touching, phase[q][e] \in Touching,
                    Dest(p, d) = Dest(q, e), site[p][d] = site[q][e]
             PROVE  p = q /\ d = e
  BY DEF OneWriter
<1>1. phase[p][d] \in Sited /\ phase[q][e] \in Sited
  BY DEF Touching, Sited, Working
<1>2. CASE d = e
  BY <1>1, <1>2 DEF ExclusiveExecution, WorkedBy, Sited
<1>3. CASE d # e
  <2>1. SamePlace(contract, p, d, q, e) /\ contract \in Layouts
    BY <1>1 DEF AsContracted, RuntimeDir, SamePlace, DirIn, TypeOK, RowsOK
  <2>2. p = q
    BY <1>3, <2>1 DEF OneWriterSite, PlanesApart
  <2>3. DeployUnit(p, d) = DeployUnit(p, e)
    BY <2>1, <2>2 DEF OneWriterSite, UnitsFollowPlaces, DeployUnit, RuntimeDir, DirIn
  <2>4. /\ unit[p][d] \in Dir /\ active[p][unit[p][d]] = d
        /\ unit[p][e] \in Dir /\ active[p][unit[p][e]] = e
    BY <1>1, <2>2 DEF UnitHeld, Sited, Working
  <2>5. unit[p][d] = DeployUnit(p, d) /\ unit[p][e] = DeployUnit(p, e)
    BY <2>4, NameAssumption DEF AsContracted
  <2>6. QED
    BY <1>3, <2>3, <2>4, <2>5
<1>4. QED
  BY <1>2, <1>3

(* Nothing is reserved at first.                                            *)
LEMMA AsContractedInit == Init => SiteChosen /\ AsContracted
<1> SUFFICES ASSUME Init
             PROVE  SiteChosen /\ AsContracted
  OBVIOUS
<1>1. \A p \in Plane, d \in Deploy : phase[p][d] = "idle" /\ unit[p][d] = NoDir
  BY DEF Init
<1>2. QED
  BY <1>1 DEF SiteChosen, AsContracted, Sited, Working

(* Where no contract is edited, a directory of a machine belongs to one     *)
(* plane, and deploys that share it share a reservation there, the          *)
(* reservations keep every other execution's rsync and restart out          *)
(* (reserveUnit keys on the plane's own platform, deployUnit): not what a   *)
(* killed plane has left running, which no reservation knows of.            *)
THEOREM ReservationsSuffice == OneWriterSite => (Spec => []OneWriter)
<1> SUFFICES ASSUME OneWriterSite
             PROVE  Spec => []OneWriter
  OBVIOUS
<1> DEFINE I == TypeOK /\ SiteChosen /\ AsContracted
<1>1. Init => I
  BY TypeInit, AsContractedInit
<1>2. I /\ [Next]_vars => I'
  BY TypeStep, SiteChosenStep, AsContractedStep DEF OneWriterSite
<1>3. I /\ ExclusiveExecution /\ UnitHeld => OneWriter
  BY Alone
<1>4. QED
  BY <1>1, <1>2, <1>3, OneExecutor, UnitIsHeld, PTL DEF Spec

(* On such a site a success that a plane reports, of a process it has       *)
(* started, is one, whatever crashes and failing stops come in between, up  *)
(* to the directories in which a killed plane's rsync met another.          *)
THEOREM SuccessesRunTheirPackage == OneWriterSite => (Spec => SucceededRunsPackage)
<1> SUFFICES ASSUME OneWriterSite
             PROVE  Spec => SucceededRunsPackage
  OBVIOUS
<1>1. Spec => []OneWriter
  BY ReservationsSuffice
<1>2. QED
  BY <1>1, OneWriterSuffices, PTL
=============================================================================
