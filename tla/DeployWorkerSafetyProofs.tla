---------------------- MODULE DeployWorkerSafetyProofs ----------------------
(* What one plane's memory and the shared rows promise each other: proofs   *)
(* about reservations, the drain, platforms and abandoned rows of           *)
(* DeployWorker, for every value of its constants.                          *)
EXTENDS DeployWorkerProofs

-----------------------------------------------------------------------------
(* Steps, as plane p sees them. *)

Busy(p, d) == phase[p][d] # "idle"

(* p remembers what it did before ... *)
Kept(p) ==
  /\ phase'[p] = phase[p] /\ unit'[p] = unit[p]
  /\ picked'[p] = picked[p] /\ active'[p] = active[p]
  /\ todo'[p] = todo[p] /\ ticking'[p] = ticking[p]

(* ... or its process is gone ... *)
Gone(p) ==
  /\ phase'[p] = [d \in Deploy |-> "idle"]
  /\ picked'[p] = NoDeploy /\ todo'[p] = {}
  /\ draining'[p] = NoDeploy /\ status'[p] = "down"

(* ... or the goroutine of d has moved on and is not done yet.              *)
MovedOn(p, d) ==
  /\ phase[p][d] \in Working /\ phase'[p][d] # "idle"
  /\ \A e \in Deploy \ {d} : phase'[p][e] = phase[p][e]
  /\ unit'[p] = unit[p] /\ picked'[p] = picked[p] /\ active'[p] = active[p]
  /\ todo'[p] = todo[p] /\ ticking'[p] = ticking[p]

LEMMA KillIs ==
  ASSUME TypeOK, NEW q \in Plane, NEW ph \in [Plane -> [Deploy -> Phase]], NEW left,
         KillPlane(q, ph, left)
  PROVE  /\ Gone(q)
         /\ \A p \in Plane : p # q =>
              /\ phase'[p] = ph[p] /\ unit'[p] = unit[p] /\ picked'[p] = picked[p]
              /\ active'[p] = active[p] /\ todo'[p] = todo[p] /\ ticking'[p] = ticking[p]
              /\ draining'[p] = draining[p] /\ status'[p] = status[p] /\ orphans'[p] = orphans[p]
BY DEF KillPlane, Gone, TypeOK, PlanesOK, TicksOK, ExecsOK

(* A goroutine between its start and its end.                               *)
LEMMA MoveIs ==
  ASSUME TypeOK, NEW q \in Plane, NEW e \in Deploy, NEW from \in Working, NEW to,
         to # "idle", Move(q, e, from, to), UNCHANGED <<unit, picked, active, todo, ticking>>
  PROVE  /\ MovedOn(q, e) /\ phase'[q][e] = to
         /\ \A p \in Plane : p # q => Kept(p)
BY DEF Move, MovedOn, Kept, TypeOK, ExecsOK

(* A stop ends a plane, or only what is not one.                            *)
LEMMA StopCases ==
  ASSUME NEW h, NEW x, NEW ph, NEW left, Stop(h, x, ph, left)
  PROVE  \/ h \in Plane /\ KillPlane(h, ph, left)
         \/ /\ IsPlane(h, x) => StopFaults
            /\ phase' = ph /\ strays' = left
            /\ live' = live \/ live' = [live EXCEPT ![h][x] = Down]
            /\ UNCHANGED <<status, draining, orphans, tickVars, unit, site>>
BY DEF Stop, IsPlane

LEMMA StopIs ==
  ASSUME TypeOK, NEW q \in Plane, NEW e \in Deploy, StopService(q, e)
  PROVE  /\ phase[q][e] = "pushed"
         /\ (MovedOn(q, e) /\ phase'[q][e] = "stopped") \/ Gone(q)
         /\ \A p \in Plane : p # q => Kept(p) \/ Gone(p)
<1> DEFINE h == Dest(q, e)
           ph == [phase EXCEPT ![q][e] = "stopped"]
<1>1. /\ phase \in [Plane -> [Deploy -> Phase]] /\ phase[q][e] = "pushed"
      /\ ph \in [Plane -> [Deploy -> Phase]]
  BY DEF StopService, TypeOK, ExecsOK, Phase, Working
<1>2. CASE h \in Plane /\ KillPlane(h, ph, strays)
  <2>1. /\ ph[q][e] = "stopped" /\ \A f \in Deploy \ {e} : ph[q][f] = phase[q][f]
        /\ \A p \in Plane : p # q => ph[p] = phase[p]
    BY <1>1
  <2> HIDE DEF h, ph
  <2>2. /\ Gone(h)
        /\ \A p \in Plane : p # h =>
             /\ phase'[p] = ph[p] /\ unit'[p] = unit[p] /\ picked'[p] = picked[p]
             /\ active'[p] = active[p] /\ todo'[p] = todo[p] /\ ticking'[p] = ticking[p]
    BY <1>1, <1>2, KillIs
  <2>3. QED
    BY <1>1, <2>1, <2>2, WorkingIs DEF MovedOn, Kept
<1>3. CASE phase' = ph /\ UNCHANGED <<tickVars, unit>>
  <2>1. Move(q, e, "pushed", "stopped") /\ UNCHANGED <<unit, picked, active, todo, ticking>>
    BY <1>1, <1>3 DEF Move, tickVars
  <2>2. QED
    BY <1>1, <2>1, MoveIs, WorkingIs
<1>4. QED
  BY <1>2, <1>3, StopCases DEF StopService

(* Every step of executeDeploy but its end.                                 *)
LEMMA ExecuteIs ==
  ASSUME TypeOK, NEW q \in Plane, NEW e \in Deploy, Execute(q, e), ~Exit(q, e)
  PROVE  /\ MovedOn(q, e) \/ Gone(q)
         /\ \A p \in Plane : p # q => Kept(p) \/ Gone(p)
<1> USE WorkingIs DEF tickVars
<1>1. CASE LoadGone(q, e)
  BY <1>1, MoveIs DEF LoadGone
<1>2. CASE LoadBounce(q, e)
  BY <1>2, MoveIs DEF LoadBounce
<1>3. CASE Load(q, e)
  BY <1>3, MoveIs DEF Load
<1>4. CASE Fetch(q, e)
  BY <1>4, MoveIs DEF Fetch
<1>5. CASE FetchBounce(q, e)
  BY <1>5, MoveIs DEF FetchBounce
<1>6. CASE Notify(q, e)
  BY <1>6, MoveIs DEF Notify
<1>7. CASE BeginPush(q, e)
  BY <1>7, MoveIs DEF BeginPush
<1>8. CASE EndPush(q, e)
  BY <1>8, MoveIs DEF EndPush
<1>9. CASE Handoff(q, e)
  BY <1>9, MoveIs DEF Handoff
<1>10. CASE StopService(q, e)
  BY <1>10, StopIs
<1>11. CASE StartService(q, e)
  BY <1>11, MoveIs DEF StartService
<1>12. CASE HealthPass(q, e)
  BY <1>12, MoveIs DEF HealthPass
<1>13. CASE Fail(q, e)
  <2>1. Move(q, e, phase[q][e], "exit") /\ phase[q][e] \in Working
    BY <1>13 DEF Fail, Move
  <2>2. QED
    BY <1>13, <2>1, MoveIs DEF Fail
<1>14. QED
  BY <1>1, <1>2, <1>3, <1>4, <1>5, <1>6, <1>7, <1>8, <1>9, <1>10, <1>11,
     <1>12, <1>13 DEF Execute

LEMMA ExitIs ==
  ASSUME TypeOK, NEW q \in Plane, NEW e \in Deploy, Exit(q, e)
  PROVE  \A p \in Plane : p # q => Kept(p)
BY DEF Exit, ReleaseUnit, Kept, TypeOK, TicksOK, ExecsOK

LEMMA TickIs ==
  ASSUME TypeOK, NEW q \in Plane, Tick(q)
  PROVE  \A p \in Plane : p # q => Kept(p)
<1> USE DEF Kept, TypeOK, TicksOK, ExecsOK
<1>1. CASE TickStart(q) \/ TickEnd(q)
  BY <1>1 DEF TickStart, TickEnd, execVars
<1>2. ASSUME NEW c \in todo[q], TickSkip(q, c) \/ TickReserve(q, c)
      PROVE  \A p \in Plane : p # q => Kept(p)
  BY <1>2 DEF TickSkip, TickReserve, DropCandidate, execVars
<1>3. ASSUME NEW d \in Deploy, TickClaim(q, d) \/ TickLost(q, d) \/ TickFault(q, d)
      PROVE  \A p \in Plane : p # q => Kept(p)
  BY <1>3 DEF TickClaim, TickLost, TickFault, ReleaseUnit
<1>4. QED
  BY <1>1, <1>2, <1>3 DEF Tick

LEMMA ProcessIs ==
  ASSUME TypeOK, NEW q \in Plane, StartUp(q) \/ Crash(q) \/ UpgraderStop(q)
  PROVE  \A p \in Plane : Kept(p) \/ Gone(p)
<1>1. CASE StartUp(q)
  BY <1>1 DEF StartUp, Boot, ReconcileList, ReconcileOne, StartWorker, tickVars, execVars, Kept
<1>2. CASE Crash(q) \/ UpgraderStop(q)
  <2>1. phase \in [Plane -> [Deploy -> Phase]]
    BY DEF TypeOK, ExecsOK
  <2>2. CASE KillPlane(q, phase, strays)
    BY <2>1, <2>2, KillIs DEF Kept
  <2>3. CASE Stop(q, Home[q], phase, strays)
    BY <2>1, <2>2, <2>3, StopCases DEF Kept, tickVars
  <2>4. QED
    BY <1>2, <2>2, <2>3 DEF Crash, UpgraderStop
<1>3. QED
  BY <1>1, <1>2

LEMMA StrayIs ==
  ASSUME TypeOK, NEW d \in Deploy, NEW h \in Host, NEW x \in Dir, StrayEnds(d, h, x)
  PROVE  \A p \in Plane : Kept(p) \/ Gone(p)
<1>1. CASE StrayRsync(d, h, x) \/ StrayStart(d, h, x)
  BY <1>1 DEF StrayRsync, StrayStart, tickVars, execVars, Kept
<1>2. CASE StrayStop(d, h, x)
  <2>1. phase \in [Plane -> [Deploy -> Phase]]
    BY DEF TypeOK, ExecsOK
  <2>2. \/ h \in Plane /\ KillPlane(h, phase, strays \ {<<"stop", d, h, x>>})
        \/ phase' = phase /\ UNCHANGED <<tickVars, unit>>
    BY <1>2, StopCases DEF StrayStop
  <2>3. QED
    BY <2>1, <2>2, KillIs DEF Kept, tickVars
<1>3. QED
  BY <1>1, <1>2 DEF StrayEnds

(* All of it: what a step is to plane p.                                    *)
LEMMA StepIs ==
  ASSUME TypeOK, [Next]_vars, NEW p \in Plane
  PROVE  \/ Kept(p) \/ Gone(p) \/ Tick(p)
         \/ \E d \in Deploy : Execute(p, d) /\ (MovedOn(p, d) \/ Exit(p, d))
<1>1. CASE UNCHANGED vars \/ PutContract
  BY <1>1 DEF PutContract, vars, tickVars, execVars, Kept
<1>2. ASSUME NEW q \in Plane, NEW d \in Deploy, Submit(q, d)
      PROVE  Kept(p)
  BY <1>2 DEF Submit, tickVars, execVars, Kept
<1>3. ASSUME NEW q \in Plane, Tick(q)
      PROVE  Kept(p) \/ Tick(p)
  BY <1>3, TickIs
<1>4. ASSUME NEW q \in Plane, NEW d \in Deploy, Execute(q, d)
      PROVE  Kept(p) \/ Gone(p) \/ (q = p /\ (MovedOn(p, d) \/ Exit(p, d)))
  BY <1>4, ExecuteIs, ExitIs
<1>5. ASSUME NEW q \in Plane, StartUp(q) \/ Crash(q) \/ UpgraderStop(q)
      PROVE  Kept(p) \/ Gone(p)
  BY <1>5, ProcessIs
<1>6. ASSUME NEW d \in Deploy, NEW h \in Host, NEW x \in Dir, StrayEnds(d, h, x)
      PROVE  Kept(p) \/ Gone(p)
  BY <1>6, StrayIs
<1>7. QED
  BY <1>1, <1>2, <1>3, <1>4, <1>5, <1>6 DEF Next

-----------------------------------------------------------------------------
(* Who writes a row. *)

HandsBack(q, d) == LoadBounce(q, d) \/ FetchBounce(q, d)

(* A verdict stays one; a row gets another platform, or goes back to the     *)
(* queue, only by the hand of the goroutine that works on it; it starts to   *)
(* run, and somebody to work on it, only by a claim of a queued row.         *)
RowStep(d) ==
  /\ row[d] \in Terminal => row'[d] \in Terminal
  /\ platform'[d] = platform[d] \/ \E q \in Plane : HandsBack(q, d)
  /\ row'[d] \in {"absent", "queued"} =>
       row[d] \in {"absent", "queued"} \/ \E q \in Plane : HandsBack(q, d)
  /\ \A q \in Plane : phase'[q][d] \in Working => phase[q][d] \in Working \/ row[d] = "queued"
  /\ row'[d] = "running" =>
       \/ row[d] = "running"
       \/ DbFaults
       \/ \E q \in Plane : phase'[q][d] = "claimed"

LEMMA BounceIs ==
  ASSUME TypeOK, NEW q \in Plane, NEW e \in Deploy, HandsBack(q, e)
  PROVE  /\ phase[q][e] \in Working /\ phase'[q][e] = "exit"
         /\ row'[e] \in {"queued", "failed", row[e]}
         /\ row'[e] = "queued" => row[e] \in {"running", "queued"}
         /\ ~DbFaults => row'[e] \in {"queued", "failed"}
         /\ row[e] \in Terminal => row'[e] \in Terminal
         /\ \A d \in Deploy : d # e => row'[d] = row[d] /\ platform'[d] = platform[d]
         /\ \A p \in Plane, d \in Deploy : phase'[p][d] \in Working => phase[p][d] \in Working
<1>1. PICK from \in Working : Move(q, e, from, "exit") /\ \E k : RequeueDeploy(e, k)
  BY WorkingIs DEF HandsBack, LoadBounce, FetchBounce
<1>2. /\ phase[q][e] \in Working /\ phase'[q][e] = "exit"
      /\ \A p \in Plane, d \in Deploy : phase'[p][d] \in Working => phase[p][d] \in Working
  BY <1>1, WorkingIs DEF Move, TypeOK, ExecsOK
<1>3. CASE row[e] = "running" /\ row' = [row EXCEPT ![e] = "queued"]
                              /\ \E k : platform' = [platform EXCEPT ![e] = k]
  BY <1>2, <1>3 DEF Terminal, TypeOK, RowsOK
<1>4. CASE FinishDeploy(e, "failed") /\ platform' = platform
  BY <1>2, <1>4 DEF FinishDeploy, Terminal, TypeOK, RowsOK
<1>5. QED
  BY <1>1, <1>3, <1>4 DEF RequeueDeploy

(* Steps that write no row, and start nobody.                                *)
LEMMA QuietRow ==
  ASSUME NEW d \in Deploy, row'[d] = row[d], platform'[d] = platform[d], NoClaim
  PROVE  RowStep(d)
BY DEF RowStep, NoClaim

LEMMA VerdictRow ==
  ASSUME NEW d \in Deploy, row'[d] \in Terminal, platform'[d] = platform[d], NoClaim
  PROVE  RowStep(d)
BY DEF RowStep, NoClaim, Terminal

LEMMA ExecuteRow ==
  ASSUME TypeOK, NEW q \in Plane, NEW e \in Deploy, Execute(q, e), NEW d \in Deploy
  PROVE  RowStep(d)
<1>1. CASE HandsBack(q, e)
  <2>1. CASE d = e
    BY <1>1, <2>1, BounceIs DEF RowStep
  <2>2. CASE d # e
    BY <1>1, <2>2, BounceIs DEF RowStep
  <2>3. QED
    BY <2>1, <2>2
<1>2. CASE \/ LoadGone(q, e) \/ Load(q, e) \/ Fetch(q, e) \/ Notify(q, e) \/ BeginPush(q, e)
           \/ EndPush(q, e) \/ Handoff(q, e) \/ StartService(q, e) \/ StopService(q, e)
  <2>1. UNCHANGED <<row, platform>>
    BY <1>2 DEF LoadGone, Load, Fetch, Notify, BeginPush, EndPush, Handoff, StartService,
       StopService, rowVars
  <2>2. QED
    BY <1>2, <2>1, QuietStepNoClaim, StopServiceNoClaim, QuietRow
<1>3. CASE HealthPass(q, e) \/ Fail(q, e)
  <2>1. /\ row'[e] \in Terminal \cup {row[e]} /\ \A f \in Deploy : f # e => row'[f] = row[f]
        /\ UNCHANGED platform
    BY <1>3 DEF HealthPass, Fail, FinishDeploy, Terminal, TypeOK, RowsOK
  <2>2. NoClaim
    BY <1>3, VerdictNoClaim
  <2>3. QED
    BY <2>1, <2>2, QuietRow, VerdictRow
<1>4. CASE Exit(q, e)
  BY <1>4, VerdictNoClaim, QuietRow DEF Exit, rowVars
<1>5. QED
  BY <1>1, <1>2, <1>3, <1>4 DEF Execute, HandsBack

LEMMA TickRow ==
  ASSUME TypeOK, NEW q \in Plane, Tick(q), NEW d \in Deploy
  PROVE  RowStep(d)
<1>1. ASSUME NEW e \in Deploy, TickClaim(q, e)
      PROVE  RowStep(d)
  <2>1. /\ row[e] = "queued" /\ row'[e] = "running" /\ phase'[q][e] = "claimed"
        /\ \A f \in Deploy : f # e => row'[f] = row[f]
        /\ \A p \in Plane, f \in Deploy : (p # q \/ f # e) => phase'[p][f] = phase[p][f]
        /\ UNCHANGED platform
    BY <1>1 DEF TickClaim, ClaimQueued, TypeOK, RowsOK, ExecsOK
  <2>2. QED
    BY <2>1 DEF RowStep, Terminal
<1>2. CASE \A e \in Deploy : ~TickClaim(q, e)
  <2>1. NoClaim
    BY <1>2, ScanNoClaim
  <2>2. CASE UNCHANGED <<row, platform>>
    BY <2>1, <2>2, QuietRow
  <2>3. ASSUME NEW e \in Deploy, TickFault(q, e), row' # row
        PROVE  RowStep(d)
    <3>1. /\ DbFaults /\ row[e] = "queued" /\ row'[e] = "running" /\ UNCHANGED platform
          /\ \A f \in Deploy : f # e => row'[f] = row[f]
      BY <2>3 DEF TickFault, ClaimQueued, TypeOK, RowsOK
    <3>2. QED
      BY <2>1, <3>1 DEF RowStep, NoClaim, Terminal
  <2>4. QED
    BY <1>2, <2>2, <2>3 DEF Tick, TickStart, TickEnd, TickSkip, TickReserve, TickLost, TickFault,
       rowVars
<1>3. QED
  BY <1>1, <1>2

LEMMA ProcessRow ==
  ASSUME TypeOK, OneWorker, NEW q \in Plane, StartUp(q) \/ Crash(q) \/ UpgraderStop(q),
         NEW d \in Deploy
  PROVE  RowStep(d)
<1>1. NoClaim
  BY ProcessNoClaim
<1>2. ASSUME NEW e \in Deploy, ReconcileOne(q, e)
      PROVE  RowStep(d)
  <2>1. /\ row'[e] \in Terminal \cup {row[e]} /\ \A f \in Deploy : f # e => row'[f] = row[f]
        /\ UNCHANGED platform
    BY <1>2 DEF ReconcileOne, FinishDeploy, Terminal, TypeOK, RowsOK
  <2>2. QED
    BY <1>1, <2>1, QuietRow, VerdictRow
<1>3. CASE Boot(q) \/ ReconcileList(q) \/ StartWorker(q) \/ Crash(q) \/ UpgraderStop(q)
  BY <1>1, <1>3, QuietRow DEF Boot, ReconcileList, StartWorker, Crash, UpgraderStop, rowVars
<1>4. QED
  BY <1>2, <1>3 DEF StartUp

LEMMA RowIs ==
  ASSUME TypeOK, OneWorker, [Next]_vars, NEW d \in Deploy
  PROVE  RowStep(d)
<1>1. CASE UNCHANGED vars \/ PutContract
  BY <1>1 DEF PutContract, vars, rowVars, execVars, RowStep
<1>2. ASSUME NEW q \in Plane, NEW e \in Deploy, Submit(q, e)
      PROVE  RowStep(d)
  <2>1. /\ row[e] = "absent" /\ row'[e] = "queued" /\ UNCHANGED <<platform, phase>>
        /\ \A f \in Deploy : f # e => row'[f] = row[f]
    BY <1>2 DEF Submit, TypeOK, RowsOK, execVars
  <2>2. QED
    BY <2>1 DEF RowStep, Terminal
<1>3. ASSUME NEW e \in Deploy, NEW h \in Host, NEW x \in Dir, StrayEnds(e, h, x)
      PROVE  RowStep(d)
  BY <1>3, StrayNoClaim, QuietRow DEF StrayEnds, StrayRsync, StrayStop, StrayStart, rowVars
<1>4. QED
  BY <1>1, <1>2, <1>3, TickRow, ExecuteRow, ProcessRow DEF Next

-----------------------------------------------------------------------------
(* Hand-back and hand-over. *)

(* What a row is labelled with: the column, else the tag.  It is what it was *)
(* at first until a plane that has seen the package says what it is.         *)
Label(d) == ExplicitPlatform(d, platform[d])
Settled(d) == Seen(d) # Unknown /\ Label(d) = Seen(d)
LabelKept(d) == Settled(d) \/ Label(d) = ExplicitPlatform(d, StampPlat[d])

(* Whatever a scan has read of the label still holds, or somebody has seen   *)
(* the package since; so a deploy that is picked belongs to its plane, or    *)
(* the row says where.                                                       *)
Fresh(p) ==
  \A c \in todo[p] : ExplicitPlatform(c[1], c[2]) = Label(c[1]) \/ Settled(c[1])
Chosen(p, d) ==
  picked[p] = d \/ phase[p][d] = "claimed" =>
    LocalDeployForThisPlane(p, d, platform[d]) \/ Settled(d)

(* A row that is neither queued nor worked on: it has a verdict, or waits    *)
(* for a start-up.  A goroutine that has ended, but has not yet released its *)
(* directory, leaves such a row behind, or one that its own plane will not   *)
(* take.                                                                     *)
Left(d) == row[d] \notin {"absent", "queued"} /\ \A q \in Plane : phase[q][d] \notin Working
Elsewhere(p, d) == Settled(d) /\ ~LocalDeployForThisPlane(p, d, platform[d])
HandedBack(p, d) == phase[p][d] = "exit" => Left(d) \/ Elsewhere(p, d)

(* A deploy that has been left to the upgrader is nobody's until it has been *)
(* closed, and the request is there.                                         *)
HandedOver(p, d) ==
  phase[p][d] = "handed" =>
    /\ row[d] \notin {"absent", "queued"}
    /\ \A q \in Plane : phase[q][d] \notin Working
    /\ ~StopFaults => upgradeReq[p]

LEMMA BounceLabel ==
  ASSUME TypeOK, NEW q \in Plane, NEW d \in Deploy, HandsBack(q, d)
  PROVE  /\ Label(d)' = Label(d) \/ Settled(d)'
         /\ Settled(d) => Settled(d)'
         /\ FetchBounce(q, d) /\ row'[d] # row[d] /\ row'[d] = "queued" => Elsewhere(q, d)'
<1>1. CASE platform' = platform /\ (row'[d] = "queued" => row'[d] = row[d])
  BY <1>1 DEF Label, Settled, ExplicitPlatform, Seen
<1>2. CASE LoadBounce(q, d) /\ row[d] = "running"
           /\ platform' = [platform EXCEPT ![d] = ExplicitPlatform(d, platform[d])]
  <2>1. platform'[d] = Label(d) /\ Label(d) # Unknown
    BY <1>2 DEF LoadBounce, LocalDeployForThisPlane, Label, TypeOK, RowsOK
  <2>2. Label(d)' = Label(d)
    BY <2>1 DEF Label, ExplicitPlatform
  <2>3. ~FetchBounce(q, d)
    BY <1>2 DEF LoadBounce, FetchBounce, Move
  <2>4. QED
    BY <2>2, <2>3 DEF Settled, Seen
<1>3. CASE FetchBounce(q, d) /\ platform' = [platform EXCEPT ![d] = Seen(d)]
  <2>1. platform'[d] = Seen(d) /\ ~Remote(d) /\ Seen(d) \notin {Unknown, PlatOf[q]}
    BY <1>3 DEF FetchBounce, PackageFits, TypeOK, RowsOK
  <2>2. Label(d)' = Seen(d)
    BY <2>1 DEF Label, ExplicitPlatform
  <2>3. QED
    BY <2>1, <2>2 DEF Settled, Seen, Elsewhere, LocalDeployForThisPlane, Label, Remote,
       ExplicitPlatform
<1>4. QED
  BY <1>1, <1>2, <1>3 DEF HandsBack, LoadBounce, FetchBounce, RequeueDeploy, FinishDeploy,
     TypeOK, RowsOK

LEMMA LabelStep ==
  ASSUME TypeOK, OneWorker, [Next]_vars, NEW d \in Deploy
  PROVE  /\ Label(d)' = Label(d) \/ Settled(d)'
         /\ Settled(d) => Settled(d)'
         /\ LabelKept(d) => LabelKept(d)'
<1>1. CASE platform'[d] = platform[d]
  BY <1>1 DEF Label, Settled, LabelKept, ExplicitPlatform, Seen
<1>2. ASSUME NEW q \in Plane, HandsBack(q, d)
      PROVE  /\ Label(d)' = Label(d) \/ Settled(d)'
             /\ Settled(d) => Settled(d)'
  BY <1>2, BounceLabel
<1>3. QED
  BY <1>1, <1>2, RowIs DEF RowStep, LabelKept, ExplicitPlatform

(* A row that says where it belongs goes on saying so.                       *)
LEMMA ElsewhereStep ==
  ASSUME TypeOK, OneWorker, [Next]_vars, NEW p \in Plane, NEW d \in Deploy, Elsewhere(p, d)
  PROVE  Elsewhere(p, d)'
<1>1. Settled(d)'
  BY LabelStep DEF Elsewhere
<1>2. Label(d)' = Label(d)
  BY <1>1 DEF Elsewhere, Settled, Seen
<1>3. QED
  BY <1>1, <1>2 DEF Elsewhere, LocalDeployForThisPlane, Label, Remote

LEMMA LeftStep ==
  ASSUME TypeOK, OneWorker, [Next]_vars, NEW d \in Deploy, Left(d)
  PROVE  Left(d)'
<1>1. \A q \in Plane : ~HandsBack(q, d)
  BY BounceIs DEF Left
<1>2. QED
  BY <1>1, RowIs DEF Left, RowStep

(* Who ends without releasing yet has handed the row back, or leaves it.     *)
LEMMA BecomesExit ==
  ASSUME TypeOK, OneWorker, [Next]_vars, NEW p \in Plane, NEW d \in Deploy,
         phase[p][d] # "exit", phase'[p][d] = "exit"
  PROVE  \/ HandsBack(p, d)
         \/ Left(d)' /\ (~DbFaults => row'[d] \in Terminal)
<1>1. /\ phase \in [Plane -> [Deploy -> Phase]] /\ row \in [Deploy -> RowState]
  BY DEF TypeOK, RowsOK, ExecsOK
<1>2. CASE Tick(p)
  <2>1. phase'[p][d] \in {phase[p][d], "claimed"}
    BY <1>1, <1>2 DEF Tick, TickStart, TickEnd, TickSkip, TickReserve, TickClaim, TickLost,
       TickFault, execVars
  <2>2. QED
    BY <2>1
<1>3. ASSUME NEW e \in Deploy, Execute(p, e), MovedOn(p, e) \/ Exit(p, e)
      PROVE  \/ HandsBack(p, d)
             \/ Left(d)' /\ (~DbFaults => row'[d] \in Terminal)
  <2>1. e = d /\ ~Exit(p, d)
    BY <1>1, <1>3 DEF MovedOn, Exit
  <2>2. CASE LoadGone(p, d) \/ HealthPass(p, d) \/ Fail(p, d)
    <3>1. phase[p][d] \in Working /\ \A q \in Plane \ {p} : phase'[q][d] = phase[q][d]
      BY <1>1, <2>2, WorkingIs DEF LoadGone, HealthPass, Fail, Move
    <3>2. \A q \in Plane : phase'[q][d] \notin Working
      BY <3>1, WorkingIs DEF OneWorker
    <3>3. row[d] \notin {"absent", "queued"}
      BY <3>1 DEF OneWorker
    <3>4. row'[d] \in {row[d]} \cup Terminal
      BY <1>1, <2>2 DEF LoadGone, HealthPass, Fail, FinishDeploy, Terminal, rowVars
    <3>5. ~DbFaults => row'[d] \in Terminal
      BY <1>1, <2>2, <3>3 DEF LoadGone, HealthPass, Fail, FinishDeploy, Terminal, RowState, rowVars
    <3>6. QED
      BY <3>2, <3>3, <3>4, <3>5 DEF Left, Terminal
  <2>3. CASE StopService(p, d)
    BY <2>3, StopIs DEF Gone
  <2>4. CASE Load(p, d) \/ Fetch(p, d) \/ Notify(p, d) \/ BeginPush(p, d) \/ EndPush(p, d)
             \/ Handoff(p, d) \/ StartService(p, d)
    BY <1>1, <2>4 DEF Load, Fetch, Notify, BeginPush, EndPush, Handoff, StartService, Move
  <2>5. QED
    BY <1>3, <2>1, <2>2, <2>3, <2>4 DEF Execute, HandsBack
<1>4. QED
  BY <1>2, <1>3, StepIs DEF Kept, Gone

(* A hand-back that puts the row into the queue has said where it belongs;   *)
(* any other leaves the row.                                                 *)
LEMMA BounceLeaves ==
  ASSUME TypeOK, OneWorker, NEW p \in Plane, NEW d \in Deploy, HandsBack(p, d), Chosen(p, d)
  PROVE  Left(d)' \/ Elsewhere(p, d)'
<1>1. phase[p][d] \in Working /\ row[d] \notin {"absent", "queued"}
  BY BounceIs DEF OneWorker
<1>2. CASE row'[d] = "queued"
  <2>1. CASE LoadBounce(p, d)
    <3>1. Settled(d) /\ ~LocalDeployForThisPlane(p, d, platform[d])
      BY <2>1 DEF LoadBounce, Move, Chosen
    <3>2. Settled(d)'
      BY <3>1, BounceLabel
    <3>3. Label(d)' = Label(d)
      BY <3>1, <3>2 DEF Settled, Seen
    <3>4. QED
      BY <3>1, <3>2, <3>3 DEF Elsewhere, LocalDeployForThisPlane, Label, Remote
  <2>2. CASE FetchBounce(p, d)
    BY <1>1, <1>2, <2>2, BounceLabel
  <2>3. QED
    BY <2>1, <2>2 DEF HandsBack
<1>3. CASE row'[d] # "queued"
  <2>1. row'[d] \notin {"absent", "queued"}
    BY <1>1, <1>3, BounceIs
  <2>2. phase'[p][d] \notin Working /\ \A q \in Plane \ {p} : phase'[q][d] \notin Working
    BY <1>1, BounceIs, WorkingIs DEF OneWorker
  <2>3. QED
    BY <2>1, <2>2 DEF Left
<1>4. QED
  BY <1>2, <1>3

LEMMA HandedBackStep ==
  ASSUME TypeOK, OneWorker, [Next]_vars, NEW p \in Plane, NEW d \in Deploy,
         Chosen(p, d), HandedBack(p, d)
  PROVE  HandedBack(p, d)'
<1> SUFFICES ASSUME phase'[p][d] = "exit"
             PROVE  Left(d)' \/ Elsewhere(p, d)'
  BY DEF HandedBack
<1>1. CASE phase[p][d] = "exit"
  BY <1>1, LeftStep, ElsewhereStep DEF HandedBack
<1>2. CASE phase[p][d] # "exit"
  BY <1>2, BecomesExit, BounceLeaves
<1>3. QED
  BY <1>1, <1>2

(* Reading the queue, and choosing from it.                                  *)
LEMMA FreshStep ==
  ASSUME TypeOK, OneWorker, [Next]_vars, NEW p \in Plane, Fresh(p)
  PROVE  Fresh(p)'
<1>1. \A c \in todo[p] : c[1] \in Deploy
  BY DEF TypeOK, TicksOK
<1>2. CASE todo'[p] \subseteq todo[p]
  <2> SUFFICES ASSUME NEW c \in todo[p],
                      ExplicitPlatform(c[1], c[2]) = Label(c[1]) \/ Settled(c[1])
               PROVE  ExplicitPlatform(c[1], c[2]) = Label(c[1])' \/ Settled(c[1])'
    BY <1>2 DEF Fresh, ExplicitPlatform
  <2>1. QED
    BY <1>1, LabelStep
<1>3. CASE TickStart(p)
  <2>1. todo'[p] = {<<d, platform[d]>> : d \in Queued} /\ platform' = platform
    BY <1>3 DEF TickStart, TypeOK, TicksOK, rowVars
  <2>2. QED
    BY <2>1 DEF Fresh, Label, ExplicitPlatform
<1>4. CASE Tick(p) /\ ~TickStart(p)
  BY <1>2, <1>4 DEF Tick, TickEnd, TickSkip, TickReserve, DropCandidate, TickClaim, TickLost,
     TickFault, TypeOK, TicksOK
<1>5. ASSUME NEW d \in Deploy, MovedOn(p, d) \/ Exit(p, d)
      PROVE  todo'[p] = todo[p]
  BY <1>5 DEF MovedOn, Exit
<1>6. QED
  BY <1>2, <1>3, <1>4, <1>5, StepIs DEF Kept, Gone

LEMMA ChosenStep ==
  ASSUME TypeOK, OneWorker, [Next]_vars, NEW p \in Plane, NEW d \in Deploy,
         Fresh(p), Chosen(p, d)
  PROVE  Chosen(p, d)'
<1> SUFFICES ASSUME picked'[p] = d \/ phase'[p][d] = "claimed"
             PROVE  LocalDeployForThisPlane(p, d, platform'[d]) \/ Settled(d)'
  BY DEF Chosen, LocalDeployForThisPlane, Remote, ExplicitPlatform
<1>1. LocalDeployForThisPlane(p, d, platform[d]) \/ Settled(d) =>
        LocalDeployForThisPlane(p, d, platform'[d]) \/ Settled(d)'
  BY LabelStep DEF LocalDeployForThisPlane, Label, Remote
<1>2. CASE picked[p] = d \/ phase[p][d] = "claimed"
  BY <1>1, <1>2 DEF Chosen
<1>3. CASE picked[p] # d /\ phase[p][d] # "claimed"
  <2>1. ASSUME NEW c \in todo[p], TickReserve(p, c)
        PROVE  LocalDeployForThisPlane(p, d, platform[d]) \/ Settled(d)
    <3>1. c[1] = d /\ LocalDeployForThisPlane(p, d, c[2])
      BY <1>3, <2>1 DEF TickReserve, TypeOK, TicksOK
    <3>2. QED
      BY <3>1 DEF Fresh, LocalDeployForThisPlane, Label
  <2>2. CASE Tick(p) /\ \A c \in todo[p] : ~TickReserve(p, c)
    BY <1>3, <2>2, NameAssumption DEF Tick, TickStart, TickEnd, TickSkip, TickClaim, TickLost, TickFault, execVars,
       TypeOK, TicksOK, ExecsOK
  <2>3. ASSUME NEW e \in Deploy, Execute(p, e), MovedOn(p, e) \/ Exit(p, e)
        PROVE  FALSE
    <3>1. picked'[p] = picked[p]
      BY <2>3 DEF MovedOn, Exit
    <3>2. phase'[p][d] = "claimed" /\ e = d /\ ~Exit(p, d)
      BY <1>3, <2>3, <3>1 DEF MovedOn, Exit, TypeOK, ExecsOK
    <3>3. CASE StopService(p, d)
      BY <3>2, <3>3, StopIs DEF Gone
    <3>4. CASE ~StopService(p, d)
      BY <2>3, <3>2, <3>4 DEF Execute, LoadGone, LoadBounce, Load, Fetch, FetchBounce, Notify,
         BeginPush, EndPush, Handoff, StartService, HealthPass, Fail, Move, TypeOK, ExecsOK
    <3>5. QED
      BY <3>3, <3>4
  <2>4. QED
    BY <1>1, <1>3, <2>1, <2>2, <2>3, StepIs, NameAssumption DEF Kept, Gone
<1>4. QED
  BY <1>2, <1>3

(* The request file lasts until the process it is for is stopped.            *)
LEMMA RequestLasts ==
  ASSUME TypeOK, ~StopFaults, [Next]_vars, NEW p \in Plane, upgradeReq[p]
  PROVE  upgradeReq'[p] \/ Gone(p)
<1>1. ASSUME NEW q \in Plane, UpgraderStop(q)
      PROVE  upgradeReq'[p] \/ Gone(p)
  <2>1. KillPlane(q, phase, strays) /\ phase \in [Plane -> [Deploy -> Phase]]
    BY <1>1, StopCases DEF UpgraderStop, IsPlane, TypeOK, ExecsOK
  <2>2. Gone(q)
    BY <2>1, KillIs
  <2>3. QED
    BY <1>1, <2>2 DEF UpgraderStop, TypeOK, PlanesOK
<1>2. ASSUME NEW q \in Plane, NEW d \in Deploy, Execute(q, d)
      PROVE  upgradeReq'[p]
  BY <1>2 DEF Execute, LoadGone, LoadBounce, Load, Fetch, FetchBounce, Notify, BeginPush, EndPush,
     Handoff, StopService, StartService, HealthPass, Fail, Exit, planeVars, TypeOK, PlanesOK
<1>3. ASSUME NEW q \in Plane, Tick(q) \/ StartUp(q) \/ Crash(q) \/ \E d \in Deploy : Submit(q, d)
      PROVE  upgradeReq'[p]
  BY <1>3 DEF Tick, TickStart, TickEnd, TickSkip, TickReserve, TickClaim, TickLost, TickFault,
     StartUp, Boot, ReconcileList, ReconcileOne, StartWorker, Crash, Submit, planeVars
<1>4. CASE PutContract \/ UNCHANGED vars \/ \E d \in Deploy, h \in Host, x \in Dir : StrayEnds(d, h, x)
  BY <1>4 DEF PutContract, vars, planeVars, StrayEnds, StrayRsync, StrayStop, StrayStart
<1>5. QED
  BY <1>1, <1>2, <1>3, <1>4 DEF Next

LEMMA BecomesHanded ==
  ASSUME TypeOK, OneWorker, [Next]_vars, NEW p \in Plane, NEW d \in Deploy,
         phase[p][d] # "handed", phase'[p][d] = "handed"
  PROVE  Handoff(p, d)
<1>1. phase \in [Plane -> [Deploy -> Phase]]
  BY DEF TypeOK, ExecsOK
<1>2. CASE Tick(p)
  <2>1. phase'[p][d] \in {phase[p][d], "claimed"}
    BY <1>1, <1>2 DEF Tick, TickStart, TickEnd, TickSkip, TickReserve, TickClaim, TickLost,
       TickFault, execVars
  <2>2. QED
    BY <2>1
<1>3. ASSUME NEW e \in Deploy, Execute(p, e), MovedOn(p, e) \/ Exit(p, e)
      PROVE  Handoff(p, d)
  <2>1. e = d /\ ~Exit(p, d)
    BY <1>1, <1>3 DEF MovedOn, Exit
  <2>2. CASE StopService(p, d)
    BY <2>2, StopIs DEF Gone
  <2>3. CASE \/ LoadGone(p, d) \/ LoadBounce(p, d) \/ Load(p, d) \/ Fetch(p, d) \/ FetchBounce(p, d)
             \/ Notify(p, d) \/ BeginPush(p, d) \/ EndPush(p, d) \/ StartService(p, d)
             \/ HealthPass(p, d) \/ Fail(p, d)
    BY <1>1, <2>3 DEF LoadGone, LoadBounce, Load, Fetch, FetchBounce, Notify, BeginPush, EndPush,
       StartService, HealthPass, Fail, Move
  <2>4. QED
    BY <1>3, <2>1, <2>2, <2>3 DEF Execute
<1>4. QED
  BY <1>2, <1>3, StepIs DEF Kept, Gone

LEMMA HandedOverStep ==
  ASSUME TypeOK, OneWorker, [Next]_vars, NEW p \in Plane, NEW d \in Deploy, HandedOver(p, d)
  PROVE  HandedOver(p, d)'
<1> SUFFICES ASSUME phase'[p][d] = "handed"
             PROVE  /\ row'[d] \notin {"absent", "queued"}
                    /\ \A q \in Plane : phase'[q][d] \notin Working
                    /\ ~StopFaults => upgradeReq'[p]
  BY DEF HandedOver
<1>1. \A q \in Plane : HandsBack(q, d) => phase[q][d] \in Working
  BY BounceIs
<1>2. CASE phase[p][d] = "handed"
  <2>1. ~Gone(p)
    BY DEF Gone
  <2>2. QED
    BY <1>1, <1>2, <2>1, RowIs, RequestLasts DEF HandedOver, RowStep
<1>3. CASE phase[p][d] # "handed"
  <2>1. Handoff(p, d)
    BY <1>3, BecomesHanded
  <2>2. /\ phase[p][d] \in Working /\ row' = row /\ upgradeReq'[p]
        /\ \A q \in Plane \ {p} : phase'[q][d] = phase[q][d]
    BY <2>1, WorkingIs DEF Handoff, Move, rowVars, TypeOK, PlanesOK, ExecsOK
  <2>3. "handed" \notin Working
    BY WorkingIs
  <2>4. QED
    BY <2>2, <2>3 DEF OneWorker
<1>4. QED
  BY <1>2, <1>3

-----------------------------------------------------------------------------
(* Reservations. *)

(* A deploy that is picked or has a goroutine holds its directory; what is   *)
(* picked has no goroutine and is in the snapshot no more; what has one is   *)
(* in it, if at all, with the label of another plane.                        *)
Holds(p, d) ==
  Busy(p, d) \/ picked[p] = d => unit[p][d] \in Dir /\ active[p][unit[p][d]] = d
PickedIs(p, d) ==
  picked[p] = d => ~Busy(p, d) /\ ticking[p] /\ \A c \in todo[p] : c[1] # d
NotAgain(p, d) ==
  Busy(p, d) => \A c \in todo[p] : c[1] = d => ~LocalDeployForThisPlane(p, d, c[2])
Reserved(p) ==
  /\ todo[p] # {} => ticking[p]
  /\ \A d \in Deploy : Holds(p, d) /\ PickedIs(p, d) /\ NotAgain(p, d)

LEMMA ScanReserved ==
  ASSUME TypeOK, OneWorker, NEW p \in Plane, Reserved(p), TickStart(p) \/ TickEnd(p),
         \A d \in Deploy : HandedBack(p, d) /\ HandedOver(p, d)
  PROVE  Reserved(p)'
<1>1. /\ phase'[p] = phase[p] /\ unit'[p] = unit[p] /\ active'[p] = active[p] /\ picked'[p] = picked[p]
  BY DEF TickStart, TickEnd, execVars
<1>2. CASE TickEnd(p)
  BY <1>1, <1>2, NameAssumption DEF TickEnd, Reserved, Holds, PickedIs, NotAgain, Busy, TypeOK, TicksOK
<1>3. CASE TickStart(p)
  <2>1. todo'[p] = {<<d, platform[d]>> : d \in Queued} /\ ~ticking[p] /\ ticking'[p]
    BY <1>3 DEF TickStart, TypeOK, TicksOK
  <2>2. \A d \in Deploy : picked[p] # d
    BY <2>1 DEF Reserved, PickedIs
  <2>3. ASSUME NEW d \in Deploy, Busy(p, d), NEW c \in todo'[p], c[1] = d
        PROVE  ~LocalDeployForThisPlane(p, d, c[2])
    <3>1. row[d] = "queued" /\ c[2] = platform[d]
      BY <2>1, <2>3 DEF Queued
    <3>2. phase[p][d] \in Phase /\ phase[p][d] # "idle" /\ phase[p][d] \notin Working
      BY <2>3, <3>1 DEF Busy, OneWorker, TypeOK, ExecsOK
    <3>3. phase[p][d] \in {"exit", "handed"}
      BY <3>2 DEF Phase
    <3>4. QED
      BY <3>1, <3>3 DEF HandedBack, HandedOver, Left, Elsewhere
  <2>4. QED
    BY <1>1, <2>1, <2>2, <2>3 DEF Reserved, Holds, PickedIs, NotAgain, Busy, LocalDeployForThisPlane,
       Remote, ExplicitPlatform
<1>4. QED
  BY <1>2, <1>3

LEMMA CandidateReserved ==
  ASSUME TypeOK, NEW p \in Plane, Reserved(p), NEW c \in todo[p], TickSkip(p, c) \/ TickReserve(p, c)
  PROVE  Reserved(p)'
<1> DEFINE d == c[1]
           u == DeployUnit(p, d)
<1>1. d \in Deploy /\ u \in Dir
  <2>1. d \in Deploy
    BY DEF TypeOK, TicksOK
  <2>2. QED
    BY <2>1, SiteType DEF DeployUnit
<1>2. /\ todo'[p] = {k \in todo[p] : k[1] # d} /\ picked[p] = NoDeploy
      /\ phase'[p] = phase[p] /\ ticking'[p] = ticking[p]
  BY DEF TickSkip, TickReserve, DropCandidate, Candidate, execVars, TypeOK, TicksOK
<1> HIDE DEF u
<1>3. CASE TickSkip(p, c)
  <2>1. unit'[p] = unit[p] /\ active'[p] = active[p] /\ picked'[p] = picked[p]
    BY <1>3 DEF TickSkip, execVars
  <2>2. QED
    BY <1>2, <2>1, NameAssumption DEF Reserved, Holds, PickedIs, NotAgain, Busy,
       LocalDeployForThisPlane, Remote, ExplicitPlatform
<1>4. CASE TickReserve(p, c)
  <2>1. /\ active[p][u] = NoDeploy /\ LocalDeployForThisPlane(p, d, c[2])
        /\ active' = [active EXCEPT ![p][u] = d]
        /\ unit' = [unit EXCEPT ![p][d] = u]
        /\ picked' = [picked EXCEPT ![p] = d]
    BY <1>4 DEF TickReserve, UnitFree, u
  <2>2. /\ active'[p][u] = d /\ unit'[p][d] = u /\ picked'[p] = d
        /\ \A x \in Dir \ {u} : active'[p][x] = active[p][x]
        /\ \A e \in Deploy \ {d} : unit'[p][e] = unit[p][e]
    BY <1>1, <2>1 DEF TypeOK, TicksOK, ExecsOK
  <2>3. ~Busy(p, d)
    BY <1>1, <2>1 DEF Reserved, NotAgain
  <2>4. ticking[p]
    BY DEF Reserved
  <2>5. QED
    BY <1>1, <1>2, <2>1, <2>2, <2>3, <2>4, NameAssumption DEF Reserved, Holds, PickedIs, NotAgain, Busy,
       LocalDeployForThisPlane, Remote, ExplicitPlatform
<1>5. QED
  BY <1>3, <1>4

(* A release drops the reservation of d and no other.                        *)
LEMMA ReleaseIs ==
  ASSUME TypeOK, NEW p \in Plane, NEW d \in Deploy, ReleaseUnit(p, d), unit[p][d] \in Dir
  PROVE  /\ \A x \in Dir : active[p][x] # d => active'[p][x] = active[p][x]
         /\ \A e \in Deploy \ {d} : unit'[p][e] = unit[p][e]
BY DEF ReleaseUnit, TypeOK, TicksOK, ExecsOK

LEMMA ClaimReserved ==
  ASSUME TypeOK, NEW p \in Plane, Reserved(p), NEW d \in Deploy,
         TickClaim(p, d) \/ TickLost(p, d) \/ TickFault(p, d)
  PROVE  Reserved(p)'
<1>1. /\ picked[p] = d /\ picked'[p] = NoDeploy
      /\ todo'[p] = todo[p] /\ ticking'[p] = ticking[p]
  BY DEF TickClaim, TickLost, TickFault, TypeOK, TicksOK
<1>2. /\ unit[p][d] \in Dir /\ active[p][unit[p][d]] = d /\ ~Busy(p, d) /\ ticking[p]
      /\ \A c \in todo[p] : c[1] # d
  BY <1>1 DEF Reserved, Holds, PickedIs
<1>3. CASE TickClaim(p, d)
  <2>1. /\ unit'[p] = unit[p] /\ active'[p] = active[p]
        /\ \A e \in Deploy \ {d} : phase'[p][e] = phase[p][e]
    BY <1>3 DEF TickClaim, TypeOK, ExecsOK
  <2>2. QED
    BY <1>1, <1>2, <2>1, NameAssumption DEF Reserved, Holds, PickedIs, NotAgain, Busy,
       LocalDeployForThisPlane, Remote, ExplicitPlatform
<1>4. CASE TickLost(p, d) \/ TickFault(p, d)
  <2>1. phase'[p] = phase[p] /\ ReleaseUnit(p, d)
    BY <1>4 DEF TickLost, TickFault
  <2>2. /\ \A x \in Dir : active[p][x] # d => active'[p][x] = active[p][x]
        /\ \A e \in Deploy \ {d} : unit'[p][e] = unit[p][e]
    BY <1>2, <2>1, ReleaseIs
  <2>3. QED
    BY <1>1, <1>2, <2>1, <2>2, NameAssumption DEF Reserved, Holds, PickedIs, NotAgain, Busy,
       LocalDeployForThisPlane, Remote, ExplicitPlatform
<1>5. QED
  BY <1>3, <1>4

LEMMA ExitReserved ==
  ASSUME TypeOK, NEW p \in Plane, Reserved(p), NEW d \in Deploy, Exit(p, d)
  PROVE  Reserved(p)'
<1>1. /\ Busy(p, d) /\ phase'[p][d] = "idle" /\ ReleaseUnit(p, d)
      /\ picked'[p] = picked[p] /\ todo'[p] = todo[p] /\ ticking'[p] = ticking[p]
      /\ \A e \in Deploy \ {d} : phase'[p][e] = phase[p][e]
  BY DEF Exit, Busy, TypeOK, ExecsOK
<1>2. unit[p][d] \in Dir /\ active[p][unit[p][d]] = d /\ picked[p] # d
  BY <1>1 DEF Reserved, Holds, PickedIs
<1>3. /\ \A x \in Dir : active[p][x] # d => active'[p][x] = active[p][x]
      /\ \A e \in Deploy \ {d} : unit'[p][e] = unit[p][e]
  BY <1>1, <1>2, ReleaseIs
<1>4. QED
  BY <1>1, <1>2, <1>3 DEF Reserved, Holds, PickedIs, NotAgain, Busy,
     LocalDeployForThisPlane, Remote, ExplicitPlatform

LEMMA ReservedStep ==
  ASSUME TypeOK, OneWorker, [Next]_vars, NEW p \in Plane, Reserved(p),
         \A d \in Deploy : HandedBack(p, d) /\ HandedOver(p, d)
  PROVE  Reserved(p)'
<1>1. CASE Kept(p)
  BY <1>1 DEF Kept, Reserved, Holds, PickedIs, NotAgain, Busy,
     LocalDeployForThisPlane, Remote, ExplicitPlatform
<1>2. CASE Gone(p)
  BY <1>2, NameAssumption DEF Gone, Reserved, Holds, PickedIs, NotAgain, Busy
<1>3. CASE Tick(p)
  BY <1>3, ScanReserved, CandidateReserved, ClaimReserved DEF Tick
<1>4. ASSUME NEW d \in Deploy, MovedOn(p, d)
      PROVE  Reserved(p)'
  <2>1. \A e \in Deploy : Busy(p, e)' <=> Busy(p, e)
    BY <1>4, WorkingIs DEF MovedOn, Busy
  <2>2. QED
    BY <1>4, <2>1 DEF MovedOn, Reserved, Holds, PickedIs, NotAgain,
       LocalDeployForThisPlane, Remote, ExplicitPlatform
<1>5. QED
  BY <1>1, <1>2, <1>3, <1>4, StepIs, ExitReserved

-----------------------------------------------------------------------------
(* The drain. *)

Drained(p, d) ==
  (draining[p] = d /\ ~Remote(d)) => (phase[p][d] # "idle" \/ upgradeReq[p])

(* Only its own notify makes a plane drain for a local deploy.               *)
LEMMA DrainIs ==
  ASSUME TypeOK, [Next]_vars, NEW p \in Plane, NEW d \in Deploy, draining'[p] = d, ~Remote(d)
  PROVE  draining[p] = d \/ phase'[p][d] = "waiting"
<1>1. ASSUME NEW q \in Plane, NEW e \in Deploy, Notify(q, e)
      PROVE  draining[p] = d \/ phase'[p][d] = "waiting"
  <2>1. /\ phase'[q][e] = "waiting"
        /\ draining'[p] = draining[p] \/ (p = Dest(q, e) /\ draining'[p] = e)
    BY <1>1 DEF Notify, Move, IsPlane, TypeOK, PlanesOK, ExecsOK
  <2>2. QED
    BY <2>1 DEF Dest
<1>2. ASSUME NEW q \in Plane, NEW e \in Deploy, Execute(q, e), ~Notify(q, e)
      PROVE  draining'[p] \in {draining[p], NoDeploy}
  <2>1. CASE StopService(q, e)
    BY <2>1, StopCases DEF StopService, KillPlane, TypeOK, PlanesOK
  <2>2. CASE Exit(q, e)
    BY <2>2 DEF Exit, TypeOK, PlanesOK
  <2>3. CASE \/ LoadGone(q, e) \/ LoadBounce(q, e) \/ Load(q, e) \/ Fetch(q, e) \/ FetchBounce(q, e)
             \/ BeginPush(q, e) \/ EndPush(q, e) \/ Handoff(q, e) \/ StartService(q, e)
             \/ HealthPass(q, e) \/ Fail(q, e)
    BY <2>3 DEF LoadGone, LoadBounce, Load, Fetch, FetchBounce, BeginPush, EndPush, Handoff,
       StartService, HealthPass, Fail, planeVars
  <2>4. QED
    BY <1>2, <2>1, <2>2, <2>3 DEF Execute
<1>3. ASSUME NEW q \in Plane, Crash(q) \/ UpgraderStop(q)
      PROVE  draining'[p] \in {draining[p], NoDeploy}
  BY <1>3, StopCases DEF Crash, UpgraderStop, KillPlane, TypeOK, PlanesOK
<1>4. ASSUME NEW q \in Plane, Tick(q) \/ StartUp(q) \/ \E e \in Deploy : Submit(q, e)
      PROVE  draining' = draining
  BY <1>4 DEF Tick, TickStart, TickEnd, TickSkip, TickReserve, TickClaim, TickLost, TickFault,
     StartUp, Boot, ReconcileList, ReconcileOne, StartWorker, Submit, planeVars
<1>5. CASE PutContract \/ UNCHANGED vars
  BY <1>5 DEF PutContract, vars, planeVars
<1>6. ASSUME NEW e \in Deploy, NEW h \in Host, NEW x \in Dir, StrayEnds(e, h, x)
      PROVE  draining'[p] \in {draining[p], NoDeploy}
  BY <1>6, StopCases DEF StrayEnds, StrayRsync, StrayStop, StrayStart, KillPlane, planeVars,
     TypeOK, PlanesOK
<1>7. d # NoDeploy
  BY NameAssumption
<1>8. QED
  BY <1>1, <1>2, <1>3, <1>4, <1>5, <1>6, <1>7 DEF Next

LEMMA DrainedStep ==
  ASSUME TypeOK, OneWorker, ~StopFaults, [Next]_vars, NEW p \in Plane, NEW d \in Deploy,
         Drained(p, d), HandedOver(p, d)
  PROVE  Drained(p, d)'
<1> SUFFICES ASSUME draining'[p] = d, ~Remote(d), phase'[p][d] = "idle"
             PROVE  upgradeReq'[p]
  BY DEF Drained, Remote
<1>1. draining[p] = d /\ ~Gone(p)
  BY DrainIs, NameAssumption DEF Gone
<1>2. CASE phase[p][d] = "idle"
  BY <1>1, <1>2, RequestLasts DEF Drained
<1>3. CASE phase[p][d] # "idle"
  <2>1. Exit(p, d)
    <3>1. CASE Tick(p)
      <4>1. phase'[p][d] \in {phase[p][d], "claimed"}
        BY <3>1 DEF Tick, TickStart, TickEnd, TickSkip, TickReserve, TickClaim, TickLost,
           TickFault, execVars, TypeOK, ExecsOK
      <4>2. QED
        BY <1>3, <4>1
    <3>2. ASSUME NEW e \in Deploy, MovedOn(p, e) \/ Exit(p, e)
          PROVE  Exit(p, d)
      BY <1>3, <3>2 DEF MovedOn, Exit, TypeOK, ExecsOK
    <3>3. QED
      BY <1>1, <1>3, <3>1, <3>2, StepIs DEF Kept
  <2>2. phase[p][d] = "handed" /\ upgradeReq'[p] = upgradeReq[p]
    BY <1>1, <2>1, NameAssumption DEF Exit, TypeOK, PlanesOK
  <2>3. QED
    BY <2>2 DEF HandedOver
<1>4. QED
  BY <1>2, <1>3

-----------------------------------------------------------------------------
(* Platforms. *)

Installing == {"fetched", "waiting", "pushing", "pushed", "stopped", "started", "beside"}

(* A package may be run on h, as far as anything told of it.                 *)
Proper(h, d) == (PkgPlat[d] # Unknown /\ Told(d)) => PkgPlat[d] = PlatOf[h]

(* Labels are checked before the package is fetched, and what can be seen of *)
(* it before it is installed ...                                             *)
Checked(p, d) ==
  /\ phase[p][d] = "loaded" => d \in Visible \/ Proper(Dest(p, d), d)
  /\ phase[p][d] \in Installing => Proper(Dest(p, d), d)

(* ... and only such packages reach a directory, a process, or a command     *)
(* that outlives its plane.                                                  *)
Fits(h) == \A x \in Dir, d \in Deploy : d \in {disk[h][x], live[h][x]} => Proper(h, d)
StraysFit == \A s \in strays : Proper(s[3], s[2])

LEMMA LoadChecks ==
  ASSUME TypeOK, NEW p \in Plane, NEW d \in Deploy, Load(p, d), LabelKept(d)
  PROVE  d \in Visible \/ Proper(Dest(p, d), d)
<1> SUFFICES ASSUME d \notin Visible, PkgPlat[d] # Unknown, Told(d)
             PROVE  PkgPlat[d] = PlatOf[Dest(p, d)]
  BY DEF Proper
<1>1. CASE TagPlat[d] = PkgPlat[d]
  BY <1>1 DEF Load, TagMatchesMachine
<1>2. CASE ~Remote(d) /\ StampPlat[d] = PkgPlat[d]
  <2>1. Label(d) = PkgPlat[d]
    BY <1>2 DEF LabelKept, Settled, Seen, ExplicitPlatform
  <2>2. PkgPlat[d] \in {Unknown, PlatOf[p]}
    BY <1>2, <2>1 DEF Load, LocalDeployForThisPlane, Label
  <2>3. QED
    BY <1>2, <2>2 DEF Dest
<1>3. QED
  BY <1>1, <1>2 DEF Told

LEMMA FetchChecks ==
  ASSUME NEW p \in Plane, NEW d \in Deploy, Fetch(p, d), Checked(p, d)
  PROVE  Proper(Dest(p, d), d)
BY DEF Fetch, Move, Checked, Proper, PackageFits, Seen

LEMMA CheckedStep ==
  ASSUME TypeOK, [Next]_vars, NEW p \in Plane, NEW d \in Deploy, Checked(p, d), LabelKept(d)
  PROVE  Checked(p, d)'
<1> DEFINE ok(ph) == /\ ph = "loaded" => d \in Visible \/ Proper(Dest(p, d), d)
                     /\ ph \in Installing => Proper(Dest(p, d), d)
<1> SUFFICES ok(phase'[p][d])
  BY DEF Checked, Proper, Told, Dest, Remote
<1>1. phase \in [Plane -> [Deploy -> Phase]] /\ ok(phase[p][d])
  BY DEF TypeOK, ExecsOK, Checked
<1>2. ok("idle") /\ ok("claimed") /\ ok("exit") /\ ok("handed")
  BY DEF Installing
<1>3. CASE Tick(p)
  <2>1. phase'[p][d] \in {phase[p][d], "claimed"}
    BY <1>1, <1>3 DEF Tick, TickStart, TickEnd, TickSkip, TickReserve, TickClaim, TickLost,
       TickFault, execVars
  <2>2. QED
    BY <1>1, <1>2, <2>1
<1>4. ASSUME NEW e \in Deploy, Execute(p, e), MovedOn(p, e) \/ Exit(p, e)
      PROVE  ok(phase'[p][d])
  <2>1. CASE phase'[p][d] = phase[p][d]
    BY <1>1, <2>1
  <2>2. CASE Exit(p, d)
    BY <1>1, <1>2, <2>2 DEF Exit
  <2>3. CASE Load(p, d)
    BY <1>1, <2>3, LoadChecks DEF Load, Move, Installing
  <2>4. CASE Fetch(p, d)
    BY <1>1, <2>4, FetchChecks DEF Fetch, Move, Installing
  <2>5. CASE StopService(p, d)
    BY <1>1, <1>2, <2>5, StopIs DEF Gone, Installing
  <2>6. CASE LoadGone(p, d) \/ LoadBounce(p, d) \/ FetchBounce(p, d) \/ Handoff(p, d)
             \/ HealthPass(p, d) \/ Fail(p, d)
    BY <1>1, <1>2, <2>6 DEF LoadGone, LoadBounce, FetchBounce, Handoff, HealthPass, Fail, Move
  <2>7. CASE Notify(p, d) \/ BeginPush(p, d) \/ EndPush(p, d) \/ StartService(p, d)
    BY <1>1, <2>7 DEF Notify, BeginPush, EndPush, StartService, Move, Installing
  <2>8. CASE e # d
    BY <1>1, <1>4, <2>1, <2>8 DEF MovedOn, Exit
  <2>9. QED
    BY <1>4, <2>2, <2>3, <2>4, <2>5, <2>6, <2>7, <2>8 DEF Execute
<1>5. QED
  BY <1>1, <1>2, <1>3, <1>4, StepIs DEF Kept, Gone

(* What changes on a host comes from a checked package or from its own disk. *)
LEMMA HostFits ==
  ASSUME TypeOK, NEW h \in Host, Fits(h), NEW d \in Deploy, Proper(h, d),
         \A x \in Dir : /\ disk'[h][x] \in {disk[h][x], d, Torn, Mixed}
                        /\ live'[h][x] \in {live[h][x], disk[h][x], Down}
  PROVE  Fits(h)'
<1>1. {Torn, Mixed, Down} \cap Deploy = {}
  BY NameAssumption
<1>2. QED
  BY <1>1 DEF Fits, Proper, Told, Remote

LEMMA HostKept ==
  ASSUME TypeOK, NEW h \in Host, Fits(h),
         \A x \in Dir : /\ disk'[h][x] \in {disk[h][x], Torn, Mixed}
                        /\ live'[h][x] \in {live[h][x], disk[h][x], Down}
  PROVE  Fits(h)'
<1>1. {Torn, Mixed, Down} \cap Deploy = {}
  BY NameAssumption
<1>2. QED
  BY <1>1 DEF Fits, Proper, Told, Remote

LEMMA KillFits ==
  ASSUME TypeOK, NEW q \in Plane, NEW ph, NEW left \in SUBSET strays,
         KillPlane(q, ph, left), UNCHANGED disk,
         StraysFit, \A d \in Deploy : Checked(q, d)
  PROVE  /\ \A h \in Host : Fits(h) => Fits(h)'
         /\ StraysFit'
<1>1. ASSUME NEW h \in Host, Fits(h) PROVE Fits(h)'
  <2>1. \A x \in Dir : live'[h][x] \in {live[h][x], Down} /\ disk' = disk
    BY DEF KillPlane, TypeOK, HostsOK
  <2>2. QED
    BY <1>1, <2>1, HostKept
<1>2. StraysFit'
  <2>1. PICK caught \in SUBSET Catchable(q) : strays' = left \cup Outliving(q, caught)
    BY DEF KillPlane
  <2>2. ASSUME NEW s \in Outliving(q, caught) PROVE Proper(s[3], s[2])
    <3>1. PICK d \in caught \cup {e \in Deploy : phase[q][e] = "pushing"} :
             s = <<Command[phase[q][d]], d, Dest(q, d), site[q][d]>>
      BY <2>2 DEF Outliving
    <3>2. d \in Deploy /\ phase[q][d] \in {"pushing", "pushed", "stopped"}
      BY <3>1 DEF Catchable
    <3>3. Proper(Dest(q, d), d)
      BY <3>2 DEF Checked, Installing
    <3>4. QED
      BY <3>1, <3>3
  <2>3. \A s \in strays' : Proper(s[3], s[2])
    BY <2>1, <2>2 DEF StraysFit
  <2>4. QED
    BY <2>3 DEF StraysFit, Proper, Told, Remote
<1>3. QED
  BY <1>1, <1>2

LEMMA StopFits ==
  ASSUME TypeOK, NEW g \in Host, NEW x, NEW ph, NEW left \in SUBSET strays,
         Stop(g, x, ph, left), UNCHANGED disk,
         StraysFit, \A q \in Plane, d \in Deploy : Checked(q, d)
  PROVE  /\ \A h \in Host : Fits(h) => Fits(h)'
         /\ StraysFit'
<1>1. CASE g \in Plane /\ KillPlane(g, ph, left)
  BY <1>1, KillFits
<1>2. CASE strays' = left /\ (live' = live \/ live' = [live EXCEPT ![g][x] = Down])
  <2>1. \A h \in Host, y \in Dir : live'[h][y] \in {live[h][y], Down}
    BY <1>2 DEF TypeOK, HostsOK
  <2>2. StraysFit'
    BY <1>2 DEF StraysFit, Proper, Told, Remote
  <2>3. QED
    BY <2>1, <2>2, HostKept
<1>3. QED
  BY <1>1, <1>2, StopCases

LEMMA FitsStep ==
  ASSUME TypeOK, [Next]_vars, StraysFit,
         \A p \in Plane, d \in Deploy : Checked(p, d)
  PROVE  /\ \A h \in Host : Fits(h) => Fits(h)'
         /\ StraysFit'
<1> DEFINE Goal == /\ \A h \in Host : Fits(h) => Fits(h)'
                   /\ StraysFit'
<1>1. /\ disk \in [Host -> [Dir -> Deploy \cup {Old, Torn, Mixed}]]
      /\ live \in [Host -> [Dir -> Deploy \cup {Old, Torn, Mixed, Down}]]
  BY DEF TypeOK, HostsOK
<1>2. CASE UNCHANGED hostVars
  BY <1>2 DEF hostVars, Fits, StraysFit, Proper, Told, Remote
<1>s. strays' \subseteq strays => StraysFit'
  BY DEF StraysFit, Proper, Told, Remote
<1>3. ASSUME NEW p \in Plane, NEW d \in Deploy, BeginPush(p, d) \/ EndPush(p, d)
      PROVE  Goal
  <2>1. Proper(Dest(p, d), d)
    BY <1>3 DEF Checked, BeginPush, EndPush, Move, Installing
  <2>2. /\ live' = live /\ strays' = strays
        /\ \A h \in Host, x \in Dir :
             \/ disk'[h][x] \in {disk[h][x], Torn, Mixed}
             \/ (h = Dest(p, d) /\ disk'[h][x] \in {disk[h][x], d})
    BY <1>1, <1>3 DEF BeginPush, EndPush
  <2>3. ASSUME NEW h \in Host, Fits(h) PROVE Fits(h)'
    BY <2>1, <2>2, <2>3, HostKept, HostFits
  <2>4. QED
    BY <1>s, <2>2, <2>3
<1>4. ASSUME NEW p \in Plane, NEW d \in Deploy, StopService(p, d)
      PROVE  Goal
  <2>1. Dest(p, d) \in Host /\ strays \in SUBSET strays
    BY SiteType
  <2>2. QED
    BY <1>4, <2>1, StopFits DEF StopService
<1>5. ASSUME NEW p \in Plane, NEW d \in Deploy, StartService(p, d)
      PROVE  Goal
  <2>1. /\ disk' = disk /\ strays' = strays
        /\ \A h \in Host, x \in Dir : live'[h][x] \in {live[h][x], disk[h][x]}
    BY <1>1, <1>5 DEF StartService
  <2>2. QED
    BY <1>s, <2>1, HostKept
<1>6. ASSUME NEW p \in Plane, Boot(p)
      PROVE  Goal
  <2>1. /\ disk' = disk /\ strays' = strays
        /\ \A h \in Host, x \in Dir : live'[h][x] \in {live[h][x], disk[h][x]}
    BY <1>1, <1>6 DEF Boot
  <2>2. QED
    BY <1>s, <2>1, HostKept
<1>7. ASSUME NEW p \in Plane, Crash(p) \/ UpgraderStop(p)
      PROVE  Goal
  <2>1. p \in Host /\ strays \in SUBSET strays
    BY PlaneAssumption
  <2>2. QED
    BY <1>7, <2>1, KillFits, StopFits DEF Crash, UpgraderStop
<1>8. ASSUME NEW d \in Deploy, NEW h \in Host, NEW x \in Dir, StrayEnds(d, h, x)
      PROVE  Goal
  <2>1. CASE StrayRsync(d, h, x)
    <3>1. Proper(h, d) /\ strays' \subseteq strays
      BY <2>1 DEF StrayRsync, StraysFit
    <3>2. /\ live' = live
          /\ \A g \in Host, y \in Dir :
               \/ disk'[g][y] = disk[g][y]
               \/ (g = h /\ disk'[g][y] \in {disk[g][y], d})
      BY <1>1, <2>1 DEF StrayRsync
    <3>3. ASSUME NEW g \in Host, Fits(g) PROVE Fits(g)'
      BY <3>1, <3>2, <3>3, HostKept, HostFits
    <3>4. QED
      BY <1>s, <3>1, <3>3
  <2>2. CASE StrayStop(d, h, x)
    <3>1. strays \ {<<"stop", d, h, x>>} \in SUBSET strays
      OBVIOUS
    <3>2. QED
      BY <2>2, <3>1, StopFits DEF StrayStop
  <2>3. CASE StrayStart(d, h, x)
    <3>1. /\ disk' = disk /\ strays' \subseteq strays
          /\ \A g \in Host, y \in Dir : live'[g][y] \in {live[g][y], disk[g][y]}
      BY <1>1, <2>3 DEF StrayStart
    <3>2. QED
      BY <1>s, <3>1, HostKept
  <2>4. QED
    BY <1>8, <2>1, <2>2, <2>3 DEF StrayEnds
<1>9. ASSUME NEW p \in Plane, NEW d \in Deploy, Execute(p, d)
      PROVE  Goal
  BY <1>2, <1>3, <1>4, <1>5, <1>9 DEF Execute, LoadGone, LoadBounce, Load, Fetch, FetchBounce, Notify,
     Handoff, HealthPass, Fail, Exit, hostVars
<1>10. ASSUME NEW p \in Plane, Tick(p) \/ \E d \in Deploy : Submit(p, d)
       PROVE  UNCHANGED hostVars
  BY <1>10 DEF Tick, TickStart, TickEnd, TickSkip, TickReserve, TickClaim, TickLost, TickFault, Submit
<1>11. ASSUME NEW p \in Plane, StartUp(p)
       PROVE  Goal
  BY <1>2, <1>6, <1>11 DEF StartUp, ReconcileList, ReconcileOne, StartWorker
<1>12. CASE PutContract \/ UNCHANGED vars
  BY <1>2, <1>12 DEF PutContract, vars
<1>13. QED
  BY <1>2, <1>7, <1>8, <1>9, <1>10, <1>11, <1>12 DEF Next

-----------------------------------------------------------------------------
(* Running rows. *)

(* A running row has a goroutine that has not ended it, is left to the       *)
(* upgrader, or will be found by a start-up.                                 *)
EndedBy(p, d) ==
  \/ phase[p][d] \in Working
  \/ status[p] \in {"down", "starting"}
  \/ d \in orphans[p]
  \/ upgradeReq[p]
Accounted(d) == row[d] = "running" => \E p \in Plane : EndedBy(p, d)

(* A start-up lists what runs before it stops being one, and a listed row is *)
(* no longer running when it is struck.                                      *)
LEMMA StartUpLasts ==
  ASSUME TypeOK, ~DbFaults, [Next]_vars, NEW p \in Plane, NEW d \in Deploy,
         row[d] = "running", row'[d] = "running", ~Gone(p)
  PROVE  /\ status[p] \in {"down", "starting"} =>
              status'[p] \in {"down", "starting"} \/ d \in orphans'[p]
         /\ d \in orphans[p] => d \in orphans'[p]
<1> DEFINE Lasts ==
      /\ status[p] \in {"down", "starting"} =>
           status'[p] \in {"down", "starting"} \/ d \in orphans'[p]
      /\ d \in orphans[p] => d \in orphans'[p]
<1> USE DEF TypeOK, PlanesOK
<1>2. CASE UNCHANGED <<status, orphans>>
  BY <1>2
<1>1. ASSUME NEW h, NEW x, NEW ph \in [Plane -> [Deploy -> Phase]], NEW left, Stop(h, x, ph, left)
      PROVE  Lasts
  BY <1>1, <1>2, StopCases, KillIs
<1>3. ASSUME NEW q \in Plane, StartUp(q)
      PROVE  Lasts
  <2>1. CASE Boot(q)
    BY <2>1 DEF Boot
  <2>2. CASE ReconcileList(q)
    BY <2>2 DEF ReconcileList, RunningRows
  <2>3. ASSUME NEW e \in Deploy, ReconcileOne(q, e)
        PROVE  Lasts
    <3>1. row'[e] \in Terminal
      BY <2>3 DEF ReconcileOne, FinishDeploy, Terminal, RowsOK
    <3>2. e # d
      BY <3>1 DEF Terminal
    <3>3. QED
      BY <2>3, <3>2 DEF ReconcileOne
  <2>4. CASE StartWorker(q)
    BY <2>4 DEF StartWorker
  <2>5. QED
    BY <1>3, <2>1, <2>2, <2>3, <2>4 DEF StartUp
<1>4. ASSUME NEW q \in Plane, Crash(q) \/ UpgraderStop(q)
      PROVE  Lasts
  <2>1. phase \in [Plane -> [Deploy -> Phase]]
    BY DEF ExecsOK
  <2>2. CASE KillPlane(q, phase, strays)
    BY <2>1, <2>2, KillIs
  <2>3. QED
    BY <1>1, <1>4, <2>1, <2>2 DEF Crash, UpgraderStop
<1>5. ASSUME NEW q \in Plane, NEW e \in Deploy, StopService(q, e)
      PROVE  Lasts
  <2>1. [phase EXCEPT ![q][e] = "stopped"] \in [Plane -> [Deploy -> Phase]]
    BY DEF ExecsOK, Phase, Working
  <2>2. QED
    BY <1>1, <1>5, <2>1 DEF StopService
<1>6. ASSUME NEW q \in Plane, NEW e \in Deploy, Execute(q, e), ~StopService(q, e)
      PROVE  UNCHANGED <<status, orphans>>
  BY <1>6 DEF Execute, LoadGone, LoadBounce, Load, Fetch, FetchBounce, Notify, BeginPush, EndPush,
     Handoff, StartService, HealthPass, Fail, Exit, planeVars
<1>7. ASSUME NEW q \in Plane, Tick(q) \/ \E e \in Deploy : Submit(q, e)
      PROVE  UNCHANGED <<status, orphans>>
  BY <1>7 DEF Tick, TickStart, TickEnd, TickSkip, TickReserve, TickClaim, TickLost, TickFault,
     Submit, planeVars
<1>8. CASE PutContract \/ UNCHANGED vars
  BY <1>2, <1>8 DEF PutContract, vars, planeVars
<1>s. ASSUME NEW e \in Deploy, NEW h \in Host, NEW x \in Dir, StrayEnds(e, h, x)
      PROVE  Lasts
  <2>1. phase \in [Plane -> [Deploy -> Phase]]
    BY DEF ExecsOK
  <2>2. QED
    BY <1>1, <1>2, <1>s, <2>1 DEF StrayEnds, StrayRsync, StrayStop, StrayStart, planeVars
<1>9. Lasts
  BY <1>2, <1>3, <1>4, <1>5, <1>6, <1>7, <1>8, <1>s DEF Next
<1>10. QED
  BY <1>9

LEMMA WorkLasts ==
  ASSUME TypeOK, OneWorker, ~DbFaults, [Next]_vars, NEW p \in Plane, NEW d \in Deploy,
         phase[p][d] \in Working, row'[d] = "running", ~Gone(p)
  PROVE  phase'[p][d] \in Working \/ upgradeReq'[p]
<1>1. phase \in [Plane -> [Deploy -> Phase]] /\ phase' \in [Plane -> [Deploy -> Phase]]
  BY TypeStep DEF TypeOK, ExecsOK
<1>2. phase'[p][d] # "idle"
  <2>1. CASE Tick(p)
    <3>1. phase'[p][d] \in {phase[p][d], "claimed"}
      BY <1>1, <2>1 DEF Tick, TickStart, TickEnd, TickSkip, TickReserve, TickClaim, TickLost,
         TickFault, execVars
    <3>2. QED
      BY <3>1, WorkingIs
  <2>2. ASSUME NEW e \in Deploy, MovedOn(p, e) \/ Exit(p, e)
        PROVE  phase'[p][d] # "idle"
    BY <1>1, <2>2, WorkingIs DEF MovedOn, Exit
  <2>3. QED
    BY <2>1, <2>2, StepIs, WorkingIs DEF Kept
<1>3. phase'[p][d] # "exit"
  <2>1. ~HandsBack(p, d)
    BY BounceIs
  <2>2. phase[p][d] # "exit"
    BY WorkingIs
  <2>3. QED
    BY <2>1, <2>2, BecomesExit DEF Terminal
<1>4. CASE phase'[p][d] = "handed"
  <2>1. Handoff(p, d)
    BY <1>4, BecomesHanded, WorkingIs
  <2>2. QED
    BY <2>1 DEF Handoff, TypeOK, PlanesOK
<1>5. QED
  BY <1>1, <1>2, <1>3, <1>4 DEF Phase

LEMMA AccountedStep ==
  ASSUME TypeOK, OneWorker, ~DbFaults, ~StopFaults, [Next]_vars, NEW d \in Deploy, Accounted(d)
  PROVE  Accounted(d)'
<1> SUFFICES ASSUME row'[d] = "running"
             PROVE  \E p \in Plane : EndedBy(p, d)'
  BY DEF Accounted
<1>1. CASE row[d] # "running"
  <2>1. PICK q \in Plane : phase'[q][d] = "claimed"
    BY <1>1, RowIs DEF RowStep
  <2>2. QED
    BY <2>1, WorkingIs DEF EndedBy
<1>2. CASE row[d] = "running"
  <2>1. PICK p \in Plane : EndedBy(p, d)
    BY <1>2 DEF Accounted
  <2>2. CASE Gone(p)
    BY <2>2 DEF Gone, EndedBy
  <2>3. CASE ~Gone(p)
    BY <1>2, <2>1, <2>3, WorkLasts, StartUpLasts, RequestLasts DEF EndedBy
  <2>4. QED
    BY <2>2, <2>3
<1>3. QED
  BY <1>1, <1>2

-----------------------------------------------------------------------------
(* All of it, and what follows.                                              *)

SInv ==
  /\ TypeOK /\ OneWorker
  /\ \A d \in Deploy : LabelKept(d)
  /\ \A p \in Plane, d \in Deploy :
       Chosen(p, d) /\ HandedBack(p, d) /\ HandedOver(p, d) /\ Checked(p, d)
  /\ \A p \in Plane : Fresh(p) /\ Reserved(p)
  /\ \A h \in Host : Fits(h)
  /\ StraysFit
  /\ ~StopFaults => \A p \in Plane, d \in Deploy : Drained(p, d)
  /\ ~StopFaults /\ ~DbFaults => \A d \in Deploy : Accounted(d)

LEMMA SafeInit == Init => SInv
<1> SUFFICES ASSUME Init PROVE SInv
  OBVIOUS
<1>1. TypeOK /\ OneWorker
  BY TypeInit, OneWorkerInit
<1>2. /\ \A p \in Plane, d \in Deploy : phase[p][d] = "idle" /\ draining[p] # d /\ picked[p] # d
      /\ \A p \in Plane : todo[p] = {}
      /\ \A d \in Deploy : row[d] = "absent"
      /\ \A h \in Host, x \in Dir : disk[h][x] = Old /\ live[h][x] = Old
      /\ platform = StampPlat /\ Old \notin Deploy /\ strays = {}
  BY NameAssumption DEF Init
<1>3. \A d \in Deploy : LabelKept(d) /\ Accounted(d)
  BY <1>2 DEF LabelKept, Label, Accounted
<1>4. \A p \in Plane, d \in Deploy :
        /\ Chosen(p, d) /\ HandedBack(p, d) /\ HandedOver(p, d) /\ Drained(p, d) /\ Checked(p, d)
        /\ Holds(p, d) /\ PickedIs(p, d) /\ NotAgain(p, d)
  BY <1>2 DEF Chosen, HandedBack, HandedOver, Drained, Checked, Holds, PickedIs, NotAgain, Busy, Installing
<1>5. QED
  BY <1>1, <1>2, <1>3, <1>4 DEF SInv, Fresh, Reserved, Fits, StraysFit

LEMMA SafeStep == SInv /\ [Next]_vars => SInv'
<1> SUFFICES ASSUME SInv, [Next]_vars PROVE SInv'
  OBVIOUS
<1>1. TypeOK /\ OneWorker /\ TypeOK' /\ OneWorker'
  BY TypeStep, OneWorkerStep DEF SInv
<1>2. \A d \in Deploy : LabelKept(d)'
  BY <1>1, LabelStep DEF SInv
<1>3. \A p \in Plane, d \in Deploy : Chosen(p, d)' /\ HandedBack(p, d)' /\ HandedOver(p, d)'
  BY <1>1, ChosenStep, HandedBackStep, HandedOverStep DEF SInv
<1>4. \A p \in Plane, d \in Deploy : Checked(p, d)'
  BY <1>1, CheckedStep DEF SInv
<1>5. \A p \in Plane : Fresh(p)' /\ Reserved(p)'
  BY <1>1, FreshStep, ReservedStep DEF SInv
<1>6. (\A h \in Host : Fits(h)') /\ StraysFit'
  BY <1>1, FitsStep DEF SInv
<1>7. ~StopFaults => \A p \in Plane, d \in Deploy : Drained(p, d)'
  BY <1>1, DrainedStep DEF SInv
<1>8. ~StopFaults /\ ~DbFaults => \A d \in Deploy : Accounted(d)'
  BY <1>1, AccountedStep DEF SInv
<1>9. QED
  BY <1>1, <1>2, <1>3, <1>4, <1>5, <1>6, <1>7, <1>8 DEF SInv

LEMMA SafeAlways == Spec => []SInv
BY SafeInit, SafeStep, PTL DEF Spec

(* worker.go, tick and reserveUnit: as long as the goroutine of a deploy     *)
(* lives, to the last of its defers, its plane holds the directory it was    *)
(* started with for it and for no other deploy.                              *)
THEOREM UnitIsHeld == Spec => []UnitHeld
<1>1. SInv => UnitHeld
  BY DEF SInv, Reserved, Holds, Busy, UnitHeld
<1>2. QED
  BY <1>1, SafeAlways, PTL

(* worker.go, reserveUnit: two goroutines of one process that install into   *)
(* the directory they reserved never do it in the same one.                  *)
THEOREM SitesAreSerial == Spec => []SiteSerial
<1>1. SInv => SiteSerial
  <2> SUFFICES ASSUME SInv, NEW p \in Plane, NEW d \in Deploy, NEW e \in Deploy, d # e,
                      phase[p][d] \in Touching, phase[p][e] \in Touching,
                      site[p][d] = unit[p][d], site[p][e] = unit[p][e]
               PROVE  site[p][d] # site[p][e]
    BY DEF SiteSerial
  <2>1. Busy(p, d) /\ Busy(p, e)
    BY DEF Touching, Busy
  <2>2. active[p][unit[p][d]] = d /\ active[p][unit[p][e]] = e
    BY <2>1 DEF SInv, Reserved, Holds
  <2>3. QED
    BY <2>2
<1>2. QED
  BY <1>1, SafeAlways, PTL

(* worker.go, tick, executeDeploy and localBinaryGuard: whatever the other   *)
(* labels say, one that is true, or a guard that sees the executables, keeps *)
(* them from every directory and process of another platform.                *)
THEOREM ForeignBinariesKeptOut == Spec => []ForeignBinariesStopped
<1>1. SInv => ForeignBinariesStopped
  BY DEF SInv, Fits, Proper, ForeignBinariesStopped
<1>2. QED
  BY <1>1, SafeAlways, PTL

(* graceful_drain.go and the deferred Clear of executeDeploy: a plane that   *)
(* drains for a deploy of its own is still executing it, or the upgrader is  *)
(* about to replace the process; unless a stop leaves that process alive.    *)
THEOREM DrainIsReleased == ~StopFaults => (Spec => []SelfDrainReleased)
<1> SUFFICES ASSUME ~StopFaults PROVE Spec => []SelfDrainReleased
  OBVIOUS
<1>1. SInv => SelfDrainReleased
  BY DEF SInv, Drained, SelfDrainReleased
<1>2. QED
  BY <1>1, SafeAlways, PTL

(* main.go, reconcileOrphanDeploys: as long as the database answers and a    *)
(* stopped process ends, no running row is left behind, whatever crashes and *)
(* upgrades come in between.                                                 *)
THEOREM NoRowIsAbandoned == ~DbFaults /\ ~StopFaults => (Spec => []RunningIsAccounted)
<1> SUFFICES ASSUME ~DbFaults, ~StopFaults PROVE Spec => []RunningIsAccounted
  OBVIOUS
<1>1. SInv => RunningIsAccounted
  <2> SUFFICES ASSUME SInv, NEW d \in Deploy, row[d] = "running"
               PROVE  \E p \in Plane : EndedBy(p, d)
    BY WorkingIs DEF RunningIsAccounted, EndedBy
  <2>1. QED
    BY DEF SInv, Accounted
<1>2. QED
  BY <1>1, SafeAlways, PTL
=============================================================================
