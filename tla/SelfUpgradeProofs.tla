------------------------- MODULE SelfUpgradeProofs -------------------------
(* Proofs about SelfUpgrade, for every number of deploys of a plane, server  *)
(* processes, deaths of its upgrader and hosts, with lsof or without.        *)
EXTENDS SelfUpgrade, FiniteSetTheorems, TLAPS

-----------------------------------------------------------------------------
(* The inductive invariant. *)

Stages == {"none", "notify", "notified", "poll", "copy", "hand over",
           "handed", "restart", "health", "lower", "forget"}
Pcs == {"idle", "platform", "stop", "kill", "port", "kill listener",
        "stopped", "free", "spawned", "written", "ok", "failed", "done"}

DeploysOK ==
  /\ row \in [Deploy -> {"queued", "running", "done"}]
  /\ stage \in [Deploy -> Stages]
  /\ streak \in [Deploy -> 0 .. Threshold - 1] /\ late \in [Deploy -> BOOLEAN]
  /\ heard \in [Deploy -> 0 .. Threshold]
ProcsOK ==
  /\ proc \in [Pid -> {"unborn", "boot", "serving", "working", "stopping", "dead"}]
  /\ born \in 0 .. MaxStarts /\ pidfile \in 0 .. MaxStarts
DrainOK == home \in Deploy \cup {None} /\ flag \in BOOLEAN /\ id \in Deploy \cup {None}
FilesOK ==
  /\ file \in [Own -> {"none", "pending", "done", "bad"}]
  /\ upgrader \in {"down", "idle", "busy"} /\ handling \in Own \cup {None}
  /\ deaths \subseteq Orphan /\ lsof \in BOOLEAN
ScriptsOK ==
  /\ pc \in [Actor -> Pcs]
  /\ victim \in [Actor -> 0 .. MaxStarts] /\ faced \in [Actor -> SUBSET Pid]
Types == DeploysOK /\ ProcsOK /\ DrainOK /\ FilesOK /\ ScriptsOK

(* One process has the port; those still to be started do not run.           *)
OneListener == \A p, q \in Listening : p = q
Unborn == \A p \in Pid : p > born => proc[p] = "unborn"

(* Whom a script found listening has bound the port once and for all; the    *)
(* one it killed by the pid file is dead, and in its second attempt it       *)
(* kills the one that lsof showed, if all the others are dead already.       *)
Faced(a) ==
  /\ \A p \in faced[a] : proc[p] \notin {"unborn", "boot"}
  /\ pc[a] = "port" => \A p \in faced[a] : p = victim[a] => proc[p] = "dead"
  /\ pc[a] = "kill listener" => \A p \in faced[a] : p = victim[a] \/ proc[p] = "dead"

(* The loop counts no poll that the project answered.                        *)
Counts(d) == streak[d] <= heard[d]

Inv ==
  /\ Types /\ OneListener /\ Unborn
  /\ \A a \in Actor \ Orphan : Faced(a)
  /\ \A d \in Deploy : Counts(d)

-----------------------------------------------------------------------------
(* Types. *)

LEMMA StagesAre ==
  /\ "none" \in Stages /\ "notify" \in Stages /\ "notified" \in Stages /\ "poll" \in Stages
  /\ "copy" \in Stages /\ "hand over" \in Stages /\ "handed" \in Stages
  /\ "restart" \in Stages /\ "health" \in Stages /\ "lower" \in Stages /\ "forget" \in Stages
BY DEF Stages

LEMMA PcsAre ==
  /\ "idle" \in Pcs /\ "platform" \in Pcs /\ "stop" \in Pcs /\ "kill" \in Pcs
  /\ "port" \in Pcs /\ "kill listener" \in Pcs /\ "stopped" \in Pcs /\ "free" \in Pcs
  /\ "spawned" \in Pcs /\ "written" \in Pcs /\ "ok" \in Pcs /\ "failed" \in Pcs
  /\ "done" \in Pcs
BY DEF Pcs

LEMMA Frame ==
  /\ DeploysOK /\ UNCHANGED deploys => DeploysOK'
  /\ ProcsOK /\ UNCHANGED <<proc, born, pidfile>> => ProcsOK'
  /\ DrainOK /\ UNCHANGED <<home, flag, id>> => DrainOK'
  /\ FilesOK /\ UNCHANGED <<file, upgrader, handling, deaths, lsof>> => FilesOK'
  /\ ScriptsOK /\ UNCHANGED scripts => ScriptsOK'
BY DEF DeploysOK, ProcsOK, DrainOK, FilesOK, ScriptsOK, deploys, scripts

LEMMA DieType ==
  ASSUME Types, NEW p \in Pid, Die(p), UNCHANGED <<row, streak, late, heard, home>>
  PROVE  /\ DeploysOK' /\ DrainOK'
         /\ proc' \in [Pid -> {"unborn", "boot", "serving", "working", "stopping", "dead"}]
BY StagesAre DEF Types, Die, Severed, DeploysOK, ProcsOK, DrainOK

LEMMA TermType ==
  ASSUME Types, NEW p \in Pid, Term(p), UNCHANGED <<row, streak, late, heard, home>>
  PROVE  /\ DeploysOK' /\ DrainOK'
         /\ proc' \in [Pid -> {"unborn", "boot", "serving", "working", "stopping", "dead"}]
<1>1. CASE proc[p] \in {"working", "stopping"}
  BY <1>1 DEF Term, Types, DeploysOK, ProcsOK, DrainOK
<1>2. CASE proc[p] \notin {"working", "stopping"}
  BY <1>2, DieType DEF Term
<1>3. QED
  BY <1>1, <1>2

LEMMA ExecutingType ==
  ASSUME Types, NEW d \in Deploy, Claim(d) \/ Deadline(d) \/ Executing(d)
  PROVE  Types'
<1> USE DEF Types, Goes
<1>1. CASE Poll(d)
  <2>1. PICK o \in Outcome(d) :
          /\ stage' = [stage EXCEPT ![d] = IF Over(d, o) THEN "copy" ELSE "poll"]
          /\ streak' = [streak EXCEPT ![d] = IF Over(d, o) THEN 0 ELSE Counted(d, o)]
          /\ heard' = [heard EXCEPT ![d] =
               IF o # "unreachable" THEN 0 ELSE IF @ = Threshold THEN @ ELSE @ + 1]
    BY <1>1 DEF Poll
  <2>2. Counted(d, o) \in 0 .. Threshold
    BY DEF Counted, DeploysOK, Threshold
  <2>3. stage' \in [Deploy -> Stages]
    BY <2>1, StagesAre DEF DeploysOK
  <2>4. streak' \in [Deploy -> 0 .. Threshold - 1] /\ heard' \in [Deploy -> 0 .. Threshold]
    BY <2>1, <2>2 DEF DeploysOK, Over, Threshold
  <2>5. DeploysOK' /\ UNCHANGED quiet
    BY <1>1, <2>3, <2>4 DEF Poll, DeploysOK
  <2>6. QED
    BY <2>5, Frame DEF quiet, server
<1>2. CASE \/ Claim(d) \/ Deadline(d) \/ NotifyFails(d) \/ (d \in Foreign /\ RemoteHealthy(d))
  <2>1. DeploysOK' /\ UNCHANGED quiet
    BY <1>2, StagesAre DEF DeploysOK, Claim, Deadline, NotifyFails, RemoteHealthy
  <2>2. QED
    BY <2>1, Frame DEF quiet, server
<1>3. CASE Notify(d) \/ NotifyId(d) \/ Copy(d) \/ ClearFlag(d) \/ ClearId(d)
  <2>0. 0 \in 0 .. Threshold - 1 /\ 0 \in 0 .. Threshold /\ FALSE \in BOOLEAN
    BY DEF Threshold
  <2>1. DeploysOK' /\ DrainOK'
    <3>1. CASE Copy(d)
      <4>1. streak' \in [Deploy -> 0 .. Threshold - 1] /\ heard' \in [Deploy -> 0 .. Threshold]
        BY <2>0, <3>1 DEF Copy, DeploysOK
      <4>2. late' \in [Deploy -> BOOLEAN] /\ stage' \in [Deploy -> Stages] /\ row' = row
        BY <3>1, StagesAre DEF Copy, DeploysOK
      <4>3. QED
        BY <3>1, <4>1, <4>2 DEF Copy, DeploysOK, DrainOK
    <3>2. CASE ~Copy(d)
      BY <1>3, <3>2, StagesAre DEF DeploysOK, DrainOK, Notify, NotifyId, ClearFlag, ClearId
    <3>3. QED
      BY <3>1, <3>2
  <2>2. UNCHANGED <<proc, born, pidfile, file, upgrader, handling, deaths, lsof, scripts>>
    BY <1>3 DEF Notify, NotifyId, Copy, ClearFlag, ClearId
  <2>3. QED
    BY <2>1, <2>2, Frame
<1>4. CASE Fail(d)
  <2>1. DeploysOK' /\ ScriptsOK'
    BY <1>4, StagesAre, PcsAre DEF Fail, DeploysOK, ScriptsOK
  <2>2. QED
    BY <1>4, <2>1, Frame DEF Fail, server
<1>5. CASE d \in Own /\ HandOver(d)
  <2>1. DeploysOK' /\ FilesOK'
    BY <1>5, StagesAre DEF HandOver, DeploysOK, FilesOK
  <2>2. QED
    BY <1>5, <2>1, Frame DEF HandOver, server
<1>6. CASE d \in Foreign /\ (RemoteRestart(d) \/ RemoteRestarted(d))
  <2>1. DeploysOK'
    BY <1>6, StagesAre DEF RemoteRestart, RemoteRestarted, DeploysOK, deploys
  <2>2. ScriptsOK'
    BY <1>6, PcsAre DEF RemoteRestart, RemoteRestarted, ScriptsOK
  <2>3. UNCHANGED <<server, file, upgrader, handling, deaths, lsof>>
    BY <1>6 DEF RemoteRestart, RemoteRestarted
  <2>4. QED
    BY <2>1, <2>2, <2>3, Frame DEF server
<1>7. QED
  BY <1>1, <1>2, <1>3, <1>4, <1>5, <1>6 DEF Executing

LEMMA AliveIs ==
  ASSUME NEW p \in 0 .. MaxStarts, Alive(p)
  PROVE  p \in Pid /\ proc[p] \notin {"unborn", "dead"}
BY BoundAssumption DEF Alive, Pid

(* A script that leaves the files alone keeps the rest by itself.            *)
LEMMA ScriptFrame ==
  ASSUME Types, ScriptsOK', pidfile' \in 0 .. MaxStarts, UNCHANGED still,
         UNCHANGED <<proc, stage, flag, id>> \/ (\E p \in Pid : Die(p) \/ Term(p))
  PROVE  Types'
<1>1. UNCHANGED <<row, streak, late, heard, born, home, file, upgrader, handling, deaths, lsof>>
  BY DEF still
<1>2. FilesOK'
  BY <1>1, Frame DEF Types
<1>3. CASE UNCHANGED <<proc, stage, flag, id>>
  BY <1>1, <1>2, <1>3, Frame DEF Types, deploys, ProcsOK
<1>4. ASSUME NEW p \in Pid, Die(p) \/ Term(p)
      PROVE  Types'
  BY <1>1, <1>2, <1>4, DieType, TermType DEF Types, ProcsOK
<1>5. QED
  BY <1>3, <1>4

LEMMA ScriptsType ==
  ASSUME Types, NEW a \in Actor, Scripts(a)
  PROVE  Types'
<1> USE DEF Script
<1>0. /\ ScriptsOK /\ ProcsOK /\ 0 \in 0 .. MaxStarts
      /\ victim[a] \in 0 .. MaxStarts /\ pidfile \in 0 .. MaxStarts
  BY BoundAssumption DEF Types, ScriptsOK, ProcsOK
<1>1. CASE PlatformStop(a)
  <2>1. ScriptsOK' /\ pidfile' = pidfile /\ UNCHANGED still
    BY <1>0, <1>1, PcsAre DEF PlatformStop, ScriptsOK
  <2>2. UNCHANGED <<proc, stage, flag, id>> \/ (\E p \in Pid : Die(p))
    BY <1>1 DEF PlatformStop, Listening
  <2>3. QED
    BY <1>0, <2>1, <2>2, ScriptFrame
<1>2. CASE StopByPidfile(a)
  <2>1. ScriptsOK' /\ pidfile' \in {0, pidfile} /\ UNCHANGED still
    BY <1>0, <1>2, PcsAre DEF StopByPidfile, ScriptsOK, Listening
  <2>2. UNCHANGED <<proc, stage, flag, id>> \/ (\E p \in Pid : Term(p))
    BY <1>0, <1>2, AliveIs DEF StopByPidfile
  <2>3. QED
    BY <1>0, <2>1, <2>2, ScriptFrame
<1>3. CASE Kill(a) \/ KillListener(a)
  <2>1. ScriptsOK' /\ pidfile' \in {0, pidfile} /\ UNCHANGED still
    BY <1>0, <1>3, PcsAre DEF Kill, KillListener, ScriptsOK
  <2>2. UNCHANGED <<proc, stage, flag, id>> \/ (\E p \in Pid : Die(p))
    BY <1>0, <1>3, AliveIs DEF Kill, KillListener
  <2>3. QED
    BY <1>0, <2>1, <2>2, ScriptFrame
<1>4. CASE StopByPort(a)
  <2>1. CASE Up /\ lsof
    <3>1. PICK p \in Listening : /\ Term(p) /\ victim' = [victim EXCEPT ![a] = p]
                                 /\ pc' = [pc EXCEPT ![a] = "kill listener"]
      BY <1>4, <2>1 DEF StopByPort
    <3>2. p \in Pid /\ p \in 0 .. MaxStarts
      BY BoundAssumption DEF Listening, Pid
    <3>3. ScriptsOK' /\ pidfile' = pidfile /\ UNCHANGED still
      BY <1>0, <1>4, <3>1, <3>2, PcsAre DEF StopByPort, ScriptsOK
    <3>4. QED
      BY <1>0, <3>1, <3>2, <3>3, ScriptFrame
  <2>2. CASE ~(Up /\ lsof)
    <3>1. ScriptsOK' /\ UNCHANGED <<still, pidfile, proc, stage, flag, id>>
      BY <1>0, <1>4, <2>2, PcsAre DEF StopByPort, ScriptsOK
    <3>2. QED
      BY <1>0, <3>1, ScriptFrame
  <2>3. QED
    BY <2>1, <2>2
<1>5. CASE StartByPidfile(a) \/ StartRefuses(a) \/ WritePidfile(a) \/ StartLooks(a)
  <2>1. ScriptsOK'
    BY <1>0, <1>5, PcsAre DEF StartByPidfile, StartRefuses, WritePidfile, StartLooks, ScriptsOK
  <2>2. /\ UNCHANGED <<still, proc, stage, flag, id>>
        /\ pidfile' \in {0, pidfile, victim[a]}
    BY <1>5 DEF StartByPidfile, StartRefuses, WritePidfile, StartLooks
  <2>3. QED
    BY <1>0, <2>1, <2>2, ScriptFrame
<1>6. CASE Spawn(a)
  <2>1. born' = born + 1 /\ born + 1 \in Pid /\ born + 1 \in 0 .. MaxStarts
    BY <1>0, <1>6, BoundAssumption DEF Spawn, ProcsOK, Pid
  <2>2. ScriptsOK'
    BY <1>0, <1>6, <2>1, PcsAre DEF Spawn, ScriptsOK
  <2>3. ProcsOK'
    BY <1>0, <1>6, <2>1 DEF Spawn, ProcsOK
  <2>4. UNCHANGED <<deploys, home, flag, id, file, upgrader, handling, deaths, lsof>>
    BY <1>6 DEF Spawn, deploys
  <2>5. QED
    BY <2>2, <2>3, <2>4, Frame DEF Types
<1>7. CASE OrphanEnds(a) \/ StopLost(a)
  <2>1. ScriptsOK' /\ pidfile' = pidfile /\ UNCHANGED still
    BY <1>0, <1>7, PcsAre DEF OrphanEnds, StopLost, ScriptsOK
  <2>2. UNCHANGED <<proc, stage, flag, id>>
    BY <1>7 DEF OrphanEnds, StopLost
  <2>3. QED
    BY <1>0, <2>1, <2>2, ScriptFrame
<1>8. QED
  BY <1>1, <1>2, <1>3, <1>4, <1>5, <1>6, <1>7 DEF Scripts

LEMMA ProcessType ==
  ASSUME Types, NEW p \in Pid, Boot(p) \/ Reconcile(p) \/ ShutDown(p)
  PROVE  Types'
<1>0. p \in 0 .. MaxStarts /\ 0 \in 0 .. MaxStarts
  BY BoundAssumption DEF Pid
<1>1. CASE Boot(p)
  <2>1. ProcsOK'
    BY <1>0, <1>1 DEF Boot, Types, ProcsOK
  <2>2. QED
    BY <1>1, <2>1, Frame DEF Boot, Types, deploys
<1>2. CASE Reconcile(p)
  <2>1. ProcsOK' /\ DeploysOK'
    BY <1>2 DEF Reconcile, Types, ProcsOK, DeploysOK
  <2>2. QED
    BY <1>2, <2>1, Frame DEF Reconcile, Types
<1>3. CASE ShutDown(p)
  <2>1. ProcsOK' /\ DeploysOK' /\ DrainOK'
    BY <1>0, <1>3, DieType DEF ShutDown, Types, ProcsOK
  <2>2. QED
    BY <1>3, <2>1, Frame DEF ShutDown, Types
<1>4. QED
  BY <1>1, <1>2, <1>3

LEMMA UpgraderType ==
  ASSUME Types, (\E d \in Own : Upgrades(d)) \/ UpgraderDies \/ UpgraderStarts
  PROVE  Types'
<1>1. UNCHANGED <<deploys, server>>
  BY DEF Upgrades, Take, Handle, Reject, GiveUp, Activated, UpgraderDies, UpgraderStarts
<1>2. ScriptsOK'
  <2>1. CASE UpgraderDies
    <3>1. Upgrader \in Actor /\ Orphan \subseteq Actor /\ 0 \in 0 .. MaxStarts
      BY BoundAssumption DEF Actor
    <3>2. QED
      BY <2>1, <3>1, PcsAre DEF UpgraderDies, Types, ScriptsOK
  <2>2. CASE (\E d \in Own : Upgrades(d)) \/ UpgraderStarts
    <3>1. /\ UNCHANGED <<victim, faced>>
          /\ \E k \in {"stop", "idle"} : pc' = [pc EXCEPT ![Upgrader] = k] \/ pc' = pc
      BY <2>2 DEF Upgrades, Take, Handle, Reject, GiveUp, Activated, SetAside, UpgraderStarts, scripts
    <3>2. QED
      BY <3>1, PcsAre DEF Types, ScriptsOK
  <2>3. QED
    BY <2>1, <2>2
<1>3. FilesOK'
  BY BoundAssumption DEF Upgrades, Take, Handle, Reject, GiveUp, Activated, SetAside, UpgraderDies,
     UpgraderStarts, Types, FilesOK
<1>4. QED
  BY <1>1, <1>2, <1>3, Frame DEF Types, server

LEMMA TypesStep == Types /\ [Next]_vars => Types'
<1>1. Types /\ UNCHANGED vars => Types'
  BY Frame DEF Types, vars, server, scripts
<1>2. QED
  BY <1>1, ExecutingType, ScriptsType, ProcessType, UpgraderType DEF Next

LEMMA TypesInit == Init => Types
<1> SUFFICES ASSUME Init PROVE Types
  OBVIOUS
<1>1. 0 \in 0 .. MaxStarts /\ 1 \in 0 .. MaxStarts
  BY BoundAssumption
<1>2. DeploysOK
  <2>1. 0 \in 0 .. Threshold - 1 /\ 0 \in 0 .. Threshold
    BY DEF Threshold
  <2>2. QED
    BY <2>1, StagesAre, NameAssumption DEF Init, DeploysOK
<1>3. ProcsOK
  BY <1>1 DEF Init, ProcsOK
<1>4. DrainOK /\ FilesOK
  BY <1>1, NameAssumption DEF Init, DrainOK, FilesOK
<1>5. ScriptsOK
  BY <1>1, PcsAre DEF Init, ScriptsOK
<1>6. QED
  BY <1>2, <1>3, <1>4, <1>5 DEF Types

-----------------------------------------------------------------------------
(* Processes. *)

(* No process comes back, or unbinds the port and lives; one that binds it   *)
(* finds nobody there.                                                       *)
Forward(p) ==
  /\ proc[p] \notin {"unborn", "boot"} => proc'[p] \notin {"unborn", "boot"}
  /\ proc[p] = "dead" => proc'[p] = "dead"
  /\ p \in Listening' => p \in Listening \/ (Boot(p) /\ ~Up)
  /\ proc[p] = "unborn" => proc'[p] = "unborn" \/ born' >= p
  /\ born' >= born

LEMMA DieForward ==
  ASSUME Types, NEW q \in Pid, proc[q] # "unborn", Die(q) \/ Term(q), born' = born, NEW p \in Pid
  PROVE  Forward(p)
<1>1. /\ proc' = [proc EXCEPT ![q] = "dead"]
         \/ (proc' = [proc EXCEPT ![q] = "stopping"] /\ proc[q] \in {"working", "stopping"})
      /\ proc \in [Pid -> {"unborn", "boot", "serving", "working", "stopping", "dead"}]
      /\ born \in Nat /\ born' = born
  BY BoundAssumption DEF Die, Term, Types, ProcsOK
<1>2. QED
  BY <1>1 DEF Forward, Listening

LEMMA StillForward ==
  ASSUME Types, UNCHANGED <<proc, born>>, NEW p \in Pid
  PROVE  Forward(p)
BY BoundAssumption DEF Forward, Listening, Types, ProcsOK

LEMMA ScriptsForward ==
  ASSUME Types, Unborn, NEW a \in Actor, Scripts(a), NEW p \in Pid
  PROVE  Forward(p)
<1>0. victim[a] \in 0 .. MaxStarts /\ pidfile \in 0 .. MaxStarts
  BY DEF Types, ScriptsOK, ProcsOK
<1>1. CASE Spawn(a)
  <2>1. /\ born' = born + 1 /\ born \in Nat
        /\ proc' = [proc EXCEPT ![born + 1] = "boot"]
        /\ born + 1 \in Pid
    BY <1>1, BoundAssumption DEF Spawn, Types, ProcsOK, Pid
  <2>2. proc[born + 1] = "unborn" /\ proc'[born + 1] = "boot"
    BY <2>1 DEF Unborn, Types, ProcsOK
  <2>3. QED
    BY <2>1, <2>2 DEF Forward, Listening, Types, ProcsOK
<1>2. CASE PlatformStop(a) \/ StopByPidfile(a) \/ Kill(a) \/ StopByPort(a) \/ KillListener(a)
  <2>1. \/ UNCHANGED <<proc, born>>
        \/ \E q \in Pid : proc[q] # "unborn" /\ (Die(q) \/ Term(q)) /\ born' = born
    BY <1>0, <1>2, AliveIs DEF PlatformStop, StopByPidfile, Kill, StopByPort, KillListener, Listening,
       still
  <2>2. QED
    BY <2>1, DieForward, StillForward
<1>3. CASE \/ StartByPidfile(a) \/ StartRefuses(a) \/ WritePidfile(a) \/ StartLooks(a)
           \/ OrphanEnds(a) \/ StopLost(a)
  BY <1>3, StillForward DEF StartByPidfile, StartRefuses, WritePidfile, StartLooks, OrphanEnds,
     StopLost, still
<1>4. QED
  BY <1>1, <1>2, <1>3 DEF Scripts

LEMMA ProcessForward ==
  ASSUME Types, NEW q \in Pid, Boot(q) \/ Reconcile(q) \/ ShutDown(q), NEW p \in Pid
  PROVE  Forward(p)
<1>1. CASE Boot(q)
  <2>1. /\ proc[q] = "boot" /\ born' = born /\ born \in Nat
        /\ proc' = [proc EXCEPT ![q] = IF Up THEN "dead" ELSE "serving"]
    BY <1>1, BoundAssumption DEF Boot, Types, ProcsOK
  <2>2. QED
    BY <1>1, <2>1 DEF Forward, Listening, Types, ProcsOK
<1>2. CASE Reconcile(q)
  <2>1. /\ proc[q] = "serving" /\ born' = born /\ born \in Nat
        /\ proc' = [proc EXCEPT ![q] = "working"]
    BY <1>2, BoundAssumption DEF Reconcile, Types, ProcsOK
  <2>2. QED
    BY <2>1 DEF Forward, Listening, Types, ProcsOK
<1>3. CASE ShutDown(q)
  BY <1>3, DieForward DEF ShutDown
<1>4. QED
  BY <1>1, <1>2, <1>3

LEMMA StepForward ==
  ASSUME Types, Unborn, [Next]_vars, NEW p \in Pid
  PROVE  Forward(p)
<1>1. ASSUME NEW d \in Deploy, Claim(d) \/ Executing(d) \/ Deadline(d)
      PROVE  UNCHANGED <<proc, born>>
  BY <1>1 DEF Claim, Deadline, Executing, Notify, NotifyId, NotifyFails, Poll, Copy, Fail, ClearFlag,
     ClearId, HandOver, RemoteRestart, RemoteRestarted, RemoteHealthy, quiet, server
<1>2. ASSUME (\E d \in Own : Upgrades(d)) \/ UpgraderDies \/ UpgraderStarts
      PROVE  UNCHANGED <<proc, born>>
  BY <1>2 DEF Upgrades, Take, Handle, Reject, GiveUp, Activated, UpgraderDies, UpgraderStarts, server
<1>3. UNCHANGED vars => UNCHANGED <<proc, born>>
  BY DEF vars, server
<1>4. QED
  BY <1>1, <1>2, <1>3, StillForward, ScriptsForward, ProcessForward DEF Next

LEMMA OneListenerStep ==
  ASSUME Types, Unborn, OneListener, [Next]_vars
  PROVE  OneListener'
<1> SUFFICES ASSUME NEW p \in Listening', NEW q \in Listening' PROVE p = q
  BY DEF OneListener
<1>1. p \in Pid /\ q \in Pid
  BY DEF Listening
<1>2. /\ p \in Listening \/ (Boot(p) /\ ~Up)
      /\ q \in Listening \/ (Boot(q) /\ ~Up)
  BY <1>1, StepForward DEF Forward
<1>3. Boot(p) /\ Boot(q) => p = q
  BY <1>1 DEF Boot, Listening, Types, ProcsOK
<1>4. QED
  BY <1>2, <1>3 DEF OneListener, Up

LEMMA UnbornStep ==
  ASSUME Types, Unborn, [Next]_vars
  PROVE  Unborn'
<1> SUFFICES ASSUME NEW p \in Pid, p > born' PROVE proc'[p] = "unborn"
  BY DEF Unborn
<1>1. born \in Nat /\ born' \in Nat /\ p \in Nat
  BY TypesStep, BoundAssumption DEF Types, ProcsOK, Pid
<1>2. Forward(p)
  BY StepForward
<1>3. p > born
  BY <1>1, <1>2 DEF Forward
<1>4. QED
  BY <1>1, <1>2, <1>3 DEF Forward, Unborn

-----------------------------------------------------------------------------
(* Scripts. *)

(* What a step is to the script of actor a.                                  *)
ScriptIs(a) ==
  \/ /\ faced'[a] = faced[a]
     /\ pc'[a] \notin {"kill listener", "port"} \/ (pc'[a] = pc[a] /\ victim'[a] = victim[a])
     /\ pc'[a] # "stopped" \/ pc[a] = "stopped"
  \/ faced'[a] = {}
  \/ faced'[a] = Listening /\ (pc'[a] = "kill" \/ (pc'[a] = "port" /\ victim'[a] = 0))
  \/ Kill(a) \/ StopByPort(a) \/ KillListener(a)

LEMMA OtherScript ==
  ASSUME Types, NEW a \in Actor, NEW b \in Actor, b # a, Scripts(b)
  PROVE  ScriptIs(a)
<1>1. faced'[a] = faced[a] /\ pc'[a] = pc[a] /\ victim'[a] = victim[a]
  BY DEF Scripts, PlatformStop, StopByPidfile, Kill, StopByPort, KillListener, StartByPidfile,
     StartRefuses, Spawn, WritePidfile, StartLooks, OrphanEnds, StopLost, Script, Types, ScriptsOK
<1>2. QED
  BY <1>1 DEF ScriptIs

LEMMA OwnScript ==
  ASSUME Types, NEW a \in Actor \ Orphan, Scripts(a)
  PROVE  ScriptIs(a)
<1> USE DEF Script, Types, ScriptsOK
<1>1. CASE StopByPidfile(a)
  <2>1. faced'[a] = Listening /\ (pc'[a] = "kill" \/ (pc'[a] = "port" /\ victim'[a] = 0))
    BY <1>1 DEF StopByPidfile
  <2>2. QED
    BY <1>1, <2>1 DEF ScriptIs
<1>2. CASE Kill(a) \/ StopByPort(a) \/ KillListener(a)
  BY <1>2 DEF ScriptIs
<1>3. CASE PlatformStop(a)
  BY <1>3 DEF PlatformStop, ScriptIs
<1>4. CASE StartRefuses(a) \/ Spawn(a) \/ WritePidfile(a) \/ StartLooks(a)
  BY <1>4 DEF StartRefuses, Spawn, WritePidfile, StartLooks, ScriptIs
<1>5. CASE StartByPidfile(a) \/ StopLost(a)
  BY <1>5 DEF StartByPidfile, StopLost, ScriptIs
<1>6. QED
  BY <1>1, <1>2, <1>3, <1>4, <1>5 DEF Scripts, OrphanEnds

LEMMA ScriptStep ==
  ASSUME Types, [Next]_vars, NEW a \in Actor \ Orphan
  PROVE  ScriptIs(a)
<1>1. ASSUME NEW d \in Deploy, Claim(d) \/ Executing(d) \/ Deadline(d)
      PROVE  ScriptIs(a)
  <2>1. \/ UNCHANGED scripts
        \/ UNCHANGED <<victim, faced>> /\ pc' = [pc EXCEPT ![d] = "platform"]
        \/ UNCHANGED <<victim, faced>> /\ pc' = [pc EXCEPT ![d] = "done"]
        \/ UNCHANGED <<victim, faced>> /\ pc' = [b \in Actor |-> IF b = d THEN "done" ELSE pc[b]]
    BY <1>1 DEF Claim, Deadline, Executing, Notify, NotifyId, NotifyFails, Poll, Copy, Fail, ClearFlag,
       ClearId, HandOver, RemoteRestart, RemoteRestarted, RemoteHealthy, quiet
  <2>2. QED
    BY <2>1 DEF ScriptIs, scripts, Types, ScriptsOK
<1>2. ASSUME (\E d \in Own : Upgrades(d)) \/ UpgraderStarts
      PROVE  ScriptIs(a)
  <2>1. /\ UNCHANGED <<victim, faced>>
        /\ \E k \in {"stop", "idle"} : pc' = [pc EXCEPT ![Upgrader] = k] \/ pc' = pc
    BY <1>2 DEF Upgrades, Take, Handle, Reject, GiveUp, Activated, SetAside, UpgraderStarts, scripts
  <2>2. QED
    BY <2>1 DEF ScriptIs, Types, ScriptsOK
<1>3. ASSUME UpgraderDies
      PROVE  ScriptIs(a)
  <2>1. Upgrader \in Actor
    BY DEF Actor
  <2>2. IF a = Upgrader THEN faced'[a] = {}
        ELSE faced'[a] = faced[a] /\ pc'[a] = pc[a] /\ victim'[a] = victim[a]
    BY <1>3, <2>1 DEF UpgraderDies, Types, ScriptsOK
  <2>3. QED
    BY <2>2 DEF ScriptIs
<1>4. ASSUME NEW p \in Pid, Boot(p) \/ Reconcile(p) \/ ShutDown(p)
      PROVE  ScriptIs(a)
  BY <1>4 DEF Boot, Reconcile, ShutDown, scripts, ScriptIs
<1>5. UNCHANGED vars => ScriptIs(a)
  BY DEF vars, scripts, ScriptIs
<1>6. QED
  BY <1>1, <1>2, <1>3, <1>4, <1>5, OwnScript, OtherScript DEF Next

(* The first attempt kills the one that the pid file names.                  *)
LEMMA KillIs ==
  ASSUME Types, NEW a \in Actor, Kill(a), Faced(a)
  PROVE  /\ faced'[a] = faced[a] /\ pc'[a] = "port"
         /\ \A p \in faced[a] : p = victim'[a] => proc'[p] = "dead"
<1>1. /\ faced'[a] = faced[a] /\ pc'[a] = "port" /\ victim'[a] = victim[a]
      /\ faced[a] \subseteq Pid
  BY DEF Kill, Script, Types, ScriptsOK
<1>2. \A p \in faced[a] : proc[p] # "unborn" /\ p # 0
  <2>1. \A p \in Pid : p # 0
    BY BoundAssumption DEF Pid
  <2>2. QED
    BY <1>1, <2>1 DEF Faced
<1>3. CASE Alive(victim[a])
  BY <1>1, <1>3 DEF Kill, Die, Types, ProcsOK
<1>4. CASE ~Alive(victim[a])
  BY <1>1, <1>2, <1>4 DEF Kill, Alive
<1>5. QED
  BY <1>3, <1>4

(* With lsof the second attempt finds the one it faced, or nobody.           *)
LEMMA StopByPortIs ==
  ASSUME Types, OneListener, NEW a \in Actor, StopByPort(a), Faced(a)
  PROVE  /\ faced'[a] = faced[a]
         /\ \/ pc'[a] = "kill listener" /\ \A p \in faced[a] : p = victim'[a] \/ proc[p] = "dead"
            \/ /\ pc'[a] = "stopped" /\ proc' = proc
               /\ \A p \in faced[a] : (lsof \/ p = victim[a]) => proc[p] = "dead"
<1>1. faced'[a] = faced[a] /\ faced[a] \subseteq Pid /\ pc[a] = "port"
  BY DEF StopByPort, Types, ScriptsOK
<1>2. \A p \in faced[a] : p \in Listening \/ proc[p] = "dead"
  BY <1>1 DEF Faced, Listening, Types, ProcsOK
<1>3. CASE Up /\ lsof
  <2>1. PICK q \in Listening : victim'[a] = q /\ pc'[a] = "kill listener"
    BY <1>3 DEF StopByPort, Types, ScriptsOK
  <2>2. QED
    BY <1>1, <1>2, <2>1 DEF OneListener
<1>4. CASE ~(Up /\ lsof)
  <2>1. pc'[a] = "stopped" /\ proc' = proc
    BY <1>4 DEF StopByPort, Types, ScriptsOK
  <2>2. ~lsof => \A p \in faced[a] : p = victim[a] => proc[p] = "dead"
    BY <1>1 DEF Faced
  <2>3. lsof => \A p \in faced[a] : proc[p] = "dead"
    BY <1>1, <1>2, <1>4 DEF Up
  <2>4. QED
    BY <1>1, <2>1, <2>2, <2>3
<1>5. QED
  BY <1>3, <1>4

LEMMA KillListenerIs ==
  ASSUME Types, NEW a \in Actor \ Orphan, KillListener(a), Faced(a)
  PROVE  /\ faced'[a] = faced[a] /\ pc'[a] = "stopped"
         /\ \A p \in faced[a] : proc'[p] = "dead"
<1>1. /\ faced'[a] = faced[a] /\ pc'[a] = "stopped" /\ faced[a] \subseteq Pid
      /\ \A p \in faced[a] : p = victim[a] \/ proc[p] = "dead"
  BY DEF KillListener, Script, Faced, Types, ScriptsOK
<1>2. \A p \in faced[a] : proc[p] \notin {"unborn", "boot"} /\ p # 0
  <2>1. \A p \in Pid : p # 0
    BY BoundAssumption DEF Pid
  <2>2. QED
    BY <1>1, <2>1 DEF Faced
<1>3. CASE Alive(victim[a])
  BY <1>1, <1>2, <1>3 DEF KillListener, Die, Types, ProcsOK
<1>4. CASE ~Alive(victim[a])
  BY <1>1, <1>2, <1>4 DEF KillListener, Alive
<1>5. QED
  BY <1>3, <1>4

LEMMA FacedStep ==
  ASSUME Types, OneListener, Unborn, [Next]_vars, NEW a \in Actor \ Orphan, Faced(a)
  PROVE  Faced(a)'
<1>1. \A p \in Pid : Forward(p)
  BY StepForward
<1>2. faced[a] \subseteq Pid /\ Listening \subseteq Pid
  BY DEF Types, ScriptsOK, Listening
<1>3. CASE StopByPort(a)
  BY <1>1, <1>2, <1>3, StopByPortIs DEF Faced, Forward
<1>4. CASE KillListener(a)
  BY <1>1, <1>2, <1>4, KillListenerIs DEF Faced, Forward
<1>5. CASE Kill(a)
  BY <1>1, <1>2, <1>5, KillIs DEF Faced, Forward
<1>6. CASE /\ faced'[a] = Listening
           /\ pc'[a] = "kill" \/ (pc'[a] = "port" /\ victim'[a] = 0)
  <2>1. \A p \in Pid : p # 0
    BY BoundAssumption DEF Pid
  <2>2. QED
    BY <1>1, <1>2, <1>6, <2>1 DEF Faced, Forward, Listening
<1>7. CASE /\ faced'[a] = faced[a]
           /\ pc'[a] \notin {"kill listener", "port"} \/ (pc'[a] = pc[a] /\ victim'[a] = victim[a])
  BY <1>1, <1>2, <1>7 DEF Faced, Forward
<1>8. CASE faced'[a] = {}
  BY <1>8 DEF Faced
<1>9. QED
  BY <1>3, <1>4, <1>5, <1>6, <1>7, <1>8, ScriptStep DEF ScriptIs

-----------------------------------------------------------------------------
(* The graceful wait. *)

LEMMA PollIs ==
  ASSUME Types, NEW d \in Deploy, Poll(d), Counts(d)
  PROVE  /\ Counts(d)'
         /\ stage'[d] = "copy" /\ ~late[d] /\ ~Ready(d) => heard'[d] = Threshold
         /\ \A e \in Deploy : e # d => /\ streak'[e] = streak[e] /\ heard'[e] = heard[e]
                                       /\ stage'[e] = stage[e]
<1>1. PICK o \in Outcome(d) :
        /\ stage' = [stage EXCEPT ![d] = IF Over(d, o) THEN "copy" ELSE "poll"]
        /\ streak' = [streak EXCEPT ![d] = IF Over(d, o) THEN 0 ELSE Counted(d, o)]
        /\ heard' = [heard EXCEPT ![d] =
             IF o # "unreachable" THEN 0 ELSE IF @ = Threshold THEN @ ELSE @ + 1]
  BY DEF Poll
<1>2. /\ stage'[d] = (IF Over(d, o) THEN "copy" ELSE "poll")
      /\ streak'[d] = (IF Over(d, o) THEN 0 ELSE Counted(d, o))
      /\ heard'[d] = (IF o # "unreachable" THEN 0
                      ELSE IF heard[d] = Threshold THEN heard[d] ELSE heard[d] + 1)
      /\ \A e \in Deploy : e # d => /\ streak'[e] = streak[e] /\ heard'[e] = heard[e]
                                    /\ stage'[e] = stage[e]
  BY <1>1 DEF Types, DeploysOK
<1>3. streak[d] \in 0 .. 2 /\ heard[d] \in 0 .. 3 /\ streak[d] <= heard[d]
  BY DEF Types, DeploysOK, Threshold, Counts
<1>4. Counts(d)'
  BY <1>2, <1>3 DEF Counts, Counted, Threshold
<1>5. o = "ready" => Ready(d)
  BY DEF Outcome
<1>6. ASSUME stage'[d] = "copy", ~late[d], ~Ready(d)
      PROVE  heard'[d] = Threshold
  <2>1. Counted(d, o) = 3
    BY <1>2, <1>5, <1>6 DEF Over, Threshold
  <2>2. o = "unreachable" /\ streak[d] = 2
    BY <1>3, <2>1 DEF Counted
  <2>3. QED
    BY <1>2, <1>3, <2>2 DEF Threshold
<1>7. QED
  BY <1>2, <1>4, <1>6

(* The counters change in a poll, and go back with the copy; only a poll     *)
(* ends the polling.                                                         *)
LEMMA WaitIs ==
  ASSUME Types, [Next]_vars, NEW d \in Deploy
  PROVE  \/ Poll(d)
         \/ /\ streak'[d] = streak[d] /\ heard'[d] = heard[d]
            /\ stage[d] = "poll" => stage'[d] # "copy"
         \/ Copy(d) /\ streak'[d] = 0 /\ heard'[d] = 0
<1> DEFINE Same == /\ streak'[d] = streak[d] /\ heard'[d] = heard[d]
                   /\ stage[d] = "poll" => stage'[d] # "copy"
<1>1. CASE UNCHANGED <<streak, heard, stage>>
  BY <1>1
<1>2. ASSUME NEW p \in Pid, Die(p) \/ Term(p), UNCHANGED <<streak, heard>>
      PROVE  Same
  BY <1>2 DEF Die, Term, Severed
<1>3. ASSUME NEW e \in Deploy, Executing(e), ~Poll(e), ~Copy(e)
      PROVE  Same
  <2>1. UNCHANGED <<streak, heard>>
    BY <1>3 DEF Executing, Notify, NotifyId, NotifyFails, Fail, ClearFlag, ClearId, HandOver,
       RemoteRestart, RemoteRestarted, RemoteHealthy, deploys
  <2>2. stage' = stage \/ (stage[e] # "poll" /\ \E k : stage' = [stage EXCEPT ![e] = k])
    BY <1>3 DEF Executing, Notify, NotifyId, NotifyFails, Fail, ClearFlag, ClearId, HandOver,
       RemoteRestart, RemoteRestarted, RemoteHealthy, Goes, deploys
  <2>3. QED
    BY <2>1, <2>2 DEF Types, DeploysOK
<1>4. ASSUME NEW e \in Deploy, Poll(e)
      PROVE  Poll(d) \/ Same
  <2>1. e # d => streak'[d] = streak[d] /\ heard'[d] = heard[d] /\ stage'[d] = stage[d]
    BY <1>4 DEF Poll, Types, DeploysOK
  <2>2. QED
    BY <1>4, <2>1
<1>5. ASSUME NEW e \in Deploy, Claim(e) \/ Deadline(e)
      PROVE  Same
  BY <1>5 DEF Claim, Deadline, Goes, Types, DeploysOK
<1>10. ASSUME NEW e \in Deploy, Copy(e)
       PROVE  Same \/ (Copy(d) /\ streak'[d] = 0 /\ heard'[d] = 0)
  <2>1. e # d => streak'[d] = streak[d] /\ heard'[d] = heard[d] /\ stage'[d] = stage[d]
    BY <1>10 DEF Copy, Goes, Types, DeploysOK
  <2>2. e = d => streak'[d] = 0 /\ heard'[d] = 0
    BY <1>10 DEF Copy, Types, DeploysOK
  <2>3. QED
    BY <1>10, <2>1, <2>2
<1>6. ASSUME NEW a \in Actor, Scripts(a)
      PROVE  Same
  <2>1. UNCHANGED <<streak, heard>> /\ (stage' = stage \/ \E p \in Pid : Die(p) \/ Term(p))
    <3>1. victim[a] \in 0 .. MaxStarts /\ pidfile \in 0 .. MaxStarts
      BY DEF Types, ScriptsOK, ProcsOK
    <3>2. QED
      BY <1>6, <3>1, AliveIs DEF Scripts, PlatformStop, StopByPidfile, Kill, StopByPort, KillListener,
         StartByPidfile, StartRefuses, Spawn, WritePidfile, StartLooks, OrphanEnds, StopLost,
         still, Listening
  <2>2. QED
    BY <1>1, <1>2, <2>1
<1>7. ASSUME NEW p \in Pid, Boot(p) \/ Reconcile(p) \/ ShutDown(p)
      PROVE  Same
  BY <1>1, <1>2, <1>7 DEF Boot, Reconcile, ShutDown
<1>8. ASSUME (\E e \in Own : Upgrades(e)) \/ UpgraderDies \/ UpgraderStarts
      PROVE  Same
  BY <1>1, <1>8 DEF Upgrades, Take, Handle, Reject, GiveUp, Activated, UpgraderDies, UpgraderStarts,
     deploys
<1>9. UNCHANGED vars => Same
  BY DEF vars, deploys
<1>11. QED
  BY <1>3, <1>4, <1>5, <1>6, <1>7, <1>8, <1>9, <1>10 DEF Next

-----------------------------------------------------------------------------
(* All of it, and what follows.                                              *)

LEMMA InvInit == Init => Inv
<1> SUFFICES ASSUME Init PROVE Inv
  OBVIOUS
<1>1. Types
  BY TypesInit
<1>2. \A p \in Pid : proc[p] = IF p = 1 THEN "working" ELSE "unborn"
  BY DEF Init
<1>3. OneListener
  BY <1>2 DEF OneListener, Listening
<1>4. Unborn
  BY <1>2 DEF Init, Unborn
<1>5. \A a \in Actor \ Orphan : Faced(a)
  BY DEF Init, Faced
<1>6. \A d \in Deploy : Counts(d)
  BY DEF Init, Counts
<1>7. QED
  BY <1>1, <1>3, <1>4, <1>5, <1>6 DEF Inv

LEMMA InvStep == Inv /\ [Next]_vars => Inv'
<1> SUFFICES ASSUME Inv, [Next]_vars PROVE Inv'
  OBVIOUS
<1>1. \A d \in Deploy : Counts(d)'
  <2>1. ASSUME NEW d \in Deploy
        PROVE  Counts(d)'
    BY WaitIs, PollIs DEF Inv, Counts
  <2>2. QED
    BY <2>1
<1>2. QED
  BY <1>1, TypesStep, OneListenerStep, UnbornStep, FacedStep DEF Inv

LEMMA InvAlways == Spec => []Inv
BY InvInit, InvStep, PTL DEF Spec

LEMMA OneIsCounted ==
  ASSUME OneListener
  PROVE  Cardinality(Listening) <= 1
<1>1. CASE Listening = {}
  BY <1>1, FS_EmptySet
<1>2. ASSUME NEW p \in Listening
      PROVE  Cardinality(Listening) <= 1
  <2>1. Listening = {p}
    BY DEF OneListener
  <2>2. Cardinality({p}) = 1
    BY FS_Singleton, Zenon
  <2>3. Cardinality(Listening) = 1
    BY <2>1, <2>2, Zenon
  <2>4. QED
    BY <2>3
<1>3. QED
  BY <1>1, <1>2

(* Rows, processes, files and scripts are in the states the code knows, and  *)
(* however many scripts start servers at once, one at most has the port.     *)
THEOREM UpgradeTypes == Spec => []TypeOK
<1>1. Inv => TypeOK
  BY OneIsCounted DEF Inv, Types, DeploysOK, ProcsOK, DrainOK, FilesOK, ScriptsOK, Stages, Pcs, TypeOK
<1>2. QED
  BY <1>1, InvAlways, PTL

(* scripts/stop.sh: when it is through, nobody who listened as it began still *)
(* does, whatever pid file it found and whoever else stopped, started or     *)
(* rebooted servers meanwhile -- on a host with lsof; on one without, this   *)
(* holds of the process that the pid file named.                             *)
THEOREM PortIsFreed == Spec => StopFreesPort
<1> DEFINE Off(p) == proc'[p] \notin {"serving", "working", "stopping"}
           Freed(a) == (pc[a] # "stopped" /\ pc'[a] = "stopped")
                        => \A p \in faced'[a] : (lsof \/ p = victim[a]) => Off(p)
<1>1. ASSUME Inv, [Next]_vars, NEW a \in Actor \ Orphan
      PROVE  Freed(a)
  <2>1. Types /\ OneListener /\ Faced(a)
    BY <1>1 DEF Inv
  <2>2. CASE StopByPort(a)
    BY <2>1, <2>2, StopByPortIs
  <2>3. CASE KillListener(a)
    BY <2>1, <2>3, KillListenerIs
  <2>4. CASE Kill(a)
    BY <2>1, <2>4, KillIs
  <2>5. QED
    BY <1>1, <2>1, <2>2, <2>3, <2>4, ScriptStep DEF ScriptIs
<1>2. Inv /\ [Next]_vars => [\A a \in Actor \ Orphan : Freed(a)]_vars
  BY <1>1
<1>3. QED
  BY <1>2, InvAlways, PTL DEF Spec, StopFreesPort

(* graceful.go, waitForGracefulRestartVia: a wait that polls gives up before *)
(* its deadline only when nobody has answered three times in a row.          *)
THEOREM WaitsAreNotCutShort == Spec => CutShortOnlyWhenDown
<1> DEFINE Heard(d) == (stage[d] = "poll" /\ stage'[d] = "copy" /\ ~late[d] /\ ~Ready(d))
                        => heard'[d] = Threshold
<1>1. ASSUME Inv, [Next]_vars, NEW d \in Deploy
      PROVE  Heard(d)
  <2>1. ~Copy(d) \/ stage[d] = "copy"
    BY DEF Copy, Goes
  <2>2. QED
    BY <1>1, <2>1, WaitIs, PollIs DEF Inv
<1>2. Inv /\ [Next]_vars => [\A d \in Deploy : Heard(d)]_vars
  BY <1>1
<1>3. QED
  BY <1>2, InvAlways, PTL DEF Spec, CutShortOnlyWhenDown
=============================================================================
