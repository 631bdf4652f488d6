----------------------------- MODULE SelfUpgrade ------------------------------
(***************************************************************************)
(* How a control plane is replaced while it works: notify, drain and poll  *)
(* (src/graceful.go, src/graceful_drain.go, the /restart handlers), the    *)
(* request files and the upgrader that stops and starts the process        *)
(* (src/self_deploy.go, upgrader/main.go, scripts/stop.sh, start.sh), and  *)
(* the start of a server (src/main.go).  Besides its own upgrades another  *)
(* plane may deploy this one over ssh, with scripts of its own in the same *)
(* directory.                                                              *)
(***************************************************************************)

EXTENDS Naturals, FiniteSets

CONSTANTS
  Own,          (* deploys of the plane by itself                          *)
  Foreign,      (* deploys of the plane by another one, over ssh           *)
  None, Upgrader,
  NoServer,     (* deploys whose package holds no executable server        *)
  MaxStarts,    (* bound: server processes                                 *)
  Orphan,       (* bound: deaths of the upgrader; each may leave a script  *)
  Setting       (* hosts to look at: do they have lsof? which deploys and  *)
                (* deaths do not happen there?                             *)

Deploy == Own \cup Foreign
Actor == {Upgrader} \cup Foreign \cup Orphan   (* who runs stop.sh, start.sh *)
Pid == 1 .. MaxStarts
Threshold == 3                            (* gracefulUnreachableThreshold  *)

ASSUME NameAssumption ==
  /\ Own \cap Foreign = {} /\ {None, Upgrader} \cap Deploy = {} /\ None # Upgrader
  /\ NoServer \subseteq Foreign
  /\ Orphan \cap ({Upgrader} \cup Foreign) = {}
  /\ Setting \subseteq [lsof : BOOLEAN, without : SUBSET Deploy, past : SUBSET Orphan]
ASSUME BoundAssumption == MaxStarts \in Nat \ {0}

VARIABLES
  row,          (* deploys.state                                           *)
  stage,        (* where executeDeploy is                                  *)
  streak, late, (* of its graceful wait: unreachableStreak, the deadline   *)
  heard         (* auxiliary: the last polls that nobody answered          *)
deploys == <<row, stage, streak, late, heard>>

VARIABLES
  proc, born,   (* the server processes; the last one started              *)
  pidfile,      (* deployment.pid, 0 when there is none                    *)
  home,         (* whose package is in the runtime directory               *)
  flag, id      (* GracefulDrain of the process that listens               *)
server == <<proc, born, pidfile, home, flag, id>>

VARIABLES
  file,         (* upgrade-requests/<id>.json, or what became of it        *)
  upgrader, handling,
  deaths,       (* the deaths it has died                                  *)
  lsof,         (* does the host have the program?  (It does not change.)  *)
  pc, victim,   (* per actor: its script, the pid it kills or has started  *)
  faced         (* auxiliary: who listened when its stop.sh began          *)
scripts == <<pc, victim, faced>>

vars == <<deploys, server, file, upgrader, handling, deaths, lsof, scripts>>

Alive(p) == p # 0 /\ proc[p] \notin {"unborn", "dead"}
Listening == {p \in Pid : proc[p] \in {"serving", "working", "stopping"}}
Up == Listening # {}

(* Rows, processes, files and scripts are in the states the code knows. *)
TypeOK ==
  /\ row \in [Deploy -> {"queued", "running", "done"}]
  /\ stage \in [Deploy -> {"none", "notify", "notified", "poll", "copy", "hand over",
                           "handed", "restart", "health", "lower", "forget"}]
  /\ streak \in [Deploy -> 0 .. Threshold - 1] /\ late \in [Deploy -> BOOLEAN]
  /\ heard \in [Deploy -> 0 .. Threshold]
  /\ proc \in [Pid -> {"unborn", "boot", "serving", "working", "stopping", "dead"}]
  /\ born \in 0 .. MaxStarts /\ pidfile \in 0 .. MaxStarts
  /\ home \in Deploy \cup {None} /\ flag \in BOOLEAN /\ id \in Deploy \cup {None}
  /\ file \in [Own -> {"none", "pending", "done", "bad"}]
  /\ upgrader \in {"down", "idle", "busy"} /\ handling \in Own \cup {None}
  /\ deaths \subseteq Orphan /\ lsof \in BOOLEAN
  /\ pc \in [Actor -> {"idle", "platform", "stop", "kill", "port", "kill listener",
                       "stopped", "free", "spawned", "written", "ok", "failed", "done"}]
  /\ victim \in [Actor -> 0 .. MaxStarts] /\ faced \in [Actor -> SUBSET Pid]
  /\ Cardinality(Listening) <= 1

(* The first server has been started by start.sh and runs. *)
Init ==
  /\ \E s \in Setting :
       /\ lsof = s.lsof /\ deaths = s.past
       /\ row = [d \in Deploy |-> IF d \in s.without THEN "done" ELSE "queued"]
  /\ stage = [d \in Deploy |-> "none"]
  /\ streak = [d \in Deploy |-> 0] /\ late = [d \in Deploy |-> FALSE]
  /\ heard = [d \in Deploy |-> 0]
  /\ proc = [p \in Pid |-> IF p = 1 THEN "working" ELSE "unborn"]
  /\ born = 1 /\ pidfile = 1 /\ home = None /\ flag = FALSE /\ id = None
  /\ file = [d \in Own |-> "none"]
  /\ upgrader = "idle" /\ handling = None
  /\ pc = [a \in Actor |-> "idle"] /\ victim = [a \in Actor |-> 0]
  /\ faced = [a \in Actor |-> {}]

-----------------------------------------------------------------------------
(* Deaths.  The deploys a process executes die with it, and who waits for   *)
(* its answer loses the connection, which is unreachable.                   *)
Severed(d) ==
  IF d \in Own THEN (IF stage[d] = "handed" THEN "handed" ELSE "none")
  ELSE IF stage[d] = "notified" THEN "copy" ELSE stage[d]
Die(p) ==
  /\ proc' = [proc EXCEPT ![p] = "dead"]
  /\ IF p \in Listening
     THEN /\ stage' = [d \in Deploy |-> Severed(d)]
          /\ flag' = FALSE /\ id' = None
     ELSE UNCHANGED <<stage, flag, id>>

(* SIGTERM: main handles it once the workers run; before, it kills. *)
Term(p) ==
  IF proc[p] \in {"working", "stopping"}
  THEN /\ proc' = [proc EXCEPT ![p] = "stopping"]
       /\ UNCHANGED <<stage, flag, id>>
  ELSE Die(p)

(* The handler at its end removes the pid file, whoever is in it. *)
ShutDown(p) ==
  /\ proc[p] = "stopping"
  /\ Die(p)
  /\ pidfile' = 0
  /\ UNCHANGED <<row, streak, late, heard, born, home, file, upgrader, handling, deaths, lsof, scripts>>

-----------------------------------------------------------------------------
(* The plane's own deploys, and those of the other plane. *)

Goes(d, from, to) == stage[d] = from /\ stage' = [stage EXCEPT ![d] = to]
quiet == <<server, file, upgrader, handling, deaths, lsof, scripts>>

Claim(d) ==
  /\ row[d] = "queued" /\ Goes(d, "none", "notify")
  /\ d \in Own =>
       /\ \E p \in Pid : proc[p] = "working"
       /\ ~flag
       /\ \A e \in Own : stage[e] \in {"none", "handed"}      (* the same unit *)
  /\ row' = [row EXCEPT ![d] = "running"]
  /\ UNCHANGED <<streak, late, heard, quiet>>

(* POST notify arrives: GracefulDrain.Notify raises the flag ... *)
Notify(d) ==
  /\ Up /\ Goes(d, "notify", "notified")
  /\ flag' = TRUE
  /\ UNCHANGED <<row, streak, late, heard, proc, born, pidfile, home, id,
                 file, upgrader, handling, deaths, lsof, scripts>>
(* ... and then stores the id. *)
NotifyId(d) ==
  /\ Goes(d, "notified", "poll")
  /\ id' = d
  /\ UNCHANGED <<row, streak, late, heard, proc, born, pidfile, home, flag,
                 file, upgrader, handling, deaths, lsof, scripts>>
(* Nobody there, or no answer in time: restart now.  Any other error: poll. *)
NotifyFails(d) ==
  /\ Goes(d, "notify", "copy") \/ (Up /\ Goes(d, "notify", "poll"))
  /\ UNCHANGED <<row, streak, late, heard, quiet>>

(* What one poll finds -- a connection that times out counts as unreachable *)
(* -- and whether the wait goes on.                                         *)
Ready(d) == Up /\ flag /\ {e \in Deploy : row[e] = "running"} \subseteq {id}
Outcome(d) ==
  {"unreachable"}
  \cup (IF Up THEN {"error", IF Ready(d) THEN "ready" ELSE "not ready"} ELSE {})
CountedErrorKeeps(d, o) ==
  IF o = "unreachable" THEN streak[d] + 1 ELSE IF o = "error" THEN streak[d] ELSE 0
Counted(d, o) == IF o = "unreachable" THEN streak[d] + 1 ELSE 0
OverTooLate(d, o) == o = "ready" \/ Counted(d, o) > Threshold \/ late[d]
OverNoDeadline(d, o) == o = "ready" \/ Counted(d, o) = Threshold
Over(d, o) == o = "ready" \/ Counted(d, o) = Threshold \/ late[d]

Poll(d) ==
  /\ stage[d] = "poll"
  /\ \E o \in Outcome(d) :
       /\ stage' = [stage EXCEPT ![d] = IF Over(d, o) THEN "copy" ELSE "poll"]
       /\ streak' = [streak EXCEPT ![d] = IF Over(d, o) THEN 0 ELSE Counted(d, o)]
       /\ heard' = [heard EXCEPT ![d] =
            IF o # "unreachable" THEN 0 ELSE IF @ = Threshold THEN @ ELSE @ + 1]
  /\ UNCHANGED <<row, late, quiet>>

(* The clock: maxWait is over. *)
Deadline(d) ==
  /\ stage[d] = "poll" /\ ~late[d]
  /\ late' = [late EXCEPT ![d] = TRUE]
  /\ UNCHANGED <<row, stage, streak, heard, quiet>>

(* rsync and VERSION; what the wait counted is forgotten. *)
Copy(d) ==
  /\ Goes(d, "copy", IF d \in Own THEN "hand over" ELSE "restart")
  /\ home' = d
  /\ streak' = [streak EXCEPT ![d] = 0] /\ late' = [late EXCEPT ![d] = FALSE]
  /\ heard' = [heard EXCEPT ![d] = 0]
  /\ UNCHANGED <<row, proc, born, pidfile, flag, id,
                 file, upgrader, handling, deaths, lsof, scripts>>

(* executeDeploy fails: FinishDeploy and, deferred, Clear -- if this deploy *)
(* is the one that the drain of its own process names.                      *)
Fail(d) ==
  /\ stage[d] \in {"notify", "copy", "hand over", "restart", "health"}
  /\ stage[d] = "restart" => pc[d] = "failed"
  /\ row' = [row EXCEPT ![d] = "done"]
  /\ stage' = [stage EXCEPT ![d] = IF d \in Own /\ flag /\ id = d THEN "lower" ELSE "none"]
  /\ pc' = [a \in Actor |-> IF a = d THEN "done" ELSE pc[a]]
  /\ UNCHANGED <<streak, late, heard, server, file, upgrader, handling, deaths, lsof, victim, faced>>
ClearFlag(d) ==
  /\ Goes(d, "lower", "forget")
  /\ flag' = FALSE
  /\ UNCHANGED <<row, streak, late, heard, proc, born, pidfile, home, id,
                 file, upgrader, handling, deaths, lsof, scripts>>
ClearId(d) ==
  /\ Goes(d, "forget", "none")
  /\ id' = None
  /\ UNCHANGED <<row, streak, late, heard, proc, born, pidfile, home, flag,
                 file, upgrader, handling, deaths, lsof, scripts>>

(* enqueueACPUpgrade, when the upgrader is alive; its rename is atomic.     *)
HandOver(d) ==
  /\ upgrader # "down" /\ Goes(d, "hand over", "handed")
  /\ file' = [file EXCEPT ![d] = "pending"]
  /\ UNCHANGED <<row, streak, late, heard, server, upgrader, handling, deaths, lsof, scripts>>

(* The other plane: runDeployRestart, then health. *)
RemoteRestart(d) ==
  /\ stage[d] = "restart" /\ pc[d] = "idle"
  /\ pc' = [pc EXCEPT ![d] = "platform"]
  /\ UNCHANGED <<deploys, server, file, upgrader, handling, deaths, lsof, victim, faced>>
RemoteRestarted(d) ==
  /\ pc[d] = "ok" /\ Goes(d, "restart", "health")
  /\ pc' = [pc EXCEPT ![d] = "done"]
  /\ UNCHANGED <<row, streak, late, heard, server, file, upgrader, handling, deaths, lsof, victim, faced>>
RemoteHealthy(d) ==
  /\ Up /\ Goes(d, "health", "none")
  /\ row' = [row EXCEPT ![d] = "done"]
  /\ UNCHANGED <<streak, late, heard, quiet>>

Executing(d) ==
  \/ Notify(d) \/ NotifyId(d) \/ NotifyFails(d) \/ Poll(d) \/ Copy(d) \/ Fail(d)
  \/ ClearFlag(d) \/ ClearId(d)
  \/ (d \in Own /\ HandOver(d))
  \/ (d \in Foreign /\ (RemoteRestart(d) \/ RemoteRestarted(d) \/ RemoteHealthy(d)))

-----------------------------------------------------------------------------
(* scripts/stop.sh and start.sh, a step per look at the world.  Only lsof   *)
(* tells who has the port: without it nothing is done by port.  An orphan   *)
(* has lost its upgrader, and the pipe that it writes to: its next echo     *)
(* ends it.                                                                 *)

Script(a, from, to) == pc[a] = from /\ pc' = [pc EXCEPT ![a] = to]
still == <<row, streak, late, heard, born, home, file, upgrader, handling, deaths, lsof>>

(* platformStopScript: only the port says who the plane is (its own pid     *)
(* file has another name).                                                  *)
PlatformStop(a) ==
  /\ Script(a, "platform", "stop")
  /\ IF Up /\ lsof THEN \E p \in Listening : Die(p) ELSE UNCHANGED <<proc, stage, flag, id>>
  /\ UNCHANGED <<still, pidfile, victim, faced>>

StopByPidfile(a) ==
  /\ pc[a] = "stop"
  /\ faced' = [faced EXCEPT ![a] = IF a \in Orphan THEN {} ELSE Listening]
  /\ IF Alive(pidfile)
     THEN /\ Term(pidfile) /\ victim' = [victim EXCEPT ![a] = pidfile]
          /\ pc' = [pc EXCEPT ![a] = "kill"] /\ UNCHANGED pidfile
     ELSE /\ pc' = [pc EXCEPT ![a] = "port"] /\ pidfile' = 0
          /\ victim' = [victim EXCEPT ![a] = 0]
          /\ UNCHANGED <<proc, stage, flag, id>>
  /\ UNCHANGED still

(* kill_pid: it is gone by itself, or SIGKILL; and the pid file is removed,  *)
(* unless the echo in between was the last of an orphan.                    *)
Kill(a) ==
  /\ Script(a, "kill", "port")
  /\ IF Alive(victim[a]) THEN Die(victim[a]) ELSE UNCHANGED <<proc, stage, flag, id>>
  /\ pidfile' = 0 \/ (a \in Orphan /\ UNCHANGED pidfile)
  /\ UNCHANGED <<still, victim, faced>>

StopByPortNever(a) ==
  /\ a \notin Orphan /\ Script(a, "port", "stopped")
  /\ UNCHANGED <<still, proc, stage, flag, id, pidfile, victim, faced>>
(* The pid file may be stale: whoever listens is stopped too. *)
StopByPort(a) ==
  /\ a \notin Orphan /\ pc[a] = "port"
  /\ IF Up /\ lsof
     THEN \E p \in Listening :
            /\ Term(p) /\ victim' = [victim EXCEPT ![a] = p]
            /\ pc' = [pc EXCEPT ![a] = "kill listener"]
     ELSE /\ pc' = [pc EXCEPT ![a] = "stopped"] /\ victim' = [victim EXCEPT ![a] = 0]
          /\ UNCHANGED <<proc, stage, flag, id>>
  /\ UNCHANGED <<still, pidfile, faced>>
KillListener(a) ==
  /\ Script(a, "kill listener", IF a \in Orphan THEN "port" ELSE "stopped")
  /\ IF Alive(victim[a]) THEN Die(victim[a]) ELSE UNCHANGED <<proc, stage, flag, id>>
  /\ victim' = IF a \in Orphan THEN victim ELSE [victim EXCEPT ![a] = 0]
  /\ UNCHANGED <<still, pidfile, faced>>

StartByPidfile(a) ==
  /\ pc[a] = "stopped"
  /\ IF Alive(pidfile)
     THEN pc' = [pc EXCEPT ![a] = "ok"] /\ UNCHANGED pidfile     (* already running *)
     ELSE pc' = [pc EXCEPT ![a] = "free"] /\ pidfile' = 0
  /\ faced' = [faced EXCEPT ![a] = {}]
  /\ UNCHANGED <<still, proc, stage, flag, id, victim>>
(* Without a server to start, or with somebody on the port: exit 1. *)
StartRefuses(a) ==
  /\ (Up /\ lsof) \/ home \in NoServer
  /\ Script(a, "free", "failed")
  /\ UNCHANGED <<still, proc, stage, flag, id, pidfile, victim, faced>>
Spawn(a) ==
  /\ ~(Up /\ lsof) /\ home \notin NoServer /\ born < MaxStarts
  /\ Script(a, "free", "spawned")
  /\ born' = born + 1
  /\ proc' = [proc EXCEPT ![born + 1] = "boot"]
  /\ victim' = [victim EXCEPT ![a] = born + 1]
  /\ UNCHANGED <<row, streak, late, heard, home, file, upgrader, handling, deaths, lsof,
                 stage, flag, id, pidfile, faced>>
WritePidfile(a) ==
  /\ Script(a, "spawned", "written")
  /\ pidfile' = victim[a]
  /\ UNCHANGED <<still, proc, stage, flag, id, victim, faced>>
(* 0.6 s later: is the process of the pid file alive? *)
StartLooks(a) ==
  /\ pc[a] = "written"
  /\ IF Alive(pidfile)
     THEN pc' = [pc EXCEPT ![a] = "ok"] /\ UNCHANGED pidfile
     ELSE pc' = [pc EXCEPT ![a] = "failed"] /\ pidfile' = 0
  /\ victim' = [victim EXCEPT ![a] = 0]
  /\ UNCHANGED <<still, proc, stage, flag, id, faced>>

(* An orphan's start.sh may not have begun as its upgrader died; nobody     *)
(* waits for its exit code.                                                 *)
OrphanEnds(a) ==
  /\ a \in Orphan /\ pc[a] \in {"stop", "port", "stopped", "ok", "failed"}
  /\ pc' = [pc EXCEPT ![a] = "idle"]
  /\ UNCHANGED <<still, proc, stage, flag, id, pidfile, victim, faced>>
(* A stop of the other plane may not arrive over ssh: it goes on to start.  *)
StopLost(a) ==
  /\ a \in Foreign
  /\ Script(a, "platform", "stop") \/ Script(a, "stop", "stopped")
  /\ victim' = [victim EXCEPT ![a] = 0] /\ faced' = [faced EXCEPT ![a] = {}]
  /\ UNCHANGED <<still, proc, stage, flag, id, pidfile>>

Scripts(a) ==
  \/ PlatformStop(a) \/ StopByPidfile(a) \/ Kill(a) \/ StopByPort(a) \/ KillListener(a)
  \/ StartByPidfile(a) \/ StartRefuses(a) \/ Spawn(a) \/ WritePidfile(a) \/ StartLooks(a)
  \/ OrphanEnds(a) \/ StopLost(a)

-----------------------------------------------------------------------------
(* src/main.go: the pid file, the port (or death), and only then -- after   *)
(* the rows of the previous process are settled -- the workers.             *)
Boot(p) ==
  /\ proc[p] = "boot"
  /\ pidfile' = p
  /\ proc' = [proc EXCEPT ![p] = IF Up THEN "dead" ELSE "serving"]
  /\ UNCHANGED <<row, streak, late, heard, stage, born, home, flag, id,
                 file, upgrader, handling, deaths, lsof, scripts>>
(* reconcileOrphanDeploys settles what the table calls running. *)
Reconcile(p) ==
  /\ proc[p] = "serving"
  /\ proc' = [proc EXCEPT ![p] = "working"]
  /\ row' = [d \in Deploy |-> IF row[d] = "running" THEN "done" ELSE row[d]]
  /\ UNCHANGED <<streak, late, heard, stage, born, pidfile, home, flag, id,
                 file, upgrader, handling, deaths, lsof, scripts>>

-----------------------------------------------------------------------------
(* upgrader/main.go *)

Handle(d) ==
  /\ upgrader = "idle" /\ file[d] = "pending" /\ home \notin NoServer
  /\ upgrader' = "busy" /\ handling' = d
  /\ pc' = [pc EXCEPT ![Upgrader] = "stop"]
  /\ UNCHANGED <<deploys, server, deaths, lsof, victim, faced>>
TakeRemoves(d) == Handle(d) /\ file' = [file EXCEPT ![d] = "done"]
(* handleRequest: there is a server to start, so stop.sh may run. *)
Take(d) == Handle(d) /\ UNCHANGED file

SetAsideKeeps(d) ==
  /\ upgrader' = "idle" /\ handling' = None
  /\ pc' = [pc EXCEPT ![Upgrader] = "idle"]
  /\ UNCHANGED file
(* An error sets the request aside as .bad. *)
SetAside(d) ==
  /\ file' = [file EXCEPT ![d] = "bad"]
  /\ upgrader' = "idle" /\ handling' = None
  /\ pc' = [pc EXCEPT ![Upgrader] = "idle"]
Reject(d) ==
  /\ upgrader = "idle" /\ file[d] = "pending" /\ home \in NoServer
  /\ SetAside(d)
  /\ UNCHANGED <<deploys, server, deaths, lsof, victim, faced>>
(* start.sh failed, or nobody answers /health for 30 seconds. *)
GiveUp(d) ==
  /\ handling = d
  /\ pc[Upgrader] = "failed" \/ (pc[Upgrader] = "ok" /\ ~Up)
  /\ SetAside(d)
  /\ UNCHANGED <<deploys, server, deaths, lsof, victim, faced>>
(* Healthy: write .done, remove the request. *)
Activated(d) ==
  /\ handling = d /\ pc[Upgrader] = "ok" /\ Up
  /\ file' = [file EXCEPT ![d] = "done"]
  /\ upgrader' = "idle" /\ handling' = None
  /\ pc' = [pc EXCEPT ![Upgrader] = "idle"]
  /\ UNCHANGED <<deploys, server, deaths, lsof, victim, faced>>

(* It may die at any step and is started again by upgrader-start.sh.  The   *)
(* script it ran goes on, beside those of the next upgrader.                *)
UpgraderDies ==
  /\ upgrader # "down"
  /\ upgrader' = "down" /\ handling' = None
  /\ \E o \in Orphan \ deaths :
       /\ deaths' = deaths \cup {o}
       /\ pc' = [pc EXCEPT ![o] = pc[Upgrader], ![Upgrader] = "idle"]
       /\ victim' = [victim EXCEPT ![o] = victim[Upgrader], ![Upgrader] = 0]
  /\ faced' = [faced EXCEPT ![Upgrader] = {}]
  /\ UNCHANGED <<deploys, server, file, lsof>>
UpgraderStarts ==
  /\ upgrader = "down" /\ upgrader' = "idle"
  /\ UNCHANGED <<deploys, server, file, handling, deaths, lsof, scripts>>

Upgrades(d) == Take(d) \/ Reject(d) \/ GiveUp(d) \/ Activated(d)

-----------------------------------------------------------------------------
Next ==
  \/ \E d \in Deploy : Claim(d) \/ Executing(d) \/ Deadline(d)
  \/ \E a \in Actor : Scripts(a)
  \/ \E p \in Pid : Boot(p) \/ Reconcile(p) \/ ShutDown(p)
  \/ \E d \in Own : Upgrades(d)
  \/ UpgraderDies \/ UpgraderStarts

Spec == Init /\ [][Next]_vars

(* Goroutines, scripts and processes run, the clock goes on, tickers tick,  *)
(* and an upgrader that died is started again.                              *)
Fairness ==
  /\ \A d \in Deploy : WF_vars(Claim(d)) /\ WF_vars(Executing(d)) /\ WF_vars(Deadline(d))
  /\ \A a \in Actor : WF_vars(Scripts(a))
  /\ WF_vars(\E p \in Pid : Boot(p) \/ Reconcile(p) \/ ShutDown(p))
  /\ WF_vars(\E d \in Own : Upgrades(d)) /\ WF_vars(UpgraderStarts)
FairSpec == Spec /\ Fairness

-----------------------------------------------------------------------------
(* When stop.sh is through, nobody who listened as it began still does,     *)
(* whatever the pid file said and whoever else started or stopped servers   *)
(* meanwhile: "ensuring the port is actually freed" (scripts/stop.sh) -- if *)
(* there is lsof; else only the process that the pid file named is gone,    *)
(* and behind a stale one the old server keeps the port.                    *)
StopFreesPort ==
  [][\A a \in Actor \ Orphan :
       (pc[a] # "stopped" /\ pc'[a] = "stopped")
       => \A p \in faced'[a] :
            (lsof \/ p = victim[a]) => proc'[p] \notin {"serving", "working", "stopping"}]_vars

(* A graceful wait that has started to poll is cut short only before its    *)
(* deadline by three polls in a row without an answer: an answer of any     *)
(* kind starts the count again (waitForGracefulRestartVia).                 *)
CutShortOnlyWhenDown ==
  [][\A d \in Deploy :
       (stage[d] = "poll" /\ stage'[d] = "copy" /\ ~late[d] /\ ~Ready(d))
       => heard'[d] = Threshold]_vars

(* Every graceful wait ends, also when two deploys of one plane count each  *)
(* other as work in flight, or one lowers the drain of the other: there is  *)
(* the deadline (waitForGracefulRestartVia).                                *)
WaitEnds ==
  \A d \in Deploy : []<>(stage[d] \notin {"notify", "notified", "poll"})

(* A request outlives the death of the upgrader at any step: it is carried   *)
(* out again until it is answered with .done or .bad, so that the plane it   *)
(* may have stopped runs again, and its row is settled by the process it     *)
(* starts -- unless the request was set aside or a package without a server  *)
(* was put in place (processOnce, handleRequest, main).  Without lsof the    *)
(* row may also stay as it is, although the answer is .done: the old server  *)
(* listens on, unnamed by the pid file (the header of scripts/stop.sh); and  *)
(* the stop.sh that a dead upgrader left may stop the server that the next   *)
(* upgrader has started, before it reconciles.                               *)
Shot == (\E o \in deaths : victim[o] # 0) /\ \A p \in Pid : ~Alive(p)
Unnamed == ~lsof /\ Up /\ pidfile \notin Listening
HandedOverSettles ==
  \A d \in Own :
    /\ (stage[d] = "handed" /\ row[d] = "running")
       ~> (row[d] = "done" \/ file[d] = "bad" \/ home \in NoServer
           \/ Unnamed \/ (file[d] = "done" /\ Shot))
    /\ (file[d] = "pending") ~> (file[d] \in {"done", "bad"})
=============================================================================
