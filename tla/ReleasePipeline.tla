---------------------------- MODULE ReleasePipeline ---------------------------
(***************************************************************************)
(* The release side of the control plane (src/pipeline_worker.go, the rows *)
(* of src/pipeline_store.go) and the graceful restart of a plane that      *)
(* deploys itself (src/graceful_drain.go, GET /restart/poll in             *)
(* src/server.go), on top of the deploy queue.                             *)
(*                                                                         *)
(* A pipeline is packaged by the plane that claims it, becomes a row of    *)
(* the deploy queue, and is closed when that row has its verdict.  A plane *)
(* that is notified of its own restart takes no new work and is restarted  *)
(* once its poll handler, which reads the tables one after the other, sees *)
(* nothing in flight.  The deploys themselves are seen through DeployQueue,*)
(* the specification that DeployWorker implements.                         *)
(***************************************************************************)

EXTENDS Naturals, FiniteSets

CONSTANTS
  Plane, Deploy, NoPlane,   (* as in DeployQueue                           *)
  Pipeline,     (* pipeline ids; each is also the deploy id it tries first *)
  Posted,       (* bound: ids that callers of POST /api/deploys choose     *)
  SelfDeploy,   (* deploys whose target is the plane that executes them    *)
  NoDeploy, NoPipeline,
  Operator,     (* whoever calls POST /api/deploys                         *)
  MaxCrashes,   (* bound: crashes in one behaviour                         *)
  MaxWait       (* may gracefulRestartMaxWaitMs elapse?                    *)

ASSUME NameAssumption ==
  /\ Pipeline \cup Posted \cup SelfDeploy \subseteq Deploy
  /\ NoDeploy \notin Deploy /\ NoPipeline \notin Pipeline
  /\ NoPlane \notin Plane /\ Operator \notin Pipeline
ASSUME BoundAssumption == MaxCrashes \in Nat /\ MaxWait \in BOOLEAN

VARIABLES
  row, worker,  (* the deploy queue                                        *)
  origin,       (* deploys.deployment: whose package the row deploys       *)
  pipe,         (* pipelines.state, "absent" before the INSERT             *)
  link          (* pipelines.deploy_request_id                             *)
tableVars == <<row, worker, origin, pipe, link>>

VARIABLES
  up,           (* the process runs                                        *)
  orphans,      (* running rows its start-up has yet to close              *)
  crashes,
  draining,     (* GracefulDrain: restartID, NoDeploy when not draining    *)
  candidate,    (* of the deploy tick, past its drain check                *)
  wait          (* per deploy: "no", where the poll handler is, "ready"    *)
planeVars == <<up, orphans, crashes, draining, candidate, wait>>

VARIABLES
  step,         (* where PipelineWorker.tick is; "idle" = not busy         *)
  job,          (* the pipeline it looks at                                *)
  target,       (* the deploy id it is about to insert                     *)
  sync          (* <<pipeline, verdict>> syncDeploying is about to write   *)
workVars == <<step, job, target, sync>>

vars == <<tableVars, planeVars, workVars>>

Queue == INSTANCE DeployQueue
Terminal == Queue!Terminal
PipeState == {"absent", "queued", "packaging", "deploying"} \cup Terminal

(* ticking: past the drain check; selected: a queued row was read;          *)
(* packaging: the row is ours; enqueueing: state deploying, no deploy yet;  *)
(* chosen: the deploy id is known; created: the deploy row exists.          *)
Step == {"idle", "ticking", "selected", "packaging", "enqueueing", "chosen", "created"}
Polling == {"asked", "deploysSeen", "packagingSeen"}

TablesOK ==
  /\ row \in [Deploy -> {"absent", "queued", "running"} \cup Terminal]
  /\ worker \in [Deploy -> Plane \cup {NoPlane}]
  /\ origin \in [Deploy -> Pipeline \cup {Operator}]
  /\ pipe \in [Pipeline -> PipeState]
  /\ link \in [Pipeline -> Deploy \cup {NoDeploy}]

PlanesOK ==
  /\ up \in [Plane -> BOOLEAN]
  /\ orphans \in [Plane -> SUBSET Deploy]
  /\ crashes \in Nat
  /\ draining \in [Plane -> Deploy \cup {NoDeploy}]
  /\ candidate \in [Plane -> Deploy \cup {NoDeploy}]
  /\ wait \in [Deploy -> {"no", "ready"} \cup Polling]

WorkOK ==
  /\ step \in [Plane -> Step]
  /\ job \in [Plane -> Pipeline \cup {NoPipeline}]
  /\ target \in [Plane -> Deploy \cup {NoDeploy}]
  /\ sync \in [Plane -> SUBSET (Pipeline \X Terminal)]

(* Rows, planes and workers hold what the code stores. *)
TypeOK == TablesOK /\ PlanesOK /\ WorkOK

Init ==
  /\ Queue!Init
  /\ origin = [d \in Deploy |-> Operator]
  /\ pipe = [i \in Pipeline |-> "absent"]
  /\ link = [i \in Pipeline |-> NoDeploy]
  /\ up = [p \in Plane |-> TRUE]
  /\ orphans = [p \in Plane |-> {}]
  /\ crashes = 0
  /\ draining = [p \in Plane |-> NoDeploy]
  /\ candidate = [p \in Plane |-> NoDeploy]
  /\ wait = [d \in Deploy |-> "no"]
  /\ step = [p \in Plane |-> "idle"]
  /\ job = [p \in Plane |-> NoPipeline]
  /\ target = [p \in Plane |-> NoDeploy]
  /\ sync = [p \in Plane |-> {}]

Started(p) == up[p] /\ orphans[p] = {}

-----------------------------------------------------------------------------
(* Requests. *)

(* POST /api/deploy-notify *)
CreatePipeline(i) ==
  /\ pipe[i] = "absent"
  /\ pipe' = [pipe EXCEPT ![i] = "queued"]
  /\ UNCHANGED <<row, worker, origin, link, planeVars, workVars>>

(* POST /api/deploys, whose caller may choose any id that no deploy has,    *)
(* that of a pipeline included.                                             *)
PostDeploy(d) ==
  /\ Queue!Submit(d)
  /\ UNCHANGED <<origin, pipe, link, planeVars, workVars>>

-----------------------------------------------------------------------------
(* PipelineWorker.tick and execute *)

Go(p, from, to) ==
  /\ step[p] = from
  /\ step' = [step EXCEPT ![p] = to]

(* Back to idle: execute returns and busy is reset. *)
Return(p, from) ==
  /\ Go(p, from, "idle")
  /\ job' = [job EXCEPT ![p] = NoPipeline]
  /\ target' = [target EXCEPT ![p] = NoDeploy]

(* busy and the drain are tested under one lock; the claim comes later. *)
TickStart(p) ==
  /\ Started(p)
  /\ draining[p] = NoDeploy
  /\ Go(p, "idle", "ticking")
  /\ UNCHANGED <<tableVars, planeVars, job, target, sync>>

(* ClaimNextPipeline's SELECT: a queued row (the oldest; nothing here       *)
(* depends on the order), or none any more.                                 *)
Select(p) ==
  \/ /\ Go(p, "ticking", "selected")
     /\ \E i \in Pipeline : pipe[i] = "queued" /\ job' = [job EXCEPT ![p] = i]
     /\ UNCHANGED <<tableVars, planeVars, target, sync>>
  \/ /\ Return(p, "ticking")
     /\ \A i \in Pipeline : pipe[i] # "queued"
     /\ UNCHANGED <<tableVars, planeVars, sync>>

ClaimUnconditional(p) ==
  /\ Go(p, "selected", "packaging")
  /\ pipe' = [pipe EXCEPT ![job[p]] = "packaging"]
  /\ UNCHANGED <<row, worker, origin, link, planeVars, job, target, sync>>
(* ... and its UPDATE, which decides between two planes. *)
Claim(p) ==
  /\ Go(p, "selected", "packaging")
  /\ pipe[job[p]] = "queued"
  /\ pipe' = [pipe EXCEPT ![job[p]] = "packaging"]
  /\ UNCHANGED <<row, worker, origin, link, planeVars, job, target, sync>>

ClaimLost(p) ==
  /\ Return(p, "selected")
  /\ pipe[job[p]] # "queued"
  /\ UNCHANGED <<tableVars, planeVars, sync>>

PackageCancelled(p) ==
  /\ Return(p, "packaging")
  /\ pipe' = [pipe EXCEPT ![job[p]] = "cancelled"]
  /\ UNCHANGED <<row, worker, origin, link, planeVars, sync>>
(* failPipeline: no contract, no repository, or packaging failed. *)
PackageFails(p) ==
  /\ Return(p, "packaging")
  /\ pipe' = [pipe EXCEPT ![job[p]] = "failed"]
  /\ UNCHANGED <<row, worker, origin, link, planeVars, sync>>

PackagedLinksEarly(p) ==
  /\ Go(p, "packaging", "enqueueing")
  /\ pipe' = [pipe EXCEPT ![job[p]] = "deploying"]
  /\ link' = [link EXCEPT ![job[p]] = job[p]]
  /\ UNCHANGED <<row, worker, origin, planeVars, job, target, sync>>
(* The first UpdatePipeline: deploying, without a deploy. *)
Packaged(p) ==
  /\ Go(p, "packaging", "enqueueing")
  /\ pipe' = [pipe EXCEPT ![job[p]] = "deploying"]
  /\ UNCHANGED <<row, worker, origin, link, planeVars, job, target, sync>>

(* The pipeline's own id when no deploy has it, else a random one that      *)
(* nobody else ever chooses.                                                *)
ChooseId(p) ==
  /\ Go(p, "enqueueing", "chosen")
  /\ \E d \in Deploy :
       /\ IF row[job[p]] = "absent" THEN d = job[p]
          ELSE /\ d \notin Pipeline \cup Posted
               /\ row[d] = "absent" /\ \A q \in Plane : target[q] # d
       /\ target' = [target EXCEPT ![p] = d]
  /\ UNCHANGED <<tableVars, planeVars, job, sync>>

InsertIgnoresConflict(p) ==
  /\ Go(p, "chosen", "created")
  /\ \/ Queue!Submit(target[p]) /\ origin' = [origin EXCEPT ![target[p]] = job[p]]
     \/ row[target[p]] # "absent" /\ UNCHANGED <<row, worker, origin>>
  /\ UNCHANGED <<pipe, link, planeVars, job, target, sync>>
Insert(p) ==
  /\ Go(p, "chosen", "created")
  /\ Queue!Submit(target[p])
  /\ origin' = [origin EXCEPT ![target[p]] = job[p]]
  /\ UNCHANGED <<pipe, link, planeVars, job, target, sync>>

(* Somebody took the id first: the primary key refuses the row. *)
InsertFails(p) ==
  /\ Return(p, "chosen")
  /\ row[target[p]] # "absent"
  /\ pipe' = [pipe EXCEPT ![job[p]] = "failed"]
  /\ UNCHANGED <<row, worker, origin, link, planeVars, sync>>

(* The second UpdatePipeline; it writes the state again. *)
Link(p) ==
  /\ Return(p, "created")
  /\ pipe' = [pipe EXCEPT ![job[p]] = "deploying"]
  /\ link' = [link EXCEPT ![job[p]] = target[p]]
  /\ UNCHANGED <<row, worker, origin, planeVars, sync>>

PipelineTick(p) ==
  \/ TickStart(p) \/ Select(p) \/ Claim(p) \/ ClaimLost(p)
  \/ PackageFails(p) \/ Packaged(p)
  \/ ChooseId(p) \/ Insert(p) \/ InsertFails(p) \/ Link(p)

-----------------------------------------------------------------------------
(* syncDeploying, in the ticker's goroutine (a tick may run beside it). *)

SyncReadUnlinked(p, i) ==
  /\ Started(p)
  /\ sync[p] = {}
  /\ pipe[i] = "deploying" /\ row[i] \in Terminal
  /\ sync' = [sync EXCEPT ![p] = {<<i, row[i]>>}]
  /\ UNCHANGED <<tableVars, planeVars, step, job, target>>
(* A linked pipeline whose deploy has a verdict; the others are left for    *)
(* the next second.                                                         *)
SyncRead(p, i) ==
  /\ Started(p)
  /\ sync[p] = {}
  /\ pipe[i] = "deploying" /\ link[i] # NoDeploy
  /\ row[link[i]] \in Terminal
  /\ sync' = [sync EXCEPT ![p] = {<<i, row[link[i]]>>}]
  /\ UNCHANGED <<tableVars, planeVars, step, job, target>>

(* The UPDATE that closes the pipeline, whatever its state is by now. *)
SyncWrite(p) ==
  \E c \in sync[p] :
    /\ pipe' = [pipe EXCEPT ![c[1]] = c[2]]
    /\ sync' = [sync EXCEPT ![p] = {}]
    /\ UNCHANGED <<row, worker, origin, link, planeVars, step, job, target>>

Sync(p) == SyncWrite(p) \/ \E i \in Pipeline : SyncRead(p, i)

-----------------------------------------------------------------------------
(* The deploy worker, as DeployQueue sees it.  Hand-backs to a plane of    *)
(* another platform are left to DeployWorker: all planes are alike here.    *)

DeployScanDraining(p) ==
  /\ Started(p)
  /\ candidate[p] = NoDeploy
  /\ \E d \in Deploy :
       row[d] = "queued" /\ candidate' = [candidate EXCEPT ![p] = d]
  /\ UNCHANGED <<tableVars, up, orphans, crashes, draining, wait, workVars>>
(* tick looks at the drain before each candidate of its snapshot ...        *)
DeployScan(p) ==
  /\ Started(p)
  /\ candidate[p] = NoDeploy
  /\ draining[p] = NoDeploy
  /\ \E d \in Deploy :
       row[d] = "queued" /\ candidate' = [candidate EXCEPT ![p] = d]
  /\ UNCHANGED <<tableVars, up, orphans, crashes, draining, wait, workVars>>

(* ... and claims it after that, unless another plane did. *)
DeployClaim(p) ==
  /\ candidate[p] # NoDeploy
  /\ candidate' = [candidate EXCEPT ![p] = NoDeploy]
  /\ \/ Queue!Claim(candidate[p], p)
     \/ row[candidate[p]] # "queued" /\ UNCHANGED <<row, worker>>
  /\ UNCHANGED <<origin, pipe, link, up, orphans, crashes, draining, wait, workVars>>

DeployEndKeepsDrain(p, d) ==
  /\ worker[d] = p
  /\ wait[d] \in {"no", "ready"}
  /\ \E verdict \in Terminal :
       /\ d \in SelfDeploy => verdict = "failed"
       /\ Queue!Finish(d, verdict, NoPlane)
  /\ wait' = [wait EXCEPT ![d] = "no"]
  /\ UNCHANGED <<origin, pipe, link, up, orphans, crashes, draining, candidate, workVars>>
(* executeDeploy ends: verdict, then the deferred Clear when the plane      *)
(* still drains for this very deploy.                                       *)
DeployEnd(p, d) ==
  /\ worker[d] = p
  /\ wait[d] \in {"no", "ready"}
  /\ \E verdict \in Terminal :
       /\ d \in SelfDeploy => verdict = "failed"
       /\ Queue!Finish(d, verdict, NoPlane)
  /\ wait' = [wait EXCEPT ![d] = "no"]
  /\ draining' = [draining EXCEPT ![p] = IF @ = d THEN NoDeploy ELSE @]
  /\ UNCHANGED <<origin, pipe, link, up, orphans, crashes, candidate, workVars>>

-----------------------------------------------------------------------------
(* A plane deploys itself. *)

(* POST /restart/notify to itself.  The reservation of the home directory   *)
(* keeps two of them apart.                                                 *)
Notify(p, d) ==
  /\ d \in SelfDeploy /\ worker[d] = p
  /\ \A e \in SelfDeploy : worker[e] = p => wait[e] = "no"
  /\ wait' = [wait EXCEPT ![d] = "asked"]
  /\ draining' = [draining EXCEPT ![p] = d]
  /\ UNCHANGED <<tableVars, up, orphans, crashes, candidate, workVars>>

(* GET /restart/poll.  First the running deploys, but for the one that      *)
(* restarts ...                                                             *)
OtherDeploys(p) == {d \in Deploy \ {draining[p]} : row[d] = "running"}
(* ... then the pipelines being packaged ...                                *)
Packaging == {i \in Pipeline : pipe[i] = "packaging"}
(* ... then those whose deploy has started: queued ones do not count.       *)
InFlightCountsQueued(p) ==
  {i \in Pipeline : /\ pipe[i] = "deploying"
                    /\ draining[p] \notin {i, link[i]}}
InFlight(p) ==
  {i \in Pipeline : /\ pipe[i] = "deploying" /\ link[i] # NoDeploy
                    /\ draining[p] \notin {i, link[i]}
                    /\ row[link[i]] = "running"}

(* One read of the handler: a quiet one leads on, any other ends the poll.  *)
PollRead(d, from, quiet, to) ==
  /\ wait[d] = from
  /\ wait' = [wait EXCEPT ![d] = IF quiet THEN to ELSE "asked"]
Poll(p, d) ==
  /\ draining[p] = d
  /\ \/ PollRead(d, "asked", OtherDeploys(p) = {}, "deploysSeen")
     \/ PollRead(d, "deploysSeen", Packaging \ {d} = {}, "packagingSeen")
     \/ PollRead(d, "packagingSeen", InFlight(p) = {}, "ready")
  /\ UNCHANGED <<tableVars, up, orphans, crashes, draining, candidate, workVars>>

(* The deadline of the wait: restart whatever is in flight. *)
Deadline(p, d) ==
  /\ MaxWait
  /\ draining[p] = d
  /\ wait[d] \in Polling
  /\ wait' = [wait EXCEPT ![d] = "ready"]
  /\ UNCHANGED <<tableVars, up, orphans, crashes, draining, candidate, workVars>>

(* The process of p is gone with everything it kept in memory. *)
Kill(p) ==
  LET mine == {d \in Deploy : worker[d] = p} IN
  /\ up[p]
  /\ up' = [up EXCEPT ![p] = FALSE]
  /\ Queue!Abandon(mine)
  /\ wait' = [d \in Deploy |-> IF d \in mine THEN "no" ELSE wait[d]]
  /\ draining' = [draining EXCEPT ![p] = NoDeploy]
  /\ candidate' = [candidate EXCEPT ![p] = NoDeploy]
  /\ orphans' = [orphans EXCEPT ![p] = {}]
  /\ step' = [step EXCEPT ![p] = "idle"]
  /\ job' = [job EXCEPT ![p] = NoPipeline]
  /\ target' = [target EXCEPT ![p] = NoDeploy]
  /\ sync' = [sync EXCEPT ![p] = {}]
  /\ UNCHANGED <<origin, pipe, link>>

(* The hand-off: acp-upgrader stops the process. *)
Restart(p, d) ==
  /\ draining[p] = d /\ wait[d] = "ready"
  /\ Kill(p)
  /\ UNCHANGED crashes

Crash(p) ==
  /\ crashes < MaxCrashes
  /\ crashes' = crashes + 1
  /\ Kill(p)

(* main: list the running rows, close each, then start the workers. *)
Boot(p) ==
  /\ ~up[p]
  /\ up' = [up EXCEPT ![p] = TRUE]
  /\ orphans' = [orphans EXCEPT ![p] = {d \in Deploy : row[d] = "running"}]
  /\ UNCHANGED <<tableVars, crashes, draining, candidate, wait, workVars>>

Reconcile(p, d) ==
  /\ d \in orphans[p]
  /\ orphans' = [orphans EXCEPT ![p] = @ \ {d}]
  /\ \E verdict \in Terminal : Queue!Finish(d, verdict, worker[d])
  /\ UNCHANGED <<origin, pipe, link, up, crashes, draining, candidate, wait, workVars>>

-----------------------------------------------------------------------------
DeployWork(p) == DeployScan(p) \/ DeployClaim(p)
Execution(p, d) == DeployEnd(p, d) \/ Notify(p, d) \/ Poll(p, d) \/ Deadline(p, d) \/ Restart(p, d)
StartUp(p) == Boot(p) \/ \E d \in Deploy : Reconcile(p, d)

Next ==
  \/ \E i \in Pipeline : CreatePipeline(i)
  \/ \E d \in Posted : PostDeploy(d)
  \/ \E p \in Plane :
       \/ PipelineTick(p) \/ Sync(p) \/ DeployWork(p) \/ StartUp(p) \/ Crash(p)
       \/ \E d \in Deploy : Execution(p, d)

Spec == Init /\ [][Next]_vars

(* Tickers and goroutines keep running; requests and crashes are free. *)
Fairness ==
  \A p \in Plane :
    /\ WF_vars(PipelineTick(p)) /\ WF_vars(Sync(p))
    /\ WF_vars(DeployWork(p)) /\ WF_vars(StartUp(p))
    /\ \A d \in Deploy : WF_vars(Execution(p, d))
FairSpec == Spec /\ Fairness

-----------------------------------------------------------------------------
(* A pipeline is packaged and enqueued by one plane only (the UPDATE of     *)
(* ClaimNextPipeline), so it never becomes two deploys.                     *)
OnePackager ==
  \A i \in Pipeline, p, q \in Plane :
    (job[p] = i /\ job[q] = i /\ {step[p], step[q]} \cap {"ticking", "selected"} = {}) => p = q

(* The deploy a pipeline waits for installs the package it built, also when *)
(* a caller of POST /api/deploys took the pipeline's id for its own deploy. *)
WaitsForItsPackage ==
  \A i \in Pipeline : link[i] # NoDeploy => origin[link[i]] = i

(* A pipeline that was closed stays closed, although its executor writes    *)
(* the state twice around the INSERT and every plane synchronises it.       *)
PipelineVerdictIsFinal ==
  [][\A i \in Pipeline : pipe[i] \in Terminal => pipe'[i] \in Terminal]_vars

(* No pipeline is closed before the deploy it stands for. *)
ClosedAfterDeploy ==
  \A i \in Pipeline : (pipe[i] \in Terminal /\ link[i] # NoDeploy) => row[link[i]] \in Terminal

(* Nobody will write this pipeline again: its executor died. *)
Stranded(i) ==
  /\ pipe[i] = "packaging" \/ (pipe[i] = "deploying" /\ link[i] = NoDeploy)
  /\ \A p \in Plane : job[p] # i

(* Every accepted pipeline is closed, unless the plane that packaged it     *)
(* died under it.                                                           *)
PipelineSettles ==
  \A i \in Pipeline : (pipe[i] = "queued") ~> (pipe[i] \in Terminal \/ Stranded(i))

(* The poll of a draining plane becomes ready without waiting for the       *)
(* deadline: drain and queue do not wait on each other (handleRestartPoll). *)
DrainBecomesReady ==
  \A d \in Deploy : (wait[d] \in Polling) ~> (wait[d] \notin Polling)

(* What p executes and the table calls running: a start-up elsewhere may     *)
(* have closed a row under its executor, and then no poll handler sees it.  *)
Executing(p) == {e \in Deploy : worker[e] = p /\ row[e] = "running"}

(* The drain is tested before a claim and the claim is its own step, so a   *)
(* restart may hit a deploy that started after the poll had found none; but *)
(* no more than the one whose claim was under way when the plane was told   *)
(* (tick, handleRestartPoll).                                               *)
OneSlipsPast ==
  \A p \in Plane, d \in SelfDeploy :
    (draining[p] = d /\ wait[d] \in {"deploysSeen", "packagingSeen"})
    => \A e, f \in Executing(p) \ {d} : e = f
=============================================================================
