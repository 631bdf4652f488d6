------------------------ MODULE ReleasePipelineProofs ------------------------
(* Proofs about ReleasePipeline, for every number of planes, pipelines and  *)
(* deploys and whatever ids the callers choose.                             *)
EXTENDS ReleasePipeline, TLAPS

-----------------------------------------------------------------------------
(* The inductive invariant. *)

Owning == {"packaging", "enqueueing", "chosen", "created"}

(* A worker past its claim owns the pipeline, alone, and the row says how   *)
(* far it is.                                                               *)
JobIs ==
  \A p \in Plane :
    /\ step[p] \in {"idle", "ticking"} => job[p] = NoPipeline
    /\ step[p] \notin {"idle", "ticking"} => job[p] \in Pipeline
    /\ step[p] = "packaging" => pipe[job[p]] = "packaging"
    /\ step[p] \in Owning \ {"packaging"} =>
         pipe[job[p]] = "deploying" /\ link[job[p]] = NoDeploy
Apart ==
  \A p, q \in Plane :
    (p # q /\ step[p] \in Owning /\ step[q] \in Owning) => job[p] # job[q]

(* The deploy of a pipeline exists and carries its package. *)
TargetIs ==
  \A p \in Plane :
    /\ step[p] \in {"chosen", "created"} => target[p] \in Deploy
    /\ step[p] = "created" => row[target[p]] # "absent" /\ origin[target[p]] = job[p]
LinkIs ==
  \A i \in Pipeline : link[i] # NoDeploy =>
    /\ pipe[i] \in {"deploying"} \cup Terminal
    /\ row[link[i]] # "absent" /\ origin[link[i]] = i

(* Who is about to close a pipeline has seen the verdict of its deploy. *)
SyncIs ==
  \A p \in Plane : \A c \in sync[p] :
    link[c[1]] # NoDeploy /\ row[link[c[1]]] \in Terminal

PInv == TypeOK /\ JobIs /\ Apart /\ TargetIs /\ LinkIs /\ SyncIs /\ ClosedAfterDeploy

-----------------------------------------------------------------------------
(* Steps that leave the pipelines and their workers alone. *)

workerVars == <<origin, pipe, link, step, job, target, sync>>

(* No step of the queue takes a row away or reopens it. *)
RowsGrow ==
  \A d \in Deploy :
    /\ row[d] # "absent" => row'[d] # "absent"
    /\ row[d] \in Terminal => row'[d] \in Terminal

LEMMA SubmitGrows ==
  ASSUME TypeOK, NEW d \in Deploy, Queue!Submit(d)
  PROVE  /\ RowsGrow /\ row' \in [Deploy -> {"absent", "queued", "running"} \cup Terminal]
         /\ row' = [row EXCEPT ![d] = "queued"] /\ row[d] = "absent"
         /\ worker' = worker
BY DEF TypeOK, TablesOK, RowsGrow, Terminal, Queue!Terminal, Queue!Submit

LEMMA ClaimGrows ==
  ASSUME TypeOK, NEW d \in Deploy, NEW p \in Plane, Queue!Claim(d, p)
  PROVE  /\ RowsGrow /\ row' \in [Deploy -> {"absent", "queued", "running"} \cup Terminal]
         /\ worker' \in [Deploy -> Plane \cup {NoPlane}]
BY DEF TypeOK, TablesOK, RowsGrow, Terminal, Queue!Terminal, Queue!Claim

LEMMA FinishGrows ==
  ASSUME TypeOK, NEW d \in Deploy, NEW verdict \in Terminal,
         NEW q \in Plane \cup {NoPlane}, Queue!Finish(d, verdict, q)
  PROVE  /\ RowsGrow /\ row' \in [Deploy -> {"absent", "queued", "running"} \cup Terminal]
         /\ worker' \in [Deploy -> Plane \cup {NoPlane}]
BY DEF TypeOK, TablesOK, RowsGrow, Terminal, Queue!Terminal, Queue!Finish

LEMMA QuietKeeps ==
  ASSUME PInv, UNCHANGED workerVars, RowsGrow, TypeOK'
  PROVE  PInv'
<1>1. JobIs' /\ Apart'
  BY DEF PInv, workerVars, JobIs, Apart
<1>2. TargetIs'
  <2>1. \A p \in Plane : step[p] = "created" => target[p] \in Deploy /\ row'[target[p]] # "absent"
    BY DEF PInv, TargetIs, RowsGrow
  <2>2. QED
    BY <2>1 DEF PInv, workerVars, TargetIs
<1>3. \A i \in Pipeline : link[i] # NoDeploy => link[i] \in Deploy
  BY DEF PInv, TypeOK, TablesOK
<1>4. LinkIs'
  BY <1>3 DEF PInv, workerVars, LinkIs, RowsGrow
<1>5. SyncIs'
  <2>1. \A p \in Plane : \A c \in sync[p] : c[1] \in Pipeline
    BY DEF PInv, TypeOK, WorkOK
  <2>2. QED
    BY <1>3, <2>1 DEF PInv, workerVars, SyncIs, RowsGrow
<1>6. ClosedAfterDeploy'
  BY <1>3 DEF PInv, workerVars, ClosedAfterDeploy, RowsGrow
<1>7. QED
  BY <1>1, <1>2, <1>4, <1>5, <1>6 DEF PInv

LEMMA PostDeployKeeps ==
  ASSUME PInv, NEW d \in Deploy, PostDeploy(d)
  PROVE  PInv'
<1>1. Queue!Submit(d)
  BY DEF PostDeploy
<1>2. RowsGrow /\ worker' = worker
      /\ row' \in [Deploy -> {"absent", "queued", "running"} \cup Terminal]
  BY <1>1, SubmitGrows DEF PInv
<1>3. TypeOK' /\ UNCHANGED workerVars
  BY <1>2 DEF PInv, PostDeploy, workerVars, planeVars, workVars, TypeOK, TablesOK, PlanesOK, WorkOK
<1>4. QED
  BY <1>2, <1>3, QuietKeeps

LEMMA DeployWorkKeeps ==
  ASSUME PInv, NEW p \in Plane, DeployWork(p)
  PROVE  PInv'
<1>1. CASE DeployScan(p)
  <2>1. TypeOK'
    BY <1>1 DEF PInv, DeployScan, tableVars, workVars, TypeOK, TablesOK, PlanesOK, WorkOK
  <2>2. RowsGrow /\ UNCHANGED workerVars
    BY <1>1 DEF DeployScan, tableVars, workVars, workerVars, RowsGrow
  <2>3. QED
    BY <2>1, <2>2, QuietKeeps
<1>2. CASE DeployClaim(p)
  <2>1. candidate[p] \in Deploy
    BY <1>2 DEF PInv, TypeOK, PlanesOK, DeployClaim
  <2>2. /\ RowsGrow /\ row' \in [Deploy -> {"absent", "queued", "running"} \cup Terminal]
        /\ worker' \in [Deploy -> Plane \cup {NoPlane}]
    <3>1. CASE Queue!Claim(candidate[p], p)
      BY <2>1, <3>1, ClaimGrows DEF PInv
    <3>2. CASE UNCHANGED <<row, worker>>
      BY <3>2 DEF PInv, TypeOK, TablesOK, RowsGrow
    <3>3. QED
      BY <1>2, <3>1, <3>2 DEF DeployClaim
  <2>3. TypeOK' /\ UNCHANGED workerVars
    BY <1>2, <2>2 DEF PInv, DeployClaim, workerVars, workVars, TypeOK, TablesOK, PlanesOK, WorkOK
  <2>4. QED
    BY <2>2, <2>3, QuietKeeps
<1>3. QED
  BY <1>1, <1>2 DEF DeployWork

(* The process is gone: nobody on p owns or closes a pipeline any more. *)
LEMMA KillKeeps ==
  ASSUME PInv, NEW p \in Plane, Kill(p), crashes' \in Nat
  PROVE  PInv'
<1>1. TypeOK'
  <2>1. worker' \in [Deploy -> Plane \cup {NoPlane}] /\ row' = row
    BY DEF PInv, TypeOK, TablesOK, Kill, Queue!Abandon
  <2>2. TablesOK'
    BY <2>1 DEF PInv, TypeOK, TablesOK, Kill
  <2>3. PlanesOK'
    BY DEF PInv, TypeOK, PlanesOK, Kill
  <2>4. WorkOK'
    BY DEF PInv, TypeOK, WorkOK, Kill, Step
  <2>5. QED
    BY <2>2, <2>3, <2>4 DEF TypeOK
<1>2. /\ step' = [step EXCEPT ![p] = "idle"]
      /\ job' = [job EXCEPT ![p] = NoPipeline]
      /\ target' = [target EXCEPT ![p] = NoDeploy]
      /\ sync' = [sync EXCEPT ![p] = {}]
      /\ UNCHANGED <<row, origin, pipe, link>>
  BY DEF Kill, Queue!Abandon
<1>3. /\ step'[p] = "idle" /\ job'[p] = NoPipeline /\ sync'[p] = {}
      /\ \A q \in Plane \ {p} : /\ step'[q] = step[q] /\ job'[q] = job[q]
                               /\ target'[q] = target[q] /\ sync'[q] = sync[q]
  BY <1>2 DEF PInv, TypeOK, WorkOK
<1>4. JobIs'
  BY <1>2, <1>3 DEF PInv, JobIs, Owning
<1>5. Apart'
  BY <1>3 DEF PInv, Apart, Owning
<1>6. TargetIs'
  BY <1>2, <1>3 DEF PInv, TargetIs
<1>7. SyncIs'
  BY <1>2, <1>3 DEF PInv, SyncIs
<1>8. LinkIs' /\ ClosedAfterDeploy'
  BY <1>2 DEF PInv, LinkIs, ClosedAfterDeploy
<1>9. QED
  BY <1>1, <1>4, <1>5, <1>6, <1>7, <1>8 DEF PInv

LEMMA ExecutionKeeps ==
  ASSUME PInv, NEW p \in Plane, NEW d \in Deploy, Execution(p, d)
  PROVE  PInv'
<1>1. CASE DeployEnd(p, d)
  <2>1. PICK verdict \in Terminal : Queue!Finish(d, verdict, NoPlane)
    BY <1>1 DEF DeployEnd
  <2>2. /\ RowsGrow /\ row' \in [Deploy -> {"absent", "queued", "running"} \cup Terminal]
        /\ worker' \in [Deploy -> Plane \cup {NoPlane}]
    BY <2>1, FinishGrows DEF PInv
  <2>3. TypeOK' /\ UNCHANGED workerVars
    BY <1>1, <2>2 DEF PInv, DeployEnd, workerVars, workVars, TypeOK, TablesOK, PlanesOK, WorkOK
  <2>4. QED
    BY <2>2, <2>3, QuietKeeps
<1>2. CASE Notify(p, d) \/ Poll(p, d) \/ Deadline(p, d)
  <2>1. RowsGrow /\ UNCHANGED workerVars /\ TablesOK' /\ WorkOK'
    BY <1>2 DEF PInv, TypeOK, TablesOK, WorkOK, Notify, Poll, Deadline, tableVars, workVars, workerVars, RowsGrow
  <2>2. PlanesOK'
    BY <1>2 DEF PInv, TypeOK, PlanesOK, Notify, Poll, PollRead, Deadline, Polling
  <2>3. QED
    BY <2>1, <2>2, QuietKeeps DEF TypeOK
<1>3. CASE Restart(p, d)
  BY <1>3, KillKeeps DEF Restart, PInv, TypeOK, PlanesOK
<1>4. QED
  BY <1>1, <1>2, <1>3 DEF Execution

LEMMA ProcessKeeps ==
  ASSUME PInv, NEW p \in Plane, StartUp(p) \/ Crash(p)
  PROVE  PInv'
<1>1. CASE Crash(p)
  <2>1. crashes' \in Nat
    BY <1>1, SMT DEF PInv, TypeOK, PlanesOK, Crash
  <2>2. QED
    BY <1>1, <2>1, KillKeeps DEF Crash
<1>2. CASE Boot(p)
  <2>1. RowsGrow /\ UNCHANGED workerVars /\ TypeOK'
    BY <1>2 DEF PInv, TypeOK, TablesOK, PlanesOK, WorkOK, Boot, tableVars, workVars, workerVars, RowsGrow
  <2>2. QED
    BY <2>1, QuietKeeps
<1>3. ASSUME NEW d \in Deploy, Reconcile(p, d)
      PROVE  PInv'
  <2>1. PICK verdict \in Terminal : Queue!Finish(d, verdict, worker[d])
    BY <1>3 DEF Reconcile
  <2>2. worker[d] \in Plane \cup {NoPlane}
    BY DEF PInv, TypeOK, TablesOK
  <2>3. /\ RowsGrow /\ row' \in [Deploy -> {"absent", "queued", "running"} \cup Terminal]
        /\ worker' \in [Deploy -> Plane \cup {NoPlane}]
    BY <2>1, <2>2, FinishGrows DEF PInv
  <2>4. TypeOK' /\ UNCHANGED workerVars
    BY <1>3, <2>3 DEF PInv, Reconcile, workerVars, workVars, TypeOK, TablesOK, PlanesOK, WorkOK
  <2>5. QED
    BY <2>3, <2>4, QuietKeeps
<1>4. QED
  BY <1>1, <1>2, <1>3 DEF StartUp
-----------------------------------------------------------------------------
(* Steps of the pipelines: one lemma per action, one step per conjunct. *)

(* The tick before its claim owns nothing. *)
LEMMA TickStartKeeps ==
  ASSUME PInv, NEW p \in Plane, TickStart(p)
  PROVE  PInv'
<1>1. TypeOK'
  BY NameAssumption DEF PInv, TypeOK, TablesOK, PlanesOK, WorkOK, PipeState, Step, Terminal, Queue!Terminal, TickStart, planeVars, Go, Return, tableVars
<1>2. JobIs'
  BY NameAssumption DEF PInv, TypeOK, TablesOK, WorkOK, JobIs, Apart, LinkIs, Owning, Terminal, Queue!Terminal, TickStart, planeVars, Go, Return, tableVars
<1>3. Apart'
  BY DEF PInv, TypeOK, TablesOK, WorkOK, JobIs, Apart, Owning, TickStart, planeVars, Go, Return, tableVars
<1>4. TargetIs'
  BY DEF PInv, TypeOK, TablesOK, WorkOK, TargetIs, TickStart, planeVars, Go, Return, tableVars
<1>5. LinkIs'
  BY DEF PInv, TypeOK, TablesOK, WorkOK, JobIs, TargetIs, LinkIs, Owning, Terminal, Queue!Terminal, TickStart, planeVars, Go, Return, tableVars
<1>6. SyncIs'
  BY DEF PInv, TypeOK, TablesOK, WorkOK, JobIs, SyncIs, Owning, TickStart, planeVars, Go, Return, tableVars
<1>7. ClosedAfterDeploy'
  BY DEF PInv, TypeOK, TablesOK, WorkOK, JobIs, LinkIs, Owning, ClosedAfterDeploy, Terminal, Queue!Terminal, TickStart, planeVars, Go, Return, tableVars
<1>8. QED
  BY <1>1, <1>2, <1>3, <1>4, <1>5, <1>6, <1>7 DEF PInv

(* ... nor when it has read a row or found none. *)
LEMMA SelectKeeps ==
  ASSUME PInv, NEW p \in Plane, Select(p)
  PROVE  PInv'
<1>1. TypeOK'
  BY NameAssumption DEF PInv, TypeOK, TablesOK, PlanesOK, WorkOK, PipeState, Step, Terminal, Queue!Terminal, Select, planeVars, Go, Return, tableVars
<1>2. JobIs'
  BY NameAssumption DEF PInv, TypeOK, TablesOK, WorkOK, JobIs, Apart, LinkIs, Owning, Terminal, Queue!Terminal, Select, planeVars, Go, Return, tableVars
<1>3. Apart'
  BY DEF PInv, TypeOK, TablesOK, WorkOK, JobIs, Apart, Owning, Select, planeVars, Go, Return, tableVars
<1>4. TargetIs'
  BY DEF PInv, TypeOK, TablesOK, WorkOK, TargetIs, Select, planeVars, Go, Return, tableVars
<1>5. LinkIs'
  BY DEF PInv, TypeOK, TablesOK, WorkOK, JobIs, TargetIs, LinkIs, Owning, Terminal, Queue!Terminal, Select, planeVars, Go, Return, tableVars
<1>6. SyncIs'
  BY DEF PInv, TypeOK, TablesOK, WorkOK, JobIs, SyncIs, Owning, Select, planeVars, Go, Return, tableVars
<1>7. ClosedAfterDeploy'
  BY DEF PInv, TypeOK, TablesOK, WorkOK, JobIs, LinkIs, Owning, ClosedAfterDeploy, Terminal, Queue!Terminal, Select, planeVars, Go, Return, tableVars
<1>8. QED
  BY <1>1, <1>2, <1>3, <1>4, <1>5, <1>6, <1>7 DEF PInv

(* The guarded UPDATE: nobody owned a queued row. *)
LEMMA ClaimKeeps ==
  ASSUME PInv, NEW p \in Plane, Claim(p)
  PROVE  PInv'
<1>1. TypeOK'
  BY NameAssumption DEF PInv, TypeOK, TablesOK, PlanesOK, WorkOK, PipeState, Step, Terminal, Queue!Terminal, Claim, planeVars, Go
<1>2. JobIs'
  BY NameAssumption DEF PInv, TypeOK, TablesOK, WorkOK, JobIs, Apart, LinkIs, Owning, Terminal, Queue!Terminal, Claim, planeVars, Go
<1>3. Apart'
  BY DEF PInv, TypeOK, TablesOK, WorkOK, JobIs, Apart, Owning, Claim, planeVars, Go
<1>4. TargetIs'
  BY DEF PInv, TypeOK, TablesOK, WorkOK, TargetIs, Claim, planeVars, Go
<1>5. LinkIs'
  BY DEF PInv, TypeOK, TablesOK, WorkOK, JobIs, TargetIs, LinkIs, Owning, Terminal, Queue!Terminal, Claim, planeVars, Go
<1>6. SyncIs'
  BY DEF PInv, TypeOK, TablesOK, WorkOK, JobIs, SyncIs, Owning, Claim, planeVars, Go
<1>7. ClosedAfterDeploy'
  BY DEF PInv, TypeOK, TablesOK, WorkOK, JobIs, LinkIs, Owning, ClosedAfterDeploy, Terminal, Queue!Terminal, Claim, planeVars, Go
<1>8. QED
  BY <1>1, <1>2, <1>3, <1>4, <1>5, <1>6, <1>7 DEF PInv

(* The row went to another plane. *)
LEMMA ClaimLostKeeps ==
  ASSUME PInv, NEW p \in Plane, ClaimLost(p)
  PROVE  PInv'
<1>1. TypeOK'
  BY NameAssumption DEF PInv, TypeOK, TablesOK, PlanesOK, WorkOK, PipeState, Step, Terminal, Queue!Terminal, ClaimLost, planeVars, Go, Return, tableVars
<1>2. JobIs'
  BY NameAssumption DEF PInv, TypeOK, TablesOK, WorkOK, JobIs, Apart, LinkIs, Owning, Terminal, Queue!Terminal, ClaimLost, planeVars, Go, Return, tableVars
<1>3. Apart'
  BY DEF PInv, TypeOK, TablesOK, WorkOK, JobIs, Apart, Owning, ClaimLost, planeVars, Go, Return, tableVars
<1>4. TargetIs'
  BY DEF PInv, TypeOK, TablesOK, WorkOK, TargetIs, ClaimLost, planeVars, Go, Return, tableVars
<1>5. LinkIs'
  BY DEF PInv, TypeOK, TablesOK, WorkOK, JobIs, TargetIs, LinkIs, Owning, Terminal, Queue!Terminal, ClaimLost, planeVars, Go, Return, tableVars
<1>6. SyncIs'
  BY DEF PInv, TypeOK, TablesOK, WorkOK, JobIs, SyncIs, Owning, ClaimLost, planeVars, Go, Return, tableVars
<1>7. ClosedAfterDeploy'
  BY DEF PInv, TypeOK, TablesOK, WorkOK, JobIs, LinkIs, Owning, ClosedAfterDeploy, Terminal, Queue!Terminal, ClaimLost, planeVars, Go, Return, tableVars
<1>8. QED
  BY <1>1, <1>2, <1>3, <1>4, <1>5, <1>6, <1>7 DEF PInv

(* failPipeline: the row was ours alone and had no deploy. *)
LEMMA PackageFailsKeeps ==
  ASSUME PInv, NEW p \in Plane, PackageFails(p)
  PROVE  PInv'
<1>1. TypeOK'
  BY NameAssumption DEF PInv, TypeOK, TablesOK, PlanesOK, WorkOK, PipeState, Step, Terminal, Queue!Terminal, PackageFails, planeVars, Go, Return
<1>2. JobIs'
  BY NameAssumption DEF PInv, TypeOK, TablesOK, WorkOK, JobIs, Apart, LinkIs, Owning, Terminal, Queue!Terminal, PackageFails, planeVars, Go, Return
<1>3. Apart'
  BY DEF PInv, TypeOK, TablesOK, WorkOK, JobIs, Apart, Owning, PackageFails, planeVars, Go, Return
<1>4. TargetIs'
  BY DEF PInv, TypeOK, TablesOK, WorkOK, TargetIs, PackageFails, planeVars, Go, Return
<1>5. LinkIs'
  BY DEF PInv, TypeOK, TablesOK, WorkOK, JobIs, TargetIs, LinkIs, Owning, Terminal, Queue!Terminal, PackageFails, planeVars, Go, Return
<1>6. SyncIs'
  BY DEF PInv, TypeOK, TablesOK, WorkOK, JobIs, SyncIs, Owning, PackageFails, planeVars, Go, Return
<1>7. ClosedAfterDeploy'
  BY DEF PInv, TypeOK, TablesOK, WorkOK, JobIs, LinkIs, Owning, ClosedAfterDeploy, Terminal, Queue!Terminal, PackageFails, planeVars, Go, Return
<1>8. QED
  BY <1>1, <1>2, <1>3, <1>4, <1>5, <1>6, <1>7 DEF PInv

(* From packaging to deploying, without a deploy. *)
LEMMA PackagedKeeps ==
  ASSUME PInv, NEW p \in Plane, Packaged(p)
  PROVE  PInv'
<1>1. TypeOK'
  BY NameAssumption DEF PInv, TypeOK, TablesOK, PlanesOK, WorkOK, PipeState, Step, Terminal, Queue!Terminal, Packaged, planeVars, Go
<1>2. JobIs'
  BY NameAssumption DEF PInv, TypeOK, TablesOK, WorkOK, JobIs, Apart, LinkIs, Owning, Terminal, Queue!Terminal, Packaged, planeVars, Go
<1>3. Apart'
  BY DEF PInv, TypeOK, TablesOK, WorkOK, JobIs, Apart, Owning, Packaged, planeVars, Go
<1>4. TargetIs'
  BY DEF PInv, TypeOK, TablesOK, WorkOK, TargetIs, Packaged, planeVars, Go
<1>5. LinkIs'
  BY DEF PInv, TypeOK, TablesOK, WorkOK, JobIs, TargetIs, LinkIs, Owning, Terminal, Queue!Terminal, Packaged, planeVars, Go
<1>6. SyncIs'
  BY DEF PInv, TypeOK, TablesOK, WorkOK, JobIs, SyncIs, Owning, Packaged, planeVars, Go
<1>7. ClosedAfterDeploy'
  BY DEF PInv, TypeOK, TablesOK, WorkOK, JobIs, LinkIs, Owning, ClosedAfterDeploy, Terminal, Queue!Terminal, Packaged, planeVars, Go
<1>8. QED
  BY <1>1, <1>2, <1>3, <1>4, <1>5, <1>6, <1>7 DEF PInv

(* Only the target is chosen. *)
LEMMA ChooseIdKeeps ==
  ASSUME PInv, NEW p \in Plane, ChooseId(p)
  PROVE  PInv'
<1>1. TypeOK'
  BY NameAssumption DEF PInv, TypeOK, TablesOK, PlanesOK, WorkOK, PipeState, Step, Terminal, Queue!Terminal, ChooseId, planeVars, Go, tableVars
<1>2. JobIs'
  BY NameAssumption DEF PInv, TypeOK, TablesOK, WorkOK, JobIs, Apart, LinkIs, Owning, Terminal, Queue!Terminal, ChooseId, planeVars, Go, tableVars
<1>3. Apart'
  BY DEF PInv, TypeOK, TablesOK, WorkOK, JobIs, Apart, Owning, ChooseId, planeVars, Go, tableVars
<1>4. TargetIs'
  BY DEF PInv, TypeOK, TablesOK, WorkOK, TargetIs, ChooseId, planeVars, Go, tableVars
<1>5. LinkIs'
  BY DEF PInv, TypeOK, TablesOK, WorkOK, JobIs, TargetIs, LinkIs, Owning, Terminal, Queue!Terminal, ChooseId, planeVars, Go, tableVars
<1>6. SyncIs'
  BY DEF PInv, TypeOK, TablesOK, WorkOK, JobIs, SyncIs, Owning, ChooseId, planeVars, Go, tableVars
<1>7. ClosedAfterDeploy'
  BY DEF PInv, TypeOK, TablesOK, WorkOK, JobIs, LinkIs, Owning, ClosedAfterDeploy, Terminal, Queue!Terminal, ChooseId, planeVars, Go, tableVars
<1>8. QED
  BY <1>1, <1>2, <1>3, <1>4, <1>5, <1>6, <1>7 DEF PInv

(* The new row is nobody's deploy yet. *)
LEMMA InsertKeeps ==
  ASSUME PInv, NEW p \in Plane, Insert(p)
  PROVE  PInv'
<1>1. TypeOK'
  <2>1. target[p] \in Deploy /\ job[p] \in Pipeline
    BY DEF PInv, JobIs, TargetIs, Insert, Go
  <2>2. /\ row' \in [Deploy -> {"absent", "queued", "running"} \cup Terminal]
        /\ worker' = worker
    BY <2>1, SubmitGrows DEF PInv, Insert
  <2>3. TablesOK'
    BY <2>1, <2>2 DEF PInv, TypeOK, TablesOK, Insert
  <2>4. PlanesOK' /\ WorkOK'
    BY DEF PInv, TypeOK, PlanesOK, WorkOK, Step, Insert, Go, planeVars
  <2>5. QED
    BY <2>3, <2>4 DEF TypeOK
<1>2. JobIs'
  BY NameAssumption DEF PInv, TypeOK, TablesOK, WorkOK, JobIs, Apart, LinkIs, Owning, Terminal, Queue!Terminal, Insert, planeVars, Go, Queue!Submit
<1>3. Apart'
  BY DEF PInv, TypeOK, TablesOK, WorkOK, JobIs, Apart, Owning, Insert, planeVars, Go, Queue!Submit
<1>4. TargetIs'
  BY DEF PInv, TypeOK, TablesOK, WorkOK, TargetIs, Insert, planeVars, Go, Queue!Submit
<1>5. LinkIs'
  BY DEF PInv, TypeOK, TablesOK, WorkOK, JobIs, TargetIs, LinkIs, Owning, Terminal, Queue!Terminal, Insert, planeVars, Go, Queue!Submit
<1>6. SyncIs'
  <2>1. SUFFICES ASSUME NEW q \in Plane, NEW c \in sync[q]
                 PROVE  link[c[1]] # NoDeploy /\ row'[link[c[1]]] \in Terminal
    BY DEF SyncIs, Insert
  <2>2. c[1] \in Pipeline /\ link[c[1]] # NoDeploy /\ row[link[c[1]]] \in Terminal
    BY <2>1 DEF PInv, TypeOK, WorkOK, SyncIs
  <2>3. link[c[1]] \in Deploy
    BY <2>2 DEF PInv, TypeOK, TablesOK
  <2>4. RowsGrow
    <3>1. target[p] \in Deploy
      BY DEF PInv, TargetIs, Insert, Go
    <3>2. QED
      BY <3>1, SubmitGrows DEF PInv, Insert
  <2>5. QED
    BY <2>2, <2>3, <2>4 DEF RowsGrow
<1>7. ClosedAfterDeploy'
  BY DEF PInv, TypeOK, TablesOK, WorkOK, JobIs, LinkIs, Owning, ClosedAfterDeploy, Terminal, Queue!Terminal, Insert, planeVars, Go, Queue!Submit
<1>8. QED
  BY <1>1, <1>2, <1>3, <1>4, <1>5, <1>6, <1>7 DEF PInv

(* The id was taken: closed without a deploy. *)
LEMMA InsertFailsKeeps ==
  ASSUME PInv, NEW p \in Plane, InsertFails(p)
  PROVE  PInv'
<1>1. TypeOK'
  BY NameAssumption DEF PInv, TypeOK, TablesOK, PlanesOK, WorkOK, PipeState, Step, Terminal, Queue!Terminal, InsertFails, planeVars, Go, Return
<1>2. JobIs'
  BY NameAssumption DEF PInv, TypeOK, TablesOK, WorkOK, JobIs, Apart, LinkIs, Owning, Terminal, Queue!Terminal, InsertFails, planeVars, Go, Return
<1>3. Apart'
  BY DEF PInv, TypeOK, TablesOK, WorkOK, JobIs, Apart, Owning, InsertFails, planeVars, Go, Return
<1>4. TargetIs'
  BY DEF PInv, TypeOK, TablesOK, WorkOK, TargetIs, InsertFails, planeVars, Go, Return
<1>5. LinkIs'
  BY DEF PInv, TypeOK, TablesOK, WorkOK, JobIs, TargetIs, LinkIs, Owning, Terminal, Queue!Terminal, InsertFails, planeVars, Go, Return
<1>6. SyncIs'
  BY DEF PInv, TypeOK, TablesOK, WorkOK, JobIs, SyncIs, Owning, InsertFails, planeVars, Go, Return
<1>7. ClosedAfterDeploy'
  BY DEF PInv, TypeOK, TablesOK, WorkOK, JobIs, LinkIs, Owning, ClosedAfterDeploy, Terminal, Queue!Terminal, InsertFails, planeVars, Go, Return
<1>8. QED
  BY <1>1, <1>2, <1>3, <1>4, <1>5, <1>6, <1>7 DEF PInv

(* The deploy that exists and carries the package becomes the pipeline's. *)
LEMMA LinkKeeps ==
  ASSUME PInv, NEW p \in Plane, Link(p)
  PROVE  PInv'
<1>1. TypeOK'
  BY NameAssumption DEF PInv, TypeOK, TablesOK, PlanesOK, WorkOK, PipeState, Step, Terminal, Queue!Terminal, Link, planeVars, Go, Return
<1>2. JobIs'
  BY NameAssumption DEF PInv, TypeOK, TablesOK, WorkOK, JobIs, Apart, LinkIs, Owning, Terminal, Queue!Terminal, Link, planeVars, Go, Return
<1>3. Apart'
  BY DEF PInv, TypeOK, TablesOK, WorkOK, JobIs, Apart, Owning, Link, planeVars, Go, Return
<1>4. TargetIs'
  BY DEF PInv, TypeOK, TablesOK, WorkOK, TargetIs, Link, planeVars, Go, Return
<1>5. LinkIs'
  BY DEF PInv, TypeOK, TablesOK, WorkOK, JobIs, TargetIs, LinkIs, Owning, Terminal, Queue!Terminal, Link, planeVars, Go, Return
<1>6. SyncIs'
  BY DEF PInv, TypeOK, TablesOK, WorkOK, JobIs, SyncIs, Owning, Link, planeVars, Go, Return
<1>7. ClosedAfterDeploy'
  BY DEF PInv, TypeOK, TablesOK, WorkOK, JobIs, LinkIs, Owning, ClosedAfterDeploy, Terminal, Queue!Terminal, Link, planeVars, Go, Return
<1>8. QED
  BY <1>1, <1>2, <1>3, <1>4, <1>5, <1>6, <1>7 DEF PInv

(* A verdict is read ... *)
LEMMA SyncReadKeeps ==
  ASSUME PInv, NEW p \in Plane, NEW i \in Pipeline, SyncRead(p, i)
  PROVE  PInv'
<1>1. TypeOK'
  BY NameAssumption DEF PInv, TypeOK, TablesOK, PlanesOK, WorkOK, PipeState, Step, Terminal, Queue!Terminal, SyncRead, planeVars, tableVars
<1>2. JobIs'
  BY NameAssumption DEF PInv, TypeOK, TablesOK, WorkOK, JobIs, Apart, LinkIs, Owning, Terminal, Queue!Terminal, SyncRead, planeVars, tableVars
<1>3. Apart'
  BY DEF PInv, TypeOK, TablesOK, WorkOK, JobIs, Apart, Owning, SyncRead, planeVars, tableVars
<1>4. TargetIs'
  BY DEF PInv, TypeOK, TablesOK, WorkOK, TargetIs, SyncRead, planeVars, tableVars
<1>5. LinkIs'
  BY DEF PInv, TypeOK, TablesOK, WorkOK, JobIs, TargetIs, LinkIs, Owning, Terminal, Queue!Terminal, SyncRead, planeVars, tableVars
<1>6. SyncIs'
  BY DEF PInv, TypeOK, TablesOK, WorkOK, JobIs, SyncIs, Owning, SyncRead, planeVars, tableVars
<1>7. ClosedAfterDeploy'
  BY DEF PInv, TypeOK, TablesOK, WorkOK, JobIs, LinkIs, Owning, ClosedAfterDeploy, Terminal, Queue!Terminal, SyncRead, planeVars, tableVars
<1>8. QED
  BY <1>1, <1>2, <1>3, <1>4, <1>5, <1>6, <1>7 DEF PInv

(* ... and written: no worker owns a pipeline that has a deploy. *)
LEMMA SyncWriteKeeps ==
  ASSUME PInv, NEW p \in Plane, SyncWrite(p)
  PROVE  PInv'
<1>1. TypeOK'
  BY NameAssumption DEF PInv, TypeOK, TablesOK, PlanesOK, WorkOK, PipeState, Step, Terminal, Queue!Terminal, SyncWrite, planeVars
<1>2. JobIs'
  <2>1. PICK c \in sync[p] : pipe' = [pipe EXCEPT ![c[1]] = c[2]]
    BY DEF SyncWrite
  <2>2. c[1] \in Pipeline /\ c[2] \in Terminal /\ link[c[1]] # NoDeploy
    BY <2>1 DEF PInv, TypeOK, WorkOK, SyncIs
  <2>3. pipe[c[1]] \in {"deploying"} \cup Terminal
    BY <2>2 DEF PInv, LinkIs
  <2>4. \A q \in Plane : step[q] \in Owning => job[q] # c[1]
    BY <2>2, <2>3 DEF PInv, JobIs, Owning, Terminal, Queue!Terminal
  <2>5. \A q \in Plane : step[q] \in Owning => pipe'[job[q]] = pipe[job[q]]
    BY <2>1, <2>2, <2>4 DEF PInv, TypeOK, TablesOK, JobIs, Owning
  <2>6. QED
    BY <2>5 DEF PInv, JobIs, Owning, SyncWrite
<1>3. Apart'
  BY DEF PInv, TypeOK, TablesOK, WorkOK, JobIs, Apart, Owning, SyncWrite, planeVars
<1>4. TargetIs'
  BY DEF PInv, TypeOK, TablesOK, WorkOK, TargetIs, SyncWrite, planeVars
<1>5. LinkIs'
  BY DEF PInv, TypeOK, TablesOK, WorkOK, JobIs, TargetIs, LinkIs, Owning, Terminal, Queue!Terminal, SyncWrite, planeVars
<1>6. SyncIs'
  BY DEF PInv, TypeOK, TablesOK, WorkOK, JobIs, SyncIs, Owning, SyncWrite, planeVars
<1>7. ClosedAfterDeploy'
  <2>1. PICK c \in sync[p] : pipe' = [pipe EXCEPT ![c[1]] = c[2]]
    BY DEF SyncWrite
  <2>2. c[1] \in Pipeline /\ row[link[c[1]]] \in Terminal
    BY <2>1 DEF PInv, TypeOK, WorkOK, SyncIs
  <2>3. \A i \in Pipeline : i # c[1] => pipe'[i] = pipe[i]
    BY <2>1, <2>2 DEF PInv, TypeOK, TablesOK
  <2>4. QED
    BY <2>2, <2>3 DEF PInv, ClosedAfterDeploy, SyncWrite
<1>8. QED
  BY <1>1, <1>2, <1>3, <1>4, <1>5, <1>6, <1>7 DEF PInv

(* The INSERT of a pipeline. *)
LEMMA CreatePipelineKeeps ==
  ASSUME PInv, NEW i \in Pipeline, CreatePipeline(i)
  PROVE  PInv'
<1>1. TypeOK'
  BY NameAssumption DEF PInv, TypeOK, TablesOK, PlanesOK, WorkOK, PipeState, Step, Terminal, Queue!Terminal, CreatePipeline, planeVars, workVars
<1>2. JobIs'
  BY NameAssumption DEF PInv, TypeOK, TablesOK, WorkOK, JobIs, Apart, LinkIs, Owning, Terminal, Queue!Terminal, CreatePipeline, planeVars, workVars
<1>3. Apart'
  BY DEF PInv, TypeOK, TablesOK, WorkOK, JobIs, Apart, Owning, CreatePipeline, planeVars, workVars
<1>4. TargetIs'
  BY DEF PInv, TypeOK, TablesOK, WorkOK, TargetIs, CreatePipeline, planeVars, workVars
<1>5. LinkIs'
  BY DEF PInv, TypeOK, TablesOK, WorkOK, JobIs, TargetIs, LinkIs, Owning, Terminal, Queue!Terminal, CreatePipeline, planeVars, workVars
<1>6. SyncIs'
  BY DEF PInv, TypeOK, TablesOK, WorkOK, JobIs, SyncIs, Owning, CreatePipeline, planeVars, workVars
<1>7. ClosedAfterDeploy'
  BY DEF PInv, TypeOK, TablesOK, WorkOK, JobIs, LinkIs, Owning, ClosedAfterDeploy, Terminal, Queue!Terminal, CreatePipeline, planeVars, workVars
<1>8. QED
  BY <1>1, <1>2, <1>3, <1>4, <1>5, <1>6, <1>7 DEF PInv

-----------------------------------------------------------------------------
(* The theorems. *)

LEMMA PInvInit == Init => PInv
<1>1. SUFFICES ASSUME Init PROVE PInv
  OBVIOUS
<1>2. TypeOK
  BY <1>1 DEF Init, Queue!Init, TypeOK, TablesOK, PlanesOK, WorkOK, PipeState, Step
<1>3. JobIs /\ Apart /\ TargetIs /\ LinkIs /\ SyncIs /\ ClosedAfterDeploy
  BY <1>1, NameAssumption DEF Init, PipeState, JobIs, Apart, TargetIs, LinkIs, SyncIs, ClosedAfterDeploy, Owning
<1>4. QED
  BY <1>2, <1>3 DEF PInv

LEMMA PInvStep == PInv /\ [Next]_vars => PInv'
<1>1. SUFFICES ASSUME PInv, [Next]_vars PROVE PInv'
  OBVIOUS
<1>2. ASSUME NEW i \in Pipeline, CreatePipeline(i) PROVE PInv'
  BY <1>1, <1>2, CreatePipelineKeeps
<1>3. ASSUME NEW d \in Posted, PostDeploy(d) PROVE PInv'
  BY <1>1, <1>3, PostDeployKeeps, NameAssumption
<1>4. ASSUME NEW p \in Plane, PipelineTick(p) PROVE PInv'
  BY <1>1, <1>4, TickStartKeeps, SelectKeeps, ClaimKeeps, ClaimLostKeeps, PackageFailsKeeps,
     PackagedKeeps, ChooseIdKeeps, InsertKeeps, InsertFailsKeeps, LinkKeeps DEF PipelineTick
<1>5. ASSUME NEW p \in Plane, Sync(p) PROVE PInv'
  BY <1>1, <1>5, SyncReadKeeps, SyncWriteKeeps DEF Sync
<1>6. ASSUME NEW p \in Plane, DeployWork(p) PROVE PInv'
  BY <1>1, <1>6, DeployWorkKeeps
<1>7. ASSUME NEW p \in Plane, StartUp(p) \/ Crash(p) PROVE PInv'
  BY <1>1, <1>7, ProcessKeeps
<1>8. ASSUME NEW p \in Plane, NEW d \in Deploy, Execution(p, d) PROVE PInv'
  BY <1>1, <1>8, ExecutionKeeps
<1>9. CASE UNCHANGED vars
  <2>1. UNCHANGED workerVars /\ RowsGrow
    BY <1>9 DEF vars, tableVars, workVars, workerVars, RowsGrow
  <2>2. TypeOK'
    BY <1>1, <1>9 DEF PInv, vars, tableVars, planeVars, workVars, TypeOK, TablesOK, PlanesOK, WorkOK
  <2>3. QED
    BY <1>1, <2>1, <2>2, QuietKeeps
<1>10. QED
  BY <1>1, <1>2, <1>3, <1>4, <1>5, <1>6, <1>7, <1>8, <1>9 DEF Next

LEMMA PInvAlways == Spec => []PInv
<1>1. QED
  BY PInvInit, PInvStep, PTL DEF Spec

(* Every column and every field keeps its type. *)
THEOREM PipelineTypes == Spec => []TypeOK
<1>1. PInv => TypeOK
  BY DEF PInv
<1>2. QED
  BY <1>1, PInvAlways, PTL

(* A pipeline is packaged by one plane, whatever planes select, claim and   *)
(* die (ClaimNextPipeline's guarded UPDATE).                                *)
THEOREM PackagedOnce == Spec => []OnePackager
<1>1. PInv => OnePackager
  <2>1. SUFFICES ASSUME PInv, NEW i \in Pipeline, NEW p \in Plane, NEW q \in Plane,
                        job[p] = i, job[q] = i,
                        {step[p], step[q]} \cap {"ticking", "selected"} = {}
                 PROVE  p = q
    BY DEF OnePackager
  <2>2. ASSUME NEW r \in Plane, job[r] = i, step[r] \notin {"ticking", "selected"}
        PROVE  step[r] \in Owning
    BY <2>1, <2>2, NameAssumption DEF PInv, TypeOK, WorkOK, Step, JobIs, Owning
  <2>3. QED
    BY <2>1, <2>2 DEF PInv, Apart
<1>2. QED
  BY <1>1, PInvAlways, PTL

(* The deploy a pipeline waits for carries the package it built. *)
THEOREM OwnPackage == Spec => []WaitsForItsPackage
<1>1. PInv => WaitsForItsPackage
  BY DEF PInv, LinkIs, WaitsForItsPackage
<1>2. QED
  BY <1>1, PInvAlways, PTL

(* No pipeline is closed while the deploy it stands for is open. *)
THEOREM ClosedInOrder == Spec => []ClosedAfterDeploy
<1>1. PInv => ClosedAfterDeploy
  BY DEF PInv
<1>2. QED
  BY <1>1, PInvAlways, PTL

(* A closed pipeline stays closed: every write to its state is by its owner *)
(* before it has a deploy, or by a synchronisation that closes it.          *)
THEOREM PipelineStaysClosed == Spec => PipelineVerdictIsFinal
<1>1. ASSUME PInv, [Next]_vars, NEW i \in Pipeline, pipe[i] \in Terminal
      PROVE  pipe'[i] \in Terminal
  <2>1. ASSUME NEW j \in Pipeline, CreatePipeline(j) PROVE pipe'[i] \in Terminal
    BY <1>1, <2>1 DEF PInv, TypeOK, TablesOK, CreatePipeline, Terminal, Queue!Terminal
  <2>2. ASSUME NEW p \in Plane, PipelineTick(p) PROVE pipe'[i] \in Terminal
    <3>1. CASE Claim(p)
      BY <1>1, <3>1 DEF PInv, TypeOK, TablesOK, Claim, Terminal, Queue!Terminal
    <3>2. CASE PackageFails(p) \/ InsertFails(p)
      BY <1>1, <3>2 DEF PInv, TypeOK, TablesOK, PackageFails, InsertFails, Terminal, Queue!Terminal
    <3>3. CASE Packaged(p) \/ Link(p)
      BY <1>1, <3>3 DEF PInv, TypeOK, TablesOK, JobIs, Owning, Packaged, Link, Go, Return, Terminal, Queue!Terminal
    <3>4. CASE UNCHANGED pipe
      BY <1>1, <3>4
    <3>5. QED
      BY <2>2, <3>1, <3>2, <3>3, <3>4 DEF PipelineTick, TickStart, Select, ClaimLost, ChooseId, Insert, tableVars
  <2>3. ASSUME NEW p \in Plane, SyncWrite(p) PROVE pipe'[i] \in Terminal
    BY <1>1, <2>3 DEF PInv, TypeOK, TablesOK, WorkOK, SyncWrite
  <2>4. CASE UNCHANGED pipe
    BY <1>1, <2>4
  <2>5. QED
    BY <1>1, <2>1, <2>2, <2>3, <2>4 DEF Next, PostDeploy, Sync, SyncRead, DeployWork, DeployScan,
       DeployClaim, StartUp, Boot, Reconcile, Crash, Kill, Execution, DeployEnd, Notify, Poll,
       Deadline, Restart, vars, tableVars
<1>2. PInv /\ [Next]_vars => [\A i \in Pipeline : pipe[i] \in Terminal => pipe'[i] \in Terminal]_vars
  BY <1>1
<1>3. QED
  BY <1>2, PInvAlways, PTL DEF Spec, PipelineVerdictIsFinal

-----------------------------------------------------------------------------
(* The drain.  A plane drains for a deploy that it executes; past the first *)
(* read of its poll handler it executes no other running deploy, but for    *)
(* the one claim that was already past its look at the drain.               *)
Seen == {"deploysSeen", "packagingSeen"}
DrainIs == \A p \in Plane, d \in Deploy : draining[p] = d => worker[d] = p
Quiet(p, d) ==
  /\ candidate[p] # NoDeploy => Executing(p) \subseteq {d}
  /\ \A e, f \in Executing(p) \ {d} : e = f
SlipIs == \A p \in Plane, d \in Deploy : draining[p] = d /\ wait[d] \in Seen => Quiet(p, d)
DInv == TypeOK /\ DrainIs /\ SlipIs

(* Nobody starts to execute, and whoever drains or waits did so before.     *)
Calmer ==
  /\ \A q \in Plane : Executing(q)' \subseteq Executing(q)
  /\ \A q \in Plane, d \in Deploy : draining'[q] = d =>
       /\ draining[q] = d /\ worker'[d] = worker[d]
       /\ wait'[d] \in Seen => wait[d] \in Seen
       /\ candidate'[q] = candidate[q]

LEMMA CalmerKeeps ==
  ASSUME DInv, Calmer, TypeOK'
  PROVE  DInv'
<1>1. DrainIs'
  BY DEF DInv, DrainIs, Calmer
<1>2. ASSUME NEW p \in Plane, NEW d \in Deploy, draining'[p] = d, wait'[d] \in Seen
      PROVE  Quiet(p, d)'
  <2>1. Quiet(p, d) /\ candidate'[p] = candidate[p] /\ Executing(p)' \subseteq Executing(p)
    BY <1>2 DEF DInv, SlipIs, Calmer
  <2>2. QED
    BY <2>1 DEF Quiet
<1>3. QED
  BY <1>1, <1>2 DEF DInv, SlipIs

(* Inserting a row, the pipelines and their synchronisation. *)
LEMMA SubmitCalm ==
  ASSUME DInv, NEW d \in Deploy, Queue!Submit(d), UNCHANGED <<draining, candidate, wait>>
  PROVE  Calmer
BY SubmitGrows DEF DInv, TypeOK, TablesOK, Calmer, Executing, Seen

LEMMA TablesCalm ==
  ASSUME UNCHANGED <<row, worker, draining, candidate, wait>>
  PROVE  Calmer
BY DEF Calmer, Executing

(* A claim: at most the one that was under way. *)
LEMMA DeployClaimKeepsDInv ==
  ASSUME DInv, NEW p \in Plane, DeployClaim(p), TypeOK'
  PROVE  DInv'
<1>1. CASE Queue!Claim(candidate[p], p)
  <2> DEFINE c == candidate[p]
  <2>1. /\ c \in Deploy /\ c # NoDeploy /\ worker[c] = NoPlane /\ row[c] = "queued"
        /\ row' = [row EXCEPT ![c] = "running"] /\ worker' = [worker EXCEPT ![c] = p]
        /\ candidate' = [candidate EXCEPT ![p] = NoDeploy] /\ UNCHANGED <<draining, wait>>
    BY <1>1 DEF DInv, TypeOK, PlanesOK, DeployClaim, Queue!Claim
  <2>2. /\ Executing(p)' = Executing(p) \cup {c} /\ candidate'[p] = NoDeploy
        /\ \A q \in Plane \ {p} : Executing(q)' = Executing(q) /\ candidate'[q] = candidate[q]
    BY <2>1, NameAssumption DEF DInv, TypeOK, TablesOK, PlanesOK, Executing
  <2>3. DrainIs'
    BY <2>1, NameAssumption DEF DInv, TypeOK, TablesOK, DrainIs
  <2>4. ASSUME NEW q \in Plane, NEW d \in Deploy, draining'[q] = d, wait'[d] \in Seen
        PROVE  Quiet(q, d)'
    <3>1. Quiet(q, d)
      BY <2>1, <2>4 DEF DInv, SlipIs
    <3>2. QED
      BY <2>1, <2>2, <3>1 DEF Quiet
  <2>5. QED
    BY <2>3, <2>4 DEF DInv, SlipIs
<1>2. CASE UNCHANGED <<row, worker>>
  <2>1. /\ candidate' = [candidate EXCEPT ![p] = NoDeploy]
        /\ UNCHANGED <<row, worker, draining, wait>>
    BY <1>2 DEF DeployClaim
  <2>2. DrainIs'
    BY <2>1 DEF DInv, DrainIs
  <2>3. SlipIs'
    BY <2>1 DEF DInv, TypeOK, PlanesOK, SlipIs, Quiet, Executing
  <2>4. QED
    BY <2>2, <2>3 DEF DInv
<1>3. QED
  BY <1>1, <1>2 DEF DeployClaim

(* A scan finds the plane not draining. *)
LEMMA DeployScanKeepsDInv ==
  ASSUME DInv, NEW p \in Plane, DeployScan(p), TypeOK'
  PROVE  DInv'
<1>1. /\ draining[p] = NoDeploy /\ UNCHANGED <<row, worker, draining, wait>>
      /\ \A q \in Plane \ {p} : candidate'[q] = candidate[q]
  BY DEF DInv, TypeOK, PlanesOK, DeployScan, tableVars
<1>2. Calmer
  BY <1>1, NameAssumption DEF Calmer, Executing
<1>3. QED
  BY <1>2, CalmerKeeps

(* The end of an execution lowers the drain of its own deploy. *)
LEMMA DeployEndKeepsDInv ==
  ASSUME DInv, NEW p \in Plane, NEW d \in Deploy, DeployEnd(p, d), TypeOK'
  PROVE  DInv'
<1>1. PICK verdict \in Terminal : Queue!Finish(d, verdict, NoPlane)
  BY DEF DeployEnd
<1>2. /\ worker[d] = p /\ row' = [row EXCEPT ![d] = verdict] /\ worker' = [worker EXCEPT ![d] = NoPlane]
      /\ wait' = [wait EXCEPT ![d] = "no"] /\ candidate' = candidate
      /\ draining' = [draining EXCEPT ![p] = IF @ = d THEN NoDeploy ELSE @]
  BY <1>1 DEF DeployEnd, Queue!Finish
<1>3. \A q \in Plane, e \in Deploy : draining'[q] = e =>
        draining[q] = e /\ e # d
  BY <1>2, NameAssumption DEF DInv, TypeOK, TablesOK, PlanesOK, DrainIs
<1>4. Calmer
  <2>1. \A q \in Plane : Executing(q)' \subseteq Executing(q)
    BY <1>2, NameAssumption DEF DInv, TypeOK, TablesOK, Executing
  <2>2. QED
    BY <1>2, <1>3, <2>1 DEF DInv, TypeOK, TablesOK, PlanesOK, Calmer
<1>5. QED
  BY <1>4, CalmerKeeps

(* Who is told to restart has polled nothing yet ... *)
LEMMA NotifyKeepsDInv ==
  ASSUME DInv, NEW p \in Plane, NEW d \in Deploy, Notify(p, d), TypeOK'
  PROVE  DInv'
<1>1. /\ worker[d] = p /\ UNCHANGED <<row, worker, candidate>>
      /\ wait' = [wait EXCEPT ![d] = "asked"] /\ draining' = [draining EXCEPT ![p] = d]
  BY DEF Notify, tableVars
<1>2. DrainIs'
  BY <1>1 DEF DInv, TypeOK, PlanesOK, DrainIs
<1>3. ASSUME NEW q \in Plane, NEW e \in Deploy, draining'[q] = e, wait'[e] \in Seen
      PROVE  Quiet(q, e)'
  <2>1. e # d /\ draining[q] = e /\ wait[e] \in Seen
    BY <1>1, <1>3 DEF DInv, TypeOK, PlanesOK, Seen
  <2>2. Quiet(q, e)
    BY <2>1 DEF DInv, SlipIs
  <2>3. QED
    BY <1>1, <2>2 DEF Quiet, Executing
<1>4. QED
  BY <1>2, <1>3 DEF DInv, SlipIs

(* ... and the first read of the handler leads on only when it finds no     *)
(* other deploy running.                                                    *)
LEMMA PollKeepsDInv ==
  ASSUME DInv, NEW p \in Plane, NEW d \in Deploy, Poll(p, d), TypeOK'
  PROVE  DInv'
<1>1. /\ draining[p] = d /\ UNCHANGED <<row, worker, candidate, draining>>
      /\ \A e \in Deploy \ {d} : wait'[e] = wait[e]
      /\ wait'[d] \in Seen => wait[d] \in Seen \/ OtherDeploys(p) = {}
  BY DEF DInv, TypeOK, PlanesOK, Poll, PollRead, Seen, tableVars
<1>2. DrainIs'
  BY <1>1 DEF DInv, DrainIs
<1>3. ASSUME NEW q \in Plane, NEW e \in Deploy, draining'[q] = e, wait'[e] \in Seen
      PROVE  Quiet(q, e)'
  <2>1. CASE wait[e] \in Seen
    <3>1. Quiet(q, e)
      BY <1>1, <1>3, <2>1 DEF DInv, SlipIs
    <3>2. QED
      BY <1>1, <3>1 DEF Quiet, Executing
  <2>2. CASE wait[e] \notin Seen
    <3>1. e = d /\ q = p /\ OtherDeploys(p) = {}
      BY <1>1, <1>3, <2>2 DEF DInv, DrainIs
    <3>2. Executing(p) \subseteq {d}
      BY <1>1, <3>1 DEF Executing, OtherDeploys
    <3>3. QED
      BY <1>1, <3>1, <3>2 DEF Quiet, Executing
  <2>3. QED
    BY <2>1, <2>2
<1>4. QED
  BY <1>2, <1>3 DEF DInv, SlipIs

LEMMA DeadlineKeepsDInv ==
  ASSUME DInv, NEW p \in Plane, NEW d \in Deploy, Deadline(p, d), TypeOK'
  PROVE  DInv'
<1>1. /\ UNCHANGED <<row, worker, candidate, draining>>
      /\ wait' = [wait EXCEPT ![d] = "ready"]
  BY DEF Deadline, tableVars
<1>2. Calmer
  BY <1>1 DEF DInv, TypeOK, PlanesOK, Calmer, Executing, Seen
<1>3. QED
  BY <1>2, CalmerKeeps

(* A dead plane executes nothing and drains for nobody. *)
LEMMA KillKeepsDInv ==
  ASSUME DInv, NEW p \in Plane, Kill(p), TypeOK'
  PROVE  DInv'
<1>1. /\ row' = row /\ worker' = [d \in Deploy |-> IF worker[d] = p THEN NoPlane ELSE worker[d]]
      /\ wait' = [d \in Deploy |-> IF worker[d] = p THEN "no" ELSE wait[d]]
      /\ draining' = [draining EXCEPT ![p] = NoDeploy]
      /\ candidate' = [candidate EXCEPT ![p] = NoDeploy]
  BY DEF Kill, Queue!Abandon
<1>2. \A q \in Plane, d \in Deploy : draining'[q] = d =>
        q # p /\ draining[q] = d /\ worker[d] = q
  BY <1>1, NameAssumption DEF DInv, TypeOK, PlanesOK, DrainIs
<1>3. Calmer
  <2>1. \A q \in Plane : Executing(q)' \subseteq Executing(q)
    BY <1>1, NameAssumption DEF DInv, TypeOK, TablesOK, Executing
  <2>2. \A q \in Plane \ {p} : candidate'[q] = candidate[q]
    BY <1>1 DEF DInv, TypeOK, PlanesOK
  <2>3. QED
    BY <1>1, <1>2, <2>1, <2>2 DEF Calmer
<1>4. QED
  BY <1>3, CalmerKeeps

(* A start-up closes rows and takes none. *)
LEMMA ReconcileKeepsDInv ==
  ASSUME DInv, NEW p \in Plane, NEW d \in Deploy, Reconcile(p, d), TypeOK'
  PROVE  DInv'
<1>1. PICK verdict \in Terminal : Queue!Finish(d, verdict, worker[d])
  BY DEF Reconcile
<1>2. /\ row' = [row EXCEPT ![d] = verdict] /\ worker' = worker
      /\ UNCHANGED <<draining, candidate, wait>>
  BY <1>1 DEF DInv, TypeOK, TablesOK, Reconcile, Queue!Finish
<1>3. verdict # "running"
  BY DEF Terminal, Queue!Terminal
<1>4. Calmer
  BY <1>2, <1>3 DEF DInv, TypeOK, TablesOK, Calmer, Executing
<1>5. QED
  BY <1>4, CalmerKeeps

LEMMA DInvStep ==
  ASSUME DInv, PInv, [Next]_vars, TypeOK'
  PROVE  DInv'
<1>1. ASSUME NEW d \in Deploy, Queue!Submit(d), UNCHANGED <<draining, candidate, wait>>
      PROVE  DInv'
  BY <1>1, SubmitCalm, CalmerKeeps
<1>2. CASE UNCHANGED <<row, worker, draining, candidate, wait>>
  BY <1>2, TablesCalm, CalmerKeeps
<1>3. ASSUME NEW d \in Posted, PostDeploy(d)
      PROVE  DInv'
  BY <1>1, <1>3, NameAssumption DEF PostDeploy, planeVars
<1>4. ASSUME NEW p \in Plane, PipelineTick(p) \/ Sync(p)
      PROVE  DInv'
  <2>1. CASE Insert(p)
    <3>1. step[p] = "chosen"
      BY <2>1 DEF Insert, Go
    <3>2. target[p] \in Deploy
      BY <3>1 DEF PInv, TargetIs
    <3>3. QED
      BY <1>1, <2>1, <3>2 DEF Insert, planeVars
  <2>2. CASE ~Insert(p)
    BY <1>2, <1>4, <2>2 DEF PipelineTick, TickStart, Select, Claim, ClaimLost, PackageFails, Packaged,
       ChooseId, InsertFails, Link, Sync, SyncWrite, SyncRead, tableVars, planeVars
  <2>3. QED
    BY <2>1, <2>2
<1>5. ASSUME NEW p \in Plane, DeployWork(p)
      PROVE  DInv'
  BY <1>5, DeployScanKeepsDInv, DeployClaimKeepsDInv DEF DeployWork
<1>6. ASSUME NEW p \in Plane, StartUp(p) \/ Crash(p)
      PROVE  DInv'
  BY <1>2, <1>6, KillKeepsDInv, ReconcileKeepsDInv DEF StartUp, Boot, Crash, tableVars
<1>7. ASSUME NEW p \in Plane, NEW d \in Deploy, Execution(p, d)
      PROVE  DInv'
  BY <1>7, DeployEndKeepsDInv, NotifyKeepsDInv, PollKeepsDInv, DeadlineKeepsDInv, KillKeepsDInv
     DEF Execution, Restart
<1>8. ASSUME NEW i \in Pipeline, CreatePipeline(i)
      PROVE  DInv'
  BY <1>2, <1>8 DEF CreatePipeline, planeVars
<1>9. CASE UNCHANGED vars
  BY <1>2, <1>9 DEF vars, tableVars, planeVars
<1>10. QED
  BY <1>3, <1>4, <1>5, <1>6, <1>7, <1>8, <1>9 DEF Next

LEMMA DInvAlways == Spec => []DInv
<1>1. Init => DInv
  BY PInvInit, NameAssumption DEF PInv, DInv, DrainIs, SlipIs, Init
<1>2. DInv /\ PInv /\ PInv' /\ [Next]_vars => DInv'
  BY DInvStep DEF PInv
<1>3. QED
  BY <1>1, <1>2, PInvAlways, PTL DEF Spec

(* Past the first read of its poll handler a plane that drains executes one *)
(* running deploy at most beside the one that restarts it.                  *)
THEOREM AtMostOneSlipsPast == Spec => []OneSlipsPast
<1>1. DInv => OneSlipsPast
  BY NameAssumption DEF DInv, SlipIs, Quiet, Seen, OneSlipsPast
<1>2. QED
  BY <1>1, DInvAlways, PTL

-----------------------------------------------------------------------------
(* The queue. *)

(* Pipelines, pollers, restarts and start-ups touch the deploys only by the *)
(* operations of DeployQueue, the specification that DeployWorker           *)
(* implements: the two modules speak of one queue.                          *)
THEOREM KeepsToTheQueue == Spec => Queue!Spec
<1>1. Init => Queue!Init
  BY DEF Init
<1>2. ASSUME PInv, [Next]_vars
      PROVE  [Queue!Next]_<<row, worker>>
  <2>1. ASSUME NEW d \in Deploy, Queue!Submit(d)
        PROVE  Queue!Next
    BY <2>1 DEF Queue!Next
  <2>2. ASSUME NEW d \in Deploy, NEW verdict \in Terminal, NEW q \in Plane \cup {NoPlane},
               Queue!Finish(d, verdict, q)
        PROVE  Queue!Next
    BY <2>2 DEF Queue!Next, Terminal
  <2>3. ASSUME NEW p \in Plane, Kill(p)
        PROVE  Queue!Next
    <3>1. Queue!Abandon({d \in Deploy : worker[d] = p}) /\ {d \in Deploy : worker[d] = p} \in SUBSET Deploy
      BY <2>3 DEF Kill
    <3>2. QED
      BY <3>1 DEF Queue!Next
  <2>4. ASSUME NEW d \in Posted, PostDeploy(d)
        PROVE  Queue!Next
    BY <2>1, <2>4, NameAssumption DEF PostDeploy
  <2>5. ASSUME NEW p \in Plane, PipelineTick(p) \/ Sync(p)
        PROVE  Queue!Next \/ UNCHANGED <<row, worker>>
    <3>1. CASE Insert(p)
      <4>1. step[p] = "chosen"
        BY <3>1 DEF Insert, Go
      <4>2. target[p] \in Deploy
        BY <1>2, <4>1 DEF PInv, TargetIs
      <4>3. QED
        BY <2>1, <3>1, <4>2 DEF Insert
    <3>2. CASE ~Insert(p)
      BY <2>5, <3>2 DEF PipelineTick, TickStart, Select, Claim, ClaimLost, PackageFails, Packaged,
         ChooseId, InsertFails, Link, Sync, SyncWrite, SyncRead, tableVars
    <3>3. QED
      BY <3>1, <3>2
  <2>6. ASSUME NEW p \in Plane, DeployWork(p)
        PROVE  Queue!Next \/ UNCHANGED <<row, worker>>
    <3>1. CASE DeployClaim(p)
      <4>1. candidate[p] \in Deploy
        BY <1>2, <3>1 DEF PInv, TypeOK, PlanesOK, DeployClaim
      <4>2. QED
        BY <3>1, <4>1 DEF DeployClaim, Queue!Next
    <3>2. QED
      BY <2>6, <3>1 DEF DeployWork, DeployScan, tableVars
  <2>7. ASSUME NEW p \in Plane, StartUp(p) \/ Crash(p)
        PROVE  Queue!Next \/ UNCHANGED <<row, worker>>
    <3>1. ASSUME NEW d \in Deploy, Reconcile(p, d)
          PROVE  Queue!Next
      <4>1. worker[d] \in Plane \cup {NoPlane}
        BY <1>2 DEF PInv, TypeOK, TablesOK
      <4>2. QED
        BY <2>2, <3>1, <4>1 DEF Reconcile
    <3>2. QED
      BY <2>3, <2>7, <3>1 DEF StartUp, Boot, Crash, tableVars
  <2>8. ASSUME NEW p \in Plane, NEW d \in Deploy, Execution(p, d)
        PROVE  Queue!Next \/ UNCHANGED <<row, worker>>
    <3>1. CASE DeployEnd(p, d)
      BY <2>2, <3>1 DEF DeployEnd
    <3>2. QED
      BY <2>3, <2>8, <3>1 DEF Execution, Notify, Poll, Deadline, Restart, tableVars
  <2>9. QED
    BY <1>2, <2>4, <2>5, <2>6, <2>7, <2>8 DEF Next, CreatePipeline, vars, tableVars
<1>3. QED
  BY <1>1, <1>2, PInvAlways, PTL DEF Spec, Queue!Spec, Queue!qvars
=============================================================================
