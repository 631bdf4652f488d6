----------------------- MODULE ServiceContractsProofs -----------------------
(* Proofs about ServiceContracts, for every number of services, ports, jobs, *)
(* tags, handlers at once and requests.                                      *)
EXTENDS ServiceContracts, TLAPS

-----------------------------------------------------------------------------
(* The inductive invariant. *)

Moving == {"counted", "pipelines", "deploys", "artifacts"}

Booting == {"seeding", "seed write", "normalizing"}

(* Rows that wait to be written have both graceful endpoints or neither.     *)
Paired(rows) == \A s \in Service : rows[s] # None => rows[s].notify = rows[s].poll

(* What the handler remembers is complete for the stage it is in, and the    *)
(* row PUT is about to write has both graceful endpoints or neither.         *)
RequestAt(c) ==
  /\ at[c] \in {"put", "port free"} =>
       req[c] \in [s : Service, new : Contract] /\ req[c].new.notify = req[c].new.poll
  /\ at[c] = "delete" => req[c] \in [s : Service]
  /\ at[c] \in Moving => req[c] \in [s : Service, to : Service, del : BOOLEAN]
  /\ at[c] = "post" => req[c] \in [s : Service, j : Posted]
  /\ at[c] = "notify" => req[c] \in [s : Service, j : Piped]
  /\ at[c] \in Booting =>
       req[c] \in [s : Service \cup {None}, rows : Table] /\ Paired(req[c].rows)
  /\ at[c] = "seed write" => req[c].s \in Service /\ req[c].rows[req[c].s] # None

(* The rows that the count of c has seen have their verdict. *)
CountAt(c) ==
  at[c] \in {"delete"} \cup Moving =>
    /\ \A j \in seen[c].pipes : pstate[j] = "done"
    /\ \A j \in seen[c].deploys : dstate[j] = "done"

(* They are still the service's until c's statement takes them. *)
WholeAt(c) ==
  /\ at[c] = "counted" => \A j \in seen[c].pipes : psvc[j] = req[c].s
  /\ at[c] \in {"pipelines", "deploys", "artifacts"} => seen[c].pipes \subseteq moving[c].pipes
  /\ at[c] \in {"counted", "pipelines"} => \A j \in seen[c].deploys : dsvc[j] = req[c].s
  /\ at[c] \in {"deploys", "artifacts"} => seen[c].deploys \subseteq moving[c].deploys
  /\ at[c] \in {"counted", "pipelines", "deploys"} =>
       \A t \in seen[c].tags : <<req[c].s, t>> \in index
  /\ at[c] = "artifacts" =>
       \A t \in seen[c].tags : t \in moving[c].tags \/ <<req[c].to, t>> \in index

(* Only rows that exist can be changed.                                      *)
LocksAt(c) ==
  /\ \A j \in moving[c].pipes : psvc[j] # None
  /\ \A j \in moving[c].deploys : dsvc[j] # None

(* A row has a service from its INSERT on, and the deploy of a pipeline is   *)
(* inserted once, after the pipeline has been set to deploying.              *)
RowsOf(j) ==
  /\ j \in Piped =>
       /\ pstate[j] = "absent" <=> psvc[j] = None
       /\ pstate[j] \in {"absent", "queued", "packaging"} => dstate[j] = "absent"
       /\ work[j] \in {"claimed", "building"} => pstate[j] = "packaging"
       /\ work[j] = "enqueueing" => pstate[j] = "deploying" /\ dstate[j] = "absent"
       /\ work[j] # "idle" => held[j] # None
  /\ dstate[j] = "absent" <=> dsvc[j] = None

Inv ==
  /\ TypeOK
  /\ ContractsConsistent
  /\ \A j \in Job : RowsOf(j)
  /\ \A c \in Client : RequestAt(c) /\ CountAt(c) /\ LocksAt(c) /\ WholeAt(c)

-----------------------------------------------------------------------------
(* Types. *)

(* A step that leaves a group of variables alone keeps their types. *)
LEMMA Frame ==
  /\ UNCHANGED tables => (TablesOK <=> TablesOK')
  /\ UNCHANGED workers => (WorkersOK <=> WorkersOK')
  /\ UNCHANGED clients => (ClientsOK <=> ClientsOK')
<1>1. UNCHANGED tables => (TablesOK <=> TablesOK')
  BY DEF tables, TablesOK
<1>2. UNCHANGED workers => (WorkersOK <=> WorkersOK')
  BY DEF workers, WorkersOK
<1>3. UNCHANGED clients => (ClientsOK <=> ClientsOK')
  BY DEF clients, ClientsOK
<1>4. QED
  BY <1>1, <1>2, <1>3

LEMMA HistoryType == ASSUME TypeOK, NEW s PROVE HistoryOf(s) \in Rows
BY DEF HistoryOf, PipelinesOf, DeploysOf, TagsOf, Rows

LEMMA NoRowsType == NoRows \in Rows
BY DEF NoRows, Rows

(* What PUT is about to write is a contract once it has a port. *)
LEMMA MergedType ==
  ASSUME TypeOK, NEW s \in Service, NEW b \in Body
  PROVE  Merged(contract[s], b) \in Contract
<1>1. b \in [port : Port \cup {Keep}, notify : BOOLEAN \cup {Keep}, poll : BOOLEAN \cup {Keep}]
  BY BodyAssumption
<1>2. CASE contract[s] = None
  BY <1>1, <1>2 DEF Merged, Contract
<1>3. CASE contract[s] # None
  <2>1. contract[s] \in Contract
    BY <1>3 DEF TypeOK, TablesOK, Table
  <2>2. QED
    BY <1>1, <1>3, <2>1 DEF Merged, Contract
<1>4. QED
  BY <1>2, <1>3

(* Handlers that begin, go on and answer keep their variables' types. *)
LEMMA BeginType ==
  ASSUME TypeOK, NEW c \in Client, NEW r \in Request,
         NEW stage \in {"put", "delete", "counted", "post", "notify", "seeding"},
         Begin(c, stage, r), UNCHANGED moving
  PROVE  ClientsOK'
<1>1. HistoryOf(r.s) \in Rows
  BY HistoryType
<1>2. requests' \in 0 .. MaxRequests
  <2>1. requests \in 0 .. MaxRequests /\ requests < MaxRequests /\ requests' = requests + 1
    BY DEF Begin, TypeOK, ClientsOK
  <2>2. QED
    BY <2>1, BoundAssumption
<1>3. seen' \in [Client -> Rows]
  BY <1>1 DEF Begin, TypeOK, ClientsOK
<1>4. QED
  BY <1>2, <1>3 DEF Begin, TypeOK, ClientsOK, Stage

LEMMA GotoType ==
  ASSUME TypeOK, NEW c \in Client, NEW from,
         NEW stage \in {"port free", "pipelines", "deploys", "artifacts"},
         Goto(c, from, stage), moving' \in [Client -> Rows]
  PROVE  ClientsOK'
BY DEF Goto, TypeOK, ClientsOK, Stage

LEMMA AnswerType ==
  ASSUME TypeOK, NEW c \in Client, Answer(c), seen' \in [Client -> Rows]
  PROVE  ClientsOK'
BY NoRowsType DEF Answer, TypeOK, ClientsOK, Request, Stage

LEMMA StartsTyped == Init => TypeOK
<1> SUFFICES ASSUME Init PROVE TypeOK
  OBVIOUS
<1>1. TablesOK
  BY StartAssumption DEF Init, TablesOK
<1>2. WorkersOK
  BY DEF Init, WorkersOK
<1>3. ClientsOK
  BY NoRowsType, BoundAssumption DEF Init, ClientsOK, Request, Stage
<1>4. QED
  BY <1>1, <1>2, <1>3 DEF TypeOK

(* A new request. *)
LEMMA NewRequestType ==
  ASSUME TypeOK, NEW c \in Client, NewRequest(c)
  PROVE  TypeOK'
<1>1. CASE BootIndex(c)
  <2>1. [s |-> None, rows |-> Seed] \in Request
    BY StartAssumption DEF Request
  <2>2. ClientsOK'
    BY <1>1, <2>1, BeginType DEF BootIndex
  <2>3. TablesOK'
    BY <1>1 DEF BootIndex, TypeOK, TablesOK, PortsApart
  <2>4. QED
    BY <1>1, <2>2, <2>3, Frame DEF BootIndex, TypeOK
<1>2. ASSUME NEW s \in Service, NEW b \in Body, PutRead(c, s, b)
      PROVE  ClientsOK'
  <2>1. [s |-> s, new |-> Merged(contract[s], b)] \in Request
    BY MergedType DEF Request
  <2>2. QED
    BY <1>2, <2>1, BeginType DEF PutRead
<1>3. ASSUME NEW s \in Service, DeleteCount(c, s)
      PROVE  ClientsOK'
  <2>1. [s |-> s] \in Request
    BY DEF Request
  <2>2. QED
    BY <1>3, <2>1, BeginType DEF DeleteCount
<1>4. ASSUME NEW s \in Service, NEW to \in Service, NEW del \in BOOLEAN, MoveCount(c, s, to, del)
      PROVE  ClientsOK'
  <2>1. [s |-> s, to |-> to, del |-> del] \in Request
    BY DEF Request
  <2>2. QED
    BY <1>4, <2>1, BeginType DEF MoveCount
<1>5. ASSUME NEW s \in Service, NEW j \in Job, EnqueueCheck(c, s, j)
      PROVE  ClientsOK'
  <2>1. [s |-> s, j |-> j] \in Request
    BY DEF Request
  <2>2. QED
    BY <1>5, <2>1, BeginType DEF EnqueueCheck
<1>6. CASE ~BootIndex(c)
  <2>1. ClientsOK'
    BY <1>2, <1>3, <1>4, <1>5, <1>6 DEF NewRequest
  <2>2. UNCHANGED <<tables, workers>>
    BY <1>6 DEF NewRequest, BootIndex, PutRead, DeleteCount, MoveCount, EnqueueCheck
  <2>3. QED
    BY <2>1, <2>2, Frame DEF TypeOK
<1>7. QED
  BY <1>1, <1>6

(* A step of a start writes at most one row, which has both graceful         *)
(* endpoints or neither, by an upsert.                                       *)
Writes(s, new) == s \in Service /\ new \in Contract /\ new.notify = new.poll /\ Upsert(s, new)

LEMMA BootIs ==
  ASSUME TypeOK, NEW c \in Client, RequestAt(c), BootSteps(c),
         \A s \in Service : contract[s] # None => contract[s].notify = contract[s].poll
  PROVE  /\ UNCHANGED <<indexed, pstate, psvc, dstate, dsvc, index, workers, seen, requests>>
         /\ at[c] \in Booting /\ at'[c] \in Booting \cup {"idle"} /\ RequestAt(c)'
         /\ \A d \in Client : d # c => at'[d] = at[d] /\ req'[d] = req[d]
         /\ moving' = moving \/ Answer(c)
         /\ ClientsOK'
         /\ UNCHANGED contract \/ \E s, new : Writes(s, new)
<1>1. /\ at \in [Client -> Stage] /\ req \in [Client -> Request] /\ contract \in Table
      /\ None \notin Service /\ None \notin Contract
  BY NameAssumption DEF TypeOK, TablesOK, ClientsOK
<1>2. at[c] \in Booting =>
        req[c] \in [s : Service \cup {None}, rows : Table] /\ Paired(req[c].rows)
  BY DEF RequestAt
<1>3. ASSUME NEW s \in Service, req' = RowDone(c, s), at[c] \in Booting
      PROVE  /\ req' \in [Client -> Request]
             /\ req'[c] \in [s : Service \cup {None}, rows : Table] /\ Paired(req'[c].rows)
             /\ \A d \in Client : d # c => req'[d] = req[d]
  <2> DEFINE r == [s |-> None, rows |-> [req[c].rows EXCEPT ![s] = None]]
  <2>1. req' = [req EXCEPT ![c] = r]
    BY <1>3 DEF RowDone
  <2>2. r \in [s : Service \cup {None}, rows : Table] /\ Paired(r.rows)
    BY <1>2, <1>3 DEF Table, Paired
  <2>3. r \in Request
    BY <2>2 DEF Request
  <2> HIDE DEF r
  <2>4. QED
    BY <1>1, <2>1, <2>2, <2>3
<1>4. CASE BootDone(c)
  <2>1. /\ Answer(c) /\ at[c] = "normalizing" /\ UNCHANGED <<tables, workers, seen>>
        /\ at'[c] = "idle" /\ UNCHANGED requests
    BY <1>1, <1>4 DEF BootDone, Answer
  <2>2. ClientsOK'
    BY <2>1, AnswerType DEF TypeOK, ClientsOK
  <2>3. QED
    BY <1>1, <2>1, <2>2 DEF Answer, tables, Booting, RequestAt, Moving
<1>5. ASSUME NEW s \in Service, SeedRead(c, s)
      PROVE  /\ UNCHANGED <<tables, workers, moving, seen, requests>>
             /\ at[c] = "seeding" /\ at'[c] \in {"seeding", "seed write"}
             /\ RequestAt(c)' /\ ClientsOK'
             /\ \A d \in Client : d # c => at'[d] = at[d] /\ req'[d] = req[d]
  <2>0. /\ at[c] = "seeding" /\ req[c].rows[s] # None
        /\ UNCHANGED <<tables, workers, moving, seen, requests>>
    BY <1>5 DEF SeedRead
  <2>1. CASE contract[s] # None
    <3>1. req' = RowDone(c, s) /\ at' = at
      BY <1>5, <2>1 DEF SeedRead
    <3>2. QED
      BY <1>1, <1>3, <2>0, <3>1 DEF Booting, RequestAt, Moving, TypeOK, ClientsOK
  <2>2. CASE contract[s] = None
    <3> DEFINE r == [req[c] EXCEPT !.s = s]
    <3>1. req' = [req EXCEPT ![c] = r] /\ at' = [at EXCEPT ![c] = "seed write"]
      BY <1>5, <2>2 DEF SeedRead
    <3>2. /\ r \in [s : Service \cup {None}, rows : Table] /\ Paired(r.rows)
          /\ r.s = s /\ r.rows[s] # None
      BY <1>2, <2>0 DEF Booting
    <3>3. r \in Request
      BY <3>2 DEF Request
    <3> HIDE DEF r
    <3>4. QED
      BY <1>1, <2>0, <3>1, <3>2, <3>3 DEF Booting, RequestAt, Moving, TypeOK, ClientsOK, Stage
  <2>3. QED
    BY <2>1, <2>2
<1>6. CASE SeedWrite(c)
  <2> DEFINE s == req[c].s
  <2>1. s \in Service /\ req[c].rows[s] # None /\ at[c] = "seed write"
    BY <1>6 DEF SeedWrite, RequestAt
  <2>2. req[c].rows[s] \in Contract /\ req[c].rows[s].notify = req[c].rows[s].poll
    BY <1>2, <2>1 DEF Booting, Table, Paired
  <2>3. /\ req' = RowDone(c, s) /\ at' = [at EXCEPT ![c] = "seeding"]
        /\ UNCHANGED <<indexed, pstate, psvc, dstate, dsvc, index, workers, moving, seen, requests>>
        /\ UNCHANGED contract \/ Writes(s, req[c].rows[s])
    BY <1>6, <2>1, <2>2 DEF SeedWrite, Writes
  <2> HIDE DEF s
  <2>4. RequestAt(c)' /\ ClientsOK' /\ \A d \in Client : d # c => at'[d] = at[d] /\ req'[d] = req[d]
    BY <1>1, <1>3, <2>1, <2>3 DEF Booting, RequestAt, Moving, TypeOK, ClientsOK, Stage
  <2>5. QED
    BY <1>1, <2>1, <2>3, <2>4 DEF Booting
<1>7. CASE BootList(c)
  <2> DEFINE rows == [s \in Service |->
               IF contract[s] # None /\ contract[s].url # NoPort THEN Normalized(contract[s]) ELSE None]
             r == [req[c] EXCEPT !.rows = rows]
  <2>1. /\ at[c] = "seeding" /\ at' = [at EXCEPT ![c] = "normalizing"]
        /\ req' = [req EXCEPT ![c] = r]
        /\ UNCHANGED <<tables, workers, moving, requests, seen>>
    BY <1>7 DEF BootList
  <2>2. ASSUME NEW s \in Service, contract[s] # None
        PROVE  /\ Normalized(contract[s]) \in Contract
               /\ Normalized(contract[s]).notify = Normalized(contract[s]).poll
    <3>1. contract[s] \in Contract /\ contract[s].notify = contract[s].poll
      BY <1>1, <2>2 DEF Table
    <3>2. QED
      BY <3>1 DEF Normalized, Contract
  <2>3. rows \in Table /\ Paired(rows)
    BY <2>2 DEF Table, Paired
  <2> HIDE DEF rows
  <2>4. r \in [s : Service \cup {None}, rows : Table] /\ Paired(r.rows)
    BY <1>2, <2>1, <2>3 DEF Booting
  <2>5. r \in Request
    BY <2>4 DEF Request
  <2> HIDE DEF r
  <2>6. RequestAt(c)' /\ ClientsOK' /\ \A d \in Client : d # c => at'[d] = at[d] /\ req'[d] = req[d]
    BY <1>1, <2>1, <2>4, <2>5 DEF Booting, RequestAt, Moving, TypeOK, ClientsOK, Stage
  <2>7. QED
    BY <1>1, <2>1, <2>6 DEF Booting, tables
<1>8. ASSUME NEW s \in Service, NormalizeWrite(c, s)
      PROVE  /\ UNCHANGED <<indexed, pstate, psvc, dstate, dsvc, index, workers, moving, seen, requests>>
             /\ at[c] = "normalizing" /\ at' = at /\ RequestAt(c)' /\ ClientsOK'
             /\ \A d \in Client : d # c => req'[d] = req[d]
             /\ Writes(s, req[c].rows[s])
  <2>1. /\ at[c] = "normalizing" /\ req[c].rows[s] # None /\ Upsert(s, req[c].rows[s])
        /\ req' = RowDone(c, s)
        /\ UNCHANGED <<indexed, pstate, psvc, dstate, dsvc, index, workers, at, moving, requests, seen>>
    BY <1>8 DEF NormalizeWrite
  <2>2. req[c].rows[s] \in Contract /\ req[c].rows[s].notify = req[c].rows[s].poll
    BY <1>2, <2>1 DEF Booting, Table, Paired
  <2>3. QED
    BY <1>1, <1>3, <2>1, <2>2 DEF Writes, Booting, RequestAt, Moving, TypeOK, ClientsOK
<1>9. QED
  BY <1>1, <1>4, <1>5, <1>6, <1>7, <1>8 DEF BootSteps, Booting, tables

LEMMA BootLeaves ==
  \A c : BootSteps(c) => UNCHANGED <<indexed, pstate, psvc, dstate, dsvc, index, workers, seen>>
BY DEF BootSteps, SeedRead, SeedWrite, BootList, NormalizeWrite, BootDone, tables

(* A step of a handler. *)
LEMMA HandlerType ==
  ASSUME TypeOK, ContractsConsistent, NEW c \in Client, RequestAt(c), Handler(c)
  PROVE  TypeOK'
<1> USE DEF TypeOK
<1>1. CASE PutPort(c)
  <2>1. ClientsOK'
    BY <1>1, GotoType DEF PutPort, ClientsOK
  <2>2. QED
    BY <1>1, <2>1, Frame DEF PutPort
<1>2. CASE PutWrite(c)
  <2>1. ClientsOK'
    BY <1>2, AnswerType DEF PutWrite, ClientsOK
  <2>2. req[c].s \in Service /\ req[c].new \in Contract
    BY <1>2 DEF PutWrite, RequestAt
  <2>3. TablesOK'
    BY <1>2, <2>2 DEF PutWrite, Upsert, TablesOK, Table
  <2>4. QED
    BY <1>2, <2>1, <2>3, Frame DEF PutWrite
<1>3. CASE DeleteRow(c)
  <2>1. ClientsOK'
    BY <1>3, AnswerType DEF DeleteRow, ClientsOK
  <2>2. TablesOK'
    BY <1>3 DEF DeleteRow, TablesOK, Table
  <2>3. QED
    BY <1>3, <2>1, <2>2, Frame DEF DeleteRow
<1>4. CASE MovePipelines(c) \/ MoveDeploys(c) \/ MoveArtifacts(c)
  <2>1. moving' \in [Client -> Rows]
    <3>1. moving[c] \in Rows
      BY DEF ClientsOK
    <3>2. [moving[c] EXCEPT !.pipes = PipelinesOf(req[c].s)] \in Rows
      BY <3>1 DEF PipelinesOf, Rows
    <3>3. [moving[c] EXCEPT !.deploys = DeploysOf(req[c].s)] \in Rows
      BY <3>1 DEF DeploysOf, Rows
    <3>4. [moving[c] EXCEPT !.tags = TagsOf(req[c].s) \ TagsOf(req[c].to)] \in Rows
      BY <3>1 DEF TagsOf, Rows
    <3>5. QED
      BY <1>4, <3>2, <3>3, <3>4 DEF MovePipelines, MoveDeploys, MoveArtifacts, ClientsOK
  <2>2. ClientsOK'
    BY <1>4, <2>1, GotoType DEF MovePipelines, MoveDeploys, MoveArtifacts
  <2>3. UNCHANGED <<tables, workers>>
    BY <1>4 DEF MovePipelines, MoveDeploys, MoveArtifacts
  <2>4. QED
    BY <2>2, <2>3, Frame
<1>5. CASE MoveCommit(c)
  <2>1. seen' \in [Client -> Rows]
    BY <1>5 DEF MoveCommit, ClientsOK, Rows
  <2>2. ClientsOK'
    BY <1>5, <2>1, AnswerType DEF MoveCommit
  <2>3. req[c].s \in Service /\ req[c].to \in Service
    BY <1>5 DEF MoveCommit, RequestAt, Moving
  <2>4. moving[c].tags \subseteq Tag
    BY DEF ClientsOK, Rows
  <2>5. TablesOK'
    BY <1>5, <2>3, <2>4 DEF MoveCommit, TablesOK, Table
  <2>6. QED
    BY <1>5, <2>2, <2>5, Frame DEF MoveCommit
<1>6. CASE PostDeploy(c)
  <2>1. ClientsOK'
    BY <1>6, AnswerType DEF PostDeploy, ClientsOK
  <2>2. req[c].s \in Service /\ req[c].j \in Job
    BY <1>6 DEF PostDeploy, RequestAt, Job
  <2>3. TablesOK'
    BY <1>6, <2>2 DEF PostDeploy, TablesOK
  <2>4. QED
    BY <1>6, <2>1, <2>3, Frame DEF PostDeploy
<1>7. CASE Notify(c)
  <2>1. ClientsOK'
    BY <1>7, AnswerType DEF Notify, ClientsOK
  <2>2. req[c].s \in Service /\ req[c].j \in Piped
    BY <1>7 DEF Notify, RequestAt
  <2>3. TablesOK'
    BY <1>7, <2>2 DEF Notify, TablesOK
  <2>4. QED
    BY <1>7, <2>1, <2>3, Frame DEF Notify
<1>8. CASE Refuse(c)
  <2>1. ClientsOK'
    BY <1>8, AnswerType DEF Refuse, ClientsOK
  <2>2. QED
    BY <1>8, <2>1, Frame DEF Refuse
<1>9. CASE BootSteps(c)
  <2>1. /\ ClientsOK'
        /\ UNCHANGED <<indexed, pstate, psvc, dstate, dsvc, index, workers>>
        /\ UNCHANGED contract \/ \E s, new : Writes(s, new)
    BY <1>9, BootIs DEF ContractsConsistent
  <2>2. contract' \in Table
    BY <2>1 DEF Writes, Upsert, TablesOK, Table
  <2>3. QED
    BY <2>1, <2>2, Frame DEF TablesOK
<1>10. QED
  BY <1>1, <1>2, <1>3, <1>4, <1>5, <1>6, <1>7, <1>8, <1>9 DEF Handler, MoveSteps

(* A step of a worker. *)
LEMMA WorkerType ==
  ASSUME TypeOK, NEW j \in Job, RowsOf(j), (j \in Piped /\ PipelineWork(j)) \/ DeployWork(j)
  PROVE  TypeOK'
<1> USE DEF TypeOK
<1>1. CASE j \in Piped /\ (PipeClaim(j) \/ PipeLoad(j) \/ PipeFails(j) \/ PipeClose(j))
  <2>1. TablesOK' /\ WorkersOK'
    BY <1>1 DEF PipeClaim, PipeLoad, PipeFails, PipeClose, PipeWrite, TablesOK, WorkersOK,
       tables, workers
  <2>2. QED
    BY <1>1, <2>1, Frame DEF PipeClaim, PipeLoad, PipeFails, PipeClose
<1>2. CASE j \in Piped /\ Packaged(j)
  <2>1. TagOf[j] \in Tag
    BY <1>2, NameAssumption
  <2>2. held[j] \in Service
    BY <1>2 DEF Packaged, RowsOf, WorkersOK
  <2>3. index' \subseteq Service \X Tag
    BY <1>2, <2>1, <2>2 DEF Packaged, TablesOK
  <2>4. TablesOK' /\ WorkersOK'
    BY <1>2, <2>3 DEF Packaged, PipeWrite, TablesOK, WorkersOK
  <2>5. QED
    BY <1>2, <2>4, Frame DEF Packaged
<1>3. CASE j \in Piped /\ Enqueue(j)
  <2>1. TablesOK' /\ WorkersOK'
    BY <1>3 DEF Enqueue, TablesOK, WorkersOK
  <2>2. QED
    BY <1>3, <2>1, Frame DEF Enqueue
<1>4. CASE DeployWork(j)
  <2>1. TablesOK' /\ WorkersOK'
    BY <1>4 DEF DeployWork, DeployClaim, DeployLoad, DeployEnd, DeployWrite, TablesOK, WorkersOK,
       tables, workers
  <2>2. QED
    BY <1>4, <2>1, Frame DEF DeployWork, DeployClaim, DeployLoad, DeployEnd
<1>5. QED
  BY <1>1, <1>2, <1>3, <1>4 DEF PipelineWork

LEMMA StepTyped == Inv /\ [Next]_vars => TypeOK'
<1> SUFFICES ASSUME Inv, [Next]_vars PROVE TypeOK'
  OBVIOUS
<1>1. ASSUME NEW c \in Client, NewRequest(c) \/ Handler(c)
      PROVE  TypeOK'
  BY <1>1, NewRequestType, HandlerType DEF Inv
<1>2. ASSUME NEW j \in Piped, PipelineWork(j)
      PROVE  TypeOK'
  BY <1>2, WorkerType DEF Inv, Job
<1>3. ASSUME NEW j \in Job, DeployWork(j)
      PROVE  TypeOK'
  BY <1>3, WorkerType DEF Inv
<1>4. CASE UNCHANGED vars
  BY <1>4, Frame DEF vars, Inv, TypeOK
<1>5. QED
  BY <1>1, <1>2, <1>3, <1>4 DEF Next

-----------------------------------------------------------------------------
(* The contracts. *)

(* Handlers and starts write a row by the upsert, whose index, where there   *)
(* is one, and not any look-up before it, keeps the ports apart; the others  *)
(* remove rows; and the index is created over rows that are apart.           *)
LEMMA ContractsStep == Inv /\ [Next]_vars => ContractsConsistent'
<1> SUFFICES ASSUME Inv, [Next]_vars PROVE ContractsConsistent'
  OBVIOUS
<1>1. contract \in [Service -> Contract \cup {None}] /\ ContractsConsistent /\ None \notin Contract
  BY NameAssumption DEF Inv, TypeOK, TablesOK, Table
<1>2. CASE UNCHANGED <<contract, indexed>>
  BY <1>1, <1>2 DEF ContractsConsistent, PortsApart
<1>3. ASSUME NEW s, contract' = [contract EXCEPT ![s] = None], UNCHANGED indexed
      PROVE  ContractsConsistent'
  BY <1>1, <1>3 DEF ContractsConsistent, PortsApart
<1>4. ASSUME NEW s, NEW new, Writes(s, new), UNCHANGED indexed
      PROVE  ContractsConsistent'
  <2>1. \A t \in Service : contract'[t] = IF t = s THEN new ELSE contract[t]
    BY <1>1, <1>4 DEF Writes, Upsert
  <2>2. indexed /\ new.port # NoPort =>
          \A t \in Service \ {s} : contract[t] # None => contract[t].port # new.port
    BY <1>4 DEF Writes, Upsert, PortFree
  <2>3. new # None /\ new.notify = new.poll
    BY <1>1, <1>4 DEF Writes
  <2>4. indexed' => PortsApart(contract)'
    BY <1>1, <1>4, <2>1, <2>2, <2>3 DEF ContractsConsistent, PortsApart
  <2>5. QED
    BY <1>1, <2>1, <2>3, <2>4 DEF ContractsConsistent
<1>5. ASSUME NEW c \in Client, BootIndex(c)
      PROVE  ContractsConsistent'
  BY <1>1, <1>5 DEF BootIndex, ContractsConsistent, PortsApart
<1>6. ASSUME NEW c \in Client, PutWrite(c)
      PROVE  ContractsConsistent'
  <2>1. req[c] \in [s : Service, new : Contract] /\ req[c].new.notify = req[c].new.poll
    BY <1>6 DEF Inv, RequestAt, PutWrite
  <2>2. QED
    BY <1>4, <1>6, <2>1 DEF PutWrite, Writes
<1>7. ASSUME NEW c \in Client, BootSteps(c)
      PROVE  ContractsConsistent'
  <2>1. UNCHANGED indexed /\ (UNCHANGED contract \/ \E s, new : Writes(s, new))
    BY <1>1, <1>7, BootIs DEF Inv, ContractsConsistent
  <2>2. QED
    BY <1>2, <1>4, <2>1
<1>8. QED
  <2>1. ASSUME NEW c \in Client, NewRequest(c), ~BootIndex(c)
        PROVE  UNCHANGED <<contract, indexed>>
    BY <2>1 DEF NewRequest, PutRead, DeleteCount, MoveCount, EnqueueCheck, tables
  <2>2. ASSUME NEW c \in Client, Handler(c)
        PROVE  ContractsConsistent'
    BY <1>2, <1>3, <1>6, <1>7, <2>2 DEF Handler, MoveSteps, PutPort, DeleteRow, MovePipelines,
       MoveDeploys, MoveArtifacts, MoveCommit, PostDeploy, Notify, Refuse, tables
  <2>3. ASSUME NEW j, PipelineWork(j) \/ DeployWork(j)
        PROVE  UNCHANGED <<contract, indexed>>
    BY <2>3 DEF PipelineWork, DeployWork, PipeClaim, PipeLoad, PipeFails, Packaged, Enqueue,
       PipeClose, DeployClaim, DeployLoad, DeployEnd, tables
  <2>4. CASE UNCHANGED vars
    BY <2>4, <1>2 DEF vars, tables
  <2>5. QED
    BY <1>2, <1>5, <2>1, <2>2, <2>3, <2>4 DEF Next

-----------------------------------------------------------------------------
(* The rows. *)

LEMMA RowsStep == Inv /\ [Next]_vars => \A j \in Job : RowsOf(j)'
<1> SUFFICES ASSUME Inv, [Next]_vars, NEW j \in Job PROVE RowsOf(j)'
  OBVIOUS
<1>1. /\ pstate \in [Piped -> {"absent", "queued", "packaging", "deploying", "done"}]
      /\ dstate \in [Job -> {"absent", "queued", "running", "done"}]
      /\ psvc \in [Piped -> Service \cup {None}] /\ dsvc \in [Job -> Service \cup {None}]
      /\ work \in [Piped -> {"idle", "claimed", "building", "enqueueing"}]
      /\ held \in [Piped -> Service \cup {None}]
      /\ Piped \subseteq Job
  BY DEF Inv, TypeOK, TablesOK, WorkersOK, Job
<1>2. RowsOf(j) /\ None \notin Service
  BY NameAssumption DEF Inv
<1>3. CASE UNCHANGED <<pstate, psvc, dstate, dsvc, work, held>>
  BY <1>2, <1>3 DEF RowsOf
<1>4. ASSUME NEW c \in Client, PostDeploy(c)
      PROVE  RowsOf(j)'
  <2>1. req[c].s \in Service /\ req[c].j \in Posted /\ req[c].j \notin Piped
    BY <1>4, NameAssumption DEF Inv, RequestAt, PostDeploy
  <2>2. QED
    BY <1>1, <1>2, <1>4, <2>1 DEF PostDeploy, RowsOf, Job, workers
<1>5. ASSUME NEW c \in Client, Notify(c)
      PROVE  RowsOf(j)'
  <2>1. req[c].s \in Service /\ req[c].j \in Piped
    BY <1>5 DEF Inv, RequestAt, Notify
  <2>2. QED
    BY <1>1, <1>2, <1>5, <2>1 DEF Notify, RowsOf, workers
<1>6. ASSUME NEW c \in Client, MoveCommit(c)
      PROVE  RowsOf(j)'
  <2>1. req[c].to \in Service /\ UNCHANGED <<pstate, dstate, work, held>>
    BY <1>6 DEF Inv, RequestAt, Moving, MoveCommit, workers
  <2>2. /\ j \in Piped => psvc'[j] = psvc[j] \/ (psvc'[j] \in Service /\ j \in moving[c].pipes)
        /\ dsvc'[j] = dsvc[j] \/ (dsvc'[j] \in Service /\ j \in moving[c].deploys)
    BY <1>6, <2>1 DEF MoveCommit
  <2>3. /\ j \in moving[c].pipes => psvc[j] # None
        /\ j \in moving[c].deploys => dsvc[j] # None
    BY DEF Inv, LocksAt
  <2>4. QED
    BY <1>2, <2>1, <2>2, <2>3 DEF RowsOf
<1>7. ASSUME NEW i \in Piped, PipelineWork(i)
      PROVE  RowsOf(j)'
  <2>1. i \in Job /\ RowsOf(i)
    BY <1>1 DEF Inv
  <2>2. CASE PipeClaim(i)
    BY <1>1, <1>2, <2>1, <2>2 DEF PipeClaim, PipeWrite, RowsOf
  <2>3. CASE PipeLoad(i)
    BY <1>1, <1>2, <2>1, <2>3 DEF PipeLoad, RowsOf, tables
  <2>4. CASE PipeFails(i)
    BY <1>1, <1>2, <2>1, <2>4 DEF PipeFails, PipeWrite, RowsOf
  <2>5. CASE Packaged(i)
    BY <1>1, <1>2, <2>1, <2>5 DEF Packaged, PipeWrite, RowsOf
  <2>6. CASE Enqueue(i)
    BY <1>1, <1>2, <2>1, <2>6 DEF Enqueue, RowsOf
  <2>7. CASE PipeClose(i)
    BY <1>1, <1>2, <2>1, <2>7 DEF PipeClose, PipeWrite, RowsOf, workers
  <2>8. QED
    BY <1>7, <2>2, <2>3, <2>4, <2>5, <2>6, <2>7 DEF PipelineWork
<1>8. ASSUME NEW i \in Job, DeployWork(i)
      PROVE  RowsOf(j)'
  <2>1. RowsOf(i)
    BY DEF Inv
  <2>2. UNCHANGED <<pstate, psvc, dsvc, work, held>>
    BY <1>8 DEF DeployWork, DeployClaim, DeployLoad, DeployEnd, tables, workers
  <2>3. /\ dstate'[j] = dstate[j] \/ (dstate[j] # "absent" /\ dstate'[j] # "absent")
    BY <1>1, <1>8 DEF DeployWork, DeployClaim, DeployLoad, DeployEnd, DeployWrite, tables
  <2>4. QED
    BY <1>2, <2>2, <2>3 DEF RowsOf
<1>9. QED
  <2>1. ASSUME NEW c \in Client, NewRequest(c)
        PROVE  UNCHANGED <<pstate, psvc, dstate, dsvc, work, held>>
    BY <2>1 DEF NewRequest, BootIndex, PutRead, DeleteCount, MoveCount, EnqueueCheck, tables, workers
  <2>2. ASSUME NEW c \in Client, Handler(c)
        PROVE  RowsOf(j)'
    BY <1>3, <1>4, <1>5, <1>6, <2>2, BootLeaves DEF Handler, MoveSteps, PutPort, PutWrite, DeleteRow,
       MovePipelines, MoveDeploys, MoveArtifacts, Refuse, tables, workers
  <2>3. CASE UNCHANGED vars
    BY <1>3, <2>3 DEF vars, tables, workers
  <2>4. QED
    BY <1>3, <1>7, <1>8, <2>1, <2>2, <2>3 DEF Next

-----------------------------------------------------------------------------
(* The handlers. *)

(* Rows keep a service, and a verdict.                                       *)
LEMMA RowsLast ==
  ASSUME Inv, [Next]_vars
  PROVE  /\ \A j \in Piped : (psvc[j] # None => psvc'[j] # None)
                            /\ (pstate[j] = "done" => pstate'[j] = "done")
         /\ \A j \in Job : (dsvc[j] # None => dsvc'[j] # None)
                          /\ (dstate[j] = "done" => dstate'[j] = "done")
<1>1. TypeOK' /\ \A j \in Job : RowsOf(j) /\ RowsOf(j)'
  BY StepTyped, RowsStep DEF Inv
<1>2. Piped \subseteq Job
  BY DEF Job
<1> DEFINE Lasts ==
      /\ \A j \in Piped : (pstate[j] # "absent" => pstate'[j] # "absent")
                         /\ (pstate[j] = "done" => pstate'[j] = "done")
      /\ \A j \in Job : (dstate[j] # "absent" => dstate'[j] # "absent")
                       /\ (dstate[j] = "done" => dstate'[j] = "done")
<1>3. Lasts
  <2>1. /\ pstate \in [Piped -> {"absent", "queued", "packaging", "deploying", "done"}]
        /\ dstate \in [Job -> {"absent", "queued", "running", "done"}]
    BY DEF Inv, TypeOK, TablesOK
  <2>2. CASE UNCHANGED <<pstate, dstate>>
    BY <2>2
  <2>3. ASSUME NEW c \in Client, NewRequest(c)
        PROVE  UNCHANGED <<pstate, dstate>>
    BY <2>3 DEF NewRequest, BootIndex, PutRead, DeleteCount, MoveCount, EnqueueCheck, tables
  <2>4. ASSUME NEW c \in Client, PostDeploy(c) \/ Notify(c)
        PROVE  Lasts
    BY <2>1, <2>4 DEF PostDeploy, Notify
  <2>5. ASSUME NEW c \in Client, Handler(c), ~(PostDeploy(c) \/ Notify(c))
        PROVE  UNCHANGED <<pstate, dstate>>
    BY <2>5, BootLeaves DEF Handler, MoveSteps, PutPort, PutWrite, DeleteRow, MovePipelines, MoveDeploys,
       MoveArtifacts, MoveCommit, Refuse, tables
  <2>6. ASSUME NEW i \in Piped, Enqueue(i)
        PROVE  Lasts
    BY <1>1, <1>2, <2>1, <2>6 DEF Enqueue, RowsOf
  <2>7. ASSUME NEW i \in Piped, PipelineWork(i), ~Enqueue(i)
        PROVE  Lasts
    BY <2>1, <2>7 DEF PipelineWork, PipeClaim, PipeLoad, PipeFails, Packaged, PipeClose, PipeWrite, tables
  <2>8. ASSUME NEW i \in Job, DeployWork(i)
        PROVE  Lasts
    BY <2>1, <2>8 DEF DeployWork, DeployClaim, DeployLoad, DeployEnd, DeployWrite, tables
  <2>9. CASE UNCHANGED vars
    BY <2>2, <2>9 DEF vars, tables
  <2>10. QED
    BY <2>2, <2>3, <2>4, <2>5, <2>6, <2>7, <2>8, <2>9 DEF Next
<1>4. QED
  BY <1>1, <1>2, <1>3 DEF RowsOf

(* What a step of d leaves of another handler c: all that c remembers, but   *)
(* for the rows that d's move takes from what c has seen.                    *)
Apart(c) ==
  /\ at'[c] = at[c] /\ req'[c] = req[c] /\ moving'[c] = moving[c]
  /\ seen'[c].pipes \subseteq seen[c].pipes
  /\ seen'[c].deploys \subseteq seen[c].deploys
  /\ seen'[c].tags \subseteq seen[c].tags

LEMMA OthersStay ==
  ASSUME Inv, NEW c \in Client, NEW d \in Client, d # c, NewRequest(d) \/ Handler(d)
  PROVE  Apart(c)
<1>1. /\ at \in [Client -> Stage]
      /\ req \in [Client -> Request] /\ moving \in [Client -> Rows] /\ seen \in [Client -> Rows]
  BY DEF Inv, TypeOK, ClientsOK
<1>2. CASE NewRequest(d)
  BY <1>1, <1>2 DEF NewRequest, BootIndex, PutRead, DeleteCount, MoveCount, EnqueueCheck, Begin, Apart
<1>3. CASE PutPort(d) \/ MovePipelines(d) \/ MoveDeploys(d) \/ MoveArtifacts(d)
  BY <1>1, <1>3 DEF PutPort, MovePipelines, MoveDeploys, MoveArtifacts, Goto, Apart
<1>4. CASE PutWrite(d) \/ DeleteRow(d) \/ PostDeploy(d) \/ Notify(d) \/ Refuse(d)
  BY <1>1, <1>4 DEF PutWrite, DeleteRow, PostDeploy, Notify, Refuse, Answer, Apart
<1>5. CASE MoveCommit(d)
  BY <1>1, <1>5 DEF MoveCommit, Answer, Apart
<1>6. CASE BootSteps(d)
  <2>1. /\ at'[c] = at[c] /\ req'[c] = req[c] /\ seen' = seen
        /\ moving' = moving \/ Answer(d)
    BY <1>6, BootIs DEF Inv, ContractsConsistent
  <2>2. QED
    BY <1>1, <2>1 DEF Answer, Apart
<1>7. QED
  BY <1>2, <1>3, <1>4, <1>5, <1>6 DEF Handler, MoveSteps

(* A step is one of c's, or c loses no more than rows it has seen.           *)
LEMMA StepOf ==
  ASSUME Inv, [Next]_vars, NEW c \in Client
  PROVE  NewRequest(c) \/ Handler(c) \/ Apart(c)
<1>1. ASSUME NEW d \in Client, d # c, NewRequest(d) \/ Handler(d)
      PROVE  Apart(c)
  BY <1>1, OthersStay
<1>2. ASSUME NEW j, PipelineWork(j) \/ DeployWork(j)
      PROVE  Apart(c)
  BY <1>2 DEF PipelineWork, DeployWork, PipeClaim, PipeLoad, PipeFails, Packaged, Enqueue,
     PipeClose, DeployClaim, DeployLoad, DeployEnd, clients, Apart
<1>3. CASE UNCHANGED vars
  BY <1>3 DEF vars, clients, Apart
<1>4. QED
  BY <1>1, <1>2, <1>3 DEF Next

(* What the next stage needs is there when a handler begins or goes on.      *)
LEMMA RequestStep ==
  ASSUME Inv, [Next]_vars, NEW c \in Client
  PROVE  RequestAt(c)'
<1>1. /\ at \in [Client -> Stage]
      /\ req \in [Client -> Request] /\ RequestAt(c)
  BY DEF Inv, TypeOK, ClientsOK
<1>2. CASE Apart(c)
  BY <1>1, <1>2 DEF RequestAt, Apart
<1>3. CASE NewRequest(c)
  <2>0. CASE BootIndex(c)
    BY <1>1, <2>0, StartAssumption DEF BootIndex, Begin, RequestAt, Moving, Booting, Paired
  <2> SUFFICES ASSUME ~BootIndex(c) PROVE RequestAt(c)'
    BY <2>0
  <2>1. PICK s \in Service :
          \/ \E b \in Body : PutRead(c, s, b)
          \/ DeleteCount(c, s)
          \/ \E to \in Service, del \in BOOLEAN : MoveCount(c, s, to, del)
          \/ \E j \in Job : EnqueueCheck(c, s, j)
    BY <1>3 DEF NewRequest
  <2>2. ASSUME NEW b \in Body, PutRead(c, s, b)
        PROVE  RequestAt(c)'
    <3> DEFINE new == Merged(contract[s], b)
    <3>1. /\ at'[c] = "put" /\ req'[c] = [s |-> s, new |-> new]
          /\ new.port # NoPort /\ new.notify = new.poll
      BY <1>1, <2>2 DEF PutRead, Begin
    <3>2. new \in Contract
      BY MergedType DEF Inv
    <3> HIDE DEF new
    <3>3. QED
      BY <3>1, <3>2 DEF RequestAt, Moving, Booting
  <2>3. CASE DeleteCount(c, s)
    BY <1>1, <2>3 DEF DeleteCount, Begin, RequestAt, Moving, Booting
  <2>4. ASSUME NEW to \in Service, NEW del \in BOOLEAN, MoveCount(c, s, to, del)
        PROVE  RequestAt(c)'
    BY <1>1, <2>4 DEF MoveCount, Begin, RequestAt, Moving, Booting
  <2>5. ASSUME NEW j \in Job, EnqueueCheck(c, s, j)
        PROVE  RequestAt(c)'
    BY <1>1, <2>5 DEF EnqueueCheck, Begin, RequestAt, Moving, Booting, Job
  <2>6. QED
    BY <2>1, <2>2, <2>3, <2>4, <2>5
<1>4. CASE Handler(c)
  <2>1. CASE PutPort(c) \/ MovePipelines(c) \/ MoveDeploys(c) \/ MoveArtifacts(c)
    BY <1>1, <2>1 DEF PutPort, MovePipelines, MoveDeploys, MoveArtifacts, Goto, RequestAt, Moving, Booting
  <2>2. CASE Answer(c)
    BY <1>1, <2>2 DEF Answer, RequestAt, Moving, Booting
  <2>3. CASE BootSteps(c)
    BY <1>1, <2>3, BootIs DEF Inv, ContractsConsistent
  <2>4. QED
    BY <1>4, <2>1, <2>2, <2>3 DEF Handler, MoveSteps, PutWrite, DeleteRow, MoveCommit, PostDeploy,
       Notify, Refuse
<1>5. QED
  BY <1>2, <1>3, <1>4, StepOf

(* Statements take what has a service.                                       *)
LEMMA LocksStep ==
  ASSUME Inv, [Next]_vars, NEW c \in Client
  PROVE  LocksAt(c)'
<1>1. /\ moving \in [Client -> Rows] /\ req \in [Client -> Request] /\ LocksAt(c)
      /\ at \in [Client -> Stage]
  BY DEF Inv, TypeOK, ClientsOK
<1>2. moving'[c] \in Rows
  BY StepTyped DEF TypeOK, ClientsOK
<1>3. /\ \A j \in moving[c].pipes : psvc'[j] # None
      /\ \A j \in moving[c].deploys : dsvc'[j] # None
  BY <1>1, RowsLast DEF LocksAt, Rows
<1>4. CASE moving'[c] = moving[c]
  BY <1>3, <1>4 DEF LocksAt
<1>5. CASE MovePipelines(c) \/ MoveDeploys(c)
  <2>1. req[c].s # None
    BY <1>5, NameAssumption DEF MovePipelines, MoveDeploys, Goto, Inv, RequestAt, Moving
  <2>2. /\ moving'[c].pipes \subseteq moving[c].pipes \cup PipelinesOf(req[c].s)
        /\ moving'[c].deploys \subseteq moving[c].deploys \cup DeploysOf(req[c].s)
    BY <1>1, <1>5 DEF MovePipelines, MoveDeploys, Rows
  <2>3. UNCHANGED <<psvc, dsvc>>
    BY <1>5 DEF MovePipelines, MoveDeploys, tables
  <2>4. QED
    BY <1>3, <2>1, <2>2, <2>3 DEF LocksAt, PipelinesOf, DeploysOf
<1>6. CASE MoveArtifacts(c)
  <2>1. moving'[c].pipes = moving[c].pipes /\ moving'[c].deploys = moving[c].deploys
    BY <1>1, <1>6 DEF MoveArtifacts, Rows
  <2>2. QED
    BY <1>3, <2>1 DEF LocksAt
<1>7. CASE Answer(c)
  BY <1>1, <1>7 DEF Answer, NoRows, LocksAt
<1>b. CASE BootSteps(c)
  BY <1>4, <1>7, <1>b, BootIs DEF Inv, ContractsConsistent
<1>8. QED
  BY <1>4, <1>5, <1>6, <1>7, <1>b, StepOf DEF Apart, NewRequest, BootIndex, PutRead, DeleteCount, MoveCount,
     EnqueueCheck, Handler, MoveSteps, PutPort, PutWrite, DeleteRow, MoveCommit, PostDeploy,
     Notify, Refuse

(* What is counted has its verdict, and nothing takes a verdict back.        *)
LEMMA CountStep ==
  ASSUME Inv, [Next]_vars, NEW c \in Client
  PROVE  CountAt(c)'
<1>1. /\ seen \in [Client -> Rows] /\ req \in [Client -> Request] /\ CountAt(c)
      /\ at \in [Client -> Stage]
  BY DEF Inv, TypeOK, ClientsOK
<1>2. /\ \A j \in Piped : pstate[j] = "done" => pstate'[j] = "done"
      /\ \A j \in Job : dstate[j] = "done" => dstate'[j] = "done"
  BY RowsLast
<1>3. seen[c].pipes \subseteq Piped /\ seen[c].deploys \subseteq Job
  BY <1>1 DEF Rows
<1>4. CASE Apart(c)
  BY <1>1, <1>2, <1>3, <1>4 DEF CountAt, Apart
<1>5. ASSUME NEW s \in Service, NEW r, r.s = s, Inflight(s) = {},
             NEW stage, Begin(c, stage, r), UNCHANGED tables
      PROVE  CountAt(c)'
  <2>1. seen'[c] = [pipes |-> PipelinesOf(s), deploys |-> DeploysOf(s), tags |-> TagsOf(s)]
    BY <1>1, <1>5 DEF Begin, HistoryOf
  <2>2. ASSUME NEW j \in PipelinesOf(s)
        PROVE  pstate[j] = "done"
    <3>1. j \in Piped /\ j \in Job /\ psvc[j] = s /\ s # None
      BY <2>2, NameAssumption DEF PipelinesOf, Job
    <3>2. pstate[j] # "absent"
      BY <3>1 DEF Inv, RowsOf
    <3>3. pstate[j] \in {"absent", "queued", "packaging", "deploying", "done"}
      BY <3>1 DEF Inv, TypeOK, TablesOK
    <3>4. pstate[j] \notin {"queued", "packaging", "deploying"}
      BY <1>5, <2>2 DEF Inflight
    <3>5. QED
      BY <3>2, <3>3, <3>4
  <2>3. ASSUME NEW j \in DeploysOf(s)
        PROVE  dstate[j] = "done"
    <3>1. j \in Job /\ dsvc[j] = s /\ s # None
      BY <2>3, NameAssumption DEF DeploysOf
    <3>2. dstate[j] # "absent"
      BY <3>1 DEF Inv, RowsOf
    <3>3. dstate[j] \in {"absent", "queued", "running", "done"}
      BY <3>1 DEF Inv, TypeOK, TablesOK
    <3>4. dstate[j] \notin {"queued", "running"}
      BY <1>5, <2>3 DEF Inflight
    <3>5. QED
      BY <3>2, <3>3, <3>4
  <2>4. QED
    BY <1>5, <2>1, <2>2, <2>3 DEF CountAt, tables
<1>6. CASE NewRequest(c)
  <2>0. CASE BootIndex(c)
    BY <1>1, <2>0 DEF BootIndex, Begin, CountAt, Moving
  <2> SUFFICES ASSUME ~BootIndex(c) PROVE CountAt(c)'
    BY <2>0
  <2>1. PICK s \in Service :
          \/ \E b \in Body : PutRead(c, s, b)
          \/ DeleteCount(c, s)
          \/ \E to \in Service, del \in BOOLEAN : MoveCount(c, s, to, del)
          \/ \E j \in Job : EnqueueCheck(c, s, j)
    BY <1>6 DEF NewRequest
  <2>2. CASE (\E b \in Body : PutRead(c, s, b)) \/ (\E j \in Job : EnqueueCheck(c, s, j))
    BY <1>1, <2>2 DEF PutRead, EnqueueCheck, Begin, CountAt, Moving
  <2>3. CASE DeleteCount(c, s)
    BY <1>5, <2>3 DEF DeleteCount
  <2>4. ASSUME NEW to \in Service, NEW del \in BOOLEAN, MoveCount(c, s, to, del)
        PROVE  CountAt(c)'
    <3>1. [s |-> s, to |-> to, del |-> del].s = s
      OBVIOUS
    <3>2. QED
      BY <1>5, <2>4, <3>1 DEF MoveCount
  <2>5. QED
    BY <2>1, <2>2, <2>3, <2>4
<1>7. CASE Handler(c)
  <2>1. CASE PutPort(c) \/ MovePipelines(c) \/ MoveDeploys(c) \/ MoveArtifacts(c)
    BY <1>1, <1>2, <1>3, <2>1 DEF PutPort, MovePipelines, MoveDeploys, MoveArtifacts, Goto,
       CountAt, Moving
  <2>2. CASE Answer(c)
    BY <1>1, <2>2 DEF Answer, CountAt, Moving
  <2>3. CASE BootSteps(c)
    <3>1. at'[c] \in Booting \cup {"idle"}
      BY <2>3, BootIs DEF Inv, ContractsConsistent
    <3>2. QED
      BY <3>1 DEF CountAt, Moving, Booting
  <2>4. QED
    BY <1>7, <2>1, <2>2, <2>3 DEF Handler, MoveSteps, PutWrite, DeleteRow, MoveCommit, PostDeploy,
       Notify, Refuse
<1>8. QED
  BY <1>4, <1>6, <1>7, StepOf

(* Nothing but the move of another handler takes from a service what a count *)
(* has seen, and then it is struck from what that count has seen.            *)
LEMMA SeenStay ==
  ASSUME Inv, [Next]_vars, NEW c \in Client, at[c] \in Moving, Apart(c)
  PROVE  /\ \A j \in seen'[c].pipes : psvc'[j] = psvc[j]
         /\ \A j \in seen'[c].deploys : dsvc'[j] = dsvc[j]
         /\ \A s, u : (u \in seen'[c].tags /\ <<s, u>> \in index) => <<s, u>> \in index'
<1>1. /\ psvc \in [Piped -> Service \cup {None}] /\ dsvc \in [Job -> Service \cup {None}]
      /\ seen \in [Client -> Rows] /\ moving \in [Client -> Rows] /\ CountAt(c)
      /\ seen'[c].pipes \subseteq seen[c].pipes /\ seen'[c].deploys \subseteq seen[c].deploys
  BY DEF Inv, TypeOK, TablesOK, ClientsOK, Apart
<1>2. /\ seen'[c].pipes \subseteq Piped /\ seen'[c].deploys \subseteq Job
      /\ \A j \in seen'[c].pipes : pstate[j] = "done"
      /\ \A j \in seen'[c].deploys : dstate[j] = "done"
  <2>1. seen[c] \in Rows
    BY <1>1
  <2>2. QED
    BY <1>1, <2>1 DEF CountAt, Rows
<1> DEFINE Stay ==
      /\ \A j \in seen'[c].pipes : psvc'[j] = psvc[j]
      /\ \A j \in seen'[c].deploys : dsvc'[j] = dsvc[j]
      /\ \A s, u : (u \in seen'[c].tags /\ <<s, u>> \in index) => <<s, u>> \in index'
<1> SUFFICES Stay
  OBVIOUS
<1>3. CASE UNCHANGED <<psvc, dsvc, index>>
  BY <1>3
<1>4. ASSUME NEW d \in Client, NewRequest(d)
      PROVE  UNCHANGED <<psvc, dsvc, index>>
  BY <1>4 DEF NewRequest, BootIndex, PutRead, DeleteCount, MoveCount, EnqueueCheck, tables
<1>5. ASSUME NEW d \in Client, PostDeploy(d) \/ Notify(d)
      PROVE  Stay
  BY <1>1, <1>2, <1>5 DEF PostDeploy, Notify
<1>6. ASSUME NEW d \in Client, MoveCommit(d)
      PROVE  Stay
  <2>1. seen'[c] = [pipes |-> seen[c].pipes \ moving[d].pipes,
                    deploys |-> seen[c].deploys \ moving[d].deploys,
                    tags |-> seen[c].tags \ moving[d].tags]
    BY <1>6 DEF MoveCommit
  <2>2. /\ psvc' = [j \in Piped |-> IF j \in moving[d].pipes THEN req[d].to ELSE psvc[j]]
        /\ dsvc' = [j \in Job |-> IF j \in moving[d].deploys THEN req[d].to ELSE dsvc[j]]
        /\ index' = (index \ ({req[d].s} \X moving[d].tags)) \cup ({req[d].to} \X moving[d].tags)
    BY <1>6 DEF MoveCommit
  <2>3. QED
    BY <1>2, <2>1, <2>2
<1>7. ASSUME NEW d \in Client, Handler(d), ~(PostDeploy(d) \/ Notify(d) \/ MoveCommit(d))
      PROVE  UNCHANGED <<psvc, dsvc, index>>
  BY <1>7, BootLeaves DEF Handler, MoveSteps, PutPort, PutWrite, DeleteRow, MovePipelines, MoveDeploys,
     MoveArtifacts, Refuse, tables
<1>8. ASSUME NEW j \in Piped, Packaged(j)
      PROVE  Stay
  BY <1>8 DEF Packaged
<1>9. ASSUME NEW j \in Piped, Enqueue(j)
      PROVE  Stay
  <2>1. dstate[j] = "absent"
    BY <1>9 DEF Inv, RowsOf, Enqueue, Job
  <2>2. QED
    BY <1>1, <1>2, <1>9, <2>1 DEF Enqueue
<1>10. ASSUME NEW j \in Piped, PipelineWork(j), ~(Packaged(j) \/ Enqueue(j))
       PROVE  UNCHANGED <<psvc, dsvc, index>>
  BY <1>10 DEF PipelineWork, PipeClaim, PipeLoad, PipeFails, PipeClose, tables
<1>11. CASE UNCHANGED vars
  BY <1>3, <1>11 DEF vars, tables
<1> HIDE DEF Stay
<1>12. ASSUME NEW d \in Client, NewRequest(d) \/ Handler(d)
       PROVE  Stay
  BY <1>3, <1>4, <1>5, <1>6, <1>7, <1>12
<1>13. ASSUME NEW j \in Piped, PipelineWork(j)
       PROVE  Stay
  BY <1>3, <1>8, <1>9, <1>10, <1>13
<1>14. ASSUME NEW j \in Job, DeployWork(j)
       PROVE  Stay
  <2>1. UNCHANGED <<psvc, dsvc, index>>
    BY <1>14 DEF DeployWork, DeployClaim, DeployLoad, DeployEnd, tables
  <2>2. QED
    BY <1>3, <2>1
<1>15. QED
  BY <1>11, <1>12, <1>13, <1>14 DEF Next

LEMMA WholeStep ==
  ASSUME Inv, [Next]_vars, NEW c \in Client
  PROVE  WholeAt(c)'
<1>1. /\ at \in [Client -> Stage]
      /\ req \in [Client -> Request] /\ moving \in [Client -> Rows] /\ seen \in [Client -> Rows]
      /\ WholeAt(c)
  BY DEF Inv, TypeOK, ClientsOK
<1>2. CASE Apart(c)
  <2>1. CASE at[c] \in Moving
    BY <1>1, <1>2, <2>1, SeenStay DEF Apart, WholeAt, Moving
  <2>2. CASE at[c] \notin Moving
    BY <1>2, <2>2 DEF Apart, WholeAt, Moving
  <2>3. QED
    BY <2>1, <2>2
<1>3. CASE NewRequest(c)
  <2>0. CASE BootIndex(c)
    BY <1>1, <2>0 DEF BootIndex, Begin, WholeAt
  <2> SUFFICES ASSUME ~BootIndex(c) PROVE WholeAt(c)'
    BY <2>0
  <2>1. PICK s \in Service :
          \/ \E b \in Body : PutRead(c, s, b)
          \/ DeleteCount(c, s)
          \/ \E to \in Service, del \in BOOLEAN : MoveCount(c, s, to, del)
          \/ \E j \in Job : EnqueueCheck(c, s, j)
    BY <1>3 DEF NewRequest
  <2>2. CASE \/ \E b \in Body : PutRead(c, s, b)
             \/ DeleteCount(c, s)
             \/ \E j \in Job : EnqueueCheck(c, s, j)
    BY <1>1, <2>2 DEF PutRead, DeleteCount, EnqueueCheck, Begin, WholeAt
  <2>3. ASSUME NEW to \in Service, NEW del \in BOOLEAN, MoveCount(c, s, to, del)
        PROVE  WholeAt(c)'
    <3>1. /\ at'[c] = "counted" /\ req'[c].s = s
          /\ seen'[c] = [pipes |-> PipelinesOf(s), deploys |-> DeploysOf(s), tags |-> TagsOf(s)]
      BY <1>1, <2>3 DEF MoveCount, Begin, HistoryOf
    <3>2. UNCHANGED <<psvc, dsvc, index>>
      BY <2>3 DEF MoveCount, tables
    <3>3. QED
      BY <3>1, <3>2 DEF WholeAt, PipelinesOf, DeploysOf, TagsOf
  <2>4. QED
    BY <2>1, <2>2, <2>3
<1>4. CASE MovePipelines(c)
  <2>1. /\ at[c] = "counted" /\ at'[c] = "pipelines" /\ req'[c] = req[c] /\ seen'[c] = seen[c]
        /\ UNCHANGED <<psvc, dsvc, index>>
        /\ moving'[c].pipes = PipelinesOf(req[c].s)
    BY <1>1, <1>4 DEF MovePipelines, Goto, tables, Rows
  <2>2. seen[c].pipes \subseteq Piped
    BY <1>1 DEF Rows
  <2>3. QED
    BY <1>1, <2>1, <2>2 DEF WholeAt, PipelinesOf
<1>5. CASE MoveDeploys(c)
  <2>1. /\ at[c] = "pipelines" /\ at'[c] = "deploys" /\ req'[c] = req[c] /\ seen'[c] = seen[c]
        /\ UNCHANGED <<psvc, dsvc, index>>
        /\ moving'[c].deploys = DeploysOf(req[c].s) /\ moving'[c].pipes = moving[c].pipes
    BY <1>1, <1>5 DEF MoveDeploys, Goto, tables, Rows
  <2>2. seen[c].deploys \subseteq Job
    BY <1>1 DEF Rows
  <2>3. QED
    BY <1>1, <2>1, <2>2 DEF WholeAt, DeploysOf
<1>6. CASE MoveArtifacts(c)
  <2>1. /\ at[c] = "deploys" /\ at'[c] = "artifacts" /\ req'[c] = req[c] /\ seen'[c] = seen[c]
        /\ UNCHANGED <<psvc, dsvc, index>>
        /\ moving'[c].tags = TagsOf(req[c].s) \ TagsOf(req[c].to)
        /\ moving'[c].pipes = moving[c].pipes /\ moving'[c].deploys = moving[c].deploys
    BY <1>1, <1>6 DEF MoveArtifacts, Goto, tables, Rows
  <2>2. seen[c].tags \subseteq Tag
    BY <1>1 DEF Rows
  <2>3. QED
    BY <1>1, <2>1, <2>2 DEF WholeAt, TagsOf
<1>7. CASE Answer(c) \/ PutPort(c)
  BY <1>1, <1>7 DEF Answer, PutPort, Goto, WholeAt
<1>b. CASE BootSteps(c)
  <2>1. at'[c] \in Booting \cup {"idle"}
    BY <1>b, BootIs DEF Inv, ContractsConsistent
  <2>2. QED
    BY <2>1 DEF WholeAt, Booting
<1>8. QED
  BY <1>2, <1>3, <1>4, <1>5, <1>6, <1>7, <1>b, StepOf DEF Handler, MoveSteps, PutWrite, DeleteRow,
     MoveCommit, PostDeploy, Notify, Refuse

-----------------------------------------------------------------------------
LEMMA StartsInv == Init => Inv
<1> SUFFICES ASSUME Init PROVE Inv
  OBVIOUS
<1>1. TypeOK
  BY StartsTyped
<1>2. ContractsConsistent
  BY StartAssumption DEF Init, ContractsConsistent
<1>3. \A j \in Job : RowsOf(j)
  BY DEF Init, RowsOf, Job
<1>4. \A c \in Client : RequestAt(c) /\ CountAt(c) /\ LocksAt(c) /\ WholeAt(c)
  BY DEF Init, RequestAt, CountAt, LocksAt, WholeAt, Moving, Booting, NoRows
<1>5. QED
  BY <1>1, <1>2, <1>3, <1>4 DEF Inv

LEMMA StepInv == Inv /\ [Next]_vars => Inv'
<1> SUFFICES ASSUME Inv, [Next]_vars PROVE Inv'
  OBVIOUS
<1>1. TypeOK' /\ ContractsConsistent' /\ \A j \in Job : RowsOf(j)'
  BY StepTyped, ContractsStep, RowsStep
<1>2. \A c \in Client : RequestAt(c)' /\ CountAt(c)' /\ LocksAt(c)' /\ WholeAt(c)'
  BY RequestStep, CountStep, LocksStep, WholeStep
<1>3. QED
  BY <1>1, <1>2 DEF Inv

LEMMA Invariance == Spec => []Inv
BY StartsInv, StepInv, PTL DEF Spec

(* Whatever requests meet, rows, handlers and workers hold what the code     *)
(* stores (server.go, service_history.go, store.go).                         *)
THEOREM ContractTypes == Spec => []TypeOK
BY Invariance, PTL DEF Inv

(* Contracts never have one graceful endpoint alone, and never share a port  *)
(* from the moment a start could create the index, for any number of PUTs    *)
(* and starts at once and whatever the table held before: the look-up for    *)
(* the port is not what keeps them apart, the index is (handlePutService,    *)
(* UpsertService, seedDefaultService, NormalizeServiceURLs).                 *)
THEOREM ContractsAgree == Spec => []ContractsConsistent
BY Invariance, PTL DEF Inv

(* A move or a DELETE takes nothing under somebody's feet that was in flight *)
(* when it counted, however many others are at work (CountServiceHistory).   *)
THEOREM NoCountedWorkMoves == Spec => OnlyNewWorkIsCaught
<1>1. Inv /\ [Next]_vars =>
        [\A c \in Client :
           (at[c] \in {"delete", "artifacts"} /\ <<contract', psvc', dsvc'>> # <<contract, psvc, dsvc>>
              /\ at'[c] = "idle")
           => /\ \A j \in seen[c].pipes : pstate[j] = "done"
              /\ \A j \in seen[c].deploys : dstate[j] = "done"]_vars
  BY DEF Inv, CountAt, Moving
<1>2. QED
  BY <1>1, Invariance, PTL DEF Spec, OnlyNewWorkIsCaught

(* A move that commits leaves nothing behind of what it counted and nobody   *)
(* else has moved, however many moves, PUTs and workers interleave with its  *)
(* statements (MoveServiceHistory, moveArtifactIndex).                       *)
THEOREM MovesAreWhole == Spec => MoveIsWhole
<1> DEFINE Whole(c) ==
      (at[c] = "artifacts" /\ at'[c] = "idle" /\ <<psvc', dsvc', index'>> # <<psvc, dsvc, index>>)
      => /\ \A j \in seen[c].pipes : psvc'[j] = req[c].to
         /\ \A j \in seen[c].deploys : dsvc'[j] = req[c].to
         /\ \A t \in seen[c].tags : <<req[c].to, t>> \in index'
<1>1. ASSUME Inv, [Next]_vars, NEW c \in Client
      PROVE  Whole(c)
  <2> SUFFICES ASSUME at[c] = "artifacts", at'[c] = "idle",
                      <<psvc', dsvc', index'>> # <<psvc, dsvc, index>>
               PROVE  /\ \A j \in seen[c].pipes : psvc'[j] = req[c].to
                      /\ \A j \in seen[c].deploys : dsvc'[j] = req[c].to
                      /\ \A t \in seen[c].tags : <<req[c].to, t>> \in index'
    OBVIOUS
  <2>1. MoveCommit(c)
    BY <1>1, StepOf, BootLeaves DEF Apart, NewRequest, BootIndex, PutRead, DeleteCount, MoveCount, EnqueueCheck, Begin,
       Handler, MoveSteps, PutPort, PutWrite, DeleteRow, MovePipelines, MoveDeploys, MoveArtifacts,
       Goto, PostDeploy, Notify, Refuse, tables
  <2>2. /\ psvc' = [j \in Piped |-> IF j \in moving[c].pipes THEN req[c].to ELSE psvc[j]]
        /\ dsvc' = [j \in Job |-> IF j \in moving[c].deploys THEN req[c].to ELSE dsvc[j]]
        /\ index' = (index \ ({req[c].s} \X moving[c].tags)) \cup ({req[c].to} \X moving[c].tags)
    BY <2>1 DEF MoveCommit
  <2>3. /\ seen[c].pipes \subseteq moving[c].pipes /\ seen[c].deploys \subseteq moving[c].deploys
        /\ \A t \in seen[c].tags : t \in moving[c].tags \/ <<req[c].to, t>> \in index
    BY <1>1 DEF Inv, WholeAt
  <2>4. seen[c].pipes \subseteq Piped /\ seen[c].deploys \subseteq Job
    BY <1>1 DEF Inv, TypeOK, ClientsOK, Rows
  <2>5. QED
    BY <2>2, <2>3, <2>4
<1>2. Inv /\ [Next]_vars => [\A c \in Client : Whole(c)]_vars
  BY <1>1
<1>3. QED
  BY <1>2, Invariance, PTL DEF Spec, MoveIsWhole
=============================================================================
