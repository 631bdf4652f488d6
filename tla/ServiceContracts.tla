--------------------------- MODULE ServiceContracts ---------------------------
(***************************************************************************)
(* The local contracts (the services table) and the history that hangs on  *)
(* them: PUT and DELETE /api/services, POST .../history/move, the requests *)
(* that enqueue work, what a start of the server writes, and what the      *)
(* workers take from the tables while all of this goes on (src/server.go,  *)
(* src/service_history.go, src/store.go, src/service_url.go, src/main.go). *)
(*                                                                         *)
(* A handler reads, decides and writes in statements of their own; only    *)
(* the move writes in a transaction, whose statements see what others have *)
(* committed by then (READ COMMITTED) and lock the rows they write.        *)
(***************************************************************************)

EXTENDS Naturals, FiniteSets

CONSTANTS
  Service, Port, NoPort,
  Piped,        (* ids of pipelines; the deploy of a pipeline has its id   *)
  Posted,       (* ids of deploys of POST /api/deploys                     *)
  Tag, TagOf,   (* the tag a pipeline builds                               *)
  Client,       (* handlers and starts that may be at work at a time       *)
  Starter,      (* bound: those of them that may be a start                *)
  Body,         (* the bodies PUT is sent: [port, notify, poll], or Keep   *)
  Keep,         (* the field is absent: keep what the contract has         *)
  None,         (* no contract, no service                                 *)
  Registered,   (* what service_registry knows                             *)
  Befores,      (* what the table may hold at the start                    *)
  Seed,         (* the rows a start adds for services without contract     *)
  MaxRequests   (* bound: requests and starts in one behaviour             *)

Job == Piped \cup Posted
(* port: the column, NoPort when it is 0; url: a port that is found only in *)
(* a URL of the row, as rows from before the column have it.                *)
Contract == [port : Port \cup {NoPort}, url : Port \cup {NoPort},
             notify : BOOLEAN, poll : BOOLEAN]
Table == [Service -> Contract \cup {None}]

ASSUME NameAssumption ==
  /\ Piped \cap Posted = {} /\ TagOf \in [Piped -> Tag]
  /\ NoPort \notin Port /\ Keep \notin Port
  /\ None \notin Service /\ None \notin Contract /\ Registered \subseteq Service
ASSUME StarterAssumption == Starter \subseteq Client
ASSUME BodyAssumption ==
  Body \subseteq [port : Port \cup {Keep}, notify : BOOLEAN \cup {Keep}, poll : BOOLEAN \cup {Keep}]
(* Rows of old versions may have any ports, but no half of the graceful     *)
(* pair; the seeds are written in main.go.                                  *)
ASSUME StartAssumption ==
  /\ Befores \subseteq Table /\ Seed \in Table
  /\ \A before \in Befores \cup {Seed}, s \in Service :
       before[s] # None => before[s].notify = before[s].poll
ASSUME BoundAssumption == MaxRequests \in Nat

VARIABLES
  contract,     (* services                                                *)
  indexed,      (* does idx_services_port_unique exist?                    *)
  pstate, psvc, (* pipelines: state, service_id                            *)
  dstate, dsvc, (* deploys: state, service_id                              *)
  index         (* artifacts: the pairs (service_id, tag)                  *)
tables == <<contract, indexed, pstate, psvc, dstate, dsvc, index>>

VARIABLES
  work, held,   (* PipelineWorker.execute: its stage, job.ServiceID        *)
  ran           (* the service whose contract executeDeploy goes by        *)
workers == <<work, held, ran>>

VARIABLES
  at, req,      (* per client: the stage of its handler, what it remembers *)
  moving,       (* rows its open transaction has changed: the row locks    *)
  requests,
  seen          (* auxiliary: the rows its count has seen and nobody else   *)
                (* has moved since                                          *)
clients == <<at, req, moving, requests, seen>>

vars == <<tables, workers, clients>>

Stage == {"idle", "put", "port free", "delete", "post", "notify",
          "counted", "pipelines", "deploys", "artifacts",
          "seeding", "seed write", "normalizing"}
NoRows == [pipes |-> {}, deploys |-> {}, tags |-> {}]
Idle == [s |-> None]
Rows == [pipes : SUBSET Piped, deploys : SUBSET Job, tags : SUBSET Tag]
Request ==
  {Idle} \cup [s : Service]
  \cup [s : Service, new : Contract]
  \cup [s : Service \cup {None}, rows : Table]
  \cup [s : Service, j : Job]
  \cup [s : Service, to : Service, del : BOOLEAN]

TablesOK ==
  /\ contract \in Table /\ indexed \in BOOLEAN
  /\ pstate \in [Piped -> {"absent", "queued", "packaging", "deploying", "done"}]
  /\ dstate \in [Job -> {"absent", "queued", "running", "done"}]
  /\ psvc \in [Piped -> Service \cup {None}] /\ dsvc \in [Job -> Service \cup {None}]
  /\ index \subseteq Service \X Tag
WorkersOK ==
  /\ work \in [Piped -> {"idle", "claimed", "building", "enqueueing"}]
  /\ held \in [Piped -> Service \cup {None}] /\ ran \in [Job -> Service \cup {None}]
ClientsOK ==
  /\ at \in [Client -> Stage]
  /\ req \in [Client -> Request] /\ moving \in [Client -> Rows]
  /\ requests \in 0 .. MaxRequests
  /\ seen \in [Client -> Rows]
(* Rows, workers and handlers hold what the code stores. *)
TypeOK == TablesOK /\ WorkersOK /\ ClientsOK

(* No two services have one port; a row without port clashes with none.     *)
PortsApart(table) ==
  \A s, t \in Service :
    (s # t /\ None \notin {table[s], table[t]} /\ table[s].port # NoPort)
      => table[s].port # table[t].port

(* The index comes with the first start that can create it.                 *)
Init ==
  /\ contract \in Befores
  /\ indexed = FALSE
  /\ pstate = [j \in Piped |-> "absent"] /\ psvc = [j \in Piped |-> None]
  /\ dstate = [j \in Job |-> "absent"] /\ dsvc = [j \in Job |-> None]
  /\ index = {}
  /\ work = [j \in Piped |-> "idle"] /\ held = [j \in Piped |-> None]
  /\ ran = [j \in Job |-> None]
  /\ at = [c \in Client |-> "idle"] /\ req = [c \in Client |-> Idle]
  /\ moving = [c \in Client |-> NoRows] /\ requests = 0
  /\ seen = [c \in Client |-> NoRows]

-----------------------------------------------------------------------------
(* Rows that somebody's open transaction has changed: writers wait. *)
PipeLocked(j) == \E c \in Client : j \in moving[c].pipes
DeployLocked(j) == \E c \in Client : j \in moving[c].deploys
TagLocked(s, t) == \E c \in Client : t \in moving[c].tags /\ s \in {req[c].s, req[c].to}

(* CountServiceHistory, one SELECT. *)
PipelinesOf(s) == {j \in Piped : psvc[j] = s}
DeploysOf(s) == {j \in Job : dsvc[j] = s}
TagsOf(s) == {t \in Tag : <<s, t>> \in index}
InflightForgetsDeploying(s) ==
  {j \in PipelinesOf(s) : pstate[j] \in {"queued", "packaging"}}
  \cup {j \in DeploysOf(s) : dstate[j] \in {"queued", "running"}}
Inflight(s) ==
  {j \in PipelinesOf(s) : pstate[j] \in {"queued", "packaging", "deploying"}}
  \cup {j \in DeploysOf(s) : dstate[j] \in {"queued", "running"}}
HistoryOf(s) == [pipes |-> PipelinesOf(s), deploys |-> DeploysOf(s), tags |-> TagsOf(s)]

(* A handler goes from one stage to the next ... *)
Begin(c, stage, r) ==
  /\ at[c] = "idle"
  /\ requests < MaxRequests
  /\ requests' = requests + 1
  /\ at' = [at EXCEPT ![c] = stage]
  /\ req' = [req EXCEPT ![c] = r]
  /\ seen' = [seen EXCEPT ![c] = HistoryOf(r.s)]
Goto(c, from, stage) ==
  /\ at[c] = from
  /\ at' = [at EXCEPT ![c] = stage]
  /\ UNCHANGED <<req, requests, seen>>
(* ... and answers. *)
Answer(c) ==
  /\ at' = [at EXCEPT ![c] = "idle"]
  /\ req' = [req EXCEPT ![c] = Idle]
  /\ moving' = [moving EXCEPT ![c] = NoRows]
  /\ UNCHANGED requests

(* Every error of the database, and every refusal after the first read: a   *)
(* port that is taken, the unique index, an id that exists; a transaction   *)
(* is rolled back.                                                          *)
Refuse(c) ==
  /\ at[c] # "idle"
  /\ Answer(c)
  /\ UNCHANGED <<tables, workers, seen>>

-----------------------------------------------------------------------------
(* PUT /api/services/{serviceId} *)

MergedTakesBody(old, b) ==
  [port |-> b.port, url |-> NoPort, notify |-> b.notify, poll |-> b.poll]
(* Absent fields keep the value of the contract that was read; a new one    *)
(* starts without port and graceful endpoints; URLs are stored without one. *)
Merged(old, b) ==
  LET base == IF old = None THEN [port |-> NoPort, notify |-> FALSE, poll |-> FALSE] ELSE old
      Given(new, was) == IF new = Keep THEN was ELSE new
  IN [port |-> Given(b.port, base.port), url |-> NoPort,
      notify |-> Given(b.notify, base.notify), poll |-> Given(b.poll, base.poll)]

PutReadChecksBody(c, s, b) ==
  /\ contract[s] = None => s \in Registered
  /\ LET new == Merged(contract[s], b) IN
     /\ new.port # NoPort
     /\ (b.notify = b.poll \/ Keep \in {b.notify, b.poll})
     /\ Begin(c, "put", [s |-> s, new |-> new])
  /\ UNCHANGED <<tables, workers, moving>>
(* Reads the contract and asks the registry: what is not configured yet     *)
(* must be registered, and the registry must answer.  The row to be written *)
(* is complete from here on.                                                *)
PutRead(c, s, b) ==
  /\ contract[s] = None => s \in Registered
  /\ LET new == Merged(contract[s], b) IN
     /\ new.port # NoPort
     /\ new.notify = new.poll
     /\ Begin(c, "put", [s |-> s, new |-> new])
  /\ UNCHANGED <<tables, workers, moving>>

(* ServiceByPort *)
PortFree(s, port) ==
  \A t \in Service \ {s} : contract[t] # None => contract[t].port # port
PutPort(c) ==
  /\ Goto(c, "put", "port free")
  /\ PortFree(req[c].s, req[c].new.port)
  /\ UNCHANGED <<tables, workers, moving>>

UpsertUnindexed(s, new) == contract' = [contract EXCEPT ![s] = new]
(* UpsertService replaces the whole row; the unique index, where there is   *)
(* one, refuses a port that another row has got.                            *)
Upsert(s, new) ==
  /\ indexed /\ new.port # NoPort => PortFree(s, new.port)
  /\ contract' = [contract EXCEPT ![s] = new]
PutWrite(c) ==
  /\ at[c] = "port free"
  /\ Upsert(req[c].s, req[c].new)
  /\ Answer(c)
  /\ UNCHANGED <<indexed, pstate, psvc, dstate, dsvc, index, workers, seen>>

-----------------------------------------------------------------------------
(* DELETE /api/services/{serviceId} *)

DeleteCount(c, s) ==
  /\ Inflight(s) = {}
  /\ Begin(c, "delete", [s |-> s])
  /\ UNCHANGED <<tables, workers, moving>>

DeleteRow(c) ==
  /\ at[c] = "delete"
  /\ contract' = [contract EXCEPT ![req[c].s] = None]
  /\ Answer(c)
  /\ UNCHANGED <<indexed, pstate, psvc, dstate, dsvc, index, workers, seen>>

-----------------------------------------------------------------------------
(* POST /api/services/{serviceId}/history/move *)

(* The handler's checks and MoveServiceHistory's count: outside the         *)
(* transaction.                                                             *)
MoveCount(c, s, to, del) ==
  /\ s # to /\ contract[to] # None
  /\ contract[s] # None \/ HistoryOf(s) # NoRows
  /\ Inflight(s) = {}
  /\ Begin(c, "counted", [s |-> s, to |-> to, del |-> del])
  /\ UNCHANGED <<tables, workers, moving>>

(* The first two UPDATEs. *)
MovePipelines(c) ==
  /\ Goto(c, "counted", "pipelines")
  /\ \A j \in PipelinesOf(req[c].s) : ~PipeLocked(j)
  /\ moving' = [moving EXCEPT ![c].pipes = PipelinesOf(req[c].s)]
  /\ UNCHANGED <<tables, workers>>
MoveDeploysOfPipelines(c) ==
  /\ Goto(c, "pipelines", "deploys")
  /\ \A j \in DeploysOf(req[c].s) : ~DeployLocked(j)
  /\ moving' = [moving EXCEPT ![c].deploys = DeploysOf(req[c].s) \cap moving[c].pipes]
  /\ UNCHANGED <<tables, workers>>
MoveDeploys(c) ==
  /\ Goto(c, "pipelines", "deploys")
  /\ \A j \in DeploysOf(req[c].s) : ~DeployLocked(j)
  /\ moving' = [moving EXCEPT ![c].deploys = DeploysOf(req[c].s)]
  /\ UNCHANGED <<tables, workers>>

(* moveArtifactIndex: a tag the target already has stays where it is.  (Two *)
(* statements per tag; an insertion between them makes the second one fail.)*)
MoveArtifacts(c) ==
  LET tags == TagsOf(req[c].s) \ TagsOf(req[c].to) IN
  /\ Goto(c, "deploys", "artifacts")
  /\ \A t \in tags : ~TagLocked(req[c].s, t) /\ ~TagLocked(req[c].to, t)
  /\ moving' = [moving EXCEPT ![c].tags = tags]
  /\ UNCHANGED <<tables, workers>>

(* The optional DELETE and the COMMIT, which shows all of it at once. *)
MoveCommit(c) ==
  LET r == req[c] IN
  /\ at[c] = "artifacts"
  /\ psvc' = [j \in Piped |-> IF j \in moving[c].pipes THEN r.to ELSE psvc[j]]
  /\ dsvc' = [j \in Job |-> IF j \in moving[c].deploys THEN r.to ELSE dsvc[j]]
  /\ index' = (index \ ({r.s} \X moving[c].tags)) \cup ({r.to} \X moving[c].tags)
  /\ contract' = IF r.del THEN [contract EXCEPT ![r.s] = None] ELSE contract
  /\ seen' = [d \in Client |-> [pipes |-> seen[d].pipes \ moving[c].pipes,
                                deploys |-> seen[d].deploys \ moving[c].deploys,
                                tags |-> seen[d].tags \ moving[c].tags]]
  /\ Answer(c)
  /\ UNCHANGED <<indexed, pstate, dstate, workers>>

MoveSteps(c) == MovePipelines(c) \/ MoveDeploys(c) \/ MoveArtifacts(c) \/ MoveCommit(c)

-----------------------------------------------------------------------------
(* A start of the server, next to others that serve requests: NewStore, the *)
(* seeds, NormalizeServiceURLs.                                             *)

NoneLeft == [s \in Service |-> None]

(* ensureServicePortUniqueIndex: best effort, rows that clash prevent it.   *)
BootIndex(c) ==
  /\ c \in Starter
  /\ Begin(c, "seeding", [s |-> None, rows |-> Seed])
  /\ indexed' \in {indexed, indexed \/ PortsApart(contract)}
  /\ UNCHANGED <<contract, pstate, psvc, dstate, dsvc, index, workers, moving>>

(* A seed is written if GetService finds no row, whatever ports others have *)
(* (a failure is logged).                                                   *)
RowDone(c, s) == [req EXCEPT ![c] = [s |-> None, rows |-> [@.rows EXCEPT ![s] = None]]]
SeedRead(c, s) ==
  /\ at[c] = "seeding" /\ req[c].rows[s] # None
  /\ IF contract[s] # None
     THEN req' = RowDone(c, s) /\ UNCHANGED at
     ELSE /\ req' = [req EXCEPT ![c].s = s]
          /\ at' = [at EXCEPT ![c] = "seed write"]
  /\ UNCHANGED <<tables, workers, moving, requests, seen>>
SeedWrite(c) ==
  LET s == req[c].s IN
  /\ at[c] = "seed write"
  /\ Upsert(s, req[c].rows[s]) \/ UNCHANGED contract
  /\ req' = RowDone(c, s)
  /\ at' = [at EXCEPT ![c] = "seeding"]
  /\ UNCHANGED <<indexed, pstate, psvc, dstate, dsvc, index, workers, moving, requests, seen>>

(* adoptURLPorts, NormalizeServiceContract: the port moves from the URL to  *)
(* the column that has none.                                                *)
Normalized(row) ==
  [row EXCEPT !.port = IF @ = NoPort THEN row.url ELSE @, !.url = NoPort]
(* ListServices: what is written later is made of what is read now. *)
BootList(c) ==
  /\ at[c] = "seeding" /\ req[c].rows = NoneLeft
  /\ at' = [at EXCEPT ![c] = "normalizing"]
  /\ req' = [req EXCEPT ![c].rows = [s \in Service |->
       IF contract[s] # None /\ contract[s].url # NoPort THEN Normalized(contract[s]) ELSE None]]
  /\ UNCHANGED <<tables, workers, moving, requests, seen>>
NormalizeWrite(c, s) ==
  /\ at[c] = "normalizing" /\ req[c].rows[s] # None
  /\ Upsert(s, req[c].rows[s])
  /\ req' = RowDone(c, s)
  /\ UNCHANGED <<indexed, pstate, psvc, dstate, dsvc, index, workers, at, moving, requests, seen>>
BootDone(c) ==
  /\ at[c] = "normalizing" /\ req[c].rows = NoneLeft
  /\ Answer(c)
  /\ UNCHANGED <<tables, workers, seen>>

BootSteps(c) ==
  \/ SeedWrite(c) \/ BootList(c) \/ BootDone(c)
  \/ \E s \in Service : SeedRead(c, s) \/ NormalizeWrite(c, s)

-----------------------------------------------------------------------------
(* POST /api/deploys and POST /api/deploy-notify *)

(* The contract exists when the handler looks ... *)
EnqueueCheck(c, s, j) ==
  /\ contract[s] # None
  /\ Begin(c, IF j \in Piped THEN "notify" ELSE "post", [s |-> s, j |-> j])
  /\ UNCHANGED <<tables, workers, moving>>

(* ... and the row is inserted later, unless the id was taken. *)
PostDeploy(c) ==
  LET j == req[c].j IN
  /\ at[c] = "post"
  /\ dstate[j] = "absent"
  /\ dstate' = [dstate EXCEPT ![j] = "queued"]
  /\ dsvc' = [dsvc EXCEPT ![j] = req[c].s]
  /\ Answer(c)
  /\ UNCHANGED <<contract, indexed, pstate, psvc, index, workers, seen>>
Notify(c) ==
  LET j == req[c].j IN
  /\ at[c] = "notify"
  /\ pstate[j] = "absent"
  /\ pstate' = [pstate EXCEPT ![j] = "queued"]
  /\ psvc' = [psvc EXCEPT ![j] = req[c].s]
  /\ Answer(c)
  /\ UNCHANGED <<contract, indexed, dstate, dsvc, index, workers, seen>>

-----------------------------------------------------------------------------
(* The workers.  Who claims what is the matter of DeployWorker and          *)
(* ReleasePipeline; here they read the tables and write their own rows.     *)

PipeWrite(j, from, to) ==
  /\ pstate[j] = from /\ ~PipeLocked(j)
  /\ pstate' = [pstate EXCEPT ![j] = to]

(* ClaimNextPipeline: job.ServiceID is kept in memory from now on. *)
PipeClaim(j) ==
  /\ PipeWrite(j, "queued", "packaging")
  /\ work' = [work EXCEPT ![j] = "claimed"]
  /\ held' = [held EXCEPT ![j] = psvc[j]]
  /\ UNCHANGED <<contract, indexed, psvc, dstate, dsvc, index, ran, clients>>

(* execute finds the contract ... *)
PipeLoad(j) ==
  /\ work[j] = "claimed" /\ contract[held[j]] # None
  /\ work' = [work EXCEPT ![j] = "building"]
  /\ UNCHANGED <<tables, held, ran, clients>>

(* ... or not, or packaging fails. *)
PipeFails(j) ==
  /\ work[j] = "building" \/ (work[j] = "claimed" /\ contract[held[j]] = None)
  /\ PipeWrite(j, "packaging", "done")
  /\ work' = [work EXCEPT ![j] = "idle"]
  /\ UNCHANGED <<contract, indexed, psvc, dstate, dsvc, index, held, ran, clients>>

(* RecordArtifact (not when the build was skipped), then state deploying. *)
Packaged(j) ==
  /\ work[j] = "building"
  /\ \/ ~TagLocked(held[j], TagOf[j]) /\ index' = index \cup {<<held[j], TagOf[j]>>}
     \/ UNCHANGED index
  /\ PipeWrite(j, "packaging", "deploying")
  /\ work' = [work EXCEPT ![j] = "enqueueing"]
  /\ UNCHANGED <<contract, indexed, psvc, dstate, dsvc, held, ran, clients>>

(* CreateDeploy, for the service the worker remembers. *)
Enqueue(j) ==
  /\ work[j] = "enqueueing"
  /\ dstate' = [dstate EXCEPT ![j] = "queued"]
  /\ dsvc' = [dsvc EXCEPT ![j] = held[j]]
  /\ work' = [work EXCEPT ![j] = "idle"]
  /\ UNCHANGED <<contract, indexed, pstate, psvc, index, held, ran, clients>>

(* syncDeploying *)
PipeClose(j) ==
  /\ dstate[j] = "done"
  /\ PipeWrite(j, "deploying", "done")
  /\ UNCHANGED <<contract, indexed, psvc, dstate, dsvc, index, workers, clients>>

DeployWrite(j, from, to) ==
  /\ dstate[j] = from /\ ~DeployLocked(j)
  /\ dstate' = [dstate EXCEPT ![j] = to]

DeployClaim(j) ==
  /\ DeployWrite(j, "queued", "running")
  /\ UNCHANGED <<contract, indexed, pstate, psvc, dsvc, index, workers, clients>>

(* executeDeploy goes by the contract of the service its row names now. *)
DeployLoad(j) ==
  /\ dstate[j] = "running" /\ ran[j] = None
  /\ contract[dsvc[j]] # None
  /\ ran' = [ran EXCEPT ![j] = dsvc[j]]
  /\ UNCHANGED <<tables, work, held, clients>>

DeployEndLoadedOnly(j) ==
  /\ ran[j] # None
  /\ DeployWrite(j, "running", "done")
  /\ UNCHANGED <<contract, indexed, pstate, psvc, dsvc, index, workers, clients>>
(* FinishDeploy: a verdict, also when there is no contract. *)
DeployEnd(j) ==
  /\ DeployWrite(j, "running", "done")
  /\ ran[j] # None \/ contract[dsvc[j]] = None
  /\ UNCHANGED <<contract, indexed, pstate, psvc, dsvc, index, workers, clients>>

PipelineWork(j) ==
  PipeClaim(j) \/ PipeLoad(j) \/ PipeFails(j) \/ Packaged(j) \/ Enqueue(j) \/ PipeClose(j)
DeployWork(j) == DeployClaim(j) \/ DeployLoad(j) \/ DeployEnd(j)

-----------------------------------------------------------------------------
Handler(c) ==
  \/ PutPort(c) \/ PutWrite(c) \/ DeleteRow(c) \/ MoveSteps(c) \/ BootSteps(c)
  \/ PostDeploy(c) \/ Notify(c) \/ Refuse(c)
NewRequest(c) ==
  \/ BootIndex(c)
  \/ \E s \in Service :
       \/ \E b \in Body : PutRead(c, s, b)
       \/ DeleteCount(c, s)
       \/ \E to \in Service, del \in BOOLEAN : MoveCount(c, s, to, del)
       \/ \E j \in Job : EnqueueCheck(c, s, j)

Next ==
  \/ \E c \in Client : NewRequest(c) \/ Handler(c)
  \/ \E j \in Piped : PipelineWork(j)
  \/ \E j \in Job : DeployWork(j)

Spec == Init /\ [][Next]_vars

(* A handler that has begun ends; the workers' tickers never stop. *)
Fairness ==
  /\ \A c \in Client : WF_vars(Handler(c))
  /\ \A j \in Piped : WF_vars(PipelineWork(j))
  /\ \A j \in Job : WF_vars(DeployWork(j))
FairSpec == Spec /\ Fairness

-----------------------------------------------------------------------------
(* Once a start has been able to create the unique index, two services      *)
(* never have one port again; and every row has both graceful endpoints or  *)
(* neither, index or not: although each handler looks, or reads the row it  *)
(* merges into, before it writes and forgets what others do meanwhile, and  *)
(* a start writes rows it has listed earlier, without looking for the port  *)
(* (handlePutService, ServiceByPort, NormalizeServiceURLs, the seeds).      *)
(* Without the index nothing keeps two handlers apart.                      *)
ContractsConsistent ==
  /\ indexed => PortsApart(contract)
  /\ \A s \in Service : contract[s] # None => contract[s].notify = contract[s].poll

(* What was in flight when a move or a DELETE counted makes it refuse: the  *)
(* rows it takes under somebody's feet can only be younger than its count   *)
(* (CountServiceHistory looks at all states, also at the gap in which a     *)
(* pipeline has no deploy yet).                                             *)
OnlyNewWorkIsCaught ==
  [][\A c \in Client :
       (at[c] \in {"delete", "artifacts"} /\ <<contract', psvc', dsvc'>> # <<contract, psvc, dsvc>>
          /\ at'[c] = "idle")
       => /\ \A j \in seen[c].pipes : pstate[j] = "done"
          /\ \A j \in seen[c].deploys : dstate[j] = "done"]_vars

(* A move that commits leaves nothing behind of what it counted, but for    *)
(* what another move has taken meanwhile: its statements take all of it,    *)
(* and the row locks keep it (MoveServiceHistory, moveArtifactIndex).       *)
MoveIsWhole ==
  [][\A c \in Client :
       (at[c] = "artifacts" /\ at'[c] = "idle" /\ <<psvc', dsvc', index'>> # <<psvc, dsvc, index>>)
       => /\ \A j \in seen[c].pipes : psvc'[j] = req[c].to
          /\ \A j \in seen[c].deploys : dsvc'[j] = req[c].to
          /\ \A t \in seen[c].tags : <<req[c].to, t>> \in index']_vars

(* Accepted work gets a verdict, also when its contract is deleted under it *)
(* (execute, executeDeploy).                                                *)
WorkSettles ==
  /\ \A j \in Piped : (pstate[j] # "absent") ~> (pstate[j] = "done")
  /\ \A j \in Job : (dstate[j] # "absent") ~> (dstate[j] = "done")

=============================================================================
