---------------------------- MODULE MachineCatalog ----------------------------
(***************************************************************************)
(* Which machine is which, and how to reach it (src/machine_catalog.go,    *)
(* with the registry client of src/service_registry.go, the channels of    *)
(* src/machine_target.go and the announcement of src/registry_announce.go).*)
(*                                                                         *)
(* The service registry, an outside service, lists instances: a service    *)
(* runs on a host, with optional fields that name the machine and its      *)
(* platform.  Every control plane keeps a cached reading of that list.     *)
(* Any question asked of a stale cache first reads the registry again, and *)
(* what it read replaces the cache even when the registry did not answer.  *)
(***************************************************************************)

EXTENDS Naturals, Sequences, SequencesExt

CONSTANTS
  Plane,          (* control planes, named after the host each runs on      *)
  Host,           (* machines on the network                                *)
  Name,           (* friendly machine names (metadata.machine)              *)
  Service,
  Acp,            (* the service the control planes announce themselves as  *)
  Local,          (* the machine id "local"                                 *)
  Loopback,       (* a registered host such as 127.0.0.1                    *)
  None            (* an absent field, an empty selection, no answer         *)

CONSTANTS
  Instances,      (* what may be registered                                 *)
  Fixed,          (* what nobody ever takes out of the registry             *)
  PlatOf,         (* [Host -> <<os, arch>>]: what the machine really is     *)
  Channel,        (* DEPLOY_MACHINE_TARGETS: [Plane -> [ids -> channels]]   *)
  DefaultMachine, (* DEPLOY_DEFAULT_MACHINE per plane, or None              *)
  AnnouncedHost,  (* [Plane -> Host \cup {Loopback}]                        *)
  MaxChanges      (* bound: changes made by other people                    *)

OS == {"darwin", "linux"}
Arch == {"amd64", "arm64", "386", "arm"}
Platform == OS \X Arch
Machine == {Local} \cup Host \cup Name
Target == [remote : BOOLEAN, host : Host]

(* A plane reaches itself under "local", and has ids for channels to other  *)
(* hosts; a channel that is not remote is the plane itself.                 *)
ASSUME SiteAssumption ==
  /\ Plane \subseteq Host /\ IsFiniteSet(Plane) /\ Acp \in Service
  /\ Fixed \subseteq Instances /\ IsFiniteSet(Fixed)
  /\ PlatOf \in [Host -> Platform]
  /\ AnnouncedHost \in [Plane -> Host \cup {Loopback}]
  /\ \A i \in Instances : /\ i.service \in Service
                          /\ i.host \in Host \cup {Loopback}
                          /\ i.name \in Name \cup {None}
  /\ \A p \in Plane : Local \in DOMAIN Channel[p] /\ DOMAIN Channel[p] \subseteq Machine
  /\ \A p \in Plane : \A m \in DOMAIN Channel[p] :
       /\ Channel[p][m] \in Target
       /\ Channel[p][m].remote \/ Channel[p][m].host = p
  /\ MaxChanges \in Nat
(* None stands beside values of each of these kinds and is none of them.    *)
ASSUME NoneAssumption == None \notin Plane \cup Machine \cup Platform \cup Instances \cup {"machine"}

VARIABLES
  registered,     (* the registry's instances, in the order it lists them   *)
  answering,      (* does it answer?                                        *)
  serving,        (* planes that listen                                     *)
  cat,            (* each plane's cached reading                            *)
  fresh,          (* is it younger than machineCacheTTL?                    *)
  changes
catalogVars == <<registered, answering, serving, cat, fresh, changes>>

-----------------------------------------------------------------------------
(* Reading one instance. *)

NormalizeOS(os) == IF os \in {"mac", "darwin"} THEN "darwin" ELSE os
RegistryOSName(os) == IF os = "darwin" THEN "mac" ELSE os

(* Fields of metadata that are missing are those of the reading plane; what  *)
(* does not parse as a platform then is none.                               *)
InstancePlatform(p, i) ==
  LET named == <<IF i.meta[1] = None THEN PlatOf[p][1] ELSE NormalizeOS(i.meta[1]),
                 IF i.meta[2] = None THEN PlatOf[p][2] ELSE i.meta[2]>>
  IN  IF <<NormalizeOS(i.os), i.arch>> \in Platform THEN <<NormalizeOS(i.os), i.arch>>
      ELSE IF i.meta # <<None, None>> /\ named \in Platform THEN named
      ELSE None

RegisteredOS(p, i) ==
  IF NormalizeOS(i.os) \in OS THEN NormalizeOS(i.os)
  ELSE IF InstancePlatform(p, i) # None THEN InstancePlatform(p, i)[1]
  ELSE None

IsLocalHost(p, h) == h \in {Loopback, p}

MachineIDForInstance(p, i) ==
  IF IsLocalHost(p, i.host) THEN Local
  ELSE IF i.name # None THEN i.name ELSE i.host

-----------------------------------------------------------------------------
(* The cached reading. *)

(* The last instance of a service on a machine stands for it; the first     *)
(* platform anybody registers for a machine is the machine's.               *)
Read(p, list) ==
  LET id == [k \in DOMAIN list |-> MachineIDForInstance(p, list[k])]
      plat == [k \in DOMAIN list |-> InstancePlatform(p, list[k])]
      Here(s, m) == {k \in DOMAIN list : list[k].service = s /\ id[k] = m}
      Told(m) == {k \in DOMAIN list : id[k] = m /\ plat[k] # None}
  IN  [ok |-> TRUE,
       rep |-> [s \in Service |-> [m \in Machine |->
         IF Here(s, m) = {} THEN None ELSE list[Max(Here(s, m))]]],
       platforms |-> [m \in Machine |->
         IF Told(m) = {} THEN None ELSE plat[Min(Told(m))]]]

Unanswered ==
  [ok |-> FALSE,
   rep |-> [s \in Service |-> [m \in Machine |-> None]],
   platforms |-> [m \in Machine |-> None]]

Refresh(p) ==
  cat' = [cat EXCEPT ![p] = IF answering THEN Read(p, registered) ELSE Unanswered]

(* Every question starts like this, under the lock. *)
Consult(p) ==
  /\ p \in serving
  /\ IF fresh[p] THEN UNCHANGED cat ELSE Refresh(p)
  /\ fresh' = [fresh EXCEPT ![p] = TRUE]
  /\ UNCHANGED <<registered, answering, serving, changes>>

-----------------------------------------------------------------------------
(* What a reading c of plane p says. *)

TargetIDs(p) == DOMAIN Channel[p]
Bound(c, s) == {m \in Machine : c.rep[s][m] # None}

ScopeIDsNoFallback(p, c, s) ==
  IF Bound(c, s) = {} THEN {} ELSE {Local} \cup Bound(c, s)
(* Scope: without an answer every machine that has a channel; otherwise     *)
(* none for a service without instances, else this machine and theirs.      *)
ScopeIDs(p, c, s) ==
  IF ~c.ok THEN TargetIDs(p)
  ELSE IF Bound(c, s) = {} THEN {}
  ELSE {Local} \cup Bound(c, s)

DefaultFrom(p, ids) ==
  IF DefaultMachine[p] \in ids THEN DefaultMachine[p] ELSE Local

(* A configured channel by id, else one by the instance's host (of several, *)
(* any: they are held in a map), else what the instance itself allows.      *)
TargetForService(p, c, s, m) ==
  LET i == c.rep[s][m]
      byHost == {Channel[p][k] : k \in
        {k \in TargetIDs(p) : Channel[p][k].remote /\ Channel[p][k].host = i.host}}
  IN  IF m \in TargetIDs(p) THEN {Channel[p][m]}
      ELSE IF i = None THEN {}
      ELSE IF byHost # {} THEN byHost
      ELSE IF IsLocalHost(p, i.host) THEN {[remote |-> FALSE, host |-> p]}
      ELSE IF i.home THEN {[remote |-> TRUE, host |-> i.host]}
      ELSE {}

(* The two halves of ValidateForService; a default is not looked up. *)
Selectable(p, c, s, sel) ==
  /\ ScopeIDs(p, c, s) # {}
  /\ sel = None \/ sel \in ScopeIDs(p, c, s)
Reachable(p, c, s, sel) == sel = None \/ TargetForService(p, c, s, sel) # {}

InstanceOS(p, c, s, m) ==
  IF c.rep[s][m] = None THEN None ELSE RegisteredOS(p, c.rep[s][m])

-----------------------------------------------------------------------------
(* The registry's other clients, time, and the planes' own instances. *)

Change ==
  /\ changes < MaxChanges
  /\ changes' = changes + 1

(* Where a new instance is listed is the registry's affair. *)
Listed(i) ==
  \/ i \in ToSet(registered) /\ UNCHANGED registered
  \/ i \notin ToSet(registered) /\ registered' \in {<<i>> \o registered, Append(registered, i)}
Delisted(i) ==
  \/ i \notin ToSet(registered) /\ UNCHANGED registered
  \/ \E k \in DOMAIN registered : registered[k] = i /\ registered' = RemoveAt(registered, k)

Register(i) ==
  /\ Change
  /\ i \notin ToSet(registered)
  /\ Listed(i)
  /\ UNCHANGED <<answering, serving, cat, fresh>>

Deregister(i) ==
  /\ Change
  /\ i \in ToSet(registered) \ Fixed
  /\ Delisted(i)
  /\ UNCHANGED <<answering, serving, cat, fresh>>

Outage ==
  /\ Change
  /\ answering' = ~answering
  /\ UNCHANGED <<registered, serving, cat, fresh>>

Expire(p) ==
  /\ fresh[p]
  /\ fresh' = [fresh EXCEPT ![p] = FALSE]
  /\ UNCHANGED <<registered, answering, serving, cat, changes>>

OwnInstance(p) ==
  [service |-> Acp, host |-> AnnouncedHost[p], name |-> None,
   os |-> RegistryOSName(PlatOf[p][1]), arch |-> PlatOf[p][2],
   meta |-> <<None, None>>, home |-> FALSE]
Registrable == Instances \cup {OwnInstance(p) : p \in Plane}
(* A plane withdraws its own instance when it stops: that is never fixed.   *)
ASSUME OwnInstanceAssumption == \A p \in Plane : OwnInstance(p) \notin Fixed \cup {None}

(* Listen, announce, serve: without an answer the process gives up. *)
StartServing(p) ==
  /\ Change
  /\ p \notin serving
  /\ answering
  /\ Listed(OwnInstance(p))
  /\ serving' = serving \cup {p}
  /\ cat' = [cat EXCEPT ![p] = Unanswered]
  /\ fresh' = [fresh EXCEPT ![p] = FALSE]
  /\ UNCHANGED answering

(* SIGTERM: the address is withdrawn first; a failed call leaves it behind. *)
StopServing(p) ==
  /\ Change
  /\ p \in serving
  /\ IF answering THEN Delisted(OwnInstance(p)) ELSE UNCHANGED registered
  /\ serving' = serving \ {p}
  /\ UNCHANGED <<answering, cat, fresh>>

CatalogInit ==
  /\ registered = SetToSeq(Fixed \cup {OwnInstance(p) : p \in Plane})
  /\ answering = TRUE
  /\ serving = Plane
  /\ cat = [p \in Plane |-> Unanswered]
  /\ fresh = [p \in Plane |-> FALSE]
  /\ changes = 0

CatalogEnvironment ==
  \/ \E i \in Instances : Register(i) \/ Deregister(i)
  \/ Outage
  \/ \E p \in Plane : Expire(p)

Reading ==
  [ok : BOOLEAN, rep : [Service -> [Machine -> Registrable \cup {None}]],
   platforms : [Machine -> Platform \cup {None}]]
CatalogOK ==
  /\ registered \in Seq(Registrable) /\ IsInjective(registered)
  /\ answering \in BOOLEAN
  /\ serving \subseteq Plane
  /\ fresh \in [Plane -> BOOLEAN]
  /\ changes \in 0..MaxChanges
  /\ cat \in [Plane -> Reading]
  /\ \A p \in Plane, s \in Service : \A m \in Bound(cat[p], s) :
       MachineIDForInstance(p, cat[p].rep[s][m]) = m /\ cat[p].rep[s][m].service = s
=============================================================================
