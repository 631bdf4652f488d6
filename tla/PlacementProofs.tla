---------------------------- MODULE PlacementProofs ----------------------------
(***************************************************************************)
(* Theorems about Placement, with the readings of the registry that        *)
(* MachineCatalog describes: whatever the registry lists, however it       *)
(* changes between two steps of a deploy and wherever planes disagree, a   *)
(* deploy lands where it was sent with binaries that run there, or lands   *)
(* nowhere; and an outage never makes a bound machine unknown.             *)
(***************************************************************************)

EXTENDS Placement, SequenceTheorems, FiniteSetTheorems, NaturalsInduction, TLAPS

-----------------------------------------------------------------------------
(* The inductive invariant. *)

Columns == {"st", "kind", "by", "plane", "machine", "asked", "layout", "tag", "stamp", "why", "site"}
RowsOK == DOMAIN job = Job /\ \A j \in Job : DOMAIN job[j] = Columns

(* What nobody takes out of the registry is listed, and every reading that  *)
(* was answered has seen it.                                                *)
FixedSeen ==
  /\ Fixed \subseteq ToSet(registered)
  /\ \A p \in Plane : cat[p].ok =>
       \A i \in Fixed : cat[p].rep[i.service][MachineIDForInstance(p, i)] # None

States == {"new", "asked", "queued", "packing", "building", "compiling",
           "ready", "claimed", "scoped", "checked",
           "landed", "failed", "refused"}
Running == {"asked", "packing", "building", "compiling", "claimed", "scoped", "checked"}

(* A row keeps the machine it was asked for, is stamped before it is built,  *)
(* and says why it ended only when it has ended.                             *)
RowOK(j) ==
  LET J == job[j] IN
  /\ J.st \in States
  /\ J.st = "new" => J.asked = None
  /\ J.st # "new" => J.machine \in Machine /\ (J.asked # None => J.machine = J.asked)
  /\ J.st \in Running => J.plane \in Plane
  /\ J.stamp \in {None} \cup Platform /\ J.tag \in Tag
  /\ J.st \in {"building", "compiling"} => J.stamp # None
  /\ ~Settled(j) => J.why = None

(* A place that passed the checks is one the machine stands for.            *)
SiteOK(j) ==
  LET at == job[j].site IN
  job[j].st \in {"checked", "landed"} =>
    /\ at \in Place
    /\ at.host \in Meaning(job[j].plane, ServiceOf[j], job[j].machine)
    /\ at.host # job[j].plane /\ PlatOf[at.host][1] = "linux" => at.dir = "linux"

(* The conjunct of BoundStaysDeployable about one job.                      *)
Pinned(j, m) ==
  \E i \in Fixed : i.service = ServiceOf[j]
    /\ \A p \in Plane : MachineIDForInstance(p, i) = m /\ m \in TargetIDs(p)
KnownOK(j) == Pinned(j, job[j].machine) => job[j].why # "machine"

StoreOK ==
  /\ stored \in [Released -> [Tag -> Platform \cup {None}]]
  /\ \A s \in Released, t \in Platform : stored[s][t] \in {None, t}
ContractsOK ==
  /\ dirs \in [Released -> Layouts]
  /\ probed \in [Plane -> [Machine -> Platform \cup {None}]]

JobOK(j) == RowOK(j) /\ SiteOK(j) /\ KnownOK(j)
JobsOK == \A j \in Job : JobOK(j)
Inv == CatalogOK /\ FixedSeen /\ RowsOK /\ StoreOK /\ ContractsOK /\ JobsOK

-----------------------------------------------------------------------------
(* Facts about the operators of the model. *)

LEMMA Below == \A m, n \in Nat : m < n => <<m, n>> \in OpToRel(<, Nat)
BY DEF OpToRel

LEMMA SmallestOf ==
  ASSUME NEW K \in SUBSET Nat, K # {}
  PROVE  Min(K) \in K
<1>1. PICK x \in K : \A y \in K : ~(<<y, x>> \in OpToRel(<, Nat))
  BY NatLessThanWellFounded, WFMin
<1>2. \A y \in K : ~(y < x)
  BY <1>1, Below
<1>3. \A y \in K : x <= y
  BY <1>2
<1>4. QED
  BY <1>3 DEF Min

LEMMA LargestOf ==
  ASSUME NEW n \in Nat, NEW K \in SUBSET (1..n), K # {}
  PROVE  Max(K) \in K
<1> DEFINE above == {n - k : k \in K}
<1>1. above \in SUBSET Nat /\ above # {}
  <2>1. \A k \in K : k \in 1..n /\ n - k \in Nat
    OBVIOUS
  <2>2. QED
    BY <2>1
<1>2. PICK a \in above : \A b \in above : ~(<<b, a>> \in OpToRel(<, Nat))
  BY <1>1, NatLessThanWellFounded, WFMin
<1>3. \A b \in above : a <= b
  <2> HIDE DEF above
  <2> TAKE b \in above
  <2>1. a \in Nat /\ b \in Nat
    BY <1>1, <1>2
  <2>2. ~(b < a)
    BY <1>2, <2>1, Below
  <2>3. QED
    BY <2>1, <2>2
<1>4. PICK x \in K : a = n - x
  OBVIOUS
<1>5. \A y \in K : x >= y
  <2> TAKE y \in K
  <2>1. n - x <= n - y
    BY <1>3, <1>4
  <2>2. QED
    BY <2>1
<1>6. QED
  BY <1>5 DEF Max

LEMMA RegistrableIs ==
  /\ None \notin Registrable /\ Fixed \subseteq Instances /\ Fixed \subseteq Registrable
  /\ \A i \in Registrable : /\ i.service \in Service
                            /\ i.host \in Host \cup {Loopback}
                            /\ i.name \in Name \cup {None}
<1>1. \A p \in Plane : LET o == OwnInstance(p) IN
        o # None /\ o.service \in Service /\ o.host \in Host \cup {Loopback} /\ o.name = None
  BY SiteAssumption, OwnInstanceAssumption DEF OwnInstance
<1>2. QED
  BY <1>1, SiteAssumption, NoneAssumption DEF Registrable

LEMMA MachineIs ==
  ASSUME NEW p \in Plane, NEW i \in Registrable
  PROVE  /\ MachineIDForInstance(p, i) \in Machine
         /\ IsLocalHost(p, i.host) => MachineIDForInstance(p, i) = Local
BY RegistrableIs DEF MachineIDForInstance, IsLocalHost, Machine

LEMMA PlatformIs ==
  ASSUME NEW p \in Plane, NEW i
  PROVE  InstancePlatform(p, i) \in Platform \cup {None}
BY DEF InstancePlatform

(* Some reading of a list: every machine's instance is one of that machine, *)
(* and none that is listed goes unseen.                                     *)
LEMMA ReadIs ==
  ASSUME NEW p \in Plane, NEW list \in Seq(Registrable)
  PROVE  /\ Read(p, list) \in Reading
         /\ \A s \in Service, m \in Machine : LET i == Read(p, list).rep[s][m] IN
              i # None => MachineIDForInstance(p, i) = m /\ i.service = s
         /\ \A i \in ToSet(list) : Read(p, list).rep[i.service][MachineIDForInstance(p, i)] # None
<1> DEFINE R == Read(p, list)
           id == [k \in DOMAIN list |-> MachineIDForInstance(p, list[k])]
           plat == [k \in DOMAIN list |-> InstancePlatform(p, list[k])]
           Here(s, m) == {k \in DOMAIN list : list[k].service = s /\ id[k] = m}
           Told(m) == {k \in DOMAIN list : id[k] = m /\ plat[k] # None}
<1>1. Len(list) \in Nat /\ DOMAIN list = 1..Len(list) /\ \A k \in DOMAIN list : list[k] \in Registrable
  BY LenProperties, ElementOfSeq
<1>2. ASSUME NEW s \in Service, NEW m \in Machine, Here(s, m) # {}
      PROVE  Max(Here(s, m)) \in Here(s, m)
  BY <1>1, <1>2, LargestOf
<1>3. ASSUME NEW m \in Machine, Told(m) # {}
      PROVE  Min(Told(m)) \in Told(m)
  <2>1. Told(m) \in SUBSET Nat
    BY <1>1
  <2>2. QED
    BY <2>1, <1>3, SmallestOf
<1>4. R = [ok |-> TRUE,
           rep |-> [s \in Service |-> [m \in Machine |->
                     IF Here(s, m) = {} THEN None ELSE list[Max(Here(s, m))]]],
           platforms |-> [m \in Machine |->
                     IF Told(m) = {} THEN None ELSE plat[Min(Told(m))]]]
  BY DEF Read
<1>5. \A s \in Service, m \in Machine :
        R.rep[s][m] = IF Here(s, m) = {} THEN None ELSE list[Max(Here(s, m))]
  BY <1>4
<1>6. \A m \in Machine :
        (IF Told(m) = {} THEN None ELSE plat[Min(Told(m))]) \in Platform \cup {None}
  BY <1>3, PlatformIs
<1>7. \A s \in Service, m \in Machine :
        (IF Here(s, m) = {} THEN None ELSE list[Max(Here(s, m))]) \in Registrable \cup {None}
  BY <1>1, <1>2
<1> HIDE DEF R
<1>8. R \in Reading
  <2> HIDE DEF Here, Told
  <2>1. QED
    BY <1>4, <1>6, <1>7 DEF Reading
<1>9. \A s \in Service, m \in Machine :
        R.rep[s][m] # None => MachineIDForInstance(p, R.rep[s][m]) = m /\ R.rep[s][m].service = s
  <2> TAKE s \in Service, m \in Machine
  <2>1. CASE Here(s, m) = {}
    BY <2>1, <1>5
  <2>2. CASE Here(s, m) # {}
    <3>1. Max(Here(s, m)) \in Here(s, m) /\ R.rep[s][m] = list[Max(Here(s, m))]
      BY <2>2, <1>2, <1>5
    <3>2. QED
      BY <3>1
  <2>3. QED
    BY <2>1, <2>2
<1>10. ASSUME NEW i \in ToSet(list)
       PROVE  R.rep[i.service][MachineIDForInstance(p, i)] # None
  <2>1. PICK k \in DOMAIN list : list[k] = i
    BY <1>1 DEF ToSet
  <2>2. i \in Registrable /\ i.service \in Service /\ MachineIDForInstance(p, i) \in Machine
    BY <1>1, <2>1, RegistrableIs, MachineIs
  <2>3. k \in Here(i.service, MachineIDForInstance(p, i))
    BY <2>1
  <2>4. R.rep[i.service][MachineIDForInstance(p, i)] = list[Max(Here(i.service, MachineIDForInstance(p, i)))]
    BY <2>2, <2>3, <1>5
  <2>5. list[Max(Here(i.service, MachineIDForInstance(p, i)))] \in Registrable
    BY <1>1, <1>2, <2>2, <2>3
  <2>6. QED
    BY <2>4, <2>5, RegistrableIs
<1>11. QED
  BY <1>8, <1>9, <1>10 DEF R

LEMMA UnansweredIs ==
  Unanswered \in Reading /\ ~Unanswered.ok /\ \A s \in Service, m \in Machine : Unanswered.rep[s][m] = None
BY DEF Unanswered, Reading

-----------------------------------------------------------------------------
(* The registry and the readings. *)

LEMMA Shortened ==
  ASSUME NEW list \in Seq(Registrable), IsInjective(list), NEW i, NEW k \in DOMAIN list, list[k] = i
  PROVE  /\ RemoveAt(list, k) \in Seq(Registrable) /\ IsInjective(RemoveAt(list, k))
         /\ ToSet(list) \ {i} \subseteq ToSet(RemoveAt(list, k))
<1> DEFINE n == Len(list)
           a == SubSeq(list, 1, k - 1)
           b == SubSeq(list, k + 1, n)
<1>1. n \in Nat /\ DOMAIN list = 1..n /\ k \in 1..n /\ \A l \in 1..n : list[l] \in Registrable
  BY LenProperties, ElementOfSeq
<1>2. a \in Seq(Registrable) /\ Len(a) = k - 1 /\ \A l \in 1..(k - 1) : a[l] = list[l]
  <2>1. 1 \in Int /\ k - 1 \in Int /\ \A l \in 1..(k - 1) : list[l] \in Registrable
    BY <1>1
  <2>2. /\ SubSeq(list, 1, k - 1) \in Seq(Registrable)
        /\ Len(SubSeq(list, 1, k - 1)) = IF 1 <= k - 1 THEN (k - 1) - 1 + 1 ELSE 0
        /\ \A l \in 1..((k - 1) - 1 + 1) : SubSeq(list, 1, k - 1)[l] = list[1 + l - 1]
    BY <2>1, SubSeqProperties
  <2>3. QED
    BY <1>1, <2>2
<1>3. b \in Seq(Registrable) /\ Len(b) = n - k /\ \A l \in 1..(n - k) : b[l] = list[k + l]
  <2>1. k + 1 \in Int /\ n \in Int /\ \A l \in (k + 1)..n : list[l] \in Registrable
    BY <1>1
  <2>2. /\ SubSeq(list, k + 1, n) \in Seq(Registrable)
        /\ Len(SubSeq(list, k + 1, n)) = IF k + 1 <= n THEN n - (k + 1) + 1 ELSE 0
        /\ \A l \in 1..(n - (k + 1) + 1) : SubSeq(list, k + 1, n)[l] = list[(k + 1) + l - 1]
    BY <2>1, SubSeqProperties
  <2>3. Len(SubSeq(list, k + 1, n)) = n - k
    BY <1>1, <2>2
  <2>4. \A l \in 1..(n - k) : l \in 1..(n - (k + 1) + 1) /\ (k + 1) + l - 1 = k + l
    BY <1>1
  <2>5. QED
    BY <2>2, <2>3, <2>4
<1> DEFINE r == RemoveAt(list, k)
<1>4. r = a \o b
  BY DEF RemoveAt
<1> HIDE DEF a, b, r
<1>5. /\ r \in Seq(Registrable) /\ Len(r) = n - 1
      /\ \A l \in 1..(n - 1) : r[l] = IF l <= k - 1 THEN a[l] ELSE b[l - (k - 1)]
  <2>1. /\ a \o b \in Seq(Registrable)
        /\ Len(a \o b) = Len(a) + Len(b)
        /\ \A l \in 1..(Len(a) + Len(b)) : (a \o b)[l] = IF l <= Len(a) THEN a[l] ELSE b[l - Len(a)]
    BY <1>2, <1>3, ConcatProperties
  <2>2. Len(a) + Len(b) = n - 1
    BY <1>1, <1>2, <1>3
  <2>3. QED
    BY <1>2, <1>4, <2>1, <2>2
<1>6. \A l \in 1..(n - 1) : r[l] = IF l <= k - 1 THEN list[l] ELSE list[l + 1]
  <2> TAKE l \in 1..(n - 1)
  <2>1. CASE l <= k - 1
    <3>1. l \in 1..(k - 1)
      BY <1>1, <2>1
    <3>2. QED
      BY <1>2, <1>5, <2>1, <3>1
  <2>2. CASE ~(l <= k - 1)
    <3>1. l - (k - 1) \in 1..(n - k) /\ k + (l - (k - 1)) = l + 1
      BY <1>1, <2>2
    <3>2. QED
      BY <1>3, <1>5, <2>2, <3>1
  <2>3. QED
    BY <2>1, <2>2
<1>7. DOMAIN r = 1..(n - 1)
  BY <1>5, LenProperties
<1>8. \A l, m \in 1..n : list[l] = list[m] => l = m
  BY <1>1 DEF IsInjective
<1>9. IsInjective(r)
  <2> SUFFICES ASSUME NEW l \in 1..(n - 1), NEW m \in 1..(n - 1), r[l] = r[m]
               PROVE  l = m
    BY <1>7 DEF IsInjective
  <2>1. /\ l \in 1..n /\ l + 1 \in 1..n /\ m \in 1..n /\ m + 1 \in 1..n
    BY <1>1
  <2>2. QED
    BY <1>1, <1>6, <1>8, <2>1
<1>10. ASSUME NEW x \in ToSet(list), x # i
       PROVE  x \in ToSet(r)
  <2>1. PICK l \in 1..n : list[l] = x
    BY <1>1 DEF ToSet
  <2>2. l # k
    BY <1>10, <2>1
  <2>3. CASE l <= k - 1
    <3>1. l \in 1..(n - 1)
      BY <1>1, <2>3
    <3>2. r[l] = x
      BY <1>6, <2>1, <2>3, <3>1
    <3>3. QED
      BY <1>7, <3>1, <3>2 DEF ToSet
  <2>4. CASE ~(l <= k - 1)
    <3>1. l - 1 \in 1..(n - 1) /\ ~(l - 1 <= k - 1) /\ (l - 1) + 1 = l
      BY <1>1, <2>2, <2>4
    <3>2. r[l - 1] = x
      BY <1>6, <2>1, <3>1
    <3>3. QED
      BY <1>7, <3>1, <3>2 DEF ToSet
  <2>5. QED
    BY <2>3, <2>4
<1>11. QED
  BY <1>5, <1>9, <1>10 DEF r

LEMMA Extended ==
  ASSUME NEW list \in Seq(Registrable), IsInjective(list), NEW i \in Registrable, i \notin ToSet(list),
         NEW longer \in {<<i>> \o list, Append(list, i)}
  PROVE  /\ longer \in Seq(Registrable) /\ IsInjective(longer)
         /\ ToSet(list) \subseteq ToSet(longer)
<1> DEFINE n == Len(list)
<1>1. n \in Nat /\ DOMAIN list = 1..n /\ \A l \in 1..n : list[l] \in Registrable /\ list[l] # i
  BY LenProperties, ElementOfSeq DEF ToSet
<1>2. \A l, m \in 1..n : list[l] = list[m] => l = m
  BY <1>1 DEF IsInjective
<1>3. CASE longer = <<i>> \o list
  <2>1. <<i>> \in Seq(Registrable) /\ Len(<<i>>) = 1 /\ <<i>>[1] = i
    OBVIOUS
  <2>2. /\ longer \in Seq(Registrable) /\ Len(longer) = 1 + n
        /\ \A l \in 1..(1 + n) : longer[l] = IF l <= 1 THEN <<i>>[l] ELSE list[l - 1]
    BY <1>3, <2>1, ConcatProperties
  <2>3. DOMAIN longer = 1..(n + 1)
    BY <1>1, <2>2, LenProperties
  <2>4. longer[1] = i /\ \A l \in 1..n : longer[l + 1] = list[l]
    BY <1>1, <2>1, <2>2
  <2>5. \A l \in 1..(n + 1) : l = 1 \/ (l - 1 \in 1..n /\ longer[l] = list[l - 1])
    BY <1>1, <2>2
  <2>6. IsInjective(longer)
    <3> SUFFICES ASSUME NEW l \in 1..(n + 1), NEW m \in 1..(n + 1), longer[l] = longer[m]
                 PROVE  l = m
      BY <2>3 DEF IsInjective
    <3>1. CASE l = 1 \/ m = 1
      BY <1>1, <2>4, <2>5, <3>1
    <3>2. CASE l # 1 /\ m # 1
      <4>1. list[l - 1] = list[m - 1] /\ l - 1 \in 1..n /\ m - 1 \in 1..n
        BY <2>5, <3>2
      <4>2. l - 1 = m - 1
        BY <1>2, <4>1
      <4>3. QED
        BY <1>1, <4>2
    <3>3. QED
      BY <3>1, <3>2
  <2>7. ToSet(list) \subseteq ToSet(longer)
    <3>1. \A l \in 1..n : l + 1 \in DOMAIN longer
      BY <1>1, <2>3
    <3>2. QED
      BY <1>1, <2>4, <3>1 DEF ToSet
  <2>8. QED
    BY <2>2, <2>6, <2>7
<1>4. CASE longer = Append(list, i)
  <2>1. /\ longer \in Seq(Registrable) /\ Len(longer) = n + 1
        /\ longer[n + 1] = i /\ \A l \in 1..n : longer[l] = list[l]
    BY <1>1, <1>4, AppendProperties
  <2>2. DOMAIN longer = 1..(n + 1)
    BY <2>1, LenProperties
  <2>3. \A l \in 1..(n + 1) : l = n + 1 \/ l \in 1..n
    BY <1>1
  <2>4. IsInjective(longer)
    <3> SUFFICES ASSUME NEW l \in 1..(n + 1), NEW m \in 1..(n + 1), longer[l] = longer[m]
                 PROVE  l = m
      BY <2>2 DEF IsInjective
    <3>1. QED
      BY <1>1, <1>2, <2>1, <2>3
  <2>5. ToSet(list) \subseteq ToSet(longer)
    <3>1. \A l \in 1..n : l \in DOMAIN longer
      BY <1>1, <2>2
    <3>2. QED
      BY <1>1, <2>1, <3>1 DEF ToSet
  <2>6. QED
    BY <2>1, <2>4, <2>5
<1>5. QED
  BY <1>3, <1>4

RegistryOK == registered \in Seq(Registrable) /\ IsInjective(registered) /\ Fixed \subseteq ToSet(registered)

LEMMA ListedKeeps ==
  ASSUME RegistryOK, NEW i \in Registrable, Listed(i)
  PROVE  RegistryOK'
BY Extended DEF RegistryOK, Listed

LEMMA DelistedKeeps ==
  ASSUME RegistryOK, NEW i \in Registrable \ Fixed, Delisted(i)
  PROVE  RegistryOK'
<1>1. CASE UNCHANGED registered
  BY <1>1 DEF RegistryOK
<1>2. ASSUME NEW k \in DOMAIN registered, registered[k] = i, registered' = RemoveAt(registered, k)
      PROVE  RegistryOK'
  <2>1. /\ RemoveAt(registered, k) \in Seq(Registrable) /\ IsInjective(RemoveAt(registered, k))
        /\ ToSet(registered) \ {i} \subseteq ToSet(RemoveAt(registered, k))
    BY <1>2, Shortened DEF RegistryOK
  <2>2. QED
    BY <1>2, <2>1 DEF RegistryOK
<1>3. QED
  BY <1>1, <1>2 DEF Delisted

(* A reading of plane p that may be believed.                               *)
Sound(p, c) ==
  /\ c \in Reading
  /\ \A s \in Service : \A m \in Bound(c, s) :
       MachineIDForInstance(p, c.rep[s][m]) = m /\ c.rep[s][m].service = s
  /\ c.ok => \A i \in Fixed : c.rep[i.service][MachineIDForInstance(p, i)] # None
ReadingsOK == cat \in [Plane -> Reading] /\ \A p \in Plane : Sound(p, cat[p])
SwitchesOK == /\ answering \in BOOLEAN /\ serving \subseteq Plane
              /\ fresh \in [Plane -> BOOLEAN] /\ changes \in 0..MaxChanges
CatInv == RegistryOK /\ ReadingsOK /\ SwitchesOK

LEMMA CatInvIs == CatInv <=> CatalogOK /\ FixedSeen
<1>1. ASSUME cat \in [Plane -> Reading]
      PROVE  \A p \in Plane : cat[p] \in Reading
  BY <1>1
<1>2. QED
  BY <1>1 DEF CatInv, RegistryOK, ReadingsOK, SwitchesOK, Sound, CatalogOK, FixedSeen

LEMMA NewReadingSound ==
  ASSUME RegistryOK, NEW p \in Plane
  PROVE  /\ Read(p, registered) \in Reading /\ Sound(p, Read(p, registered))
         /\ Unanswered \in Reading /\ Sound(p, Unanswered)
<1> DEFINE R == Read(p, registered)
<1>1. /\ R \in Reading
      /\ \A s \in Service, m \in Machine :
           R.rep[s][m] # None => MachineIDForInstance(p, R.rep[s][m]) = m /\ R.rep[s][m].service = s
      /\ \A i \in ToSet(registered) : R.rep[i.service][MachineIDForInstance(p, i)] # None
  BY ReadIs DEF RegistryOK
<1> HIDE DEF R
<1>2. Sound(p, R)
  BY <1>1 DEF Sound, Bound, RegistryOK
<1>3. Sound(p, Unanswered)
  BY UnansweredIs DEF Sound, Bound
<1>4. QED
  BY <1>1, <1>2, <1>3, UnansweredIs DEF R

LEMMA ConsultKeeps ==
  ASSUME CatInv, NEW p \in Plane, Consult(p)
  PROVE  CatInv'
<1>1. RegistryOK'
  BY DEF CatInv, Consult, RegistryOK
<1>2. SwitchesOK'
  BY DEF CatInv, Consult, SwitchesOK
<1>3. CASE fresh[p]
  BY <1>3, <1>1, <1>2 DEF CatInv, Consult, ReadingsOK
<1>4. CASE ~fresh[p]
  <2>1. PICK c \in Reading : Sound(p, c) /\ cat' = [cat EXCEPT ![p] = c]
    BY <1>4, NewReadingSound DEF CatInv, Consult, Refresh
  <2>2. ReadingsOK'
    BY <2>1 DEF CatInv, ReadingsOK
  <2>3. QED
    BY <1>1, <1>2, <2>2 DEF CatInv
<1>5. QED
  BY <1>3, <1>4

LEMMA RegistryStepsKeep ==
  ASSUME CatInv, CatalogEnvironment \/ \E p \in Plane : StartServing(p) \/ StopServing(p)
  PROVE  CatInv'
<1>1. ASSUME NEW i \in Instances, Register(i) \/ Deregister(i)
      PROVE  CatInv'
  <2>1. RegistryOK'
    BY <1>1, ListedKeeps, DelistedKeeps DEF CatInv, Register, Deregister, Registrable
  <2>2. ReadingsOK'
    BY <1>1 DEF CatInv, ReadingsOK, Register, Deregister
  <2>3. SwitchesOK'
    BY <1>1, SiteAssumption DEF CatInv, SwitchesOK, Register, Deregister, Change
  <2>4. QED
    BY <2>1, <2>2, <2>3 DEF CatInv
<1>2. CASE Outage
  BY <1>2, SiteAssumption DEF CatInv, RegistryOK, ReadingsOK, SwitchesOK, Outage, Change
<1>3. ASSUME NEW p \in Plane, Expire(p)
      PROVE  CatInv'
  BY <1>3 DEF CatInv, RegistryOK, ReadingsOK, SwitchesOK, Expire
<1>4. ASSUME NEW p \in Plane, StartServing(p)
      PROVE  CatInv'
  <2>1. RegistryOK'
    BY <1>4, ListedKeeps DEF CatInv, StartServing, Registrable
  <2>2. ReadingsOK'
    BY <1>4, NewReadingSound DEF CatInv, ReadingsOK, StartServing
  <2>3. SwitchesOK'
    BY <1>4, SiteAssumption DEF CatInv, SwitchesOK, StartServing, Change
  <2>4. QED
    BY <2>1, <2>2, <2>3 DEF CatInv
<1>5. ASSUME NEW p \in Plane, StopServing(p)
      PROVE  CatInv'
  <2>1. OwnInstance(p) \in Registrable \ Fixed
    BY OwnInstanceAssumption DEF Registrable
  <2>2. RegistryOK'
    <3>1. CASE UNCHANGED registered
      BY <3>1 DEF CatInv, RegistryOK
    <3>2. CASE Delisted(OwnInstance(p))
      BY <2>1, <3>2, DelistedKeeps DEF CatInv
    <3>3. QED
      BY <1>5, <3>1, <3>2 DEF StopServing
  <2>3. ReadingsOK'
    BY <1>5 DEF CatInv, ReadingsOK, StopServing
  <2>4. SwitchesOK'
    BY <1>5, SiteAssumption DEF CatInv, SwitchesOK, StopServing, Change
  <2>5. QED
    BY <2>2, <2>3, <2>4 DEF CatInv
<1>6. QED
  BY <1>1, <1>2, <1>3, <1>4, <1>5 DEF CatalogEnvironment

LEMMA Numbered ==
  ASSUME NEW S, IsFiniteSet(S)
  PROVE  SetToSeq(S) \in Seq(S) /\ IsInjective(SetToSeq(S)) /\ ToSet(SetToSeq(S)) = S
<1> DEFINE n == Cardinality(S)
           f == SetToSeq(S)
<1>1. n \in Nat /\ ExistsBijection(1..n, S)
  BY FS_CardinalityType
<1>2. PICK g \in [1..n -> S] : IsInjective(g)
  <2>1. PICK g : g \in Bijection(1..n, S)
    BY <1>1 DEF ExistsBijection
  <2>2. g \in [1..n -> S] /\ IsInjective(g)
    BY <2>1 DEF Bijection, Injection, IsInjective
  <2>3. QED
    BY <2>2
<1>3. f \in [1..n -> S] /\ IsInjective(f)
  <2>1. f = CHOOSE h \in [1..n -> S] : IsInjective(h)
    BY DEF SetToSeq
  <2> HIDE DEF f
  <2>2. QED
    BY <1>2, <2>1
<1> HIDE DEF f
<1>4. f \in Seq(S) /\ DOMAIN f = 1..n
  BY <1>1, <1>3
<1>5. f \in Injection(1..n, S)
  BY <1>3 DEF Injection, IsInjective
<1>6. Cardinality(1..n) = n
  BY <1>1, FS_Interval
<1>7. f \in Surjection(1..n, S)
  BY <1>5, <1>6, FS_Injection
<1>8. ToSet(f) = S
  BY <1>3, <1>4, <1>7 DEF ToSet, Surjection
<1>9. QED
  BY <1>3, <1>4, <1>8 DEF f

LEMMA CatalogStarts == CatalogInit => CatInv
<1> SUFFICES ASSUME CatalogInit
             PROVE  CatInv
  OBVIOUS
<1> DEFINE own == {OwnInstance(p) : p \in Plane}
<1>1. IsFiniteSet(own)
  <2> DEFINE f == [p \in Plane |-> OwnInstance(p)]
  <2>1. f \in Surjection(Plane, own)
    BY DEF Surjection
  <2> HIDE DEF f, own
  <2>2. QED
    BY <2>1, SiteAssumption, FS_Surjection
<1>2. IsFiniteSet(Fixed \cup own)
  BY <1>1, SiteAssumption, FS_Union
<1>3. Fixed \cup own \subseteq Registrable
  BY SiteAssumption DEF Registrable
<1>4. RegistryOK
  <2>1. registered \in Seq(Fixed \cup own) /\ IsInjective(registered) /\ ToSet(registered) = Fixed \cup own
    BY <1>2, Numbered DEF CatalogInit
  <2>2. registered \in Seq(Registrable)
    BY <1>3, <2>1, SeqMonotonic
  <2>3. QED
    BY <2>1, <2>2 DEF RegistryOK
<1>5. ReadingsOK
  BY <1>4, NewReadingSound DEF CatalogInit, ReadingsOK
<1>6. SwitchesOK
  BY SiteAssumption DEF CatalogInit, SwitchesOK
<1>7. QED
  BY <1>4, <1>5, <1>6 DEF CatInv

-----------------------------------------------------------------------------
(* Channels and machines. *)

(* A channel ends at a host the machine stands for.                         *)
LEMMA TargetIs ==
  ASSUME NEW p \in Plane, NEW c, Sound(p, c), NEW s \in Service, NEW m \in Machine,
         NEW t \in TargetForService(p, c, s, m)
  PROVE  /\ t.host \in Host /\ t.remote \in BOOLEAN
         /\ t.host \in Meaning(p, s, m)
         /\ t.remote \/ t.host = p
<1> DEFINE i == c.rep[s][m]
<1>1. CASE m \in TargetIDs(p)
  <2>1. t = Channel[p][m]
    BY <1>1 DEF TargetForService
  <2>2. QED
    BY <1>1, <2>1, SiteAssumption DEF TargetIDs, Target, Meaning
<1>2. CASE m \notin TargetIDs(p)
  <2>1. i # None
    BY <1>2 DEF TargetForService
  <2>2. i \in Registrable /\ MachineIDForInstance(p, i) = m /\ i.service = s
    BY <2>1 DEF Sound, Bound, Reading
  <2>3. i.host \in Meaning(p, s, m)
    BY <1>2, <2>2 DEF Meaning
  <2>4. ~IsLocalHost(p, i.host)
    BY <1>2, <2>2, MachineIs, SiteAssumption DEF TargetIDs
  <2>5. i.host \in Host
    BY <2>2, <2>4, RegistrableIs DEF IsLocalHost
  <2>6. CASE \E k \in TargetIDs(p) : Channel[p][k].remote /\ Channel[p][k].host = i.host /\ t = Channel[p][k]
    BY <2>3, <2>5, <2>6
  <2>7. CASE t = [remote |-> TRUE, host |-> i.host]
    BY <2>3, <2>5, <2>7
  <2>8. QED
    BY <1>2, <2>1, <2>4, <2>6, <2>7 DEF TargetForService
<1>3. QED
  BY <1>1, <1>2

LEMMA TargetKnown ==
  ASSUME NEW p \in Plane, NEW c, NEW s, NEW m \in TargetIDs(p)
  PROVE  TargetForService(p, c, s, m) # {}
BY DEF TargetForService

LEMMA ScopeIs ==
  ASSUME NEW p \in Plane, NEW c, NEW s
  PROVE  ScopeIDs(p, c, s) \subseteq Machine /\ DefaultFrom(p, ScopeIDs(p, c, s)) \in Machine
<1>1. ScopeIDs(p, c, s) \subseteq Machine
  BY SiteAssumption DEF ScopeIDs, TargetIDs, Bound, Machine
<1>2. QED
  BY <1>1 DEF DefaultFrom, Machine

(* The machine of an instance that is never taken out is in scope.          *)
LEMMA PinnedInScope ==
  ASSUME NEW p \in Plane, NEW c, Sound(p, c), NEW j \in Job, NEW m, Pinned(j, m)
  PROVE  /\ Selectable(p, c, ServiceOf[j], m) /\ Selectable(p, c, ServiceOf[j], None)
         /\ TargetForService(p, c, ServiceOf[j], m) # {}
<1>1. PICK i \in Fixed : i.service = ServiceOf[j] /\ MachineIDForInstance(p, i) = m /\ m \in TargetIDs(p)
  BY DEF Pinned
<1>2. c.ok => m \in Bound(c, ServiceOf[j])
  BY <1>1, RegistrableIs, MachineIs DEF Sound, Bound
<1>3. m \in ScopeIDs(p, c, ServiceOf[j])
  BY <1>1, <1>2 DEF ScopeIDs
<1>4. QED
  BY <1>1, <1>3, TargetKnown DEF Selectable

LEMMA InstanceOSIs ==
  ASSUME NEW p \in Plane, NEW c, NEW s, NEW m
  PROVE  InstanceOS(p, c, s, m) \in OS \cup {None}
BY PlatformIs DEF InstanceOS, RegisteredOS, Platform

-----------------------------------------------------------------------------
(* Rows. *)

LEMMA BecomeIs ==
  ASSUME RowsOK, NEW j \in Job, NEW change, Become(j, change), DOMAIN change \subseteq Columns
  PROVE  /\ RowsOK'
         /\ \A k \in Job \ {j} : job'[k] = job[k]
         /\ \A f \in Columns : job'[j][f] = IF f \in DOMAIN change THEN change[f] ELSE job[j][f]
BY DEF Become, RowsOK

LEMMA RowStays ==
  ASSUME NEW k \in Job, JobOK(k), job'[k] = job[k]
  PROVE  JobOK(k)'
BY DEF JobOK, RowOK, SiteOK, KnownOK, Settled

(* A row that goes on or ends without landing.                              *)
LEMMA RowMoves ==
  ASSUME NEW j \in Job, RowOK(j), job[j].st # "new",
         job'[j].st \in States \ {"new", "checked", "landed"},
         job'[j].machine = job[j].machine, job'[j].asked = job[j].asked,
         job'[j].st \in Running => job'[j].plane \in Plane,
         job'[j].stamp \in {None} \cup Platform, job'[j].tag \in Tag,
         job'[j].st \in {"building", "compiling"} => job'[j].stamp # None,
         \/ job'[j].why = None
         \/ /\ job'[j].st \in {"failed", "refused"}
            /\ job'[j].why = "machine" => ~Pinned(j, job[j].machine)
  PROVE  JobOK(j)'
<1>1. RowOK(j)'
  BY DEF RowOK, Settled
<1>2. SiteOK(j)'
  BY DEF SiteOK
<1>3. KnownOK(j)'
  BY NoneAssumption DEF KnownOK
<1>4. QED
  BY <1>1, <1>2, <1>3 DEF JobOK

-----------------------------------------------------------------------------
(* One lemma per action. *)

LEMMA StepIs ==
  ASSUME Inv, CatInv', RowsOK', StoreOK', ContractsOK', NEW j \in Job,
         \A k \in Job \ {j} : job'[k] = job[k], JobOK(j)'
  PROVE  Inv'
<1>1. JobsOK'
  BY RowStays DEF Inv, JobsOK
<1>2. CatalogOK' /\ FixedSeen'
  BY CatInvIs, PTL
<1>3. QED
  BY <1>1, <1>2 DEF Inv

LEMMA LookIs ==
  ASSUME Inv, NEW p \in Plane, NEW j \in Job, NEW from, Look(p, j, from)
  PROVE  CatInv' /\ Sound(p, cat'[p]) /\ job[j].st = from /\ JobOK(j) /\ ServiceOf[j] \in Service
<1>1. CatInv
  BY CatInvIs DEF Inv
<1>2. CatInv'
  BY <1>1, ConsultKeeps DEF Look
<1>3. Sound(p, cat'[p])
  BY <1>2 DEF CatInv, ReadingsOK
<1>4. QED
  BY <1>2, <1>3, JobAssumption DEF Look, Inv, JobsOK

(* A step that leaves contracts, store and probes alone.                    *)
LEMMA OnlyRows ==
  ASSUME Inv, CatInv', NEW j \in Job, NEW change, Become(j, change), DOMAIN change \subseteq Columns,
         UNCHANGED <<dirs, stored, probed>>, JobOK(j)'
  PROVE  Inv'
<1>1. RowsOK' /\ \A k \in Job \ {j} : job'[k] = job[k]
  BY BecomeIs DEF Inv
<1>2. StoreOK' /\ ContractsOK'
  BY DEF Inv, StoreOK, ContractsOK
<1>3. QED
  BY <1>1, <1>2, StepIs

LEMMA FailIs ==
  ASSUME RowsOK, NEW j \in Job, NEW why, Fail(j, why)
  PROVE  /\ RowsOK' /\ \A k \in Job \ {j} : job'[k] = job[k]
         /\ job'[j].st = "failed" /\ job'[j].why = why /\ job'[j].machine = job[j].machine
         /\ job'[j].asked = job[j].asked /\ job'[j].stamp = job[j].stamp /\ job'[j].tag = job[j].tag
BY BecomeIs DEF Fail, Columns

(* A failure for a reason that is not "machine", or of a machine that is    *)
(* not pinned.                                                              *)
LEMMA FailKeeps ==
  ASSUME Inv, CatInv', NEW j \in Job, NEW why, Fail(j, why), job[j].st # "new",
         why = "machine" => ~Pinned(j, job[j].machine), UNCHANGED <<dirs, stored, probed>>
  PROVE  Inv'
<1>1. JobOK(j)'
  <2>1. RowOK(j)
    BY DEF Inv, JobsOK, JobOK
  <2>2. QED
    BY <2>1, FailIs, RowMoves DEF Inv, States, Running, RowOK
<1>2. DOMAIN [st |-> "failed", why |-> why] \subseteq Columns
  BY DEF Columns
<1>3. QED
  BY <1>1, <1>2, OnlyRows DEF Fail

LEMMA RequestKeeps ==
  ASSUME Inv, NEW p \in Plane, NEW j \in Job, NEW sel \in {None} \cup Machine, Request(p, j, sel)
  PROVE  Inv'
<1> DEFINE s == ServiceOf[j]
           c == cat'[p]
<1>1. CatInv' /\ Sound(p, c) /\ job[j].st = "new" /\ JobOK(j)
  BY LookIs DEF Request
<1>2. UNCHANGED <<dirs, stored, probed>> /\ RowsOK
  BY DEF Request, Inv
<1>3. ASSUME NEW kind \in {"pipeline", "deploy"}, NEW t \in Tag,
             Become(j, [st |-> "asked", kind |-> kind, plane |-> p, by |-> p, tag |-> t,
                        asked |-> sel, layout |-> dirs[s],
                        machine |-> IF sel = None THEN DefaultFrom(p, ScopeIDs(p, c, s)) ELSE sel])
      PROVE  Inv'
  <2> DEFINE m == IF sel = None THEN DefaultFrom(p, ScopeIDs(p, c, s)) ELSE sel
             change == [st |-> "asked", kind |-> kind, plane |-> p, by |-> p, tag |-> t,
                        asked |-> sel, layout |-> dirs[s], machine |-> m]
  <2>1. m \in Machine /\ (sel # None => m = sel)
    BY ScopeIs
  <2> HIDE DEF m
  <2>2. DOMAIN change \subseteq Columns
    BY DEF Columns
  <2>3. Become(j, change)
    BY <1>3 DEF m
  <2>4. /\ job'[j].st = "asked" /\ job'[j].plane = p /\ job'[j].machine = m /\ job'[j].asked = sel
        /\ job'[j].tag = t /\ job'[j].stamp = job[j].stamp /\ job'[j].why = job[j].why
    BY <1>2, <2>3, BecomeIs DEF Columns
  <2>5. RowOK(j)'
    BY <1>1, <1>3, <2>1, <2>4 DEF JobOK, RowOK, Settled, States, Running
  <2>6. JobOK(j)'
    BY <1>1, <2>4, <2>5, NoneAssumption DEF JobOK, SiteOK, KnownOK, RowOK, Settled
  <2> HIDE DEF change
  <2>7. QED
    BY <1>1, <1>2, <2>2, <2>3, <2>6, OnlyRows
<1>4. ASSUME ~Selectable(p, c, s, sel),
             Become(j, [st |-> "refused", by |-> p, why |-> "machine",
                        machine |-> IF sel = None THEN Local ELSE sel])
      PROVE  Inv'
  <2> DEFINE m == IF sel = None THEN Local ELSE sel
             change == [st |-> "refused", by |-> p, why |-> "machine", machine |-> m]
  <2>1. m \in Machine /\ ~Pinned(j, m)
    BY <1>1, <1>4, PinnedInScope DEF Machine
  <2> HIDE DEF m
  <2>2. DOMAIN change \subseteq Columns
    BY DEF Columns
  <2>3. Become(j, change)
    BY <1>4 DEF m
  <2>4. /\ job'[j].st = "refused" /\ job'[j].machine = m /\ job'[j].asked = job[j].asked
        /\ job'[j].tag = job[j].tag /\ job'[j].stamp = job[j].stamp
    BY <1>2, <2>3, BecomeIs DEF Columns
  <2>5. RowOK(j)'
    BY <1>1, <2>1, <2>4 DEF JobOK, RowOK, Settled, States, Running
  <2>6. JobOK(j)'
    BY <2>1, <2>4, <2>5 DEF JobOK, SiteOK, KnownOK
  <2> HIDE DEF change
  <2>7. QED
    BY <1>1, <1>2, <2>2, <2>3, <2>6, OnlyRows
<1>5. QED
  BY <1>3, <1>4 DEF Request

(* A change of st, plane, layout, stamp or tag that moves a row on.         *)
LEMMA MovesKeep ==
  ASSUME Inv, CatInv', StoreOK', ContractsOK', NEW j \in Job, job[j].st # "new", ~Settled(j),
         NEW change, Become(j, change), DOMAIN change \subseteq Columns \ {"machine", "asked", "why", "kind", "by", "site"},
         "st" \in DOMAIN change, change.st \in States \ {"new", "checked", "landed", "failed", "refused"},
         change.st \in Running =>
           IF "plane" \in DOMAIN change THEN change.plane \in Plane ELSE job[j].plane \in Plane,
         "stamp" \in DOMAIN change => change.stamp \in {None} \cup Platform,
         "tag" \in DOMAIN change => change.tag \in Tag,
         change.st \in {"building", "compiling"} =>
           IF "stamp" \in DOMAIN change THEN change.stamp # None ELSE job[j].stamp # None
  PROVE  Inv'
<1>1. /\ RowsOK' /\ \A k \in Job \ {j} : job'[k] = job[k]
      /\ job'[j].st = change.st /\ job'[j].machine = job[j].machine /\ job'[j].asked = job[j].asked
      /\ job'[j].why = job[j].why
      /\ job'[j].plane = IF "plane" \in DOMAIN change THEN change.plane ELSE job[j].plane
      /\ job'[j].stamp = IF "stamp" \in DOMAIN change THEN change.stamp ELSE job[j].stamp
      /\ job'[j].tag = IF "tag" \in DOMAIN change THEN change.tag ELSE job[j].tag
  BY BecomeIs DEF Inv, Columns
<1>2. RowOK(j) /\ job[j].why = None
  BY DEF Inv, JobsOK, JobOK, RowOK
<1>3. job'[j].stamp \in {None} \cup Platform /\ job'[j].tag \in Tag
  BY <1>1, <1>2 DEF RowOK
<1>4. JobOK(j)'
  BY <1>1, <1>2, <1>3, RowMoves
<1>5. QED
  BY <1>1, <1>4, StepIs

LEMMA SameStore ==
  ASSUME Inv, UNCHANGED <<dirs, stored, probed>>
  PROVE  StoreOK' /\ ContractsOK'
BY DEF Inv, StoreOK, ContractsOK

LEMMA ResolveKeeps ==
  ASSUME Inv, NEW p \in Plane, NEW m \in Machine, NEW t, NEW plat \in Platform, Resolve(p, m, t, plat),
         UNCHANGED <<dirs, stored>>
  PROVE  StoreOK' /\ ContractsOK'
<1>1. probed' \in [Plane -> [Machine -> Platform \cup {None}]]
  BY DEF Resolve, Inv, ContractsOK
<1>2. QED
  BY <1>1 DEF Inv, StoreOK, ContractsOK

(* A row at work has a machine, and a plane if it runs.                     *)
LEMMA AtWork ==
  ASSUME Inv, NEW j \in Job, job[j].st # "new"
  PROVE  /\ job[j].machine \in Machine /\ ServiceOf[j] \in Service /\ ServiceOf[j] \in Released
         /\ job[j].stamp \in {None} \cup Platform /\ job[j].tag \in Tag
         /\ job[j].st \in {"building", "compiling"} => job[j].stamp \in Platform
         /\ job[j].st \in Running => job[j].plane \in Plane
BY JobAssumption DEF Inv, JobsOK, JobOK, RowOK, Released

LEMMA AdmitKeeps ==
  ASSUME Inv, NEW p \in Plane, NEW j \in Job, Admit(p, j)
  PROVE  Inv'
<1> DEFINE c == cat'[p]
           m == job[j].machine
<1>1. CatInv' /\ Sound(p, c) /\ job[j].st = "asked" /\ JobOK(j)
  BY LookIs DEF Admit, Work
<1>2. UNCHANGED <<dirs, stored, probed>> /\ RowsOK
  BY DEF Admit, Inv
<1>3. ASSUME NEW why, Become(j, [st |-> "refused", why |-> why]), why = "machine" => ~Pinned(j, m)
      PROVE  Inv'
  <2>1. /\ job'[j].st = "refused" /\ job'[j].why = why /\ job'[j].machine = job[j].machine
        /\ job'[j].asked = job[j].asked /\ job'[j].stamp = job[j].stamp /\ job'[j].tag = job[j].tag
    BY <1>2, <1>3, BecomeIs DEF Columns
  <2>2. JobOK(j)'
    <3>1. RowOK(j) /\ job[j].st # "new"
      BY <1>1 DEF JobOK
    <3>2. job[j].stamp \in {None} \cup Platform /\ job[j].tag \in Tag
      BY <3>1, AtWork
    <3>3. QED
      BY <1>3, <2>1, <3>1, <3>2, RowMoves DEF States, Running
  <2>3. DOMAIN [st |-> "refused", why |-> why] \subseteq Columns
    BY DEF Columns
  <2>4. QED
    BY <1>1, <1>2, <1>3, <2>2, <2>3, OnlyRows
<1>4. ASSUME NEW st \in {"ready", "queued"}, Become(j, [st |-> st, plane |-> None, layout |-> {}])
      PROVE  Inv'
  <2>1. job[j].st # "new" /\ ~Settled(j)
    BY <1>1 DEF Settled
  <2>2. StoreOK' /\ ContractsOK'
    BY <1>2, SameStore
  <2>3. QED
    BY <1>1, <1>4, <2>1, <2>2, MovesKeep DEF Columns, States, Running
<1>5. ~Reachable(p, c, ServiceOf[j], m) => ~Pinned(j, m)
  BY <1>1, PinnedInScope DEF Reachable
<1>6. QED
  BY <1>3, <1>4, <1>5 DEF Admit

LEMMA PackClaimKeeps ==
  ASSUME Inv, NEW p \in Plane, NEW j \in Job, PackClaim(p, j)
  PROVE  Inv'
<1> DEFINE change == [st |-> "packing", plane |-> p]
<1>1. CatInv' /\ job[j].st = "queued"
  BY LookIs DEF PackClaim
<1>2. job[j].st # "new" /\ ~Settled(j) /\ job[j].machine \in Machine
  BY <1>1, AtWork DEF Settled
<1>3. /\ Fail(j, "dir") \/ Become(j, change)
      /\ UNCHANGED <<dirs, stored>>
      /\ UNCHANGED probed \/ \E t : \E plat \in Platform : Resolve(p, job[j].machine, t, plat)
  BY DEF PackClaim
<1>4. StoreOK' /\ ContractsOK'
  BY <1>2, <1>3, SameStore, ResolveKeeps
<1>5. CASE Become(j, change)
  BY <1>1, <1>2, <1>4, <1>5, MovesKeep DEF Columns, States, Running
<1>6. CASE Fail(j, "dir")
  <2>1. RowOK(j)
    BY DEF Inv, JobsOK, JobOK
  <2>2. job[j].stamp \in {None} \cup Platform /\ job[j].tag \in Tag
    BY <1>2, AtWork
  <2>3. JobOK(j)'
    BY <1>2, <1>6, <2>1, <2>2, FailIs, RowMoves DEF Inv, States, Running
  <2>4. QED
    BY <1>1, <1>4, <1>6, <2>3, FailIs, StepIs DEF Inv
<1>7. QED
  BY <1>3, <1>5, <1>6

LEMMA PlatformForKeeps ==
  ASSUME Inv, NEW p \in Plane, NEW j \in Job, PlatformFor(p, j)
  PROVE  Inv'
<1> DEFINE m == job[j].machine
<1>1. CatInv' /\ Sound(p, cat'[p]) /\ job[j].st = "packing" /\ job[j].plane = p
  BY LookIs DEF PlatformFor, Work
<1>2. job[j].st # "new" /\ ~Settled(j) /\ m \in Machine
  BY <1>1, AtWork DEF Settled
<1>3. PICK plat \in Platform : Become(j, [st |-> "building", stamp |-> plat])
  <2>1. cat'[p].platforms[m] \in Platform \cup {None}
    BY <1>1, <1>2 DEF Sound, Reading
  <2>2. PlatOf[p] \in Platform
    BY SiteAssumption
  <2>3. QED
    BY <2>1, <2>2 DEF PlatformFor
<1>4. StoreOK' /\ ContractsOK'
  <2>1. /\ UNCHANGED <<dirs, stored>>
        /\ UNCHANGED probed \/ \E t : \E plt \in Platform : Resolve(p, m, t, plt)
    BY DEF PlatformFor
  <2>2. QED
    BY <1>2, <2>1, SameStore, ResolveKeeps
<1>5. plat # None
  BY NoneAssumption
<1>6. QED
  BY <1>1, <1>2, <1>3, <1>4, <1>5, MovesKeep DEF Columns, States, Running

LEMMA LookKeeps ==
  ASSUME Inv, NEW p \in Plane, NEW j \in Job, PackageLook(p, j)
  PROVE  Inv'
<1> DEFINE t == DeploymentTagFor(p, job[j].stamp)
<1>1. job[j].st = "building" /\ job[j].st # "new" /\ ~Settled(j)
  BY DEF PackageLook, Settled
<1>2. job[j].stamp \in Platform /\ job[j].stamp # None /\ job[j].plane \in Plane
  BY <1>1, AtWork, NoneAssumption DEF Running
<1>3. t \in Tag
  BY <1>2 DEF DeploymentTagFor, Tag
<1> HIDE DEF t
<1>4. CatInv'
  <2>1. CatInv
    BY CatInvIs DEF Inv
  <2>2. QED
    BY <2>1 DEF PackageLook, catalogVars, CatInv, RegistryOK, ReadingsOK, SwitchesOK
<1>5. StoreOK' /\ ContractsOK'
  BY SameStore DEF PackageLook
<1>6. CASE Become(j, [st |-> "ready", plane |-> None, tag |-> t])
  BY <1>1, <1>3, <1>4, <1>5, <1>6, MovesKeep DEF Columns, States, Running
<1>7. CASE Become(j, [st |-> "compiling"])
  BY <1>1, <1>2, <1>4, <1>5, <1>7, MovesKeep DEF Columns, States, Running
<1>8. QED
  BY <1>6, <1>7 DEF PackageLook, t

(* A package of a platform under a tag that may hold it.                    *)
LEMMA StoredIs ==
  ASSUME Inv, NEW s \in Released, NEW t \in Tag, NEW plat \in Platform, t \in Platform => t = plat,
         stored' = [stored EXCEPT ![s][t] = plat]
  PROVE  StoreOK'
<1>1. \A r \in Released, u \in Tag :
        stored'[r][u] = IF r = s /\ u = t THEN plat ELSE stored[r][u]
  BY DEF Inv, StoreOK
<1>2. stored' \in [Released -> [Tag -> Platform \cup {None}]]
  BY DEF Inv, StoreOK
<1>3. \A r \in Released, u \in Platform : stored'[r][u] \in {None, u}
  BY <1>1 DEF Inv, StoreOK, Tag
<1>4. QED
  BY <1>2, <1>3 DEF StoreOK

LEMMA UploadKeeps ==
  ASSUME Inv, NEW p \in Plane, NEW j \in Job, PackageUpload(p, j)
  PROVE  Inv'
<1> DEFINE s == ServiceOf[j]
           t == DeploymentTagFor(p, job[j].stamp)
<1>1. job[j].st = "compiling" /\ job[j].st # "new" /\ ~Settled(j)
  BY DEF PackageUpload, Settled
<1>2. s \in Released /\ job[j].stamp \in Platform
  BY <1>1, AtWork
<1>3. t \in Tag /\ (t \in Platform => t = job[j].stamp)
  BY <1>2, JobAssumption DEF DeploymentTagFor, Tag
<1> HIDE DEF t
<1>4. CatInv'
  <2>1. CatInv
    BY CatInvIs DEF Inv
  <2>2. QED
    BY <2>1 DEF PackageUpload, catalogVars, CatInv, RegistryOK, ReadingsOK, SwitchesOK
<1>5. UNCHANGED <<dirs, probed>>
  BY DEF PackageUpload
<1>6. CASE /\ Become(j, [st |-> "ready", plane |-> None, tag |-> t])
           /\ stored' = [stored EXCEPT ![s][t] = job[j].stamp]
  <2>1. StoreOK' /\ ContractsOK'
    BY <1>2, <1>3, <1>5, <1>6, StoredIs DEF Inv, ContractsOK
  <2>2. QED
    BY <1>1, <1>3, <1>4, <1>6, <2>1, MovesKeep DEF Columns, States, Running
<1>7. CASE Fail(j, "build") /\ UNCHANGED stored
  BY <1>1, <1>4, <1>5, <1>7, FailKeeps
<1>8. QED
  BY <1>6, <1>7 DEF PackageUpload, t

LEMMA ClaimKeeps ==
  ASSUME Inv, NEW p \in Plane, NEW j \in Job, Claim(p, j)
  PROVE  Inv'
<1> DEFINE change == [st |-> "claimed", plane |-> p, layout |-> dirs[ServiceOf[j]]]
<1>1. CatInv' /\ job[j].st = "ready"
  BY LookIs DEF Claim
<1>2. job[j].st # "new" /\ ~Settled(j)
  BY <1>1 DEF Settled
<1>3. Become(j, change) /\ UNCHANGED <<dirs, stored, probed>>
  BY DEF Claim
<1>4. StoreOK' /\ ContractsOK'
  BY <1>3, SameStore
<1>5. QED
  BY <1>1, <1>2, <1>3, <1>4, MovesKeep DEF Columns, States, Running

LEMMA ExecScopeKeeps ==
  ASSUME Inv, NEW p \in Plane, NEW j \in Job, ExecScope(p, j)
  PROVE  Inv'
<1> DEFINE m == job[j].machine
<1>1. CatInv' /\ Sound(p, cat'[p]) /\ job[j].st = "claimed" /\ job[j].plane = p
  BY LookIs DEF ExecScope, Work
<1>2. job[j].st # "new" /\ ~Settled(j)
  BY <1>1 DEF Settled
<1>3. UNCHANGED <<dirs, stored, probed>>
  BY DEF ExecScope
<1>4. StoreOK' /\ ContractsOK'
  BY <1>3, SameStore
<1>5. CASE Become(j, [st |-> "scoped"])
  BY <1>1, <1>2, <1>4, <1>5, MovesKeep DEF Columns, States, Running
<1>6. CASE ~Selectable(p, cat'[p], ServiceOf[j], m) /\ Fail(j, "machine")
  BY <1>1, <1>2, <1>3, <1>6, PinnedInScope, FailKeeps
<1>7. QED
  BY <1>5, <1>6 DEF ExecScope

LEMMA RequeueKeeps ==
  ASSUME Inv, CatInv', NEW j \in Job, job[j].st \in {"scoped", "checked"},
         NEW plat \in {None} \cup Platform, Requeue(j, plat), UNCHANGED <<dirs, stored, probed>>
  PROVE  Inv'
<1>1. StoreOK' /\ ContractsOK'
  BY SameStore
<1>2. job[j].st # "new" /\ ~Settled(j)
  BY DEF Settled
<1>3. QED
  BY <1>1, <1>2, MovesKeep DEF Requeue, Columns, States, Running

(* The directory that is found for a machine.                               *)
LEMMA DirIs ==
  ASSUME NEW d, NEW os \in OS
  PROVE  /\ RuntimeDirForOS(d, os) \in {"linux", "darwin", "default", None}
         /\ RemoteDir(d, os) \in {"linux", "darwin", "channel", None}
         /\ os = "linux" => RemoteDir(d, os) \in {"linux", None}
BY DEF RuntimeDirForOS, RemoteDir, RuntimeDirGap, RuntimeDirForRemote, OS

LEMMA CheckedKeeps ==
  ASSUME Inv, CatInv', NEW p \in Plane, NEW j \in Job, job[j].st = "scoped", job[j].plane = p,
         NEW host \in Host, host \in Meaning(p, ServiceOf[j], job[j].machine),
         NEW dir \in {"linux", "darwin", "channel", "default"},
         host # p /\ PlatOf[host][1] = "linux" => dir = "linux",
         Become(j, [st |-> "checked", site |-> [host |-> host, dir |-> dir]]),
         UNCHANGED <<dirs, stored, probed>>
  PROVE  Inv'
<1> DEFINE site == [host |-> host, dir |-> dir]
           change == [st |-> "checked", site |-> site]
<1>1. site \in Place /\ site.host = host /\ site.dir = dir
  BY DEF Place
<1> HIDE DEF site
<1>2. Become(j, change) /\ DOMAIN change \subseteq Columns
  BY DEF site, Columns
<1>3. /\ job'[j].st = "checked" /\ job'[j].site = site /\ job'[j].plane = p
      /\ job'[j].machine = job[j].machine /\ job'[j].asked = job[j].asked /\ job'[j].why = job[j].why
      /\ job'[j].stamp = job[j].stamp /\ job'[j].tag = job[j].tag
  BY <1>2, BecomeIs DEF Inv, Columns
<1>4. RowOK(j) /\ job[j].why = None
  BY DEF Inv, JobsOK, JobOK, RowOK, Settled
<1>5. RowOK(j)'
  BY <1>3, <1>4 DEF RowOK, Settled, States, Running
<1>6. SiteOK(j)'
  BY <1>1, <1>3 DEF SiteOK
<1>7. KnownOK(j)'
  BY <1>3, <1>4, NoneAssumption DEF KnownOK
<1>8. JobOK(j)'
  BY <1>5, <1>6, <1>7 DEF JobOK
<1> HIDE DEF change
<1>9. QED
  BY <1>2, <1>8, OnlyRows

LEMMA ExecResolveKeeps ==
  ASSUME Inv, NEW p \in Plane, NEW j \in Job, ExecResolve(p, j)
  PROVE  Inv'
<1> DEFINE m == job[j].machine
           s == ServiceOf[j]
           d == job[j].layout
           Checked(target, dir) ==
             IF dir = None THEN Fail(j, "dir")
             ELSE IF ~LocalDeployForThisControlPlane(p, j, target) THEN Requeue(j, Explicit(j))
             ELSE IF ~TagMatchesMachine(p, j, PlatOf[target.host]) THEN Fail(j, "platform")
             ELSE Become(j, [st |-> "checked", site |-> [host |-> target.host, dir |-> dir]])
           targets == TargetForService(p, cat'[p], s, m)
<1>1. /\ CatInv' /\ Sound(p, cat'[p]) /\ job[j].st = "scoped" /\ job[j].plane = p
      /\ UNCHANGED <<dirs, stored, probed>>
  BY LookIs DEF ExecResolve, Work
<1>2. job[j].st # "new" /\ ~Settled(j) /\ m \in Machine /\ s \in Service
  BY <1>1, AtWork DEF Settled
<1>3. CASE targets = {} /\ Fail(j, "machine")
  BY <1>1, <1>2, <1>3, PinnedInScope, FailKeeps
<1>4. CASE Fail(j, "probe") \/ Fail(j, "dir") \/ Fail(j, "platform")
  BY <1>1, <1>2, <1>4, FailKeeps
<1>5. CASE Requeue(j, Explicit(j))
  <2>1. Explicit(j) \in {None} \cup Platform
    BY <1>2, AtWork DEF Explicit, Tag
  <2>2. QED
    BY <1>1, <1>5, <2>1, RequeueKeeps
<1>6. ASSUME NEW t \in targets,
             NEW dir, dir # None,
             dir = IF t.remote THEN RemoteDir(d, PlatOf[t.host][1])
                   ELSE RuntimeDirForOS(d, PlatOf[t.host][1]),
             Become(j, [st |-> "checked", site |-> [host |-> t.host, dir |-> dir]])
      PROVE  Inv'
  <2>1. /\ t.host \in Host /\ t.remote \in BOOLEAN /\ t.host \in Meaning(p, s, m)
        /\ t.remote \/ t.host = p
    BY <1>1, <1>2, <1>6, TargetIs
  <2>2. PlatOf[t.host][1] \in OS
    BY <2>1, SiteAssumption DEF Platform
  <2>3. /\ dir \in {"linux", "darwin", "channel", "default"}
        /\ t.host # p /\ PlatOf[t.host][1] = "linux" => dir = "linux"
    BY <1>6, <2>1, <2>2, DirIs
  <2>4. QED
    BY <1>1, <1>6, <2>1, <2>3, CheckedKeeps
<1>7. \/ targets = {} /\ Fail(j, "machine")
      \/ \E t \in targets :
           \/ ~t.remote /\ Checked(t, RuntimeDirForOS(d, PlatOf[t.host][1]))
           \/ t.remote /\ Fail(j, "probe")
           \/ t.remote /\ Checked(t, RemoteDir(d, PlatOf[t.host][1]))
  BY DEF ExecResolve
<1>8. QED
  BY <1>3, <1>4, <1>5, <1>6, <1>7

LEMMA FetchKeeps ==
  ASSUME Inv, NEW p \in Plane, NEW j \in Job, Fetch(p, j)
  PROVE  Inv'
<1> DEFINE bytes == stored[ServiceOf[j]][job[j].tag]
<1>1. CatInv'
  <2>1. CatInv
    BY CatInvIs DEF Inv
  <2>2. QED
    BY <2>1 DEF Fetch, catalogVars, CatInv, RegistryOK, ReadingsOK, SwitchesOK
<1>2. job[j].st = "checked" /\ UNCHANGED <<dirs, stored, probed>> /\ JobOK(j)
  BY DEF Fetch, Inv, JobsOK
<1>3. bytes \in {None} \cup Platform
  BY <1>2, AtWork DEF Inv, StoreOK
<1>4. CASE Requeue(j, bytes)
  BY <1>1, <1>2, <1>3, <1>4, RequeueKeeps
<1>5. CASE Fail(j, "platform")
  BY <1>1, <1>2, <1>5, FailKeeps
<1>6. ASSUME Become(j, [st |-> "landed"])
      PROVE  Inv'
  <2>1. /\ job'[j].st = "landed" /\ job'[j].site = job[j].site /\ job'[j].plane = job[j].plane
        /\ job'[j].machine = job[j].machine /\ job'[j].asked = job[j].asked /\ job'[j].why = job[j].why
        /\ job'[j].stamp = job[j].stamp /\ job'[j].tag = job[j].tag
    BY <1>6, BecomeIs DEF Inv, Columns
  <2>2. RowOK(j)'
    BY <1>2, <2>1 DEF JobOK, RowOK, Settled, States, Running
  <2>3. SiteOK(j)'
    BY <1>2, <2>1 DEF JobOK, SiteOK
  <2>4. job[j].why = None
    BY <1>2 DEF JobOK, RowOK, Settled
  <2>5. KnownOK(j)'
    BY <2>1, <2>4, NoneAssumption DEF KnownOK
  <2>6. DOMAIN [st |-> "landed"] \subseteq Columns
    BY DEF Columns
  <2>7. JobOK(j)'
    BY <2>2, <2>3, <2>5 DEF JobOK
  <2>8. QED
    BY <1>1, <1>2, <1>6, <2>6, <2>7, OnlyRows
<1>7. QED
  BY <1>4, <1>5, <1>6 DEF Fetch

LEMMA RowsStay ==
  ASSUME Inv, CatInv', UNCHANGED <<job, probed>>, dirs' \in [Released -> Layouts], StoreOK'
  PROVE  Inv'
<1>1. ContractsOK' /\ RowsOK'
  BY DEF Inv, ContractsOK, RowsOK
<1>2. JobsOK'
  BY RowStays DEF Inv, JobsOK
<1>3. CatalogOK' /\ FixedSeen'
  BY CatInvIs, PTL
<1>4. QED
  BY <1>1, <1>2, <1>3 DEF Inv

LEMMA EnvironmentKeeps ==
  ASSUME Inv, Environment
  PROVE  Inv'
<1>1. CatInv
  BY CatInvIs DEF Inv
<1>2. dirs \in [Released -> Layouts] /\ (UNCHANGED stored => StoreOK')
  BY DEF Inv, ContractsOK, StoreOK
<1>3. CASE (CatalogEnvironment \/ \E p \in Plane : StartServing(p) \/ StopServing(p)) /\ UNCHANGED jobVars
  <2>1. CatInv'
    BY <1>1, <1>3, RegistryStepsKeep
  <2>2. QED
    BY <1>2, <1>3, <2>1, RowsStay DEF jobVars
<1>4. ASSUME NEW s \in Released, NEW d \in Layouts, PutService(s, d)
      PROVE  Inv'
  <2>1. RegistryOK' /\ ReadingsOK'
    BY <1>1, <1>4 DEF PutService, CatInv, RegistryOK, ReadingsOK
  <2>2. SwitchesOK'
    BY <1>1, <1>4, SiteAssumption DEF PutService, Change, CatInv, SwitchesOK
  <2>3. dirs' \in [Released -> Layouts]
    BY <1>2, <1>4 DEF PutService
  <2>4. QED
    BY <1>2, <1>4, <2>1, <2>2, <2>3, RowsStay DEF PutService, CatInv
<1>5. ASSUME NEW p \in Plane, NEW s \in Released, Rebuild(p, s)
      PROVE  Inv'
  <2>1. RegistryOK' /\ ReadingsOK'
    BY <1>1, <1>5 DEF Rebuild, CatInv, RegistryOK, ReadingsOK
  <2>2. SwitchesOK'
    BY <1>1, <1>5, SiteAssumption DEF Rebuild, Change, CatInv, SwitchesOK
  <2>3. StoreOK'
    <3>1. Plain \in Tag /\ PlatOf[p] \in Platform
      BY SiteAssumption DEF Tag
    <3>2. QED
      BY <1>5, <3>1, StoredIs, JobAssumption DEF Rebuild
  <2>4. QED
    BY <1>2, <1>5, <2>1, <2>2, <2>3, RowsStay DEF Rebuild, CatInv
<1>6. serving \subseteq Plane
  BY DEF Inv, CatalogOK
<1>7. QED
  BY <1>3, <1>4, <1>5, <1>6 DEF Environment

-----------------------------------------------------------------------------
(* The theorems. *)

LEMMA Starts == Init => Inv
<1> SUFFICES ASSUME Init
             PROVE  Inv
  OBVIOUS
<1>1. CatalogOK /\ FixedSeen
  BY CatalogStarts, CatInvIs DEF Init
<1>2. RowsOK
  BY DEF Init, RowsOK, Columns
<1>3. StoreOK
  BY JobAssumption DEF Init, StoreOK, Tag
<1>4. ContractsOK
  BY DEF Init, ContractsOK
<1>5. ASSUME NEW j \in Job
      PROVE  JobOK(j)
  <2>1. /\ job[j].st = "new" /\ job[j].asked = None /\ job[j].tag = Plain /\ job[j].stamp = None
        /\ job[j].why = None
    BY DEF Init
  <2>2. QED
    BY <2>1, NoneAssumption
       DEF JobOK, RowOK, SiteOK, KnownOK, States, Running, Settled, Tag
<1>6. QED
  BY <1>1, <1>2, <1>3, <1>4, <1>5 DEF Inv, JobsOK

LEMMA Steps == Inv /\ [Next]_vars => Inv'
<1> SUFFICES ASSUME Inv, [Next]_vars
             PROVE  Inv'
  OBVIOUS
<1>1. CASE UNCHANGED vars
  <2>1. CatInv'
    <3>1. CatInv
      BY CatInvIs DEF Inv
    <3>2. QED
      BY <1>1, <3>1 DEF vars, catalogVars, CatInv, RegistryOK, ReadingsOK, SwitchesOK
  <2>2. QED
    BY <1>1, <2>1, RowsStay DEF vars, jobVars, Inv, ContractsOK, StoreOK
<1>2. ASSUME NEW p \in Plane, NEW j \in Job, NEW sel \in {None} \cup Machine, Request(p, j, sel)
      PROVE  Inv'
  BY <1>2, RequestKeeps
<1>3. ASSUME NEW p \in Plane, NEW j \in Job, PlaneStep(p, j)
      PROVE  Inv'
  BY <1>3, AdmitKeeps, PackClaimKeeps, PlatformForKeeps, LookKeeps, UploadKeeps, ClaimKeeps,
     ExecScopeKeeps, ExecResolveKeeps, FetchKeeps DEF PlaneStep
<1>4. CASE Environment
  BY <1>4, EnvironmentKeeps
<1>5. QED
  BY <1>1, <1>2, <1>3, <1>4 DEF Next

LEMMA Invariant == Spec => []Inv
BY Starts, Steps, PTL DEF Spec

(* Readings keep the instances under the ids their plane gives them, rows   *)
(* at work have an executor and a machine, and a package is stored under    *)
(* the platform it was built for.                                           *)
THEOREM PlacementTypes == Spec => []TypeOK
<1>1. Inv => TypeOK
  BY DEF Inv, StoreOK, ContractsOK, JobsOK, JobOK, RowOK, SiteOK, TypeOK, Running
<1>2. QED
  BY <1>1, Invariant, PTL

(* Whatever the readings of the planes say, and however they change between *)
(* two checks of a deploy (executeDeploy): it lands on a host that its      *)
(* executor knows by the machine the caller named, or not at all.           *)
THEOREM LandsThereOrNowhere == Spec => []LandsWhereTold
<1>1. Inv => LandsWhereTold
  BY DEF Inv, JobsOK, JobOK, RowOK, SiteOK, LandsWhereTold
<1>2. QED
  BY <1>1, Invariant, PTL

(* Neither an outage nor an empty or stale cache turns a machine that the   *)
(* service never leaves into one it is not bound to (Scope).                *)
THEOREM OutageUnbindsNothing == Spec => []BoundStaysDeployable
<1>1. Inv => BoundStaysDeployable
  BY DEF Inv, JobsOK, JobOK, KnownOK, Pinned, BoundStaysDeployable
<1>2. QED
  BY <1>1, Invariant, PTL

-----------------------------------------------------------------------------
(* The rows as the deploy queue sees them. *)

Executing == {"claimed", "scoped", "checked"}

(* A job has no deploy before it is ready, nor when it is refused or its    *)
(* pipeline fails: nobody then owns it, or its package was not built.       *)
NoDeployYet(j) ==
  \/ job[j].st \in {"new", "asked", "queued", "packing", "building", "compiling", "refused"}
  \/ job[j].st = "failed" /\ (job[j].plane = None \/ job[j].why = "build")

DeployState(j) ==
  IF NoDeployYet(j) THEN "absent"
  ELSE IF job[j].st = "ready" THEN "queued"
  ELSE IF job[j].st \in Executing THEN "running"
  ELSE IF job[j].st = "landed" THEN "succeeded"
  ELSE "failed"
Executor(j) == IF job[j].st \in Executing THEN job[j].plane ELSE None

Queue == INSTANCE DeployQueue
           WITH Deploy <- Job, NoPlane <- None,
                row <- [j \in Job |-> DeployState(j)], worker <- [j \in Job |-> Executor(j)]

(* A pipeline that nobody has claimed yet belongs to nobody.                *)
Unclaimed == \A j \in Job : job[j].st = "queued" => job[j].plane = None

(* A step touches at most the row of job j.                                 *)
Only(j) == DOMAIN job = Job /\ DOMAIN job' = Job /\ \A k \in Job \ {j} : job'[k] = job[k]

LEMMA OtherRows ==
  ASSUME NEW j \in Job, Only(j), NEW k \in Job \ {j}
  PROVE  DeployState(k)' = DeployState(k) /\ Executor(k)' = Executor(k)
BY DEF Only, DeployState, Executor, NoDeployYet

(* What a step on j may do to its row ...                                   *)
Quiet(j) == DeployState(j)' = DeployState(j) /\ Executor(j)' = Executor(j)
Queues(j) == /\ DeployState(j) = "absent" /\ DeployState(j)' = "queued"
             /\ Executor(j)' = Executor(j)
Begins(j) == /\ DeployState(j) = "queued" /\ DeployState(j)' = "running"
              /\ Executor(j) = None /\ Executor(j)' \in Plane
HandsBack(j) == /\ DeployState(j) = "running" /\ DeployState(j)' = "queued"
                /\ Executor(j) # None /\ Executor(j)' = None
Finishes(j) == /\ DeployState(j) = "running" /\ DeployState(j)' \in {"succeeded", "failed"}
               /\ Executor(j)' = None
QueueStep(j) == Quiet(j) \/ Queues(j) \/ Begins(j) \/ HandsBack(j) \/ Finishes(j)

(* ... are steps of the queue.                                              *)
LEMMA QueueStepIs ==
  ASSUME NEW j \in Job, Only(j), QueueStep(j)
  PROVE  [Queue!Next]_(Queue!qvars)
<1> DEFINE r == [k \in Job |-> DeployState(k)]
           w == [k \in Job |-> Executor(k)]
<1>1. r' = [r EXCEPT ![j] = DeployState(j)'] /\ w' = [w EXCEPT ![j] = Executor(j)']
  BY OtherRows
<1>2. r[j] = DeployState(j) /\ w[j] = Executor(j)
  OBVIOUS
<1>3. Executor(j)' = Executor(j) => w' = w
  BY <1>1, <1>2
<1>4. DeployState(j)' = DeployState(j) => r' = r
  BY <1>1, <1>2
<1>5. CASE Quiet(j)
  BY <1>3, <1>4, <1>5 DEF Quiet, Queue!qvars
<1>6. CASE Queues(j)
  BY <1>1, <1>2, <1>3, <1>6 DEF Queues, Queue!Next, Queue!Submit
<1>7. CASE Begins(j)
  BY <1>1, <1>2, <1>7 DEF Begins, Queue!Next, Queue!Claim
<1>8. CASE HandsBack(j)
  BY <1>1, <1>2, <1>8 DEF HandsBack, Queue!Next, Queue!HandBack
<1>9. CASE Finishes(j)
  BY <1>1, <1>2, <1>9 DEF Finishes, Queue!Next, Queue!Finish, Queue!Terminal
<1>10. QED
  BY <1>5, <1>6, <1>7, <1>8, <1>9 DEF QueueStep

(* Assigning some columns of a row.                                         *)
LEMMA Assigned ==
  ASSUME RowsOK, NEW j \in Job, NEW change, Become(j, change), DOMAIN change \subseteq Columns
  PROVE  /\ Only(j)
         /\ \A f \in Columns : job'[j][f] = IF f \in DOMAIN change THEN change[f] ELSE job[j][f]
BY BecomeIs DEF RowsOK, Only

LEMMA Failed ==
  ASSUME RowsOK, NEW j \in Job, NEW why, Fail(j, why)
  PROVE  Only(j) /\ job'[j].st = "failed" /\ job'[j].why = why /\ job'[j].plane = job[j].plane
BY Assigned DEF Fail, Columns

(* A step on j keeps to the queue.                                          *)
Orderly(j) ==
  /\ Only(j) /\ QueueStep(j)
  /\ job'[j].st = "queued" => job'[j].plane = None

(* Before there is a deploy.                                                *)
LEMMA RequestOrderly ==
  ASSUME Inv, NEW p \in Plane, NEW j \in Job, NEW sel, Request(p, j, sel)
  PROVE  Orderly(j)
<1>1. job[j].st = "new"
  BY DEF Request, Look
<1>2. Only(j) /\ job'[j].st \in {"asked", "refused"}
  <2>1. ASSUME NEW kind, NEW t, NEW m, NEW d,
               Become(j, [st |-> "asked", kind |-> kind, plane |-> p, by |-> p, tag |-> t,
                          asked |-> sel, layout |-> d, machine |-> m])
        PROVE  Only(j) /\ job'[j].st = "asked"
    BY <2>1, Assigned DEF Inv, Columns
  <2>2. ASSUME NEW m, Become(j, [st |-> "refused", by |-> p, why |-> "machine", machine |-> m])
        PROVE  Only(j) /\ job'[j].st = "refused"
    BY <2>2, Assigned DEF Inv, Columns
  <2>3. QED
    BY <2>1, <2>2 DEF Request
<1>3. QED
  BY <1>1, <1>2 DEF Orderly, QueueStep, Quiet, DeployState, Executor, NoDeployYet, Executing

LEMMA AdmitOrderly ==
  ASSUME Inv, NEW p \in Plane, NEW j \in Job, Admit(p, j)
  PROVE  Orderly(j)
<1>1. job[j].st = "asked"
  BY DEF Admit, Work, Look
<1>2. /\ Only(j)
      /\ \/ job'[j].st = "refused"
         \/ job'[j].st \in {"ready", "queued"} /\ job'[j].plane = None
  <2>1. ASSUME NEW why, Become(j, [st |-> "refused", why |-> why])
        PROVE  Only(j) /\ job'[j].st = "refused"
    BY <2>1, Assigned DEF Inv, Columns
  <2>2. ASSUME NEW st, Become(j, [st |-> st, plane |-> None, layout |-> {}])
        PROVE  Only(j) /\ job'[j].st = st /\ job'[j].plane = None
    BY <2>2, Assigned DEF Inv, Columns
  <2>3. QED
    BY <2>1, <2>2 DEF Admit
<1>3. QED
  BY <1>1, <1>2
     DEF Orderly, QueueStep, Quiet, Queues, DeployState, Executor, NoDeployYet, Executing

LEMMA PipelineOrderly ==
  ASSUME Inv, Unclaimed, NEW p \in Plane, NEW j \in Job,
         PackClaim(p, j) \/ PlatformFor(p, j)
         \/ PackageLook(p, j) \/ PackageUpload(p, j)
  PROVE  Orderly(j)
<1> USE DEF Orderly, QueueStep, Quiet, Queues, DeployState, Executor, NoDeployYet, Executing
<1>1. CASE PackClaim(p, j)
  <2>1. job[j].st = "queued" /\ job[j].plane = None
    BY <1>1 DEF PackClaim, Look, Unclaimed
  <2>2. ASSUME NEW os, IF RuntimeDirGap(dirs[ServiceOf[j]], os) THEN Fail(j, "dir")
                       ELSE Become(j, [st |-> "packing", plane |-> p])
        PROVE  /\ Only(j)
               /\ job'[j].st # "packing" => job'[j].st = "failed" /\ job'[j].plane = None
    <3>1. CASE Fail(j, "dir")
      BY <2>1, <3>1, Failed DEF Inv
    <3>2. CASE Become(j, [st |-> "packing", plane |-> p])
      BY <3>2, Assigned DEF Inv, Columns
    <3>3. QED
      BY <2>2, <3>1, <3>2
  <2>3. /\ Only(j)
        /\ job'[j].st # "packing" => job'[j].st = "failed" /\ job'[j].plane = None
    BY <1>1, <2>2 DEF PackClaim
  <2>4. QED
    BY <2>1, <2>3
<1>2. CASE PlatformFor(p, j)
  <2>1. job[j].st = "packing"
    BY <1>2 DEF PlatformFor, Work, Look
  <2>2. ASSUME NEW plat, Become(j, [st |-> "building", stamp |-> plat])
        PROVE  Only(j) /\ job'[j].st = "building"
    BY <2>2, Assigned DEF Inv, Columns
  <2>3. Only(j) /\ job'[j].st = "building"
    BY <1>2, <2>2 DEF PlatformFor
  <2>4. QED
    BY <2>1, <2>3
<1>3. ASSUME NEW t, Become(j, [st |-> "ready", plane |-> None, tag |-> t])
      PROVE  Only(j) /\ job'[j].st = "ready"
  BY <1>3, Assigned DEF Inv, Columns
<1>4. CASE PackageLook(p, j)
  <2>1. job[j].st = "building"
    BY <1>4 DEF PackageLook
  <2>2. ASSUME Become(j, [st |-> "compiling"])
        PROVE  Only(j) /\ job'[j].st = "compiling"
    BY <2>2, Assigned DEF Inv, Columns
  <2>3. Only(j) /\ job'[j].st \in {"ready", "compiling"}
    BY <1>3, <1>4, <2>2 DEF PackageLook
  <2>4. QED
    BY <2>1, <2>3
<1>5. CASE PackageUpload(p, j)
  <2>1. job[j].st = "compiling"
    BY <1>5 DEF PackageUpload
  <2>2. Only(j) /\ (job'[j].st # "ready" => job'[j].st = "failed" /\ job'[j].why = "build")
    BY <1>3, <1>5, Failed DEF PackageUpload, Inv
  <2>3. QED
    BY <2>1, <2>2
<1>6. QED
  BY <1>1, <1>2, <1>4, <1>5

(* And after.                                                               *)
LEMMA ClaimOrderly ==
  ASSUME Inv, NEW p \in Plane, NEW j \in Job, Claim(p, j)
  PROVE  Orderly(j)
<1>1. job[j].st = "ready" /\ Become(j, [st |-> "claimed", plane |-> p, layout |-> dirs[ServiceOf[j]]])
  BY DEF Claim, Look
<1>2. Only(j) /\ job'[j].st = "claimed" /\ job'[j].plane = p
  BY <1>1, Assigned DEF Inv, Columns
<1>3. QED
  BY <1>1, <1>2
     DEF Orderly, QueueStep, Begins, DeployState, Executor, NoDeployYet, Executing

(* An execution goes on, hands its row back, or ends with a verdict.        *)
LEMMA ExecutionOrderly ==
  ASSUME Inv, NEW j \in Job, job[j].st \in Executing, Only(j),
         \/ job'[j].st \in Executing /\ job'[j].plane = job[j].plane
         \/ job'[j].st = "ready" /\ job'[j].plane = None
         \/ job'[j].st = "landed"
         \/ job'[j].st = "failed" /\ job'[j].plane = job[j].plane /\ job'[j].why # "build"
  PROVE  Orderly(j)
<1>1. job[j].plane \in Plane /\ job[j].plane # None
  BY NoneAssumption DEF Inv, JobsOK, JobOK, RowOK, Running, Executing
<1>2. QED
  BY <1>1 DEF Orderly, QueueStep, Quiet, HandsBack, Finishes, DeployState, Executor, NoDeployYet,
              Executing

LEMMA RequeueIs ==
  ASSUME Inv, NEW j \in Job, NEW plat, Requeue(j, plat)
  PROVE  Only(j) /\ job'[j].st = "ready" /\ job'[j].plane = None
BY Assigned DEF Inv, Requeue, Columns

LEMMA ExecOrderly ==
  ASSUME Inv, NEW p \in Plane, NEW j \in Job,
         ExecScope(p, j) \/ ExecResolve(p, j) \/ Fetch(p, j)
  PROVE  Orderly(j)
<1>1. job[j].st \in Executing
  BY DEF ExecScope, ExecResolve, Fetch, Work, Look, Executing
<1>2. ASSUME NEW why \in {"machine", "dir", "platform", "probe"}, Fail(j, why)
      PROVE  Orderly(j)
  BY <1>1, <1>2, Failed, ExecutionOrderly DEF Inv
<1>3. ASSUME NEW plat, Requeue(j, plat)
      PROVE  Orderly(j)
  BY <1>1, <1>3, RequeueIs, ExecutionOrderly
<1>4. CASE ExecScope(p, j)
  <2>1. ASSUME Become(j, [st |-> "scoped"])
        PROVE  Only(j) /\ job'[j].st = "scoped" /\ job'[j].plane = job[j].plane
    BY <2>1, Assigned DEF Inv, Columns
  <2>2. QED
    BY <1>1, <1>2, <1>4, <2>1, ExecutionOrderly DEF ExecScope, Executing
<1>5. CASE ExecResolve(p, j)
  <2>1. ASSUME NEW place, Become(j, [st |-> "checked", site |-> place])
        PROVE  Only(j) /\ job'[j].st = "checked" /\ job'[j].plane = job[j].plane
    BY <2>1, Assigned DEF Inv, Columns
  <2>2. ASSUME NEW place, Become(j, [st |-> "checked", site |-> place])
        PROVE  Orderly(j)
    BY <1>1, <2>1, <2>2, ExecutionOrderly DEF Executing
  <2>3. QED
    BY <1>2, <1>3, <1>5, <2>2 DEF ExecResolve
<1>6. CASE Fetch(p, j)
  <2>1. ASSUME Become(j, [st |-> "landed"])
        PROVE  Only(j) /\ job'[j].st = "landed"
    BY <2>1, Assigned DEF Inv, Columns
  <2>2. QED
    BY <1>1, <1>2, <1>3, <1>6, <2>1, ExecutionOrderly DEF Fetch
<1>7. QED
  BY <1>4, <1>5, <1>6

LEMMA Orders ==
  ASSUME Inv, Unclaimed, [Next]_vars
  PROVE  Unclaimed' /\ [Queue!Next]_(Queue!qvars)
<1>1. CASE UNCHANGED job
  BY <1>1 DEF Unclaimed, Queue!qvars, DeployState, Executor, NoDeployYet
<1>2. Environment \/ UNCHANGED vars => UNCHANGED job
  BY DEF Environment, PutService, Rebuild, jobVars, vars
<1>3. ASSUME NEW j \in Job, Orderly(j)
      PROVE  Unclaimed' /\ [Queue!Next]_(Queue!qvars)
  <2>1. Unclaimed'
    BY <1>3 DEF Orderly, Only, Unclaimed
  <2>2. QED
    BY <1>3, <2>1, QueueStepIs DEF Orderly
<1>4. CASE \E p \in Plane, j \in Job, sel \in {None} \cup Machine : Request(p, j, sel)
  BY <1>3, <1>4, RequestOrderly
<1>5. CASE \E p \in Plane, j \in Job : PlaneStep(p, j)
  BY <1>3, <1>5, AdmitOrderly, PipelineOrderly, ClaimOrderly, ExecOrderly DEF PlaneStep
<1>6. QED
  BY <1>1, <1>2, <1>4, <1>5 DEF Next

(* The requests, checks, hand-backs and refusals along the way of a deploy  *)
(* to its host move the row only as DeployQueue allows: one executor at a   *)
(* time, and a verdict that stays.                                          *)
THEOREM KeepsToTheQueue == Spec => Queue!Spec
<1>1. Init => Unclaimed /\ Queue!Init
  BY DEF Init, Unclaimed, Queue!Init, DeployState, Executor, NoDeployYet, Executing
<1>2. QED
  BY <1>1, Starts, Steps, Orders, PTL DEF Spec, Queue!Spec
=============================================================================
