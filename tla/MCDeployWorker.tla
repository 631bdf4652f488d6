--------------------------- MODULE MCDeployWorker ---------------------------
(* Instances of DeployWorker for TLC: each configuration picks the sets and *)
(* one of the request tables below.                                         *)
EXTENDS DeployWorker

CONSTANTS p1, p2, h1, d1, d2, d3, s1, s2, x, y, z, linux, darwin, v1, v2

AllLocal == [d \in Deploy |-> Local]
OnP2 == [d \in Deploy |-> IF d = d1 THEN p2 ELSE Local]

OwnVersions == [d \in Deploy |-> IF d = d2 THEN v2 ELSE v1]
NoLabel == [d \in Deploy |-> Unknown]
AllLinux == [d \in Deploy |-> linux]
LinuxThenDarwin == [d \in Deploy |-> IF d = d1 THEN linux ELSE darwin]

TwoServices == [d \in Deploy |-> IF d = d1 THEN s1 ELSE s2]

TagOnD1 == [d \in Deploy |-> IF d = d1 THEN linux ELSE Unknown]
StampOnD2 == [d \in Deploy |-> IF d = d1 THEN Unknown ELSE linux]

LinuxHosts == [h \in Host |-> linux]
MixedHosts == [h \in Host |-> IF h = p2 THEN darwin ELSE linux]

HomeZ == [p \in Plane |-> z]
HomeXOnP2 == [p \in Plane |-> IF p = p2 THEN x ELSE z]
HomeX == [p \in Plane |-> x]

(* Contracts: every service in one directory on every platform ... *)
Everywhere(dir) == [s \in Service |-> [k \in Platform |-> dir]]
SharedDir == {Everywhere(x)}
(* ... or s2 apart from s1 ... *)
Apart == [s \in Service |-> [k \in Platform |-> IF s = s2 THEN y ELSE x]]
ApartDirs == {Apart}
(* ... or edited between the two. *)
EditedDirs == {Everywhere(x), Apart}
=============================================================================
