---------------------------- MODULE MCSelfUpgrade -----------------------------
(* Instances of SelfUpgrade for TLC: the plane replaces itself (o1), the *)
(* other plane replaces it too (x), with a package that holds no server.     *)
EXTENDS SelfUpgrade

CONSTANTS o1, x, left

(* Without lsof the other plane and the death of the upgrader come apart.    *)
Settings == {[lsof |-> TRUE, without |-> {}, past |-> {}],
             [lsof |-> FALSE, without |-> {}, past |-> {left}],
             [lsof |-> FALSE, without |-> {x}, past |-> {}]}
=============================================================================
