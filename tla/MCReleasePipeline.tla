-------------------------- MODULE MCReleasePipeline --------------------------
(* Instances of ReleasePipeline for TLC. *)
EXTENDS ReleasePipeline, TLC

CONSTANTS p1, p2, i1, i2, d3, d4

(* Nothing tells one plane from another. *)
AnyPlane == Permutations(Plane)
=============================================================================
