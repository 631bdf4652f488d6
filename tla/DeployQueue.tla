----------------------------- MODULE DeployQueue -----------------------------
(***************************************************************************)
(* What the shared `deploys` table promises, independently of how the      *)
(* control planes tick, reserve directories, drain or crash: every row     *)
(* moves absent -> queued -> running -> succeeded/failed, a running row    *)
(* may be handed back to the queue by whoever works on it, and at most one *)
(* control plane works on a deploy at any time.  DeployWorker implements   *)
(* this module.                                                            *)
(***************************************************************************)

CONSTANTS Plane,     (* control-plane processes that share the table       *)
          Deploy,    (* request ids                                        *)
          NoPlane    (* "nobody works on this deploy"                      *)

VARIABLES row,       (* row[d]: the state column of d, or "absent"         *)
          worker     (* worker[d]: the plane inside executeDeploy(d)       *)

qvars == <<row, worker>>

Terminal == {"succeeded", "failed"}

Init ==
  /\ row = [d \in Deploy |-> "absent"]
  /\ worker = [d \in Deploy |-> NoPlane]

(* createDeploy: the row is inserted as queued. *)
Submit(d) ==
  /\ row[d] = "absent"
  /\ row' = [row EXCEPT ![d] = "queued"]
  /\ UNCHANGED worker

(* ClaimQueued: only a queued row nobody works on is taken.  q = NoPlane is *)
(* the claim whose caller never learns that it succeeded.                   *)
Claim(d, q) ==
  /\ row[d] = "queued"
  /\ worker[d] = NoPlane
  /\ row' = [row EXCEPT ![d] = "running"]
  /\ worker' = [worker EXCEPT ![d] = q]

(* RequeueDeploy, by the plane that works on d, which then stops. *)
HandBack(d) ==
  /\ worker[d] # NoPlane
  /\ row[d] = "running"
  /\ row' = [row EXCEPT ![d] = "queued"]
  /\ worker' = [worker EXCEPT ![d] = NoPlane]

(* FinishDeploy: the verdict of the worker (who then stops) or of another   *)
(* plane that reconciles the row; it is written whatever the row says.      *)
Finish(d, verdict, q) ==
  /\ row[d] # "absent"
  /\ q \in {worker[d], NoPlane}
  /\ row' = [row EXCEPT ![d] = verdict]
  /\ worker' = [worker EXCEPT ![d] = q]

(* The workers of the deploys in S stop without touching the rows: a crash, *)
(* or a hand-off to the upgrader.                                           *)
Abandon(S) ==
  /\ worker' = [d \in Deploy |-> IF d \in S THEN NoPlane ELSE worker[d]]
  /\ UNCHANGED row

Next ==
  \/ \E d \in Deploy :
       \/ Submit(d)
       \/ \E q \in Plane \cup {NoPlane} : Claim(d, q)
       \/ HandBack(d)
       \/ \E verdict \in Terminal, q \in Plane \cup {NoPlane} : Finish(d, verdict, q)
  \/ \E S \in SUBSET Deploy : Abandon(S)

Spec == Init /\ [][Next]_qvars

=============================================================================
