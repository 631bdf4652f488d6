-------------------------- MODULE MCServiceContracts --------------------------
(* Instances of ServiceContracts for TLC. *)
EXTENDS ServiceContracts

CONSTANTS s1, s2, i1, a, b, p1, p3

BuildsOne == [j \in Piped |-> CHOOSE t \in Tag : TRUE]

Row(port, url) == [port |-> port, url |-> url, notify |-> FALSE, poll |-> FALSE]
(* A row from before the column, whose port another one has since been      *)
(* given: a start that finds no index makes two rows clash.                 *)
Tables ==
  {[s \in Service |-> IF s = s1 THEN Row(p1, NoPort) ELSE Row(NoPort, p1)]}
(* s2 is seeded when it is not there, with a port that PUT may give to s1.  *)
Seeds == [s \in Service |-> IF s = s2 THEN Row(p3, NoPort) ELSE None]

(* A change of the port, and the halves of a change of the graceful pair. *)
Bodies ==
  {[port |-> p3, notify |-> Keep, poll |-> Keep],
   [port |-> Keep, notify |-> TRUE, poll |-> Keep],
   [port |-> Keep, notify |-> TRUE, poll |-> TRUE]}
=============================================================================
