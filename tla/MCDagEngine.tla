---------------------------- MODULE MCDagEngine ----------------------------
(***************************************************************************)
(* Instances of DagEngine for TLC.                                         *)
(***************************************************************************)
EXTENDS DagReference, TLC

CONSTANTS t1, t2

Permuted == Permutations(Threads)

\* Definitions that declare every dependency before its dependents.
Ordered == {g \in [Nodes -> SUBSET Nodes] : \A n \in Nodes : \A d \in g[n] : d < n}

\* A dependent declared before its dependency, behind another one.
Backward == {[n \in Nodes |-> IF n < N THEN {n + 1} ELSE {}]}

\* Saves and restarts are explored without fail-fast, and where one node
\* depends on another: any other run is not followed beyond its first snapshot.
Explored ==
  saved # NoSnapshot => failFast = "off" /\ \E n \in Nodes : deps[n] # {}

=============================================================================
