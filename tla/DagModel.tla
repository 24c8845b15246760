------------------------------ MODULE DagModel ------------------------------
(***************************************************************************)
(* The pure graph operations of the DAG engine                             *)
(* (crates/theway-core/src/multiagent/graph/model.rs).                     *)
(*                                                                         *)
(* A node is named by its position in the definition: the code keeps nodes *)
(* in a Vec and both reconcile and the scheduler walk it in declaration    *)
(* order, so the order of the positions is part of the behaviour.  A graph *)
(* maps each node to the ids it depends on; a dependency may be declared   *)
(* after its dependent.  Id 0 stands for an id that names no node.         *)
(***************************************************************************)
EXTENDS Naturals

CONSTANT N   \* number of nodes of the run

ASSUME NAssumption == N \in Nat \ {0}

Nodes   == 1..N
Unknown == 0

Statuses == {"Pending", "Ready", "Running",
             "Succeeded", "Failed", "Skipped", "Cancelled"}

Done     == {"Succeeded", "Skipped"}   \* what a dependent waits for
Blocked  == {"Failed", "Cancelled"}    \* is_blocked
Terminal == Done \cup Blocked          \* is_terminal
Waiting  == {"Pending", "Ready"}       \* what reconcile may rewrite

-----------------------------------------------------------------------------
(***************************************************************************)
(* validate_graph.  Kahn's algorithm sweeps the remaining nodes in         *)
(* declaration order, removing in place every node none of whose           *)
(* dependencies remains, until a sweep removes nothing.  Each sweep but    *)
(* the last removes a node, so N sweeps reach the end of the loop.         *)
(***************************************************************************)
Sweep(g, remaining) ==
  LET upTo[i \in 0..N] ==
        IF i = 0 THEN remaining
        ELSE IF i \in upTo[i-1] /\ g[i] \cap upTo[i-1] = {}
               THEN upTo[i-1] \ {i}
               ELSE upTo[i-1]
  IN  upTo[N]

\* Slip: the loop stops one sweep early.
RemainingEarly(g) ==
  LET after[k \in 0..N] == IF k = 0 THEN Nodes ELSE Sweep(g, after[k-1])
  IN  after[N-1]

Remaining(g) ==
  LET after[k \in 0..N] == IF k = 0 THEN Nodes ELSE Sweep(g, after[k-1])
  IN  after[N]

\* Slip: an unknown dependency is accepted.
ValidateLoosely(g) == (\A n \in Nodes : n \notin g[n]) /\ Remaining(g) = {}

ValidateGraph(g) ==
  /\ \A n \in Nodes : n \notin g[n]
  /\ \A n \in Nodes : g[n] \subseteq Nodes
  /\ Remaining(g) = {}

-----------------------------------------------------------------------------
(***************************************************************************)
(* downstream_closure: every node reachable from n along dependency edges. *)
(* The worklist visits a node once, so N rounds exhaust it.                *)
(***************************************************************************)
Dependents(g, S) == {n \in Nodes : g[n] \cap S # {}}

\* Slip: direct dependents only.
DownstreamDirect(g, n) == Dependents(g, {n})

DownstreamClosure(g, n) ==
  LET seen[k \in 0..N] ==
        IF k = 0 THEN Dependents(g, {n})
                 ELSE seen[k-1] \cup Dependents(g, seen[k-1])
  IN  seen[N]

-----------------------------------------------------------------------------
\* Slip: the pass reads the statuses from before it.
CascadedStale(g, st) ==
  {i \in Nodes : st[i] \in Waiting /\ \E d \in g[i] \cap Nodes : st[d] \in Blocked}

(***************************************************************************)
(* reconcile.  One pass in declaration order over a live status map: a     *)
(* waiting node with a blocked dependency is cancelled, and a dependent    *)
(* DECLARED LATER in the pass sees that cancellation; one declared earlier *)
(* has already been visited.  Otherwise the node is Ready when every       *)
(* dependency is done and Pending if not.  The pass makes no node done, so *)
(* only the cancellations it makes can be observed by a later node.        *)
(***************************************************************************)
Cascaded(g, st) ==
  LET hit[i \in Nodes] ==
        /\ st[i] \in Waiting
        /\ \E d \in g[i] \cap Nodes : \/ st[d] \in Blocked
                                      \/ d < i /\ hit[d]
  IN  {i \in Nodes : hit[i]}

DepsDone(g, st, n) == \A d \in g[n] \cap Nodes : st[d] \in Done

\* Slip: running nodes are rewritten too.
ReconcileRunning(g, st) ==
  [n \in Nodes |->
     IF st[n] \in Terminal          THEN st[n]
     ELSE IF n \in Cascaded(g, st)  THEN "Cancelled"
     ELSE IF DepsDone(g, st, n)     THEN "Ready"
     ELSE "Pending"]

Reconcile(g, st) ==
  [n \in Nodes |->
     IF st[n] \notin Waiting        THEN st[n]
     ELSE IF n \in Cascaded(g, st)  THEN "Cancelled"
     ELSE IF DepsDone(g, st, n)     THEN "Ready"
     ELSE "Pending"]

=============================================================================
