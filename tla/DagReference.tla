---------------------------- MODULE DagReference ----------------------------
(***************************************************************************)
(* Reference definitions for the pure graph operations of DagModel, by     *)
(* sets closed under the dependency relation instead of by the sweeps and  *)
(* worklists of the code.  The properties are about every graph over N     *)
(* nodes (cyclic ones and ones with an unknown dependency included) and,   *)
(* for the graphs validate_graph accepts, every assignment of statuses to  *)
(* the nodes, whatever led to it.  Each says that there is no exception,   *)
(* and names the set of exceptions, which TLC then computes only once.     *)
(* They are stated of the engine before its run is planned, when any graph *)
(* may still become the run's definition.                                  *)
(***************************************************************************)
EXTENDS DagEngine

\* Any definition may still be submitted.
Unplanned == runStatus = "Unplanned"

\* Every definition a client can submit, the ones validate_graph rejects too.
AllGraphs == [Nodes -> SUBSET (Nodes \cup {Unknown})]

Accepted == {g \in AllGraphs : ValidateGraph(g)}

Passes == Accepted \X [Nodes -> Statuses]

\* Every member of S waits for a member of S: S holds a cycle or leads to one.
SelfWaiting(g, S) == \A n \in S : g[n] \cap S # {}

\* m is reachable from n: it lies in every set that is closed downstream.
Reachable(g, n, m) ==
  \A C \in SUBSET Nodes :
     (Dependents(g, {n}) \subseteq C /\ Dependents(g, C) \subseteq C) => m \in C

\* Every dependency is declared before its dependents.
Topological(g) == \A n \in Nodes : \A d \in g[n] : d < n

\* What a pass did to st is what the graph asks for.
Justified(g, st, new) ==
  \A n \in Nodes :
    /\ st[n] \notin Waiting => new[n] = st[n]
    /\ new[n] = "Cancelled" /\ st[n] # "Cancelled" =>
         \E b \in Nodes : st[b] \in Blocked /\ n \in DownstreamClosure(g, b)
    /\ st[n] \in Waiting =>
         (new[n] = "Ready" <=> \A d \in g[n] : new[d] \in Done)

\* No waiting node is behind a blocked one, and another pass changes nothing.
AtRest(g, st) ==
  /\ \A n \in Nodes : \A d \in g[n] : st[d] \in Blocked => st[n] \notin Waiting
  /\ Reconcile(g, st) = st

-----------------------------------------------------------------------------
Misjudged ==
  {g \in AllGraphs :
     Remaining(g) # UNION {S \in SUBSET Nodes : SelfWaiting(g, S)}}

Misreached ==
  {g \in AllGraphs : \E n \in Nodes :
     DownstreamClosure(g, n) # {m \in Nodes : Reachable(g, n, m)}}

Unjustified ==
  {p \in Passes : ~Justified(p[1], p[2], Reconcile(p[1], p[2]))}

Unfinished ==
  {p \in Passes : Topological(p[1]) /\ ~AtRest(p[1], Reconcile(p[1], p[2]))}

(***************************************************************************)
(* validate_graph's cycle check leaves exactly the nodes that can never    *)
(* run: the largest set whose members all wait for one another, so a graph *)
(* is rejected if and only if some nodes would wait forever.               *)
(***************************************************************************)
KahnFindsCycles == Unplanned => Misjudged = {}

(***************************************************************************)
(* downstream_closure is reachability: retry and skip reset every node     *)
(* downstream of the one they name and no other.                           *)
(***************************************************************************)
ClosureIsReachability == Unplanned => Misreached = {}

(***************************************************************************)
(* A reconcile pass is justified: it leaves running and terminal nodes     *)
(* alone, cancels a waiting node only downstream of a blocked one, and     *)
(* makes ready exactly the waiting nodes all of whose dependencies are     *)
(* done, for every graph validate_graph accepts.                           *)
(***************************************************************************)
ReconcileSound == Unplanned => Unjustified = {}

(***************************************************************************)
(* When dependencies are declared before their dependents, one reconcile   *)
(* pass does the whole cascade: no waiting node is left behind a blocked   *)
(* dependency and a second pass changes nothing.                           *)
(***************************************************************************)
ReconcileComplete == Unplanned => Unfinished = {}

=============================================================================
