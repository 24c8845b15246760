------------------------- MODULE DagReferenceProofs -------------------------
(***************************************************************************)
(* The four properties of DagReference for every number of nodes, every    *)
(* graph and all statuses: there is no exception, whatever the engine does.*)
(***************************************************************************)
EXTENDS DagReference, DagModelProofs

\* validate_graph's cycle check is exact: Kahn's sweeps leave the nodes that
\* would wait for one another forever, for every graph over any number of nodes.
THEOREM CyclesAreFound == Misjudged = {} /\ (Spec => []KahnFindsCycles)
  <1>1. ASSUME NEW g \in AllGraphs
        PROVE  Remaining(g) = UNION {S \in SUBSET Nodes : SelfWaiting(g, S)}
    <2>1. \A S \in SUBSET Nodes : SelfWaiting(g, S) <=> Waits(g, S)
      BY DEF SelfWaiting, Waits
    <2>2. /\ Remaining(g) \in SUBSET Nodes
          /\ Waits(g, Remaining(g))
          /\ \A S \in SUBSET Nodes : Waits(g, S) => S \subseteq Remaining(g)
      BY RemainingWaits
    <2>3. Remaining(g) \in {S \in SUBSET Nodes : SelfWaiting(g, S)}
      BY <2>1, <2>2
    <2>4. \A S \in {Q \in SUBSET Nodes : SelfWaiting(g, Q)} : S \subseteq Remaining(g)
      BY <2>1, <2>2
    <2> QED
      BY <2>3, <2>4
  <1>2. Misjudged = {}
    BY <1>1 DEF Misjudged
  <1>3. KahnFindsCycles
    BY <1>2 DEF KahnFindsCycles
  <1> QED
    BY <1>2, <1>3, PTL

\* downstream_closure is reachability: what retry and skip reset is everything
\* downstream of the node they name and nothing else, for every graph.
THEOREM ClosureIsExact == Misreached = {} /\ (Spec => []ClosureIsReachability)
  <1>1. ASSUME NEW g \in AllGraphs, NEW n \in Nodes
        PROVE  DownstreamClosure(g, n) = {m \in Nodes : Reachable(g, n, m)}
    <2> DEFINE R == DownstreamClosure(g, n)
    <2>1. /\ R \in SUBSET Nodes
          /\ Downstream(g, n, R)
          /\ \A C : Downstream(g, n, C) => R \subseteq C
      BY ClosureIsLeast
    <2> HIDE DEF R
    <2>2. ASSUME NEW m \in Nodes PROVE m \in R <=> Reachable(g, n, m)
      BY <2>1 DEF Reachable, Downstream
    <2>3. R = {m \in Nodes : Reachable(g, n, m)}
      BY <2>1, <2>2
    <2> QED
      BY <2>3 DEF R
  <1>2. Misreached = {}
    BY <1>1 DEF Misreached
  <1>3. ClosureIsReachability
    BY <1>2 DEF ClosureIsReachability
  <1> QED
    BY <1>2, <1>3, PTL

\* A reconcile pass is justified, for every accepted graph and all statuses:
\* it cancels only downstream of a blocked node and makes ready exactly the
\* waiting nodes whose dependencies are done.
THEOREM ReconcileIsSound == Unjustified = {} /\ (Spec => []ReconcileSound)
  <1>1. ASSUME NEW g \in AllGraphs, NEW st \in [Nodes -> Statuses],
               ValidateGraph(g), NEW n \in Nodes
        PROVE  LET new == Reconcile(g, st) IN
               /\ st[n] \notin Waiting => new[n] = st[n]
               /\ new[n] = "Cancelled" /\ st[n] # "Cancelled" =>
                    \E b \in Nodes : st[b] \in Blocked /\ n \in DownstreamClosure(g, b)
               /\ st[n] \in Waiting =>
                    (new[n] = "Ready" <=> \A d \in g[n] : new[d] \in Done)
    <2> DEFINE new == Reconcile(g, st)
    <2>1. st[n] \notin Waiting => new[n] = st[n]
      BY ReconcileEffect
    <2>2. ASSUME new[n] = "Cancelled", st[n] # "Cancelled"
          PROVE  \E b \in Nodes : st[b] \in Blocked /\ n \in DownstreamClosure(g, b)
      <3>1. n \in Cascaded(g, st)
        BY <2>1, <2>2, ReconcileEffect
      <3> QED
        BY <3>1, CascadeHasSource
    <2>3. ASSUME st[n] \in Waiting
          PROVE  new[n] = "Ready" <=> \A d \in g[n] : new[d] \in Done
      <3>1. g[n] \subseteq Nodes
        BY <1>1 DEF ValidateGraph
      <3>2. \A d \in g[n] : new[d] \in Done <=> st[d] \in Done
        BY <3>1, ReconcileDone
      <3>3. CASE n \in Cascaded(g, st)
        <4>1. new[n] = "Cancelled"
          BY <3>3, ReconcileEffect
        <4>2. PICK d \in g[n] \cap Nodes :
                   st[d] \in Blocked \/ (d < n /\ d \in Cascaded(g, st))
          BY <3>3, CascadedSteps
        <4>3. st[d] \notin Done
          BY <4>2, CascadedSteps DEF Done, Blocked, Waiting
        <4> HIDE DEF new
        <4> QED
          BY <3>2, <4>1, <4>3
      <3>4. CASE n \notin Cascaded(g, st)
        <4>1. new[n] = IF DepsDone(g, st, n) THEN "Ready" ELSE "Pending"
          BY <2>3, <3>4, ReconcileEffect
        <4>2. DepsDone(g, st, n) <=> \A d \in g[n] : new[d] \in Done
          BY <3>1, <3>2 DEF DepsDone
        <4> HIDE DEF new
        <4> QED
          BY <4>1, <4>2
      <3> QED
        BY <3>3, <3>4
    <2> QED
      BY <2>1, <2>2, <2>3
  <1>2. \A g \in Accepted : \A st \in [Nodes -> Statuses] :
           Justified(g, st, Reconcile(g, st))
    BY <1>1 DEF Accepted, Justified
  <1>3. Unjustified = {}
    BY <1>2 DEF Unjustified, Passes
  <1>4. ReconcileSound
    BY <1>3 DEF ReconcileSound
  <1> QED
    BY <1>3, <1>4, PTL

\* When every dependency is declared before its dependents one pass does the
\* whole cascade, however long the chains: no waiting node stays behind a
\* blocked dependency, and a second pass changes nothing.
THEOREM ReconcileIsComplete == Unfinished = {} /\ (Spec => []ReconcileComplete)
  <1>1. ASSUME NEW g \in AllGraphs, NEW st \in [Nodes -> Statuses],
               ValidateGraph(g), Topological(g)
        PROVE  LET new == Reconcile(g, st) IN
               /\ \A n \in Nodes : \A d \in g[n] :
                    new[d] \in Blocked => new[n] \notin Waiting
               /\ Reconcile(g, new) = new
    <2> DEFINE new == Reconcile(g, st)
    <2>0. \A n \in Nodes : g[n] \subseteq Nodes /\ \A d \in g[n] : d < n
      BY <1>1 DEF ValidateGraph, Topological
    <2>1. ASSUME NEW n \in Nodes, NEW d \in g[n], new[d] \in Blocked
          PROVE  new[n] \notin Waiting
      BY <2>0, <2>1, ReconcileCascades
    <2>2. Cascaded(g, new) = {}
      <3> HIDE DEF new
      <3> QED
        BY <2>1, CascadeStartsBehind
    <2>3. ASSUME NEW n \in Nodes PROVE Reconcile(g, new)[n] = new[n]
      <3>1. CASE new[n] \notin Waiting
        <4> HIDE DEF new
        <4> QED
          BY <3>1, ReconcileEffect
      <3>2. CASE new[n] \in Waiting
        <4>1. st[n] \in Waiting /\ n \notin Cascaded(g, st)
          BY <3>2, ReconcileEffect DEF Waiting
        <4>2. DepsDone(g, new, n) <=> DepsDone(g, st, n)
          BY ReconcileDone DEF DepsDone
        <4>3. new[n] = IF DepsDone(g, st, n) THEN "Ready" ELSE "Pending"
          BY <4>1, ReconcileEffect
        <4> HIDE DEF new
        <4>4. Reconcile(g, new)[n] = IF DepsDone(g, new, n) THEN "Ready" ELSE "Pending"
          BY <2>2, <3>2, ReconcileEffect
        <4> QED
          BY <4>2, <4>3, <4>4
      <3> QED
        BY <3>1, <3>2
    <2>4. Reconcile(g, new) = new
      <3>1. Reconcile(g, new) = [n \in Nodes |-> Reconcile(g, new)[n]]
        BY DEF Reconcile
      <3>2. new = [n \in Nodes |-> new[n]]
        BY DEF Reconcile
      <3> HIDE DEF new
      <3> QED
        BY <2>3, <3>1, <3>2
    <2> QED
      BY <2>1, <2>4
  <1>2. \A g \in Accepted : \A st \in [Nodes -> Statuses] :
           Topological(g) => AtRest(g, Reconcile(g, st))
    BY <1>1 DEF Accepted, AtRest
  <1>3. Unfinished = {}
    BY <1>2 DEF Unfinished, Passes
  <1>4. ReconcileComplete
    BY <1>3 DEF ReconcileComplete
  <1> QED
    BY <1>3, <1>4, PTL

=============================================================================
