--------------------------- MODULE DagModelProofs ---------------------------
(***************************************************************************)
(* Theorems about the graph operations of DagModel, for every number of    *)
(* nodes.  The sweeps and worklists are recursive functions over the       *)
(* number of steps; each is first unfolded into its sequence of steps.     *)
(***************************************************************************)
EXTENDS DagModel, SeqFilterProofs

-----------------------------------------------------------------------------
(***************************************************************************)
(* Unfolding the recursions.                                               *)
(***************************************************************************)

\* What the sweep leaves once it has looked at node i.
Swept(gr, i, R) == IF i \in R /\ gr[i] \cap R = {} THEN R \ {i} ELSE R

\* u lists what a sweep over R has left after each node.
Sweeps(u, gr, R) == /\ u \in [0..N -> SUBSET Nodes]
                    /\ u[0] = R
                    /\ \A i \in 1..N : u[i] = Swept(gr, i, u[i - 1])

\* A sweep looks at one node after the other.
LEMMA SweepSteps ==
  ASSUME NEW gr, NEW R \in SUBSET Nodes
  PROVE  \E u : Sweeps(u, gr, R) /\ Sweep(gr, R) = u[N]
  <1> DEFINE Value(g1, i) ==
               IF i = 0 THEN R
               ELSE IF i \in g1[i-1] /\ gr[i] \cap g1[i-1] = {}
                      THEN g1[i-1] \ {i} ELSE g1[i-1]
             Fixed(g1) == g1 = [i \in 0..N |-> Value(g1, i)]
             step == [i \in 1..N |-> [q \in SUBSET Nodes |-> Swept(gr, i, q)]]
  <1>0. N \in Nat
    BY NAssumption
  <1>1. step \in [1..N -> [SUBSET Nodes -> SUBSET Nodes]]
    BY DEF Swept
  <1>2. PICK u \in [0..N -> SUBSET Nodes] : Solves(u, N, R, step)
    <2> HIDE DEF step
    <2> QED
      BY <1>0, <1>1, RecursionExists, Zenon
  <1>3. ASSUME NEW i \in 1..N PROVE u[i] = Swept(gr, i, u[i - 1])
    <2>1. u[i - 1] \in SUBSET Nodes
      BY <1>0
    <2>2. u[i] = step[i][u[i - 1]]
      BY <1>2, Zenon DEF Solves
    <2> QED
      BY <2>1, <2>2
  <1>4. Fixed(u)
    <2>1. ASSUME NEW i \in 0..N PROVE u[i] = Value(u, i)
      <3>1. CASE i = 0
        BY <1>2, <3>1, Zenon DEF Solves
      <3>2. CASE i # 0
        <4>1. i \in 1..N
          BY <1>0, <3>2
        <4> QED
          BY <3>2, <4>1, <1>3, Zenon DEF Swept
      <3> QED
        BY <3>1, <3>2
    <2> HIDE DEF Value
    <2> QED
      BY <2>1
  <1>5. PICK h : Fixed(h) /\ Sweep(gr, R) = h[N]
    <2> DEFINE h == CHOOSE x : Fixed(x)
    <2>1. Fixed(h)
      BY <1>4, Zenon
    <2>2. Sweep(gr, R) = h[N]
      BY Zenon DEF Sweep
    <2> HIDE DEF h
    <2> QED
      BY <2>1, <2>2
  <1>7. \A i \in 0..N : h[i] = u[i]
    <2>1. h[0] = u[0]
      <3>1. 0 \in 0..N
        BY <1>0
      <3> QED
        BY <1>2, <1>5, <3>1, Zenon DEF Solves
    <2>2. ASSUME NEW j \in 1..N, h[j - 1] = u[j - 1] PROVE h[j] = u[j]
      <3>1. j \in 0..N /\ j # 0
        BY <1>0
      <3>2. h[j] = Swept(gr, j, h[j - 1])
        BY <1>5, <3>1, Zenon DEF Swept
      <3> QED
        BY <2>2, <3>2, <1>3
    <2>3. Alike(h, u, N)
      BY <2>1, <2>2 DEF Alike
    <2> QED
      BY <1>0, <2>3, SameSteps, Zenon
  <1> HIDE DEF Fixed, step
  <1> QED
    BY <1>0, <1>2, <1>3, <1>5, <1>7 DEF Sweeps, Solves

\* A sweep leaves some of what it began with.
LEMMA SweepType ==
  ASSUME NEW gr, NEW R \in SUBSET Nodes
  PROVE  Sweep(gr, R) \in SUBSET Nodes
  <1>1. PICK u : Sweeps(u, gr, R) /\ Sweep(gr, R) = u[N]
    BY SweepSteps
  <1> QED
    BY <1>1, NAssumption DEF Sweeps

\* u lists what is left after each sweep.
Kahn(u, gr) == /\ u \in [0..N -> SUBSET Nodes]
               /\ u[0] = Nodes
               /\ \A k \in 1..N : u[k] = Sweep(gr, u[k - 1])

\* validate_graph sweeps what the sweep before has left.
LEMMA RemainingSteps ==
  ASSUME NEW gr
  PROVE  \E u : Kahn(u, gr) /\ Remaining(gr) = u[N]
  <1> DEFINE Value(f, k) == IF k = 0 THEN Nodes ELSE Sweep(gr, f[k-1])
             Fixed(f) == f = [k \in 0..N |-> Value(f, k)]
             step == [k \in 1..N |-> [q \in SUBSET Nodes |-> Sweep(gr, q)]]
  <1>0. N \in Nat /\ Nodes \in SUBSET Nodes
    BY NAssumption
  <1>1. step \in [1..N -> [SUBSET Nodes -> SUBSET Nodes]]
    BY SweepType
  <1>2. PICK u \in [0..N -> SUBSET Nodes] : Solves(u, N, Nodes, step)
    <2> HIDE DEF step
    <2> QED
      BY <1>0, <1>1, RecursionExists, Zenon
  <1>3. ASSUME NEW k \in 1..N PROVE u[k] = Sweep(gr, u[k - 1])
    <2>1. u[k - 1] \in SUBSET Nodes
      BY <1>0
    <2>2. u[k] = step[k][u[k - 1]]
      BY <1>2, Zenon DEF Solves
    <2> QED
      BY <2>1, <2>2
  <1>4. Fixed(u)
    <2>1. ASSUME NEW k \in 0..N PROVE u[k] = Value(u, k)
      <3>1. CASE k = 0
        BY <1>2, <3>1, Zenon DEF Solves
      <3>2. CASE k # 0
        <4>1. k \in 1..N
          BY <1>0, <3>2
        <4> QED
          BY <3>2, <4>1, <1>3, Zenon
      <3> QED
        BY <3>1, <3>2
    <2> HIDE DEF Value
    <2> QED
      BY <2>1
  <1>5. PICK h : Fixed(h) /\ Remaining(gr) = h[N]
    <2> DEFINE h == CHOOSE x : Fixed(x)
    <2>1. Fixed(h)
      BY <1>4, Zenon
    <2>2. Remaining(gr) = h[N]
      BY Zenon DEF Remaining
    <2> HIDE DEF h
    <2> QED
      BY <2>1, <2>2
  <1>6. \A k \in 0..N : h[k] = u[k]
    <2>1. h[0] = u[0]
      <3>1. 0 \in 0..N
        BY <1>0
      <3> QED
        BY <1>2, <1>5, <3>1, Zenon DEF Solves
    <2>2. ASSUME NEW k \in 1..N, h[k - 1] = u[k - 1] PROVE h[k] = u[k]
      <3>1. k \in 0..N /\ k # 0
        BY <1>0
      <3>2. h[k] = Sweep(gr, h[k - 1])
        BY <1>5, <3>1, Zenon
      <3> QED
        BY <2>2, <3>2, <1>3
    <2>3. Alike(h, u, N)
      BY <2>1, <2>2 DEF Alike
    <2> QED
      BY <1>0, <2>3, SameSteps, Zenon
  <1> HIDE DEF Fixed, step
  <1> QED
    BY <1>0, <1>2, <1>3, <1>5, <1>6 DEF Kahn, Solves

\* u lists the nodes seen after each round.
Rounds(u, gr, n) == /\ u \in [0..N -> SUBSET Nodes]
                    /\ u[0] = Dependents(gr, {n})
                    /\ \A k \in 1..N :
                         u[k] = u[k - 1] \cup Dependents(gr, u[k - 1])

\* downstream_closure adds the dependents of what it has seen.
LEMMA ClosureSteps ==
  ASSUME NEW gr, NEW n
  PROVE  \E u : Rounds(u, gr, n) /\ DownstreamClosure(gr, n) = u[N]
  <1> DEFINE Value(f, k) == IF k = 0 THEN Dependents(gr, {n}) ELSE f[k-1] \cup Dependents(gr, f[k-1])
             Fixed(f) == f = [k \in 0..N |-> Value(f, k)]
             step == [k \in 1..N |-> [q \in SUBSET Nodes |-> q \cup Dependents(gr, q)]]
  <1>0. N \in Nat /\ Dependents(gr, {n}) \in SUBSET Nodes
    BY NAssumption DEF Dependents
  <1>1. step \in [1..N -> [SUBSET Nodes -> SUBSET Nodes]]
    BY DEF Dependents
  <1>2. PICK u \in [0..N -> SUBSET Nodes] : Solves(u, N, Dependents(gr, {n}), step)
    <2> HIDE DEF step
    <2> QED
      BY <1>0, <1>1, RecursionExists, Zenon
  <1>3. ASSUME NEW k \in 1..N PROVE u[k] = u[k - 1] \cup Dependents(gr, u[k - 1])
    <2>1. u[k - 1] \in SUBSET Nodes
      BY <1>0
    <2>2. u[k] = step[k][u[k - 1]]
      BY <1>2, Zenon DEF Solves
    <2> QED
      BY <2>1, <2>2
  <1>4. Fixed(u)
    <2>1. ASSUME NEW k \in 0..N PROVE u[k] = Value(u, k)
      <3>1. CASE k = 0
        BY <1>2, <3>1, Zenon DEF Solves
      <3>2. CASE k # 0
        <4>1. k \in 1..N
          BY <1>0, <3>2
        <4> QED
          BY <3>2, <4>1, <1>3, Zenon
      <3> QED
        BY <3>1, <3>2
    <2> HIDE DEF Value
    <2> QED
      BY <2>1
  <1>5. PICK h : Fixed(h) /\ DownstreamClosure(gr, n) = h[N]
    <2> DEFINE h == CHOOSE x : Fixed(x)
    <2>1. Fixed(h)
      BY <1>4, Zenon
    <2>2. DownstreamClosure(gr, n) = h[N]
      BY Zenon DEF DownstreamClosure
    <2> HIDE DEF h
    <2> QED
      BY <2>1, <2>2
  <1>6. \A k \in 0..N : h[k] = u[k]
    <2>1. h[0] = u[0]
      <3>1. 0 \in 0..N
        BY <1>0
      <3> QED
        BY <1>2, <1>5, <3>1, Zenon DEF Solves
    <2>2. ASSUME NEW k \in 1..N, h[k - 1] = u[k - 1] PROVE h[k] = u[k]
      <3>1. k \in 0..N /\ k # 0
        BY <1>0
      <3>2. h[k] = h[k - 1] \cup Dependents(gr, h[k - 1])
        BY <1>5, <3>1, Zenon
      <3> QED
        BY <2>2, <3>2, <1>3
    <2>3. Alike(h, u, N)
      BY <2>1, <2>2 DEF Alike
    <2> QED
      BY <1>0, <2>3, SameSteps, Zenon
  <1> HIDE DEF Fixed, step
  <1> QED
    BY <1>0, <1>2, <1>3, <1>5, <1>6 DEF Rounds, Solves

-----------------------------------------------------------------------------
(***************************************************************************)
(* The cycle check.                                                        *)
(***************************************************************************)

\* Every member of S waits for a member of S, in the graph gr.
Waits(gr, S) == \A n \in S : gr[n] \cap S # {}

\* A sweep only removes nodes; it removes none of a set whose members wait for
\* one another; and if it removes nothing, what remains is such a set.
LEMMA SweepEffect ==
  ASSUME NEW gr, NEW R \in SUBSET Nodes
  PROVE  /\ Sweep(gr, R) \in SUBSET R
         /\ \A S \in SUBSET R : Waits(gr, S) => S \subseteq Sweep(gr, R)
         /\ Sweep(gr, R) = R => Waits(gr, R)
  <1>0. N \in Nat
    BY NAssumption
  <1>1. PICK u : Sweeps(u, gr, R) /\ Sweep(gr, R) = u[N]
    BY SweepSteps
  <1>2. ASSUME NEW S \in SUBSET R, Waits(gr, S)
        PROVE  \A i \in 0..N : S \subseteq u[i] /\ u[i] \subseteq R
    <2> DEFINE T == {i \in 0..N : S \subseteq u[i] /\ u[i] \subseteq R}
    <2>1. 0 \in T
      BY <1>0, <1>1 DEF Sweeps
    <2>2. ASSUME NEW i \in 1..N, i - 1 \in T PROVE i \in T
      <3>1. S \subseteq u[i - 1] /\ u[i - 1] \subseteq R /\ i \in 0..N
        BY <1>0, <2>2
      <3>2. u[i] = Swept(gr, i, u[i - 1])
        BY <1>1, Zenon DEF Sweeps
      <3>3. S \subseteq u[i] /\ u[i] \subseteq R
        BY <1>2, <3>1, <3>2 DEF Swept, Waits
      <3> QED
        BY <3>1, <3>3
    <2>3. ASSUME NEW i \in 0..N PROVE i \in T
      <3>1. i \in Nat /\ \A j \in 1..i : j - 1 \in T => j \in T
        <4>1. i \in Nat /\ 1..i \subseteq 1..N
          BY <1>0
        <4> HIDE DEF T
        <4> QED
          BY <2>2, <4>1
      <3> HIDE DEF T
      <3> QED
        BY <2>1, <3>1, UpTo, Zenon
    <2> QED
      BY <2>3
  <1>3. N \in 0..N /\ \A i \in 0..N : u[i] \subseteq R
    <2>1. Waits(gr, {}) /\ {} \in SUBSET R
      BY DEF Waits
    <2> QED
      BY <1>0, <1>2, <2>1
  <1>4. Sweep(gr, R) \in SUBSET R
    BY <1>1, <1>3
  <1>5. ASSUME Sweep(gr, R) = R PROVE Waits(gr, R)
    \* What a later node leaves is part of what an earlier one left.
    <2> DEFINE Back(i) == N - i
               T == {i \in 0..N : R \subseteq u[Back(i)]}
    <2>1. 0 \in T
      <3>1. Back(0) = N /\ 0 \in 0..N
        BY <1>0
      <3> QED
        BY <1>1, <1>5, <3>1, Zenon
    <2>2. ASSUME NEW i \in 1..N, i - 1 \in T PROVE i \in T
      <3>1. Back(i) + 1 = Back(i - 1) /\ Back(i - 1) \in 1..N /\ Back(i - 1) - 1 = Back(i)
        BY <1>0
      <3>2. u[Back(i - 1)] \subseteq u[Back(i)]
        <4>1. u[Back(i - 1)] = Swept(gr, Back(i - 1), u[Back(i - 1) - 1])
          BY <1>1, <3>1, Zenon DEF Sweeps
        <4> HIDE DEF Back
        <4> QED
          BY <3>1, <4>1 DEF Swept
      <3> QED
        BY <2>2, <3>2
    <2>3. ASSUME NEW i \in 0..N PROVE R \subseteq u[i]
      <3> DEFINE m == N - i
      <3>1. m \in Nat /\ Back(m) = i /\ \A j \in 1..m : j - 1 \in T => j \in T
        <4>1. m \in Nat /\ 1..m \subseteq 1..N /\ Back(m) = i
          BY <1>0
        <4> HIDE DEF T, m, Back
        <4> QED
          BY <2>2, <4>1
      <3>2. m \in T
        <4> HIDE DEF T, m, Back
        <4> QED
          BY <2>1, <3>1, UpTo, Zenon
      <3> QED
        BY <3>1, <3>2, Zenon
    <2>4. ASSUME NEW n \in R PROVE gr[n] \cap R # {}
      <3>1. n \in 1..N /\ n \in 0..N /\ n - 1 \in 0..N
        BY <1>0 DEF Nodes
      <3>3. u[n - 1] = R /\ u[n] = R
        BY <1>3, <2>3, <3>1
      <3>4. u[n] = Swept(gr, n, u[n - 1])
        BY <1>1, <3>1, Zenon DEF Sweeps
      <3> QED
        BY <3>3, <3>4 DEF Swept
    <2> QED
      BY <2>4 DEF Waits
  <1>6. ASSUME NEW S \in SUBSET R, Waits(gr, S) PROVE S \subseteq Sweep(gr, R)
    BY <1>1, <1>2, <1>3, <1>6
  <1> QED
    BY <1>4, <1>5, <1>6

\* The nodes left after N sweeps wait for one another.  Until that is so each
\* sweep removes a node, and there are only N.
LEMMA RemainingWaits ==
  ASSUME NEW gr
  PROVE  /\ Remaining(gr) \in SUBSET Nodes
         /\ Waits(gr, Remaining(gr))
         /\ \A S \in SUBSET Nodes : Waits(gr, S) => S \subseteq Remaining(gr)
  <1>0. N \in Nat /\ N \in 0..N /\ 0 \in 0..N
    BY NAssumption
  <1>1. PICK u : Kahn(u, gr) /\ Remaining(gr) = u[N]
    BY RemainingSteps
  <1>2. IsFiniteSet(Nodes) /\ Cardinality(Nodes) = N
    <2>1. IsFiniteSet(1..N) /\ Cardinality(1..N) = N
      BY <1>0, FS_Interval
    <2> QED
      BY <2>1 DEF Nodes
  <1> DEFINE Few(k) == Waits(gr, u[k]) \/ Cardinality(u[k]) <= N - k
             T == {k \in 0..N : Few(k)}
  <1>3. 0 \in T
    <2>1. u[0] = Nodes
      BY <1>1 DEF Kahn
    <2> QED
      BY <1>0, <1>2, <2>1
  <1>4. ASSUME NEW k \in 1..N PROVE /\ u[k - 1] \in SUBSET Nodes
                                    /\ u[k] = Sweep(gr, u[k - 1])
                                    /\ u[k] \in SUBSET u[k - 1]
                                    /\ k \in 0..N
    <2>1. k - 1 \in 0..N /\ k \in 0..N
      BY <1>0
    <2>2. u[k - 1] \in SUBSET Nodes
      BY <1>1, <2>1 DEF Kahn
    <2>3. u[k] = Sweep(gr, u[k - 1])
      BY <1>1, Zenon DEF Kahn
    <2> QED
      BY <2>1, <2>2, <2>3, SweepEffect
  <1>5. ASSUME NEW k \in 1..N, k - 1 \in T PROVE k \in T
    <2> DEFINE R == u[k - 1]
               Q == u[k]
    <2>1. /\ R \in SUBSET Nodes /\ Q = Sweep(gr, R) /\ Q \in SUBSET R /\ k \in 0..N
      BY <1>4
    <2>2. Few(k - 1)
      BY <1>5
    <2>3. CASE Q = R
      <3>1. Waits(gr, R)
        <4> HIDE DEF R, Q
        <4> QED
          BY <2>1, <2>3, SweepEffect
      <3> QED
        BY <2>1, <2>3, <3>1
    <2>4. CASE Q # R
      <3>1. ~ Waits(gr, R)
        <4>1. Waits(gr, R) => R \subseteq Q
          <5> HIDE DEF R, Q
          <5> QED
            BY <2>1, SweepEffect
        <4> QED
          BY <2>1, <2>4, <4>1
      <3>2. Cardinality(Q) \in Nat /\ Cardinality(R) \in Nat
            /\ Cardinality(Q) <= Cardinality(R) /\ Cardinality(Q) # Cardinality(R)
        <4>1. IsFiniteSet(R)
          <5> HIDE DEF R, Q
          <5> QED
            BY <1>2, <2>1, FS_Subset
        <4>2. IsFiniteSet(Q) /\ Cardinality(Q) <= Cardinality(R)
              /\ (Cardinality(R) = Cardinality(Q) => R = Q)
          <5> HIDE DEF R, Q
          <5> QED
            BY <2>1, <4>1, FS_Subset
        <4>3. Cardinality(Q) \in Nat /\ Cardinality(R) \in Nat
          <5> HIDE DEF R, Q
          <5> QED
            BY <4>1, <4>2, FS_CardinalityType
        <4> HIDE DEF R, Q
        <4> QED
          BY <2>4, <4>2, <4>3
      <3>3. Cardinality(R) <= N - (k - 1)
        BY <2>2, <3>1
      <3>4. Cardinality(Q) <= N - k
        <4> HIDE DEF R, Q
        <4> QED
          BY <1>0, <3>2, <3>3
      <3> QED
        BY <2>1, <3>4
    <2> QED
      BY <2>3, <2>4
  <1>6. Few(N)
    <2> HIDE DEF Few
    <2>1. N \in T
      <3>1. \A k \in 1..N : k - 1 \in T => k \in T
        BY <1>5
      <3> HIDE DEF T
      <3> QED
        BY <1>0, <1>3, <3>1, UpTo, Zenon
    <2> QED
      BY <2>1
  <1>7. u[N] \in SUBSET Nodes
    BY <1>0, <1>1 DEF Kahn
  <1>8. Waits(gr, u[N])
    <2>1. SUFFICES ASSUME Cardinality(u[N]) <= N - N PROVE Waits(gr, u[N])
      BY <1>6
    <2>2. IsFiniteSet(u[N])
      BY <1>2, <1>7, FS_Subset
    <2>3. Cardinality(u[N]) \in Nat
      BY <2>2, FS_CardinalityType
    <2>4. Cardinality(u[N]) = 0
      BY <1>0, <2>1, <2>3
    <2>5. u[N] = {}
      BY <2>2, <2>4, FS_EmptySet
    <2> QED
      BY <2>5 DEF Waits
  <1>9. ASSUME NEW S \in SUBSET Nodes, Waits(gr, S) PROVE S \subseteq u[N]
    <2> DEFINE D == {k \in 0..N : S \subseteq u[k]}
    <2>1. 0 \in D
      BY <1>0, <1>1 DEF Kahn
    <2>2. ASSUME NEW k \in 1..N, k - 1 \in D PROVE k \in D
      <3>1. S \in SUBSET u[k - 1] /\ k \in 0..N
        BY <1>4, <2>2
      <3>2. S \subseteq Sweep(gr, u[k - 1])
        BY <1>4, <1>9, <3>1, SweepEffect
      <3>3. S \subseteq u[k]
        BY <1>4, <3>2, Zenon
      <3> QED
        BY <3>1, <3>3
    <2>3. \A k \in 1..N : k - 1 \in D => k \in D
      BY <2>2
    <2>4. N \in D
      <3> HIDE DEF D
      <3> QED
        BY <1>0, <2>1, <2>3, UpTo, Zenon
    <2> QED
      BY <2>4
  <1> QED
    BY <1>1, <1>7, <1>8, <1>9

-----------------------------------------------------------------------------
(***************************************************************************)
(* Everything downstream.                                                  *)
(***************************************************************************)

\* C holds the dependents of n and the dependents of its own members.
Downstream(gr, n, C) == /\ Dependents(gr, {n}) \subseteq C
                        /\ Dependents(gr, C) \subseteq C

\* downstream_closure is the smallest set that holds the dependents of n and
\* of its own members.  Until it is, each round adds a node.
LEMMA ClosureIsLeast ==
  ASSUME NEW gr, NEW n
  PROVE  /\ DownstreamClosure(gr, n) \in SUBSET Nodes
         /\ Downstream(gr, n, DownstreamClosure(gr, n))
         /\ \A C : Downstream(gr, n, C) => DownstreamClosure(gr, n) \subseteq C
  <1>0. N \in Nat /\ N \in 0..N /\ 0 \in 0..N
    BY NAssumption
  <1>1. PICK u : Rounds(u, gr, n) /\ DownstreamClosure(gr, n) = u[N]
    BY ClosureSteps
  <1>2. IsFiniteSet(Nodes) /\ Cardinality(Nodes) = N
    <2>1. IsFiniteSet(1..N) /\ Cardinality(1..N) = N
      BY <1>0, FS_Interval
    <2> QED
      BY <2>1 DEF Nodes
  <1>3. ASSUME NEW k \in 1..N
        PROVE  /\ u[k - 1] \in SUBSET Nodes
               /\ u[k] \in SUBSET Nodes
               /\ u[k] = u[k - 1] \cup Dependents(gr, u[k - 1])
               /\ k \in 0..N
    <2>1. k - 1 \in 0..N /\ k \in 0..N
      BY <1>0
    <2>2. u[k - 1] \in SUBSET Nodes /\ u[k] \in SUBSET Nodes
      BY <1>1, <2>1 DEF Rounds
    <2>3. u[k] = u[k - 1] \cup Dependents(gr, u[k - 1])
      BY <1>1, Zenon DEF Rounds
    <2> QED
      BY <2>1, <2>2, <2>3
  <1>4. u[0] \in SUBSET Nodes /\ u[0] = Dependents(gr, {n}) /\ u[N] \in SUBSET Nodes
    BY <1>0, <1>1 DEF Rounds
  <1> DEFINE Settled(k) == Dependents(gr, u[k]) \subseteq u[k]
             Many(k) == Settled(k) \/ Cardinality(u[k]) > k
             T == {k \in 0..N : u[0] \subseteq u[k] /\ Many(k)}
  <1>5. ASSUME NEW Q \in SUBSET Nodes PROVE IsFiniteSet(Q) /\ Cardinality(Q) \in Nat
    <2>1. IsFiniteSet(Q)
      BY <1>2, FS_Subset
    <2> QED
      BY <2>1, FS_CardinalityType
  <1>6. 0 \in T
    <2>1. CASE u[0] = {}
      BY <1>0, <2>1 DEF Dependents
    <2>2. CASE u[0] # {}
      <3>1. Cardinality(u[0]) # 0 /\ Cardinality(u[0]) \in Nat
        BY <1>4, <1>5, <2>2, FS_EmptySet
      <3> QED
        BY <1>0, <3>1
    <2> QED
      BY <2>1, <2>2
  <1>7. ASSUME NEW k \in 1..N, k - 1 \in T PROVE k \in T
    <2> DEFINE R == u[k - 1]
               Q == u[k]
    <2>1. /\ R \in SUBSET Nodes /\ Q \in SUBSET Nodes /\ k \in 0..N
          /\ Q = R \cup Dependents(gr, R)
      BY <1>3
    <2>2. u[0] \subseteq R /\ Many(k - 1)
      BY <1>7
    <2>3. CASE Q = R
      BY <2>1, <2>2, <2>3
    <2>4. CASE Q # R
      <3>1. ~ Settled(k - 1)
        BY <2>1, <2>4
      <3>2. Cardinality(R) > k - 1
        BY <2>2, <3>1
      <3>3. Cardinality(Q) \in Nat /\ Cardinality(R) \in Nat
            /\ Cardinality(R) <= Cardinality(Q) /\ Cardinality(Q) # Cardinality(R)
        <4>1. IsFiniteSet(Q) /\ Cardinality(Q) \in Nat /\ Cardinality(R) \in Nat
          <5> HIDE DEF R, Q
          <5> QED
            BY <1>5, <2>1
        <4>2. Cardinality(R) <= Cardinality(Q) /\ (Cardinality(Q) = Cardinality(R) => Q = R)
          <5>1. R \in SUBSET Q
            BY <2>1
          <5> HIDE DEF R, Q
          <5> QED
            BY <4>1, <5>1, FS_Subset
        <4> HIDE DEF R, Q
        <4> QED
          BY <2>4, <4>1, <4>2
      <3>4. Cardinality(Q) > k
        <4> HIDE DEF R, Q
        <4> QED
          BY <1>0, <3>2, <3>3
      <3> QED
        BY <2>1, <2>2, <3>4
    <2> QED
      BY <2>3, <2>4
  <1>8. u[0] \subseteq u[N] /\ Many(N)
    <2> HIDE DEF Many
    <2>1. N \in T
      <3>1. \A k \in 1..N : k - 1 \in T => k \in T
        BY <1>7
      <3> HIDE DEF T
      <3> QED
        BY <1>0, <1>6, <3>1, UpTo, Zenon
    <2> QED
      BY <2>1
  <1>9. Settled(N)
    <2>1. ASSUME Cardinality(u[N]) > N PROVE FALSE
      <3>1. Cardinality(u[N]) <= N /\ Cardinality(u[N]) \in Nat
        BY <1>2, <1>4, <1>5, FS_Subset
      <3> QED
        BY <1>0, <2>1, <3>1
    <2> QED
      BY <1>8, <2>1
  <1>10. ASSUME NEW C, Downstream(gr, n, C) PROVE u[N] \subseteq C
    <2> DEFINE D == {k \in 0..N : u[k] \subseteq C}
    <2>1. 0 \in D
      BY <1>0, <1>4, <1>10 DEF Downstream
    <2>2. ASSUME NEW k \in 1..N, k - 1 \in D PROVE k \in D
      <3>1. Dependents(gr, u[k - 1]) \subseteq Dependents(gr, C)
        BY <2>2 DEF Dependents
      <3> QED
        BY <1>3, <1>10, <2>2, <3>1 DEF Downstream
    <2>3. \A k \in 1..N : k - 1 \in D => k \in D
      BY <2>2
    <2>4. N \in D
      <3> HIDE DEF D
      <3> QED
        BY <1>0, <2>1, <2>3, UpTo, Zenon
    <2> QED
      BY <2>4
  <1> QED
    BY <1>1, <1>4, <1>8, <1>9, <1>10 DEF Downstream

-----------------------------------------------------------------------------
(***************************************************************************)
(* The reconcile pass.                                                     *)
(***************************************************************************)

\* A node is cancelled by the pass if it waits and a dependency is blocked or
\* was cancelled earlier in the pass.
LEMMA CascadedSteps ==
  ASSUME NEW gr, NEW ss
  PROVE  /\ Cascaded(gr, ss) \in SUBSET Nodes
         /\ \A i \in Nodes :
              i \in Cascaded(gr, ss) <=>
                /\ ss[i] \in Waiting
                /\ \E d \in gr[i] \cap Nodes :
                     ss[d] \in Blocked \/ (d < i /\ d \in Cascaded(gr, ss))
  <1> DEFINE W == {i \in Nodes : ss[i] \in Waiting}
             B == {d \in Nodes : ss[d] \in Blocked}
             E == [i \in Nodes |-> gr[i] \cap Nodes]
             Hit(f, i) == /\ ss[i] \in Waiting
                          /\ \E d \in gr[i] \cap Nodes :
                               \/ ss[d] \in Blocked
                               \/ d < i /\ f[d]
             Fixed(f) == f = [i \in Nodes |-> Hit(f, i)]
  <1>1. PICK R \in SUBSET Nodes : Taken(R, N, W, B, E)
    <2>1. N \in Nat
      BY NAssumption
    <2> HIDE DEF W, B, E
    <2>2. \E R \in SUBSET (1..N) : Taken(R, N, W, B, E)
      BY <2>1, PassExists, Zenon
    <2> QED
      BY <2>2 DEF Nodes
  <1>2. ASSUME NEW i \in Nodes
        PROVE  i \in R <=> /\ ss[i] \in Waiting
                           /\ \E d \in gr[i] \cap Nodes :
                                ss[d] \in Blocked \/ (d < i /\ d \in R)
    BY <1>1 DEF Taken, Nodes
  <1> DEFINE f == [i \in Nodes |-> i \in R]
  <1>3. Fixed(f)
    <2>1. ASSUME NEW i \in Nodes PROVE f[i] <=> Hit(f, i)
      <3>1. ASSUME NEW d \in gr[i] \cap Nodes PROVE f[d] <=> d \in R
        OBVIOUS
      <3>2. f[i] <=> i \in R
        OBVIOUS
      <3> HIDE DEF f
      <3> QED
        BY <1>2, <3>1, <3>2, Zenon
    <2>2. f = [i \in Nodes |-> i \in R]
      OBVIOUS
    <2> HIDE DEF f
    <2>3. ASSUME NEW i \in Nodes PROVE f[i] = Hit(f, i)
      <3>1. f[i] = TRUE \/ f[i] = FALSE
        BY <2>2
      <3>2. Hit(f, i) = TRUE \/ Hit(f, i) = FALSE
        OBVIOUS
      <3>3. f[i] = TRUE => Hit(f, i) = TRUE
        BY <2>1
      <3>4. f[i] = FALSE => Hit(f, i) = FALSE
        BY <2>1
      <3>5. CASE f[i] = TRUE
        <4>1. Hit(f, i) = TRUE
          BY <3>3, <3>5
        <4> HIDE DEF Hit
        <4> QED
          BY <3>5, <4>1
      <3>6. CASE f[i] = FALSE
        <4>1. Hit(f, i) = FALSE
          BY <3>4, <3>6
        <4> HIDE DEF Hit
        <4> QED
          BY <3>6, <4>1
      <3> QED
        BY <3>1, <3>5, <3>6
    <2> HIDE DEF Hit
    <2> QED
      BY <2>2, <2>3
  <1> HIDE DEF f
  <1>4. PICK h : Fixed(h) /\ Cascaded(gr, ss) = {i \in Nodes : h[i]}
    <2> DEFINE h == CHOOSE x : Fixed(x)
    <2>1. Fixed(h)
      BY <1>3, Zenon
    <2>2. Cascaded(gr, ss) = {i \in Nodes : h[i]}
      BY Zenon DEF Cascaded
    <2> HIDE DEF h
    <2> QED
      BY <2>1, <2>2, Zenon
  <1>5. ASSUME NEW i \in Nodes PROVE h[i] <=> Hit(h, i)
    <2> HIDE DEF Hit
    <2> QED
      BY <1>4, Zenon
  <1>6. ASSUME NEW i \in Nodes PROVE h[i] <=> i \in Cascaded(gr, ss)
    BY <1>4, Zenon
  <1> HIDE DEF Fixed
  <1>7. Cascaded(gr, ss) \in SUBSET Nodes
    BY <1>4, Zenon
  <1> QED
    BY <1>5, <1>6, <1>7, Zenon

\* What a pass makes of each node: those that do not wait stay, the cascaded
\* are cancelled, the others are ready or pending.
LEMMA ReconcileEffect ==
  ASSUME NEW gr, NEW ss, NEW n \in Nodes
  PROVE  /\ ss[n] \notin Waiting => Reconcile(gr, ss)[n] = ss[n]
         /\ n \in Cascaded(gr, ss) => Reconcile(gr, ss)[n] = "Cancelled"
         /\ ss[n] \in Waiting /\ n \notin Cascaded(gr, ss) =>
              Reconcile(gr, ss)[n] = IF DepsDone(gr, ss, n) THEN "Ready" ELSE "Pending"
         /\ n \in Cascaded(gr, ss) => ss[n] \in Waiting
  BY CascadedSteps DEF Reconcile

\* A pass makes no node done and no done node waiting.
LEMMA ReconcileDone ==
  ASSUME NEW gr, NEW ss, NEW n \in Nodes
  PROVE  Reconcile(gr, ss)[n] \in Done <=> ss[n] \in Done
  <1>1. CASE ss[n] \in Waiting
    BY <1>1, ReconcileEffect DEF Waiting, Done
  <1>2. CASE ss[n] \notin Waiting
    BY <1>2, ReconcileEffect
  <1> QED
    BY <1>1, <1>2

\* A node the pass cancels is downstream of a blocked one.
LEMMA CascadeHasSource ==
  ASSUME NEW gr, NEW ss, NEW n \in Cascaded(gr, ss)
  PROVE  \E b \in Nodes : ss[b] \in Blocked /\ n \in DownstreamClosure(gr, b)
  <1> DEFINE Good(i) == i \in Cascaded(gr, ss) =>
               \E b \in Nodes : ss[b] \in Blocked /\ i \in DownstreamClosure(gr, b)
             Bad == {i \in Nodes : ~ Good(i)}
  <1>1. SUFFICES ASSUME Bad # {} PROVE FALSE
    <2>1. n \in Nodes
      BY CascadedSteps
    <2> QED
      BY <2>1
  <1>2. PICK i \in Bad : \A j \in Bad : i <= j
    <2>1. Bad \in SUBSET Nat
      BY NAssumption DEF Nodes
    <2> HIDE DEF Bad
    <2> QED
      BY <1>1, <2>1, LeastNumber
  <1>3. i \in Nodes /\ i \in Cascaded(gr, ss)
    OBVIOUS
  <1>4. PICK d \in gr[i] \cap Nodes :
             ss[d] \in Blocked \/ (d < i /\ d \in Cascaded(gr, ss))
    BY <1>3, CascadedSteps
  <1>5. CASE ss[d] \in Blocked
    <2>1. Downstream(gr, d, DownstreamClosure(gr, d))
      BY ClosureIsLeast
    <2>2. i \in DownstreamClosure(gr, d)
      BY <1>3, <2>1 DEF Downstream, Dependents
    <2> QED
      BY <1>3, <1>5, <2>2
  <1>6. CASE d < i /\ d \in Cascaded(gr, ss)
    <2>1. d \notin Bad
      BY <1>2, <1>6, NAssumption DEF Nodes
    <2>2. PICK b \in Nodes : ss[b] \in Blocked /\ d \in DownstreamClosure(gr, b)
      BY <1>6, <2>1
    <2>3. Downstream(gr, b, DownstreamClosure(gr, b))
      BY ClosureIsLeast
    <2>4. i \in DownstreamClosure(gr, b)
      BY <1>3, <2>2, <2>3 DEF Downstream, Dependents
    <2> QED
      BY <1>3, <2>2, <2>4
  <1> QED
    BY <1>4, <1>5, <1>6

\* When a node's dependencies are declared before it, no pass leaves it waiting
\* behind a blocked one.
LEMMA ReconcileCascades ==
  ASSUME NEW gr, NEW ss, NEW n \in Nodes, gr[n] \subseteq Nodes,
         \A d \in gr[n] : d < n,
         NEW d \in gr[n], Reconcile(gr, ss)[d] \in Blocked
  PROVE  Reconcile(gr, ss)[n] \notin Waiting
  <1>1. CASE ss[n] \in Waiting
    <2>1. d \in gr[n] \cap Nodes /\ d < n
      OBVIOUS
    <2>2. ss[d] \in Blocked \/ d \in Cascaded(gr, ss)
      BY <2>1, ReconcileEffect DEF Blocked
    <2>3. n \in Cascaded(gr, ss)
      BY <1>1, <2>1, <2>2, CascadedSteps
    <2> QED
      BY <2>3, ReconcileEffect DEF Waiting
  <1>2. CASE ss[n] \notin Waiting
    BY <1>2, ReconcileEffect
  <1> QED
    BY <1>1, <1>2

\* Nothing is cancelled unless a waiting node has a blocked dependency.
LEMMA CascadeStartsBehind ==
  ASSUME NEW gr, NEW ss, Cascaded(gr, ss) # {}
  PROVE  \E n \in Nodes : /\ ss[n] \in Waiting
                          /\ \E d \in gr[n] \cap Nodes : ss[d] \in Blocked
  <1> DEFINE C == Cascaded(gr, ss)
  <1>1. C \in SUBSET Nat
    BY CascadedSteps, NAssumption DEF Nodes
  <1>2. PICK i \in C : \A j \in C : i <= j
    <2> HIDE DEF C
    <2>1. C # {}
      BY DEF C
    <2> QED
      BY <1>1, <2>1, LeastNumber
  <1>3. i \in Nodes /\ ss[i] \in Waiting
    BY CascadedSteps
  <1>4. PICK d \in gr[i] \cap Nodes : ss[d] \in Blocked \/ (d < i /\ d \in C)
    BY <1>3, CascadedSteps
  <1>5. ss[d] \in Blocked
    BY <1>1, <1>2, <1>4
  <1> QED
    BY <1>3, <1>4, <1>5

=============================================================================
