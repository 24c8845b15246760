-------------------------- MODULE SeqFilterProofs --------------------------
(***************************************************************************)
(* What Only returns, and the induction rules its proofs and others rest   *)
(* on.  The library's induction theorems take an operator; here they are   *)
(* stated over sets, which first-order provers can instantiate.            *)
(***************************************************************************)
EXTENDS SeqFilter, FiniteSets, FiniteSetTheorems, WellFoundedInduction,
        SequenceTheorems, TLAPS

-----------------------------------------------------------------------------
(***************************************************************************)
(* Induction and recursion.                                                *)
(***************************************************************************)

\* A set of numbers that is not empty has a least element.
LEMMA LeastNumber ==
  ASSUME NEW T \in SUBSET Nat, T # {}
  PROVE  \E x \in T : \A y \in T : x <= y
  <1>1. \E x \in T : \A y \in T : ~ (<<y, x>> \in OpToRel(<, Nat))
    BY WFMin, NatLessThanWellFounded, Zenon
  <1>2. \A x, y \in T : ~ (<<y, x>> \in OpToRel(<, Nat)) => x <= y
    BY DEF OpToRel
  <1> QED
    BY <1>1, <1>2

\* A set that holds 0 and with each number its successor, up to n, holds n.
LEMMA UpTo ==
  ASSUME NEW n \in Nat, NEW T, 0 \in T,
         \A m \in 1..n : m - 1 \in T => m \in T
  PROVE  n \in T
  <1> SUFFICES ASSUME n \notin T PROVE FALSE
    OBVIOUS
  <1> DEFINE Bad == (0..n) \ T
  <1>1. Bad \in SUBSET Nat /\ Bad # {}
    OBVIOUS
  <1>2. PICK m \in Bad : \A k \in Bad : m <= k
    <2> HIDE DEF Bad
    <2> QED
      BY <1>1, LeastNumber
  <1> QED
    BY <1>2

\* A family of sets that holds the empty set, and with each finite set those
\* that are one element larger, holds every finite set.
LEMMA FiniteInduction ==
  ASSUME NEW S, IsFiniteSet(S), NEW T, {} \in T,
         \A Q \in SUBSET S : \A x \in S \ Q :
            IsFiniteSet(Q) /\ Q \in T => Q \cup {x} \in T
  PROVE  S \in T
  <1> DEFINE n == Cardinality(S)
             P == {m \in 0..n : \A Q \in SUBSET S : Cardinality(Q) = m => Q \in T}
  <1>0. n \in Nat
    BY FS_CardinalityType
  <1>1. 0 \in P
    <2>1. ASSUME NEW Q \in SUBSET S, Cardinality(Q) = 0 PROVE Q \in T
      <3>1. IsFiniteSet(Q)
        BY FS_Subset
      <3>2. Q = {}
        BY <2>1, <3>1, FS_EmptySet
      <3> QED
        BY <3>2
    <2> QED
      BY <1>0, <2>1
  <1>2. ASSUME NEW m \in 1..n, m - 1 \in P PROVE m \in P
    <2>1. ASSUME NEW Q \in SUBSET S, Cardinality(Q) = m PROVE Q \in T
      <3>1. IsFiniteSet(Q)
        BY FS_Subset
      <3>2. Q # {}
        <4>1. m # 0
          BY <1>0
        <4> QED
          BY <2>1, <4>1, FS_EmptySet
      <3>3. PICK x \in Q : TRUE
        BY <3>2
      <3>4. IsFiniteSet(Q \ {x}) /\ Cardinality(Q \ {x}) = m - 1
        <4>1. Cardinality(Q \ {x}) = IF x \in Q THEN Cardinality(Q) - 1
                                                ELSE Cardinality(Q)
          BY <3>1, FS_RemoveElement
        <4>2. IsFiniteSet(Q \ {x})
          BY <3>1, FS_RemoveElement
        <4> QED
          BY <2>1, <4>1, <4>2
      <3>5. Q \ {x} \in T
        BY <1>2, <3>4
      <3>6. Q \ {x} \in SUBSET S /\ x \in S \ (Q \ {x}) /\ (Q \ {x}) \cup {x} = Q
        BY <3>3
      <3> QED
        BY <3>4, <3>5, <3>6
    <2>2. m \in 0..n
      BY <1>0
    <2> QED
      BY <2>1, <2>2
  <1>3. n \in P
    <2> HIDE DEF P, n
    <2> QED
      BY <1>0, <1>1, <1>2, UpTo
  <1> QED
    BY <1>3

\* A finite set of numbers that is not empty has a greatest element.
LEMMA FiniteNatMax ==
  ASSUME NEW S \in SUBSET Nat, S # {}, IsFiniteSet(S)
  PROVE  \E x \in S : \A y \in S : x >= y
  <1> DEFINE T == {Q \in SUBSET S : Q = {} \/ \E x \in Q : \A y \in Q : x >= y}
  <1>1. {} \in T
    OBVIOUS
  <1>2. ASSUME NEW Q \in SUBSET S, NEW x \in S \ Q, Q \in T PROVE Q \cup {x} \in T
    <2>1. CASE Q = {}
      BY <2>1
    <2>2. CASE \E m \in Q : \A y \in Q : m >= y
      <3>1. PICK m \in Q : \A y \in Q : m >= y
        BY <2>2
      <3>2. CASE m >= x
        BY <3>1, <3>2
      <3>3. CASE ~ m >= x
        BY <3>1, <3>3
      <3> QED
        BY <3>2, <3>3
    <2> QED
      BY <1>2, <2>1, <2>2
  <1>3. S \in T
    <2> HIDE DEF T
    <2> QED
      BY <1>1, <1>2, FiniteInduction
  <1> QED
    BY <1>3

\* The image of a finite set under a function is finite.
LEMMA FiniteImage ==
  ASSUME NEW S, IsFiniteSet(S), NEW f
  PROVE  IsFiniteSet({f[x] : x \in S})
  <1> DEFINE g == [x \in S |-> f[x]]
             R == {f[x] : x \in S}
  <1>1. g \in Surjection(S, R)
    BY DEF Surjection
  <1> HIDE DEF g, R
  <1>2. IsFiniteSet(R)
    BY <1>1, FS_Surjection
  <1> QED
    BY <1>2 DEF R

\* A set that holds the empty sequence, and with each sequence its extensions
\* by one element, holds every sequence.
LEMMA SeqInduction ==
  ASSUME NEW S, NEW T, <<>> \in T,
         \A s \in Seq(S) : \A e \in S : s \in T => Append(s, e) \in T
  PROVE  Seq(S) \subseteq T
  <1> SUFFICES ASSUME NEW s \in Seq(S) PROVE s \in T
    OBVIOUS
  <1> DEFINE n == Len(s)
             P == {m \in 0..n : SubSeq(s, 1, m) \in T}
  <1>0. n \in Nat
    OBVIOUS
  <1>1. 0 \in P
    <2>1. SubSeq(s, 1, 0) = <<>>
      BY SubSeqEmpty
    <2>2. 0 \in 0..n
      BY <1>0
    <2>3. SubSeq(s, 1, 0) \in T
      BY <2>1, Zenon
    <2> QED
      BY <2>2, <2>3, Zenon
  <1>2. ASSUME NEW m \in 1..n, m - 1 \in P PROVE m \in P
    <2>1. SubSeq(s, 1, m - 1) \in Seq(S) /\ s[m] \in S
      OBVIOUS
    <2>2. SubSeq(s, 1, m) = Append(SubSeq(s, 1, m - 1), s[m])
      OBVIOUS
    <2>3. SubSeq(s, 1, m - 1) \in T
      BY <1>2
    <2>4. SubSeq(s, 1, m) \in T
      BY <2>1, <2>2, <2>3
    <2> QED
      BY <2>4
  <1>3. n \in P
    <2> HIDE DEF P, n
    <2> QED
      BY <1>0, <1>1, <1>2, UpTo
  <1>4. SubSeq(s, 1, n) = s
    BY SubSeqFull
  <1> QED
    BY <1>3, <1>4

\* g solves the recursion that starts with a and goes on by step.
Solves(g, n, a, step) == /\ g[0] = a
                         /\ \A i \in 1..n : g[i] = step[i][g[i - 1]]

\* A recursion over 0..n has a solution.
LEMMA RecursionExists ==
  ASSUME NEW n \in Nat, NEW A, NEW a \in A, NEW step \in [1..n -> [A -> A]]
  PROVE  \E g \in [0..n -> A] : Solves(g, n, a, step)
  <1> DEFINE Good(g, m) == Solves(g, m, a, step)
             T == {m \in 0..n : \E g \in [0..m -> A] : Good(g, m)}
  <1>1. 0 \in T
    <2> DEFINE g0 == [i \in 0..0 |-> a]
    <2>1. g0 \in [0..0 -> A] /\ Good(g0, 0) /\ 0 \in 0..n
      BY DEF Solves
    <2> HIDE DEF g0
    <2> QED
      BY <2>1
  <1>2. ASSUME NEW m \in 1..n, m - 1 \in T PROVE m \in T
    <2>1. PICK g \in [0..(m - 1) -> A] : Good(g, m - 1)
      BY <1>2
    <2> DEFINE h == [i \in 0..m |-> IF i = m THEN step[m][g[m - 1]] ELSE g[i]]
    <2>2. step[m][g[m - 1]] \in A
      <3>1. g[m - 1] \in A
        OBVIOUS
      <3> QED
        BY <3>1
    <2>3. h \in [0..m -> A]
      BY <2>2
    <2>4. ASSUME NEW i \in 1..m PROVE h[i] = step[i][h[i - 1]]
      <3>1. CASE i = m
        BY <3>1
      <3>2. CASE i # m
        <4>1. i \in 1..(m - 1)
          BY <3>2
        <4>2. g[i] = step[i][g[i - 1]]
          BY <2>1, <4>1 DEF Solves
        <4> QED
          BY <4>1, <4>2
      <3> QED
        BY <3>1, <3>2
    <2>5. h[0] = a
      BY <2>1 DEF Solves
    <2> HIDE DEF h
    <2>6. Good(h, m) /\ m \in 0..n
      BY <2>4, <2>5 DEF Solves
    <2> HIDE DEF Good
    <2> QED
      BY <2>3, <2>6
  <1>3. n \in T
    <2> HIDE DEF T
    <2> QED
      BY <1>1, <1>2, UpTo
  <1> QED
    BY <1>3

\* h and u start alike and go on alike.
Alike(h, u, n) == /\ h[0] = u[0]
                  /\ \A j \in 1..n : h[j - 1] = u[j - 1] => h[j] = u[j]

\* Two functions that start alike and go on alike are the same up to n.
LEMMA SameSteps ==
  ASSUME NEW n \in Nat, NEW h, NEW u, Alike(h, u, n)
  PROVE  \A i \in 0..n : h[i] = u[i]
  <1> DEFINE T == {j \in 0..n : h[j] = u[j]}
  <1>1. 0 \in T
    BY DEF Alike
  <1>2. ASSUME NEW i \in 0..n PROVE i \in T
    <2>1. i \in Nat /\ \A j \in 1..i : j - 1 \in T => j \in T
      BY DEF Alike
    <2> HIDE DEF T
    <2> QED
      BY <1>1, <2>1, UpTo, Zenon
  <1> QED
    BY <1>2

\* R is what a pass over 1..n decides: number i is taken if it is among W and
\* one of E[i] is in B or was taken before.
Taken(R, n, W, B, E) ==
  \A i \in 1..n : i \in R <=> /\ i \in W
                              /\ \E d \in E[i] : d \in B \/ (d < i /\ d \in R)

\* Such a pass can be made.
LEMMA PassExists ==
  ASSUME NEW n \in Nat, NEW W, NEW B, NEW E
  PROVE  \E R \in SUBSET (1..n) : Taken(R, n, W, B, E)
  <1> DEFINE Takes(i, q) == i \in W /\ \E d \in E[i] : d \in B \/ (d < i /\ d \in q)
             Then(i, q) == IF Takes(i, q) THEN q \cup {i} ELSE q \ {i}
             step == [i \in 1..n |-> [q \in SUBSET (1..n) |-> Then(i, q)]]
  <1>1. step \in [1..n -> [SUBSET (1..n) -> SUBSET (1..n)]]
    OBVIOUS
  <1>2. PICK g \in [0..n -> SUBSET (1..n)] : Solves(g, n, {}, step)
    <2> HIDE DEF step
    <2>1. {} \in SUBSET (1..n)
      OBVIOUS
    <2> QED
      BY <1>1, <2>1, RecursionExists, Zenon
  <1>3. ASSUME NEW i \in 1..n
        PROVE  /\ g[i] = Then(i, g[i - 1])
               /\ g[i - 1] \in SUBSET (1..n)
               /\ g[i] \in SUBSET (1..n)
    <2>1. g[i - 1] \in SUBSET (1..n) /\ g[i] \in SUBSET (1..n)
      OBVIOUS
    <2>2. g[i] = step[i][g[i - 1]]
      BY <1>2, Zenon DEF Solves
    <2>3. step[i][g[i - 1]] = Then(i, g[i - 1])
      <3> HIDE DEF Then
      <3> QED
        BY <2>1
    <2> HIDE DEF Then, step
    <2> QED
      BY <2>1, <2>2, <2>3
  \* What is decided about j is not changed later.
  <1>4. ASSUME NEW j \in 1..n, NEW m \in 0..n, j <= m
        PROVE  j \in g[m] <=> j \in g[j]
    <2> DEFINE T == {k \in 0..n : j <= k => (j \in g[k] <=> j \in g[j])}
    <2>1. 0 \in T
      OBVIOUS
    <2>2. ASSUME NEW k \in 1..n, k - 1 \in T PROVE k \in T
      <3>1. CASE k <= j
        BY <3>1
      <3>2. CASE k > j
        <4>1. j \in g[k - 1] <=> j \in g[j]
          BY <2>2, <3>2
        <4>2. j \in g[k] <=> j \in g[k - 1]
          <5>1. g[k] = Then(k, g[k - 1])
            BY <1>3
          <5>2. j # k
            BY <3>2
          <5> HIDE DEF Takes
          <5> QED
            BY <5>1, <5>2
        <4> QED
          BY <4>1, <4>2
      <3> QED
        BY <3>1, <3>2
    <2>3. m \in T
      <3>1. m \in Nat /\ \A k \in 1..m : k - 1 \in T => k \in T
        <4>1. m \in Nat /\ 1..m \subseteq 1..n
          OBVIOUS
        <4> HIDE DEF T
        <4> QED
          BY <2>2, <4>1
      <3> HIDE DEF T
      <3> QED
        BY <2>1, <3>1, UpTo, Zenon
    <2> QED
      BY <1>4, <2>3
  <1> DEFINE R == g[n]
  <1>5. ASSUME NEW i \in 1..n PROVE i \in R <=> Takes(i, R)
    <2>1. i \in R <=> i \in g[i]
      BY <1>4
    <2>2. i \in g[i] <=> Takes(i, g[i - 1])
      <3>1. g[i] = Then(i, g[i - 1])
        BY <1>3
      <3> HIDE DEF Takes
      <3> QED
        BY <3>1
    <2>3. ASSUME NEW d, d < i PROVE d \in g[i - 1] <=> d \in R
      <3>1. g[i - 1] \in SUBSET (1..n) /\ R \in SUBSET (1..n)
        BY <1>3
      <3>2. CASE d \in 1..n
        <4>1. i - 1 \in 0..n /\ d <= i - 1 /\ n \in 0..n /\ d <= n
          BY <2>3, <3>2
        <4>2. (d \in g[i - 1] <=> d \in g[d]) /\ (d \in g[n] <=> d \in g[d])
          BY <1>4, <3>2, <4>1
        <4> QED
          BY <4>2
      <3>3. CASE d \notin 1..n
        BY <3>1, <3>3
      <3> QED
        BY <3>2, <3>3
    <2>4. Takes(i, g[i - 1]) <=> Takes(i, R)
      <3> HIDE DEF R
      <3> QED
        BY <2>3
    <2> QED
      BY <2>1, <2>2, <2>4
  <1>6. R \in SUBSET (1..n)
    OBVIOUS
  <1>7. Taken(R, n, W, B, E)
    <2> HIDE DEF R
    <2> QED
      BY <1>5 DEF Taken
  <1> HIDE DEF R
  <1> QED
    BY <1>6, <1>7

-----------------------------------------------------------------------------
(***************************************************************************)
(* Only.                                                                   *)
(***************************************************************************)

\* What the next lemma states, under a name.
AppendsRight(S) == \A a, b \in Seq(S) : \A e \in S :
                      Append(a \o b, e) = a \o Append(b, e)

\* Appending to a concatenation appends to its second part.
LEMMA AppendConcat == \A S : AppendsRight(S)
  BY DEF AppendsRight

\* The elements of a sequence that is one element longer.
LEMMA ElementsAppend ==
  ASSUME NEW S, NEW s \in Seq(S), NEW e \in S
  PROVE  Elements(Append(s, e)) = Elements(s) \cup {e}
  BY DEF Elements

\* A sequence after another.
LEMMA ElementsConcat ==
  ASSUME NEW S, NEW s \in Seq(S), NEW t \in Seq(S)
  PROVE  Elements(s \o t) = Elements(s) \cup Elements(t)
  <1> DEFINE u == s \o t
  <1>1. /\ Len(u) = Len(s) + Len(t) /\ Len(s) \in Nat /\ Len(t) \in Nat
        /\ \A i \in 1..Len(s) : u[i] = s[i]
        /\ \A i \in 1..Len(t) : u[Len(s) + i] = t[i]
        /\ \A i \in 1..Len(u) : i > Len(s) => u[i] = t[i - Len(s)]
    OBVIOUS
  <1> HIDE DEF u
  <1>2. ASSUME NEW e \in Elements(u) PROVE e \in Elements(s) \cup Elements(t)
    <2>1. PICK i \in 1..Len(u) : u[i] = e
      BY DEF Elements
    <2>2. CASE i <= Len(s)
      <3>1. i \in 1..Len(s)
        BY <1>1, <2>2
      <3> QED
        BY <1>1, <2>1, <3>1 DEF Elements
    <2>3. CASE i > Len(s)
      <3>1. i - Len(s) \in 1..Len(t)
        BY <1>1, <2>3
      <3> QED
        BY <1>1, <2>1, <2>3, <3>1 DEF Elements
    <2> QED
      BY <1>1, <2>2, <2>3
  <1>3. ASSUME NEW e \in Elements(s) PROVE e \in Elements(u)
    <2>1. PICK i \in 1..Len(s) : s[i] = e
      BY DEF Elements
    <2>2. i \in 1..Len(u)
      BY <1>1
    <2> QED
      BY <1>1, <2>1, <2>2 DEF Elements
  <1>4. ASSUME NEW e \in Elements(t) PROVE e \in Elements(u)
    <2>1. PICK i \in 1..Len(t) : t[i] = e
      BY DEF Elements
    <2>2. Len(s) + i \in 1..Len(u)
      BY <1>1
    <2> QED
      BY <1>1, <2>1, <2>2 DEF Elements
  <1> QED
    BY <1>2, <1>3, <1>4 DEF u

\* f follows the recursion in the definition of Only.
Follows(f, s, A) ==
  /\ f[0] = <<>>
  /\ \A i \in 1..Len(s) :
       f[i] = IF s[i] \in A THEN Append(f[i - 1], s[i]) ELSE f[i - 1]

\* That recursion is well defined.
LEMMA OnlyRecursion ==
  ASSUME NEW S, NEW s \in Seq(S), NEW A
  PROVE  \E f \in [0..Len(s) -> Seq(S)] :
            Follows(f, s, A) /\ Only(s, A) = f[Len(s)]
  <1> DEFINE n == Len(s)
             Value(g, i) == IF i = 0 THEN <<>>
                            ELSE IF s[i] \in A THEN Append(g[i - 1], s[i])
                            ELSE g[i - 1]
             Fixed(g) == g = [i \in 0..n |-> Value(g, i)]
             step == [i \in 1..n |-> [q \in Seq(S) |->
                        IF s[i] \in A THEN Append(q, s[i]) ELSE q]]
  <1>0. n \in Nat /\ \A i \in 1..n : s[i] \in S
    OBVIOUS
  <1>1. step \in [1..n -> [Seq(S) -> Seq(S)]]
    BY <1>0
  <1>2. PICK g \in [0..n -> Seq(S)] : Solves(g, n, <<>>, step)
    <2>1. <<>> \in Seq(S)
      OBVIOUS
    <2> HIDE DEF step, n
    <2> QED
      BY <1>0, <1>1, <2>1, RecursionExists, Zenon
  <1>3. ASSUME NEW i \in 1..n
        PROVE  g[i] = IF s[i] \in A THEN Append(g[i - 1], s[i]) ELSE g[i - 1]
    <2>1. g[i - 1] \in Seq(S)
      BY <1>0
    <2>2. g[i] = step[i][g[i - 1]]
      BY <1>2, Zenon DEF Solves
    <2> QED
      BY <2>1, <2>2
  <1>4. Fixed(g)
    <2>1. ASSUME NEW i \in 0..n PROVE g[i] = Value(g, i)
      <3>1. CASE i = 0
        BY <1>2, <3>1, Zenon DEF Solves
      <3>2. CASE i # 0
        <4>1. i \in 1..n
          BY <1>0, <3>2
        <4> QED
          BY <3>2, <4>1, <1>3, Zenon
      <3> QED
        BY <3>1, <3>2
    <2> HIDE DEF Value
    <2> QED
      BY <2>1
  <1> DEFINE h == CHOOSE x : Fixed(x)
  <1>5. Fixed(h)
    BY <1>4, Zenon
  <1>6. Only(s, A) = h[n]
    BY Zenon DEF Only
  <1> HIDE DEF h
  <1>7. Follows(h, s, A)
    <2>1. 0 \in 0..n
      BY <1>0
    <2>2. h[0] = <<>>
      BY <1>5, <2>1, Zenon
    <2>3. ASSUME NEW i \in 1..n
          PROVE  h[i] = IF s[i] \in A THEN Append(h[i - 1], s[i]) ELSE h[i - 1]
      <3>1. i \in 0..n /\ i # 0
        BY <1>0
      <3> QED
        BY <1>5, <3>1, Zenon
    <2> QED
      BY <2>2, <2>3, Zenon DEF Follows
  <1>8. ASSUME NEW i \in 0..n PROVE h[i] \in Seq(S)
    <2> DEFINE T == {j \in 0..n : h[j] \in Seq(S)}
    <2>1. 0 \in T
      <3>1. <<>> \in Seq(S) /\ 0 \in 0..n
        BY <1>0
      <3> QED
        BY <1>7, <3>1, Zenon DEF Follows
    <2>2. ASSUME NEW j \in 1..i, j - 1 \in T PROVE j \in T
      <3>1. j \in 1..n /\ j \in 0..n /\ s[j] \in S
        BY <1>0
      <3>2. h[j - 1] \in Seq(S) /\ Append(h[j - 1], s[j]) \in Seq(S)
        BY <2>2, <3>1
      <3>3. h[j] = Append(h[j - 1], s[j]) \/ h[j] = h[j - 1]
        BY <1>7, <3>1, Zenon DEF Follows
      <3> QED
        BY <3>1, <3>2, <3>3, Zenon
    <2>3. i \in T
      <3> HIDE DEF T
      <3> QED
        BY <1>0, <2>1, <2>2, UpTo
    <2> QED
      BY <2>3
  <1>9. h \in [0..n -> Seq(S)]
    BY <1>5, <1>8, Zenon
  <1> QED
    BY <1>6, <1>7, <1>9

\* Only of the empty sequence.
LEMMA OnlyEmpty == \A A : Only(<<>>, A) = <<>>
  <1> SUFFICES ASSUME NEW A PROVE Only(<<>>, A) = <<>>
    OBVIOUS
  <1>1. <<>> \in Seq({}) /\ Len(<<>>) = 0
    OBVIOUS
  <1>2. \E f \in [0..Len(<<>>) -> Seq({})] :
           Follows(f, <<>>, A) /\ Only(<<>>, A) = f[Len(<<>>)]
    BY <1>1, OnlyRecursion, Zenon
  <1> QED
    BY <1>1, <1>2, Zenon DEF Follows

\* Only of a sequence that is one element longer.
LEMMA OnlyAppend ==
  ASSUME NEW S, NEW s \in Seq(S), NEW e \in S, NEW A
  PROVE  /\ e \in A    => Only(Append(s, e), A) = Append(Only(s, A), e)
         /\ e \notin A => Only(Append(s, e), A) = Only(s, A)
  <1> DEFINE n == Len(s)
             t == Append(s, e)
  <1>1. n \in Nat /\ t \in Seq(S) /\ Len(t) = n + 1 /\ t[n + 1] = e
        /\ \A i \in 1..n : t[i] = s[i]
    OBVIOUS
  <1>2. PICK f \in [0..n -> Seq(S)] : Follows(f, s, A) /\ Only(s, A) = f[n]
    BY OnlyRecursion, Zenon
  <1> HIDE DEF t, n
  <1>3. PICK g \in [0..Len(t) -> Seq(S)] :
            Follows(g, t, A) /\ Only(t, A) = g[Len(t)]
    BY <1>1, OnlyRecursion, Zenon
  <1>4. f[n] = g[n]
    <2> DEFINE T == {i \in 0..n : f[i] = g[i]}
    <2>1. 0 \in T
      <3>1. 0 \in 0..n
        BY <1>1
      <3> QED
        BY <1>2, <1>3, <3>1, Zenon DEF Follows
    <2>2. ASSUME NEW i \in 1..n, i - 1 \in T PROVE i \in T
      <3>1. i \in 1..Len(t) /\ i \in 0..n /\ t[i] = s[i]
        BY <1>1
      <3>2. f[i] = IF s[i] \in A THEN Append(f[i - 1], s[i]) ELSE f[i - 1]
        BY <1>2, Zenon DEF Follows, n
      <3>3. g[i] = IF t[i] \in A THEN Append(g[i - 1], t[i]) ELSE g[i - 1]
        BY <1>3, <3>1, Zenon DEF Follows
      <3>4. f[i - 1] = g[i - 1]
        BY <2>2
      <3>5. f[i] = g[i]
        <4>1. CASE s[i] \in A
          BY <3>1, <3>2, <3>3, <3>4, <4>1, Zenon
        <4>2. CASE s[i] \notin A
          BY <3>1, <3>2, <3>3, <3>4, <4>2, Zenon
        <4> QED
          BY <4>1, <4>2, Zenon
      <3> QED
        BY <3>1, <3>5, Zenon
    <2>3. n \in T
      <3> HIDE DEF T
      <3> QED
        BY <1>1, <2>1, <2>2, UpTo
    <2> QED
      BY <2>3
  <1>5. g[n + 1] = IF e \in A THEN Append(g[n], e) ELSE g[n]
    <2>1. n + 1 \in 1..Len(t) /\ (n + 1) - 1 = n
      BY <1>1
    <2>2. g[n + 1] = IF t[n + 1] \in A THEN Append(g[(n + 1) - 1], t[n + 1])
                                       ELSE g[(n + 1) - 1]
      BY <1>3, <2>1, Zenon DEF Follows
    <2> QED
      BY <1>1, <2>1, <2>2, Zenon
  <1> QED
    BY <1>1, <1>2, <1>3, <1>4, <1>5, Zenon DEF t

\* Only yields a sequence of elements of A.
LEMMA OnlyType ==
  ASSUME NEW S, NEW s \in Seq(S), NEW A
  PROVE  Only(s, A) \in Seq(S \cap A)
  <1> DEFINE T == {q \in Seq(S) : Only(q, A) \in Seq(S \cap A)}
  <1>1. <<>> \in T
    <2>1. <<>> \in Seq(S) /\ <<>> \in Seq(S \cap A)
      OBVIOUS
    <2> QED
      BY <2>1, OnlyEmpty, Zenon
  <1>2. ASSUME NEW q \in Seq(S), NEW e \in S, q \in T PROVE Append(q, e) \in T
    <2>1. Append(q, e) \in Seq(S) /\ Only(q, A) \in Seq(S \cap A)
      BY <1>2
    <2>2. CASE e \in A
      <3>1. Only(Append(q, e), A) = Append(Only(q, A), e)
        BY <2>2, OnlyAppend, Zenon
      <3>2. Append(Only(q, A), e) \in Seq(S \cap A)
        BY <2>1, <2>2, AppendProperties
      <3> QED
        BY <2>1, <3>1, <3>2, Zenon
    <2>3. CASE e \notin A
      <3>1. Only(Append(q, e), A) = Only(q, A)
        BY <2>3, OnlyAppend, Zenon
      <3> QED
        BY <2>1, <3>1, Zenon
    <2> QED
      BY <2>2, <2>3
  <1>3. Seq(S) \subseteq T
    <2> HIDE DEF T
    <2> QED
      BY <1>1, <1>2, SeqInduction, Zenon
  <1> QED
    BY <1>3

\* In particular it yields a sequence of the elements s has.
LEMMA OnlySeq ==
  ASSUME NEW S, NEW s \in Seq(S), NEW A
  PROVE  Only(s, A) \in Seq(S)
  <1> DEFINE B == S \cap A
  <1>1. Only(s, A) \in Seq(B) /\ B \subseteq S
    BY OnlyType
  <1> HIDE DEF B
  <1> QED
    BY <1>1, SeqMonotonic, Zenon

\* Only distributes over concatenation.
LEMMA OnlyConcat ==
  ASSUME NEW S, NEW s \in Seq(S), NEW t \in Seq(S), NEW A
  PROVE  Only(s \o t, A) = Only(s, A) \o Only(t, A)
  <1>a. AppendsRight(S)
    BY AppendConcat, Zenon
  <1> DEFINE T == {q \in Seq(S) : Only(s \o q, A) = Only(s, A) \o Only(q, A)}
  <1>0. Only(s, A) \in Seq(S \cap A)
    BY OnlyType
  <1>1. <<>> \in T
    <2>1. <<>> \in Seq(S) /\ s \o <<>> = s /\ Only(s, A) \o <<>> = Only(s, A)
      BY <1>0, ConcatEmptySeq
    <2> QED
      BY <2>1, OnlyEmpty, Zenon
  <1>2. ASSUME NEW q \in Seq(S), NEW e \in S, q \in T PROVE Append(q, e) \in T
    <2>1. /\ Append(q, e) \in Seq(S)
          /\ s \o q \in Seq(S)
          /\ Only(s \o q, A) = Only(s, A) \o Only(q, A)
          /\ Only(q, A) \in Seq(S \cap A)
      BY <1>2, OnlyType
    <2>2. s \o Append(q, e) = Append(s \o q, e)
      OBVIOUS
    <2>3. CASE e \in A
      <3>1. /\ Only(Append(q, e), A) = Append(Only(q, A), e)
            /\ Only(Append(s \o q, e), A) = Append(Only(s \o q, A), e)
        BY <2>1, <2>3, OnlyAppend, Zenon
      <3>2. Append(Only(s, A) \o Only(q, A), e) = Only(s, A) \o Append(Only(q, A), e)
        <4>1. Only(s, A) \in Seq(S) /\ Only(q, A) \in Seq(S)
          BY OnlySeq, Zenon
        <4>2. PICK a \in Seq(S), b \in Seq(S) : a = Only(s, A) /\ b = Only(q, A)
          BY <4>1, Zenon
        <4>3. Append(a \o b, e) = a \o Append(b, e)
          BY <1>a DEF AppendsRight
        <4> QED
          BY <4>2, <4>3, Zenon
      <3> QED
        BY <2>1, <2>2, <3>1, <3>2, Zenon
    <2>4. CASE e \notin A
      <3>1. /\ Only(Append(q, e), A) = Only(q, A)
            /\ Only(Append(s \o q, e), A) = Only(s \o q, A)
        BY <2>1, <2>4, OnlyAppend, Zenon
      <3> QED
        BY <2>1, <2>2, <3>1, Zenon
    <2> QED
      BY <2>3, <2>4
  <1>3. Seq(S) \subseteq T
    <2> HIDE DEF T
    <2> QED
      BY <1>1, <1>2, SeqInduction, Zenon
  <1> QED
    BY <1>3

\* Only of a sequence and of its tail.
LEMMA OnlyHeadTail ==
  ASSUME NEW S, NEW s \in Seq(S), s # <<>>, NEW A
  PROVE  /\ Head(s) \in A    => Only(s, A) = <<Head(s)>> \o Only(Tail(s), A)
         /\ Head(s) \notin A => Only(s, A) = Only(Tail(s), A)
  <1>1. PICK h \in S, t \in Seq(S) : s = <<h>> \o t /\ h = Head(s) /\ t = Tail(s)
    <2>1. Head(s) \in S /\ Tail(s) \in Seq(S) /\ s = <<Head(s)>> \o Tail(s)
      OBVIOUS
    <2> QED
      BY <2>1, Zenon
  <1>2. PICK x \in Seq(S) : x = <<h>> /\ x = Append(<<>>, h)
    <2>1. <<h>> \in Seq(S) /\ <<h>> = Append(<<>>, h)
      OBVIOUS
    <2> QED
      BY <2>1, Zenon
  <1>3. Only(x \o t, A) = Only(x, A) \o Only(t, A)
    BY OnlyConcat
  <1>4. PICK o \in Seq(S) : o = <<>>
    <2>1. <<>> \in Seq(S)
      OBVIOUS
    <2> QED
      BY <2>1, Zenon
  <1>5. CASE h \in A
    <2>1. Only(Append(o, h), A) = Append(Only(o, A), h)
      BY <1>5, OnlyAppend
    <2>2. Only(x, A) = x
      BY <1>2, <1>4, <2>1, OnlyEmpty, Zenon
    <2> QED
      BY <1>1, <1>2, <1>3, <1>5, <2>2, Zenon
  <1>6. CASE h \notin A
    <2>1. Only(Append(o, h), A) = Only(o, A)
      BY <1>6, OnlyAppend
    <2>2. Only(t, A) \in Seq(S \cap A)
      BY OnlyType, Zenon
    <2>3. <<>> \o Only(t, A) = Only(t, A)
      BY <2>2, ConcatEmptySeq, Zenon
    <2> QED
      BY <1>1, <1>2, <1>3, <1>4, <1>6, <2>1, <2>3, OnlyEmpty, Zenon
  <1> QED
    BY <1>5, <1>6

\* Only of a sequence all of whose elements are in A.
LEMMA OnlyAll ==
  ASSUME NEW S, NEW s \in Seq(S)
  PROVE  Only(s, S) = s
  <1> DEFINE T == {q \in Seq(S) : Only(q, S) = q}
  <1>1. <<>> \in T
    <2>1. <<>> \in Seq(S)
      OBVIOUS
    <2> QED
      BY <2>1, OnlyEmpty, Zenon
  <1>2. ASSUME NEW q \in Seq(S), NEW e \in S, q \in T PROVE Append(q, e) \in T
    <2>1. Append(q, e) \in Seq(S) /\ Only(q, S) = q
      BY <1>2
    <2>2. Only(Append(q, e), S) = Append(Only(q, S), e)
      BY OnlyAppend, Zenon
    <2> QED
      BY <2>1, <2>2, Zenon
  <1>3. Seq(S) \subseteq T
    <2> HIDE DEF T
    <2> QED
      BY <1>1, <1>2, SeqInduction, Zenon
  <1> QED
    BY <1>3

\* Two sets with the same elements of s leave the same of it.
LEMMA OnlySame ==
  ASSUME NEW S, NEW s \in Seq(S), NEW A, NEW B, \A e \in S : e \in A <=> e \in B
  PROVE  Only(s, A) = Only(s, B)
  <1> DEFINE T == {q \in Seq(S) : Only(q, A) = Only(q, B)}
  <1>1. <<>> \in T
    <2>1. <<>> \in Seq(S)
      OBVIOUS
    <2> QED
      BY <2>1, OnlyEmpty, Zenon
  <1>2. ASSUME NEW q \in Seq(S), NEW e \in S, q \in T PROVE Append(q, e) \in T
    <2>1. Append(q, e) \in Seq(S) /\ Only(q, A) = Only(q, B)
      BY <1>2
    <2>2. Only(Append(q, e), A) = Only(Append(q, e), B)
      <3>1. CASE e \in A
        <4>1. e \in B
          BY <3>1
        <4>2. /\ Only(Append(q, e), A) = Append(Only(q, A), e)
              /\ Only(Append(q, e), B) = Append(Only(q, B), e)
          BY <3>1, <4>1, OnlyAppend, Zenon
        <4> QED
          BY <2>1, <4>2
      <3>2. CASE e \notin A
        <4>1. e \notin B
          BY <3>2
        <4>2. /\ Only(Append(q, e), A) = Only(q, A)
              /\ Only(Append(q, e), B) = Only(q, B)
          BY <3>2, <4>1, OnlyAppend, Zenon
        <4> QED
          BY <2>1, <4>2
      <3> QED
        BY <3>1, <3>2
    <2> QED
      BY <2>1, <2>2
  <1>3. Seq(S) \subseteq T
    <2> HIDE DEF T
    <2> QED
      BY <1>1, <1>2, SeqInduction, Zenon
  <1> QED
    BY <1>3

\* The elements of Only(s, A) are those of s that are in A.
LEMMA OnlyRange ==
  ASSUME NEW S, NEW s \in Seq(S), NEW A
  PROVE  Elements(Only(s, A)) = Elements(s) \cap A
  <1> DEFINE T == {q \in Seq(S) : Elements(Only(q, A)) = Elements(q) \cap A}
  <1>1. <<>> \in T
    <2>1. <<>> \in Seq(S) /\ Elements(<<>>) = {}
      BY DEF Elements
    <2>2. Elements(Only(<<>>, A)) = Elements(<<>>) \cap A
      BY <2>1, OnlyEmpty, Zenon
    <2> QED
      BY <2>1, <2>2, Zenon
  <1>2. ASSUME NEW q \in Seq(S), NEW e \in S, q \in T PROVE Append(q, e) \in T
    <2>1. Append(q, e) \in Seq(S) /\ Elements(Append(q, e)) = Elements(q) \cup {e}
      BY ElementsAppend
    <2>2. Elements(Only(q, A)) = Elements(q) \cap A
      BY <1>2
    <2>3. CASE e \in A
      <3>1. Only(Append(q, e), A) = Append(Only(q, A), e)
        BY <2>3, OnlyAppend, Zenon
      <3>2. Only(q, A) \in Seq(S \cap A) /\ e \in S \cap A
        BY <2>3, OnlyType, Zenon
      <3>3. Elements(Append(Only(q, A), e)) = Elements(Only(q, A)) \cup {e}
        <4> DEFINE B == S \cap A
        <4>1. Only(q, A) \in Seq(B) /\ e \in B
          BY <3>2
        <4> HIDE DEF B
        <4> QED
          BY <4>1, ElementsAppend
      <3>4. Elements(Only(Append(q, e), A)) = Elements(Append(q, e)) \cap A
        <4>1. Elements(Only(Append(q, e), A)) = (Elements(q) \cap A) \cup {e}
          BY <2>2, <3>1, <3>3, Zenon
        <4> QED
          BY <2>1, <2>3, <4>1
      <3> QED
        BY <2>1, <3>4, Zenon
    <2>4. CASE e \notin A
      <3>1. Only(Append(q, e), A) = Only(q, A)
        BY <2>4, OnlyAppend, Zenon
      <3>2. Elements(Only(Append(q, e), A)) = Elements(q) \cap A
        BY <2>2, <3>1, Zenon
      <3>3. Elements(Only(Append(q, e), A)) = Elements(Append(q, e)) \cap A
        BY <2>1, <2>4, <3>2
      <3> QED
        BY <2>1, <3>3, Zenon
    <2> QED
      BY <2>3, <2>4
  <1>3. Seq(S) \subseteq T
    <2> HIDE DEF T
    <2> QED
      BY <1>1, <1>2, SeqInduction, Zenon
  <1> QED
    BY <1>3

\* The length of Only(s, A) is the number of places of s that hold an element
\* of A.
LEMMA OnlyLen ==
  ASSUME NEW S, NEW s \in Seq(S), NEW A
  PROVE  /\ IsFiniteSet({i \in 1..Len(s) : s[i] \in A})
         /\ Len(Only(s, A)) = Cardinality({i \in 1..Len(s) : s[i] \in A})
  <1> DEFINE Places(q) == {i \in 1..Len(q) : q[i] \in A}
             T == {q \in Seq(S) : /\ IsFiniteSet(Places(q))
                                  /\ Len(Only(q, A)) = Cardinality(Places(q))}
  <1>1. <<>> \in T
    <2>1. <<>> \in Seq(S) /\ Len(<<>>) = 0
      OBVIOUS
    <2>2. Places(<<>>) = {}
      OBVIOUS
    <2> HIDE DEF Places
    <2> QED
      BY <2>1, <2>2, OnlyEmpty, FS_EmptySet, Zenon
  <1>2. ASSUME NEW q \in Seq(S), NEW e \in S, q \in T PROVE Append(q, e) \in T
    <2> DEFINE n == Len(q)
               p == Append(q, e)
    <2>1. /\ p \in Seq(S) /\ n \in Nat /\ Len(p) = n + 1 /\ p[n + 1] = e
          /\ \A i \in 1..n : p[i] = q[i]
      OBVIOUS
    <2>2. IsFiniteSet(Places(q)) /\ Len(Only(q, A)) = Cardinality(Places(q))
      BY <1>2, Zenon
    <2>3. n + 1 \notin Places(q)
      BY <2>1
    <2>4. CASE e \in A
      <3>1. Places(p) = Places(q) \cup {n + 1}
        <4> HIDE DEF p
        <4> QED
          BY <2>1, <2>4
      <3>2. Only(p, A) = Append(Only(q, A), e)
        BY <2>4, OnlyAppend, Zenon
      <3>3. Only(q, A) \in Seq(S \cap A) /\ e \in S \cap A
        BY <2>4, OnlyType
      <3>4. Len(Append(Only(q, A), e)) = Len(Only(q, A)) + 1
        BY <3>3, AppendProperties, Zenon
      <3>5. /\ IsFiniteSet(Places(q) \cup {n + 1})
            /\ Cardinality(Places(q) \cup {n + 1}) = Cardinality(Places(q)) + 1
        <4> HIDE DEF Places, n
        <4> QED
          BY <2>2, <2>3, FS_AddElement, Zenon
      <3> HIDE DEF Places, n
      <3>6. IsFiniteSet(Places(p)) /\ Len(Only(p, A)) = Cardinality(Places(p))
        BY <2>2, <3>1, <3>2, <3>4, <3>5, Zenon
      <3> QED
        BY <2>1, <3>6, Zenon
    <2>5. CASE e \notin A
      <3>1. Places(p) = Places(q)
        <4> HIDE DEF p
        <4> QED
          BY <2>1, <2>5
      <3>2. Only(p, A) = Only(q, A)
        BY <2>5, OnlyAppend, Zenon
      <3> HIDE DEF Places
      <3> QED
        BY <2>1, <2>2, <3>1, <3>2, Zenon
    <2> QED
      BY <2>4, <2>5
  <1>3. Seq(S) \subseteq T
    <2> HIDE DEF T
    <2> QED
      BY <1>1, <1>2, SeqInduction, Zenon
  <1> QED
    BY <1>3

\* No element occurs twice.
Distinct(s) == \A i, k \in 1..Len(s) : s[i] = s[k] => i = k

\* A new element keeps the elements distinct, and without the last one they
\* are distinct still.
LEMMA DistinctAppend ==
  ASSUME NEW S, NEW s \in Seq(S), NEW e \in S
  PROVE  Distinct(Append(s, e)) <=> Distinct(s) /\ e \notin Elements(s)
  <1> DEFINE n == Len(s)
             t == Append(s, e)
  <1>1. /\ n \in Nat /\ Len(t) = n + 1 /\ t[n + 1] = e
        /\ \A i \in 1..n : t[i] = s[i]
    OBVIOUS
  <1> HIDE DEF t, n
  <1>2. ASSUME Distinct(t) PROVE Distinct(s) /\ e \notin Elements(s)
    BY <1>1, <1>2 DEF Distinct, Elements, n
  <1>3. ASSUME Distinct(s), e \notin Elements(s) PROVE Distinct(t)
    BY <1>1, <1>3 DEF Distinct, Elements, n
  <1> QED
    BY <1>2, <1>3 DEF t

\* Leaving elements out keeps the others distinct.
LEMMA OnlyDistinct ==
  ASSUME NEW S, NEW s \in Seq(S), NEW A, Distinct(s)
  PROVE  Distinct(Only(s, A))
  <1> DEFINE T == {q \in Seq(S) : Distinct(q) => Distinct(Only(q, A))}
  <1>1. <<>> \in T
    <2>1. <<>> \in Seq(S)
      OBVIOUS
    <2> QED
      BY <2>1, OnlyEmpty, Zenon
  <1>2. ASSUME NEW q \in Seq(S), NEW e \in S, q \in T PROVE Append(q, e) \in T
    <2>1. Append(q, e) \in Seq(S) /\ (Distinct(q) => Distinct(Only(q, A)))
      BY <1>2
    <2>2. Distinct(Append(q, e)) <=> Distinct(q) /\ e \notin Elements(q)
      BY DistinctAppend
    <2>3. CASE e \in A
      <3>1. Only(Append(q, e), A) = Append(Only(q, A), e)
        BY <2>3, OnlyAppend, Zenon
      <3>2. Only(q, A) \in Seq(S)
        BY OnlySeq, Zenon
      <3>3. Distinct(Append(Only(q, A), e))
              <=> Distinct(Only(q, A)) /\ e \notin Elements(Only(q, A))
        BY <3>2, DistinctAppend, Zenon
      <3>4. Elements(Only(q, A)) = Elements(q) \cap A
        BY OnlyRange, Zenon
      <3> QED
        BY <2>1, <2>2, <3>1, <3>3, <3>4, Zenon
    <2>4. CASE e \notin A
      <3>1. Only(Append(q, e), A) = Only(q, A)
        BY <2>4, OnlyAppend, Zenon
      <3> QED
        BY <2>1, <2>2, <3>1, Zenon
    <2> QED
      BY <2>3, <2>4
  <1>3. Seq(S) \subseteq T
    <2> HIDE DEF T
    <2> QED
      BY <1>1, <1>2, SeqInduction, Zenon
  <1> QED
    BY <1>3

\* Sequences of one length with the same elements are the same.
LEMMA SameSeq ==
  ASSUME NEW S, NEW s \in Seq(S), NEW t \in Seq(S), Len(s) = Len(t),
         \A i \in 1..Len(s) : s[i] = t[i]
  PROVE  s = t
  <1>1. s = [i \in 1..Len(s) |-> s[i]] /\ t = [i \in 1..Len(t) |-> t[i]]
    OBVIOUS
  <1> QED
    BY <1>1

\* A part of a sequence that is one element longer.
LEMMA SubSeqAppend ==
  ASSUME NEW S, NEW s \in Seq(S), NEW e \in S, NEW a \in 1..(Len(s) + 1)
  PROVE  /\ SubSeq(Append(s, e), a, Len(s) + 1) = Append(SubSeq(s, a, Len(s)), e)
         /\ \A b \in 0..Len(s) : SubSeq(Append(s, e), a, b) = SubSeq(s, a, b)
  <1> DEFINE t == Append(s, e)  n == Len(s)
  <1>1. /\ t \in Seq(S) /\ Len(t) = n + 1 /\ n \in Nat /\ t[n + 1] = e
        /\ \A i \in 1..n : t[i] = s[i]
    OBVIOUS
  <1> HIDE DEF t, n
  <1>2. s \in Seq(S) /\ Len(s) = n /\ a \in 1..(n + 1)
    BY DEF n
  <1>3. SubSeq(t, a, n + 1) = Append(SubSeq(s, a, n), e)
    <2> DEFINE u == SubSeq(t, a, n + 1)  v == SubSeq(s, a, n)  w == Append(v, e)
               k == n - a + 1
    <2>1. /\ u \in Seq(S) /\ Len(u) = k + 1 /\ k \in Nat
          /\ \A i \in 1..(k + 1) : u[i] = t[a + i - 1]
      BY <1>1, <1>2
    <2>2. /\ v \in Seq(S) /\ Len(v) = k /\ \A i \in 1..k : v[i] = s[a + i - 1]
      BY <1>1, <1>2
    <2>3. /\ \A i \in 1..k : a + i - 1 \in 1..n
          /\ \A i \in 1..(k + 1) : i \in 1..k \/ (i = k + 1 /\ a + i - 1 = n + 1)
      BY <1>1, <1>2
    <2> HIDE DEF u, v, k
    <2>4. /\ w \in Seq(S) /\ Len(w) = k + 1 /\ w[k + 1] = e
          /\ \A i \in 1..k : w[i] = v[i]
      BY <2>1, <2>2
    <2> HIDE DEF w
    <2>5. \A i \in 1..(k + 1) : u[i] = w[i]
      BY <1>1, <2>1, <2>2, <2>3, <2>4
    <2>6. u = w
      BY <2>1, <2>4, <2>5, SameSeq
    <2> QED
      BY <2>6 DEF u, v, w
  <1>4. \A b \in 0..n : SubSeq(t, a, b) = SubSeq(s, a, b)
    <2> SUFFICES ASSUME NEW b \in 0..n PROVE SubSeq(t, a, b) = SubSeq(s, a, b)
      OBVIOUS
    <2>1. CASE a > b
      <3>1. SubSeq(t, a, b) = <<>> /\ SubSeq(s, a, b) = <<>>
        BY <1>1, <1>2, <2>1
      <3> QED
        BY <3>1
    <2>2. CASE a <= b
      <3> DEFINE u == SubSeq(t, a, b)  v == SubSeq(s, a, b)  k == b - a + 1
      <3>1. /\ u \in Seq(S) /\ Len(u) = k /\ k \in Nat
            /\ \A i \in 1..k : u[i] = t[a + i - 1]
        BY <1>1, <1>2, <2>2
      <3>2. v \in Seq(S) /\ Len(v) = k /\ \A i \in 1..k : v[i] = s[a + i - 1]
        BY <1>1, <1>2, <2>2
      <3>3. \A i \in 1..k : a + i - 1 \in 1..n
        BY <1>1, <1>2, <2>2
      <3> HIDE DEF u, v, k
      <3>4. u = v
        BY <1>1, <3>1, <3>2, <3>3, SameSeq
      <3> QED
        BY <3>4 DEF u, v
    <2>3. a > b \/ a <= b
      BY <1>1, <1>2
    <2> QED
      BY <2>1, <2>2, <2>3
  <1> QED
    BY <1>3, <1>4 DEF t, n

\* A sequence is one part of it and the rest.
LEMMA SubSeqParts ==
  ASSUME NEW S, NEW s \in Seq(S), NEW k \in 1..Len(s)
  PROVE  /\ SubSeq(s, 1, k - 1) \in Seq(S) /\ SubSeq(s, k, Len(s)) \in Seq(S)
         /\ s = SubSeq(s, 1, k - 1) \o SubSeq(s, k, Len(s))
  <1> DEFINE n == Len(s)  u == SubSeq(s, 1, k - 1)  v == SubSeq(s, k, n)
             w == u \o v
  <1>0. n \in Nat /\ k \in 1..n
    OBVIOUS
  <1>1. /\ u \in Seq(S) /\ Len(u) = k - 1
        /\ \A i \in 1..(k - 1) : u[i] = s[i]
    BY <1>0
  <1>2. /\ v \in Seq(S) /\ Len(v) = n - k + 1
        /\ \A i \in 1..(n - k + 1) : v[i] = s[k + i - 1]
    BY <1>0
  <1> HIDE DEF u, v
  <1>3. /\ w \in Seq(S) /\ Len(w) = n
        /\ \A i \in 1..n : w[i] = IF i <= k - 1 THEN u[i] ELSE v[i - (k - 1)]
    BY <1>0, <1>1, <1>2
  <1> HIDE DEF w
  <1>4. \A i \in 1..n : w[i] = s[i]
    <2> SUFFICES ASSUME NEW i \in 1..n PROVE w[i] = s[i]
      OBVIOUS
    <2>1. CASE i <= k - 1
      <3>1. i \in 1..(k - 1)
        BY <1>0, <2>1
      <3> QED
        BY <1>1, <1>3, <2>1, <3>1
    <2>2. CASE ~(i <= k - 1)
      <3>1. i - (k - 1) \in 1..(n - k + 1) /\ k + (i - (k - 1)) - 1 = i
        BY <1>0, <2>2
      <3>2. v[i - (k - 1)] = s[i]
        BY <1>2, <3>1
      <3> QED
        BY <1>3, <2>2, <3>2
    <2> QED
      BY <2>1, <2>2
  <1>5. w = s
    BY <1>3, <1>4, SameSeq
  <1> QED
    BY <1>1, <1>2, <1>5 DEF w, u, v, n

\* The elements of two sequences put together.
LEMMA ConcatParts ==
  ASSUME NEW S, NEW s \in Seq(S), NEW t \in Seq(S)
  PROVE  /\ s \o t \in Seq(S) /\ Len(s \o t) = Len(s) + Len(t)
         /\ Len(s) \in Nat /\ Len(t) \in Nat
         /\ \A i \in 1..Len(s \o t) :
              (s \o t)[i] = IF i <= Len(s) THEN s[i] ELSE t[i - Len(s)]
         /\ \A i \in 1..Len(t) : (s \o t)[Len(s) + i] = t[i]
  <1> DEFINE u == s \o t
  <1>1. Len(s) \in Nat /\ Len(t) \in Nat
    OBVIOUS
  <1>2. u \in Seq(S) /\ Len(u) = Len(s) + Len(t)
    OBVIOUS
  <1>3. \A i \in 1..(Len(s) + Len(t)) :
          u[i] = IF i <= Len(s) THEN s[i] ELSE t[i - Len(s)]
    OBVIOUS
  <1> HIDE DEF u
  <1>4. \A i \in 1..Len(t) : /\ Len(s) + i \in 1..(Len(s) + Len(t))
                             /\ ~(Len(s) + i <= Len(s))
                             /\ Len(s) + i - Len(s) = i
    BY <1>1
  <1>5. \A i \in 1..Len(t) : u[Len(s) + i] = t[i]
    BY <1>3, <1>4
  <1> QED
    BY <1>1, <1>2, <1>3, <1>5 DEF u

\* The elements of the end of a sequence.
LEMMA TailParts ==
  ASSUME NEW S, NEW s \in Seq(S), NEW k \in 1..(Len(s) + 1)
  PROVE  /\ SubSeq(s, k, Len(s)) \in Seq(S)
         /\ Len(SubSeq(s, k, Len(s))) = Len(s) - k + 1
         /\ \A i \in 1..(Len(s) - k + 1) : SubSeq(s, k, Len(s))[i] = s[k + i - 1]
  <1> DEFINE n == Len(s)
  <1>1. n \in Nat /\ k \in 1..(n + 1)
    OBVIOUS
  <1> QED
    BY <1>1

\* What follows the first of two sequences put together is the second.
LEMMA ConcatTail ==
  ASSUME NEW S, NEW s \in Seq(S), NEW t \in Seq(S)
  PROVE  SubSeq(s \o t, Len(s) + 1, Len(s \o t)) = t
  <1> DEFINE u == s \o t  m == Len(s)  n == Len(t)  w == SubSeq(u, m + 1, Len(u))
  <1>1. /\ u \in Seq(S) /\ Len(u) = m + n /\ m \in Nat /\ n \in Nat
        /\ \A i \in 1..n : u[m + i] = t[i]
    BY ConcatParts, Zenon
  <1> HIDE DEF u, m, n
  <1>2. m + 1 \in 1..(Len(u) + 1)
    BY <1>1
  <1>3. /\ w \in Seq(S) /\ Len(w) = Len(u) - (m + 1) + 1
        /\ \A i \in 1..(Len(u) - (m + 1) + 1) : w[i] = u[(m + 1) + i - 1]
    BY <1>1, <1>2, TailParts, Zenon
  <1> HIDE DEF w
  <1>4. /\ Len(u) - (m + 1) + 1 = n
        /\ \A i \in 1..n : (m + 1) + i - 1 = m + i
    BY <1>1
  <1>5. \A i \in 1..n : w[i] = t[i]
    BY <1>1, <1>3, <1>4, Zenon
  <1>6. w = t
    BY <1>3, <1>4, <1>5, SameSeq, Zenon DEF n
  <1> QED
    BY <1>6, Zenon DEF w, u, m
=============================================================================
