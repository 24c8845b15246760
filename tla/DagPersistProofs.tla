-------------------------- MODULE DagPersistProofs --------------------------
(***************************************************************************)
(* The run registry and its state files, for any sessions, any number of   *)
(* plans, restarts and operations: what quiet means for the files, that a  *)
(* running dag is never overwritten, and what a restore may skip.          *)
(***************************************************************************)
EXTENDS DagPersist, SeqFilterProofs

-----------------------------------------------------------------------------
(***************************************************************************)
(* The inductive invariant.                                                *)
(***************************************************************************)

\* A set of runs that can be a registry or the contents of a file: finite, and
\* no two runs under one id.
Sound(R) == /\ R \subseteq Runs
            /\ IsFiniteSet(R)
            /\ \A r \in R : r.uid \in 1..MaxPlans
            /\ \A p, q \in R : SameId(p, q) => p.uid = q.uid

\* One whose runs all belong to session s.
SoundOf(s, R) == Sound(R) /\ \A p \in R : p.session = s

StoreInv ==
  /\ Sound(runs)
  /\ \A s \in Sessions : SoundOf(s, file[s])
  /\ \A b \in copied \cup flushed \cup loaded : SoundOf(b.session, b.runs)
  /\ left["plan"] <= MaxPlans

\* Outside its phases the process has nothing in hand.
PhaseInv ==
  /\ phase # "flushing" => flushed = {}
  /\ writer # "save" => copied = {}
  /\ phase = "down" => /\ runs = {} /\ due = {} /\ owed = 0 /\ ~permit
                       /\ writer = "idle" /\ loaded = {}

\* The ids of registered dags are used up.
CounterInv == \A r \in runs : r.kind = "dag" => r.n <= counter["dag"]

\* A session that was not activated has no run in the registry, nor in a copy
\* of it, and its file is as it was loaded.
SessionsInv ==
  /\ \A r \in runs : r.session \in active
  /\ \A b \in copied \cup flushed : b.session \in active
  /\ \A b, c \in loaded : b.session = c.session => b = c
  /\ \A b \in loaded : b.session \notin active \cup mixed
                          => file[b.session] \subseteq b.runs

\* The dags of s: registered, in its file, or on the way between the two.
Recorded(s) ==
  {p \in runs \cup file[s]
           \cup UNION {b.runs : b \in {c \in copied \cup flushed \cup loaded :
                                         c.session = s}} :
     p.session = s /\ p.kind = "dag"}

\* Once a session is activated, an id means the same dag wherever it is
\* recorded, and the counter is past it.
Agrees(s) ==
  \A p \in Recorded(s) : /\ p.n <= counter["dag"]
                         /\ \A q \in Recorded(s) : SameId(p, q) => p.uid = q.uid

AgreeInv == \A s \in active \ mixed : Agrees(s)

\* While the writer has nothing more to come, what it has yet to write is
\* current, and so is every file that it has not to write.
SaveInv ==
  phase = "up" /\ owed = 0 /\ ~permit /\ writer \in {"idle", "save"} =>
    /\ \A b \in copied : b.runs = LiveOf(b.session)
    /\ \A s \in Sessions \ failed : Unsaved(s) => \E b \in copied : b.session = s

PersistInv == /\ TypeOK
              /\ StoreInv
              /\ PhaseInv
              /\ CounterInv
              /\ SessionsInv
              /\ AgreeInv
              /\ SaveInv

-----------------------------------------------------------------------------
(***************************************************************************)
(* Sets of runs.                                                           *)
(***************************************************************************)

\* The parts of the assumption on the constants.
LEMMA Bounds == /\ MaxTerminal \in Nat /\ MaxPlans \in Nat /\ MaxVer \in Nat
                /\ MaxCalls \in Nat /\ MaxOps \in Nat /\ MaxLoads \in Nat
                /\ MaxStops \in Nat /\ Kinds \subseteq {"dag", "goal"}
  BY PersistAssumption

\* q is run r after a change of its progress or status.
Keeps(r, q) == /\ q \in Runs
               /\ q.kind = r.kind /\ q.n = r.n
               /\ q.session = r.session /\ q.uid = r.uid

\* What remains of a sound set is sound.
LEMMA SoundSubset ==
  ASSUME NEW R, Sound(R), NEW Q \in SUBSET R
  PROVE  Sound(Q)
  <1>1. IsFiniteSet(Q)
    BY FS_Subset DEF Sound
  <1> QED
    BY <1>1 DEF Sound

\* A run may change in place.
LEMMA SoundSwap ==
  ASSUME NEW R, Sound(R), NEW r \in R, NEW q, Keeps(r, q)
  PROVE  Sound((R \ {r}) \cup {q})
  <1>1. IsFiniteSet((R \ {r}) \cup {q})
    <2>1. IsFiniteSet(R \ {r})
      BY FS_RemoveElement DEF Sound
    <2> QED
      BY <2>1, FS_AddElement
  <1> QED
    BY <1>1 DEF Sound, Keeps, SameId

\* A new id may be added.
LEMMA SoundAdd ==
  ASSUME NEW R, Sound(R), NEW q \in Runs, q.uid \in 1..MaxPlans
  PROVE  Sound({r \in R : ~SameId(r, q)} \cup {q})
  <1> DEFINE Q == {r \in R : ~SameId(r, q)}
  <1>1. Q \subseteq R /\ Sound(Q)
    BY SoundSubset
  <1>2. IsFiniteSet(Q \cup {q})
    BY <1>1, FS_AddElement DEF Sound
  <1> QED
    BY <1>2 DEF Sound, SameId

\* Two sound sets without a common id make a sound set.
LEMMA SoundUnion ==
  ASSUME NEW R, Sound(R), NEW Q, Sound(Q), \A r \in R, q \in Q : ~SameId(r, q)
  PROVE  Sound(R \cup Q)
  <1>1. IsFiniteSet(R \cup Q)
    BY FS_Union DEF Sound
  <1> QED
    BY <1>1 DEF Sound, SameId

\* Runs may change their session together.
LEMMA SoundRehome ==
  ASSUME NEW R, Sound(R), NEW from \in Sessions, NEW to \in Sessions
  PROVE  Sound({IF r.session = from THEN [r EXCEPT !.session = to] ELSE r : r \in R})
  <1> DEFINE moved(r) == IF r.session = from THEN [r EXCEPT !.session = to] ELSE r
             M == {moved(r) : r \in R}
  <1>1. \A r \in R : /\ moved(r) \in Runs /\ moved(r).uid = r.uid
                     /\ moved(r).kind = r.kind /\ moved(r).n = r.n
    BY DEF Sound, Runs
  <1>2. IsFiniteSet(M)
    <2> DEFINE f == [r \in R |-> moved(r)]
    <2>1. M = {f[r] : r \in R}
      OBVIOUS
    <2>2. IsFiniteSet(R)
      BY DEF Sound
    <2>3. IsFiniteSet({f[r] : r \in R})
      <3> HIDE DEF f
      <3> QED
        BY <2>2, FiniteImage
    <2> QED
      BY <2>1, <2>3
  <1> HIDE DEF moved
  <1>3. Sound(M)
    BY <1>1, <1>2 DEF Sound, SameId
  <1> QED
    BY <1>3 DEF moved

\* The greatest id of the restored dags and the counter.
LEMMA AlignedCounterBound ==
  ASSUME counter \in [{"dag", "goal"} -> Nat], NEW R, Sound(R)
  PROVE  /\ AlignedCounter(R) \in [{"dag", "goal"} -> Nat]
         /\ counter["dag"] <= AlignedCounter(R)["dag"]
         /\ \A p \in R : p.kind = "dag" => p.n <= AlignedCounter(R)["dag"]
  <1> DEFINE D == {q \in R : q.kind = "dag"}
             N == {p.n : p \in D}
             S == {counter["dag"]} \cup N
  <1>1. IsFiniteSet(S)
    <2>1. IsFiniteSet(D)
      BY FS_Subset DEF Sound
    <2>2. IsFiniteSet(N)
      <3> DEFINE f == [p \in D |-> p.n]
      <3>1. N = {f[p] : p \in D}
        OBVIOUS
      <3>2. IsFiniteSet({f[p] : p \in D})
        <4> HIDE DEF f
        <4> QED
          BY <2>1, FiniteImage
      <3> QED
        BY <3>1, <3>2
    <2>3. IsFiniteSet(N \cup {counter["dag"]})
      <3> HIDE DEF N
      <3> QED
        BY <2>2, FS_AddElement
    <2>4. S = N \cup {counter["dag"]}
      OBVIOUS
    <2> QED
      BY <2>3, <2>4
  <1>2. S \in SUBSET Nat /\ S # {}
    BY DEF Sound, Runs
  <1>3. Max(S) \in S /\ \A x \in S : x <= Max(S)
    <2> HIDE DEF S
    <2>1. \E x \in S : \A y \in S : x >= y
      BY <1>1, <1>2, FiniteNatMax
    <2>2. Max(S) \in S /\ \A y \in S : Max(S) >= y
      BY <2>1 DEF Max
    <2> QED
      BY <1>2, <2>2
  <1>4. AlignedCounter(R) = [counter EXCEPT !["dag"] = Max(S)]
    BY DEF AlignedCounter
  <1>5. AlignedCounter(R)["dag"] = Max(S)
    BY <1>4
  <1>6. Max(S) \in Nat
    BY <1>2, <1>3
  <1>7. \A p \in R : p.kind = "dag" => p.n \in S
    OBVIOUS
  <1>8. counter["dag"] \in S
    OBVIOUS
  <1> HIDE DEF S
  <1>9. AlignedCounter(R) \in [{"dag", "goal"} -> Nat]
    BY <1>4, <1>6
  <1> QED
    BY <1>3, <1>5, <1>7, <1>8, <1>9

-----------------------------------------------------------------------------
(***************************************************************************)
(* The steps, as the invariant sees them.                                  *)
(***************************************************************************)

\* Nothing but the registry changes, and whoever changed it will notify.
Silent == UNCHANGED <<phase, counter, permit, storage, clients>>

\* Run r goes on.
Swaps(r, q) == /\ Keeps(r, q)
               /\ runs' = (runs \ {r}) \cup {q}
               /\ owed' = owed + 1
               /\ Silent

\* Runs are removed, none that is running.
Drops == /\ runs' \subseteq runs
         /\ \A r \in runs : r.live => r \in runs'
         /\ \/ runs' = runs /\ owed' = owed
            \/ owed' = owed + 1
         /\ Silent

\* Spending takes from what is left.
LEMMA SpendType ==
  ASSUME TypeOK, NEW w \in {"plan", "op", "load", "stop"}, Spend(w)
  PROVE  /\ left' \in [{"plan", "op", "load", "stop"} -> Nat]
         /\ left'["plan"] <= left["plan"]
  BY DEF Spend, TypeOK

\* Progress, Close and Reopen.
LEMMA SwapView ==
  ASSUME TypeOK, NEW r \in runs, Progress(r) \/ Close(r) \/ Reopen(r)
  PROVE  \E q : Swaps(r, q)
  <1>0. r \in Runs
    BY DEF TypeOK
  <1>1. CASE Progress(r)
    <2> DEFINE q == [r EXCEPT !.ver = @ + 1]
    <2>1. Keeps(r, q)
      BY <1>0 DEF Keeps, Runs
    <2>2. Swaps(r, q)
      BY <1>1, <2>1 DEF Progress, Becomes, Changes, Swaps, Silent
    <2> QED
      BY <2>2
  <1>2. CASE Close(r)
    <2> DEFINE q == [r EXCEPT !.live = FALSE]
    <2>1. Keeps(r, q)
      BY <1>0 DEF Keeps, Runs
    <2>2. Swaps(r, q)
      BY <1>2, <2>1 DEF Close, Becomes, Changes, Swaps, Silent
    <2> QED
      BY <2>2
  <1>3. CASE Reopen(r)
    <2> DEFINE q == [r EXCEPT !.live = TRUE]
    <2>1. Keeps(r, q)
      BY <1>0 DEF Keeps, Runs
    <2>2. Swaps(r, q)
      BY <1>3, <2>1 DEF Reopen, Becomes, Changes, Swaps, Silent
    <2> QED
      BY <2>2
  <1> QED
    BY <1>1, <1>2, <1>3

\* Evict, Clear and ClearRun.
LEMMA DropView ==
  ASSUME TypeOK,
         \/ \E s \in Sessions : Evict(s)
         \/ \E s \in Sessions : \E keep \in 0..MaxTerminal : Clear(s, keep)
         \/ \E r \in runs : ClearRun(r)
  PROVE  Drops
  <1>0. \A s, keep : Overflow(s, keep) \subseteq {r \in runs : ~r.live}
    BY DEF Overflow
  <1>1. ASSUME NEW s \in Sessions, Evict(s) PROVE Drops
    <2>1. CASE Overflow(s, MaxTerminal) = {}
      BY <1>1, <2>1 DEF Evict, Drops, Silent
    <2>2. CASE Overflow(s, MaxTerminal) # {}
      BY <1>0, <1>1, <2>2 DEF Evict, Changes, Drops, Silent
    <2> QED
      BY <2>1, <2>2
  <1>2. ASSUME NEW s \in Sessions, NEW keep \in 0..MaxTerminal, Clear(s, keep)
        PROVE  Drops
    BY <1>0, <1>2 DEF Clear, Changes, Drops, Silent
  <1>3. ASSUME NEW r \in runs, ClearRun(r) PROVE Drops
    BY <1>3 DEF ClearRun, Changes, Drops, Silent
  <1> QED
    BY <1>1, <1>2, <1>3

\* The run a plan adds.
NewRun(s, k) == [kind |-> k, n |-> counter[k] + 1, session |-> s,
                 uid |-> MaxPlans - left.plan + 1, ver |-> 0, live |-> TRUE]

\* Plan.
LEMMA PlanView ==
  ASSUME TypeOK, StoreInv, NEW s \in Sessions, NEW k \in Kinds, Plan(s, k)
  PROVE  /\ NewRun(s, k) \in Runs
         /\ NewRun(s, k).uid \in 1..MaxPlans
         /\ NewRun(s, k).kind = k /\ NewRun(s, k).session = s
         /\ NewRun(s, k).n = counter[k] + 1
         /\ s \in active /\ phase = "up"
         /\ counter' = [counter EXCEPT ![k] = counter[k] + 1]
         /\ runs' = {r \in runs : ~SameId(r, NewRun(s, k))} \cup {NewRun(s, k)}
         /\ owed' = owed + 1
         /\ UNCHANGED <<phase, due, permit, storage, clients>>
  <1>1. /\ counter[k] + 1 \in Nat /\ left.plan \in Nat /\ left.plan > 0
        /\ left.plan <= MaxPlans /\ MaxPlans \in Nat
    BY Bounds DEF TypeOK, StoreInv, Plan, Spend
  <1>2. NewRun(s, k) \in Runs /\ NewRun(s, k).uid \in 1..MaxPlans
    BY <1>1 DEF NewRun, Runs
  <1> QED
    BY <1>2 DEF Plan, NewRun, Changes

\* The copies save_all makes are sound, and current.
LEMMA BySessionSound ==
  ASSUME TypeOK, StoreInv
  PROVE  /\ BySession \subseteq Batches
         /\ \A b \in BySession : /\ SoundOf(b.session, b.runs)
                                 /\ b.runs \subseteq runs
                                 /\ b.runs = LiveOf(b.session)
                                 /\ \E r \in runs : r.session = b.session
         /\ \A s \in Sessions : (\E r \in runs : r.session = s)
                                   => \E b \in BySession : b.session = s
  <1>1. ASSUME NEW r \in runs PROVE r.session \in Sessions
    BY DEF TypeOK, Runs
  <1>2. ASSUME NEW b \in BySession
        PROVE  /\ b \in Batches
               /\ b.runs = LiveOf(b.session)
               /\ b.runs \subseteq runs
               /\ \E r \in runs : r.session = b.session
    <2>1. PICK s \in {r.session : r \in runs} :
             b = [session |-> s, runs |-> {r \in runs : r.session = s /\ r.live}]
      BY DEF BySession
    <2>2. s \in Sessions /\ \E r \in runs : r.session = s
      BY <1>1, <2>1
    <2>3. {r \in runs : r.session = s /\ r.live} \in SUBSET Runs
      BY DEF TypeOK
    <2> QED
      BY <2>1, <2>2, <2>3 DEF Batches, LiveOf
  <1>3. ASSUME NEW b \in BySession PROVE SoundOf(b.session, b.runs)
    <2>1. Sound(b.runs)
      BY <1>2, SoundSubset DEF StoreInv
    <2> QED
      BY <1>2, <2>1 DEF SoundOf, LiveOf
  <1>4. ASSUME NEW r \in runs PROVE \E b \in BySession : b.session = r.session
    <2> DEFINE b == [session |-> r.session,
                     runs |-> {q \in runs : q.session = r.session /\ q.live}]
    <2>1. b \in BySession
      BY DEF BySession
    <2>2. b.session = r.session
      OBVIOUS
    <2> QED
      BY <2>1, <2>2
  <1> QED
    BY <1>2, <1>3, <1>4

\* The types.
LEMMA TypeOKStep ==
  ASSUME PersistInv, Next
  PROVE  TypeOK'
  <1>0. TypeOK /\ StoreInv
    BY DEF PersistInv
  <1> DEFINE Lefts == [{"plan", "op", "load", "stop"} -> Nat]
  <1>b. MaxCalls \in Nat /\ MaxPlans \in Nat
    BY Bounds
  <1>c. owed' = owed + 1 /\ owed < MaxCalls => owed' \in 0..MaxCalls
    BY <1>0, <1>b DEF TypeOK
  <1>1. ASSUME NEW s \in Sessions, NEW k \in Kinds, Plan(s, k) PROVE TypeOK'
    <2>1. left' \in Lefts
      BY <1>0, <1>1, SpendType DEF Plan
    <2>2. owed' \in 0..MaxCalls
      BY <1>c, <1>1 DEF Plan, Changes
    <2>3. counter' \in [{"dag", "goal"} -> Nat]
      BY <1>0, <1>1, PlanView DEF TypeOK
    <2>4. runs' \subseteq Runs
      BY <1>0, <1>1, PlanView DEF TypeOK
    <2> QED
      BY <1>0, <1>1, <2>1, <2>2, <2>3, <2>4 DEF Plan, TypeOK, storage, clients
  <1>2. ASSUME NEW r \in runs, Progress(r) \/ Close(r) \/ Reopen(r) PROVE TypeOK'
    <2>1. PICK q : Swaps(r, q)
      BY <1>0, <1>2, SwapView
    <2>2. runs' \subseteq Runs
      BY <1>0, <2>1 DEF Swaps, Keeps, TypeOK
    <2>3. left' \in Lefts
      BY <1>0, <1>2, SpendType DEF Progress, Close, Reopen, TypeOK
    <2>4. owed' \in 0..MaxCalls
      BY <1>c, <1>2 DEF Progress, Close, Reopen, Changes
    <2>5. due' \subseteq Sessions
      BY <1>0, <1>2 DEF Progress, Close, Reopen, TypeOK, Runs
    <2> QED
      BY <1>0, <2>1, <2>2, <2>3, <2>4, <2>5 DEF Swaps, Silent, TypeOK, storage, clients
  <1>3. CASE \/ \E s \in Sessions : Evict(s)
             \/ \E s \in Sessions : \E keep \in 0..MaxTerminal : Clear(s, keep)
             \/ \E r \in runs : ClearRun(r)
    <2>1. Drops
      BY <1>0, <1>3, DropView
    <2>2. left' \in Lefts
      BY <1>0, <1>3, SpendType DEF Evict, Clear, ClearRun, TypeOK
    <2>3. owed' \in 0..MaxCalls
      BY <1>0, <1>c, <1>3 DEF Evict, Clear, ClearRun, Changes, TypeOK
    <2>4. due' \subseteq Sessions
      BY <1>0, <1>3 DEF Evict, Clear, ClearRun, TypeOK
    <2> QED
      BY <1>0, <2>1, <2>2, <2>3, <2>4 DEF Drops, Silent, TypeOK, storage, clients
  <1>4. ASSUME NEW from \in Sessions, NEW to \in Sessions, Rehome(from, to)
        PROVE  TypeOK'
    <2>1. left' \in Lefts
      BY <1>0, <1>4, SpendType DEF Rehome
    <2>2. owed' \in 0..MaxCalls
      BY <1>c, <1>4 DEF Rehome, Changes
    <2>3. runs' \subseteq Runs
      <3>1. Sound(runs')
        BY <1>0, <1>4, SoundRehome DEF Rehome, StoreInv
      <3> QED
        BY <3>1 DEF Sound
    <2> QED
      BY <1>0, <1>4, <2>1, <2>2, <2>3 DEF Rehome, TypeOK, storage
  <1>5. CASE NotifyDirty
    BY <1>0, <1>b, <1>5 DEF NotifyDirty, TypeOK, storage, clients
  <1>6. CASE Writes
    <2>1. CASE Wake \/ Slept \/ Saved
      BY <1>0, <2>1 DEF Wake, Slept, Saved, TypeOK, registry, clients
    <2>2. CASE WindowCloses
      BY <1>0, <2>2, BySessionSound DEF WindowCloses, TypeOK, registry, clients
    <2>3. ASSUME NEW b \in copied, SaveSession(b) PROVE TypeOK'
      <3>1. b.session \in Sessions /\ b.runs \in SUBSET Runs
        BY <1>0 DEF TypeOK, Batches
      <3> QED
        BY <1>0, <2>3, <3>1 DEF SaveSession, TypeOK, registry, clients
    <2> QED
      BY <1>6, <2>1, <2>2, <2>3 DEF Writes
  <1>7. ASSUME NEW b \in copied, SaveFails(b) PROVE TypeOK'
    <2>1. left' \in Lefts
      BY <1>0, <1>7, SpendType DEF SaveFails
    <2>2. file' \in [Sessions -> SUBSET Runs]
      BY <1>0, <1>7 DEF SaveFails, Damage, TypeOK
    <2>3. failed' \subseteq Sessions
      BY <1>0, <1>7 DEF SaveFails, TypeOK, Batches
    <2> QED
      BY <1>0, <1>7, <2>1, <2>2, <2>3 DEF SaveFails, TypeOK, registry, clients
  <1>8. ASSUME NEW s \in Sessions, Load(s) PROVE TypeOK'
    <2>1. left' \in Lefts
      BY <1>0, <1>8, SpendType DEF Load
    <2>2. [session |-> s, runs |-> file[s]] \in Batches
      BY <1>0 DEF TypeOK, Batches
    <2> QED
      BY <1>0, <1>8, <2>1, <2>2 DEF Load, TypeOK, registry, storage
  <1>9. ASSUME NEW s \in Sessions, LoadFails(s) PROVE TypeOK'
    <2>1. left' \in Lefts
      BY <1>0, <1>9, SpendType DEF LoadFails
    <2>2. [session |-> s, runs |-> {}] \in Batches
      BY DEF Batches
    <2>3. file' \in [Sessions -> SUBSET Runs]
      BY <1>0, <1>9 DEF LoadFails, Damage, TypeOK
    <2> QED
      BY <1>0, <1>9, <2>1, <2>2, <2>3 DEF LoadFails, TypeOK, registry
  <1>10. ASSUME NEW b \in loaded, Install(b) PROVE TypeOK'
    <2>1. b.session \in Sessions /\ Sound(b.runs) /\ Restorable(b) \subseteq b.runs
      BY <1>0 DEF TypeOK, Batches, StoreInv, SoundOf, Restorable
    <2>2. Sound(Restorable(b))
      BY <2>1, SoundSubset
    <2>3. counter' \in [{"dag", "goal"} -> Nat]
      BY <1>0, <1>10, <2>2, AlignedCounterBound DEF Install, TypeOK
    <2>4. owed' \in 0..MaxCalls
      BY <1>0, <1>c, <1>10 DEF Install, Changes, TypeOK
    <2>5. runs' \subseteq Runs
      BY <1>0, <1>10, <2>2 DEF Install, TypeOK, Sound
    <2> QED
      BY <1>0, <1>10, <2>1, <2>3, <2>4, <2>5 DEF Install, TypeOK, storage
  <1>11. CASE Shutdown
    <2>1. left' \in Lefts
      BY <1>0, <1>11, SpendType DEF Shutdown
    <2> QED
      BY <1>0, <1>11, <2>1, BySessionSound DEF Shutdown, TypeOK, registry, clients
  <1>12. ASSUME NEW b \in flushed, FlushSession(b) PROVE TypeOK'
    <2>1. b.session \in Sessions /\ b.runs \in SUBSET Runs
      BY <1>0 DEF TypeOK, Batches
    <2> QED
      BY <1>0, <1>12, <2>1 DEF FlushSession, TypeOK, registry, clients
  <1>13. ASSUME NEW b \in flushed, FlushFails(b) PROVE TypeOK'
    <2>1. left' \in Lefts
      BY <1>0, <1>13, SpendType DEF FlushFails
    <2>2. file' \in [Sessions -> SUBSET Runs]
      BY <1>0, <1>13 DEF FlushFails, Damage, TypeOK
    <2> QED
      BY <1>0, <1>13, <2>1, <2>2 DEF FlushFails, TypeOK, registry, clients
  <1>14. CASE AbortAll
    <2>1. inFlight' \subseteq 1..MaxPlans
      BY <1>0, <1>14 DEF AbortAll, StoreInv, Sound
    <2> QED
      BY <1>0, <1>14, <2>1 DEF AbortAll, TypeOK, registry, storage
  <1>15. CASE Exit \/ Crash
    <2>1. left' \in Lefts
      BY <1>0, <1>15, SpendType DEF Exit, Crash, TypeOK
    <2> QED
      <3>1. Stopped
        BY <1>15 DEF Exit, Crash
      <3>2. 0 \in 0..MaxCalls /\ 0 \in Nat
        BY <1>b
      <3>3. counter' \in [{"dag", "goal"} -> Nat]
        BY <3>1, <3>2 DEF Stopped
      <3> QED
        BY <1>0, <2>1, <3>1, <3>2, <3>3 DEF Stopped, TypeOK
  <1>16. CASE Boot
    BY <1>0, <1>16 DEF Boot, TypeOK, registry, storage, clients
  <1> QED
    BY <1>1, <1>2, <1>3, <1>4, <1>5, <1>6, <1>7, <1>8, <1>9, <1>10, <1>11,
       <1>12, <1>13, <1>14, <1>15, <1>16 DEF Next

\* Nothing is sound.
LEMMA SoundEmpty == \A s : SoundOf(s, {})
  BY FS_EmptySet DEF SoundOf, Sound

\* A file that is damaged is what it was, or empty.
LEMMA DamageView ==
  ASSUME TypeOK, NEW s \in Sessions, Damage(s)
  PROVE  \A t \in Sessions : \/ file'[t] = file[t]
                             \/ t = s /\ file'[t] = {}
  BY DEF Damage, TypeOK

\* What a restore adds to the registry.
LEMMA InstallView ==
  ASSUME TypeOK, StoreInv, NEW b \in loaded, Install(b)
  PROVE  /\ b.session \in Sessions
         /\ runs' = runs \cup Restorable(b)
         /\ Sound(Restorable(b)) /\ Sound(runs')
         /\ Restorable(b) \subseteq b.runs
         /\ \A p \in b.runs : p.session = b.session
         /\ counter["dag"] <= counter'["dag"]
         /\ \A p \in Restorable(b) : p.kind = "dag" => p.n <= counter'["dag"]
         /\ loaded' = loaded \ {b} /\ active' = active \cup {b.session}
         /\ UNCHANGED <<phase, permit, storage, mixed>>
  <1>1. /\ b.session \in Sessions /\ Sound(b.runs) /\ Restorable(b) \subseteq b.runs
        /\ \A p \in b.runs : p.session = b.session
    BY DEF TypeOK, Batches, StoreInv, SoundOf, Restorable
  <1>2. Sound(Restorable(b))
    BY <1>1, SoundSubset
  <1>3. Sound(runs \cup Restorable(b))
    <2>1. \A r \in runs, q \in Restorable(b) : ~SameId(r, q)
      BY DEF Restorable
    <2> QED
      BY <1>2, <2>1, SoundUnion DEF StoreInv
  <1>4. /\ counter["dag"] <= counter'["dag"]
        /\ \A p \in Restorable(b) : p.kind = "dag" => p.n <= counter'["dag"]
    BY <1>2, AlignedCounterBound DEF Install, TypeOK
  <1> QED
    BY <1>1, <1>2, <1>3, <1>4 DEF Install

\* The registry, the files and the copies stay sound.
LEMMA StoreInvStep ==
  ASSUME PersistInv, Next
  PROVE  StoreInv'
  <1>0. TypeOK /\ StoreInv
    BY DEF PersistInv
  <1> DEFINE Copies == copied \cup flushed \cup loaded
  <1>a. left'["plan"] <= left["plan"]
    <2>1. left' = left \/ \E w \in {"plan", "op", "load", "stop"} : Spend(w)
      BY Zenon DEF Next, Plan, Progress, Close, Reopen, Evict, Clear, ClearRun, Rehome,
           NotifyDirty, Writes, Wake, Slept, WindowCloses, SaveSession, Saved,
           SaveFails, Load, LoadFails, Install, Shutdown, FlushSession, FlushFails,
           AbortAll, Exit, Crash, Boot
    <2>2. left["plan"] <= left["plan"]
      BY <1>0 DEF TypeOK
    <2> QED
      BY <1>0, <2>1, <2>2, SpendType
  <1>b. left'["plan"] <= MaxPlans
    <2>1. left'["plan"] \in Nat /\ left["plan"] \in Nat /\ MaxPlans \in Nat
      BY <1>0, TypeOKStep, Bounds DEF TypeOK
    <2> QED
      BY <1>0, <1>a, <2>1 DEF StoreInv
  <1>c. ASSUME Sound(runs'), UNCHANGED <<file, copied, flushed>>, loaded' \subseteq loaded
        PROVE  StoreInv'
    BY <1>0, <1>b, <1>c DEF StoreInv
  <1>d. ASSUME UNCHANGED runs,
               \A s \in Sessions : SoundOf(s, file'[s]),
               \A b \in Copies' : SoundOf(b.session, b.runs)
        PROVE  StoreInv'
    BY <1>0, <1>b, <1>d DEF StoreInv
  <1>e. /\ \A s \in Sessions : SoundOf(s, file[s])
        /\ \A b \in Copies : SoundOf(b.session, b.runs)
    BY <1>0 DEF StoreInv
  <1>1. ASSUME NEW s \in Sessions, NEW k \in Kinds, Plan(s, k) PROVE StoreInv'
    <2>1. Sound(runs')
      BY <1>0, <1>1, PlanView, SoundAdd DEF StoreInv
    <2> QED
      BY <1>c, <1>1, <2>1 DEF Plan, storage, clients
  <1>2. ASSUME NEW r \in runs, Progress(r) \/ Close(r) \/ Reopen(r) PROVE StoreInv'
    <2>1. PICK q : Swaps(r, q)
      BY <1>0, <1>2, SwapView
    <2>2. Sound(runs')
      BY <1>0, <2>1, SoundSwap DEF Swaps, StoreInv
    <2> QED
      BY <1>c, <2>1, <2>2 DEF Swaps, Silent, storage, clients
  <1>3. CASE \/ \E s \in Sessions : Evict(s)
             \/ \E s \in Sessions : \E keep \in 0..MaxTerminal : Clear(s, keep)
             \/ \E r \in runs : ClearRun(r)
    <2>1. Drops
      BY <1>0, <1>3, DropView
    <2>2. Sound(runs')
      BY <1>0, <2>1, SoundSubset DEF Drops, StoreInv
    <2> QED
      BY <1>c, <2>1, <2>2 DEF Drops, Silent, storage, clients
  <1>4. ASSUME NEW from \in Sessions, NEW to \in Sessions, Rehome(from, to)
        PROVE  StoreInv'
    <2>1. Sound(runs')
      BY <1>0, <1>4, SoundRehome DEF Rehome, StoreInv
    <2> QED
      BY <1>c, <1>4, <2>1 DEF Rehome, storage
  <1>5. CASE NotifyDirty \/ Wake \/ Slept \/ Saved \/ AbortAll \/ Boot
    BY <1>d, <1>e, <1>5 DEF NotifyDirty, Wake, Slept, Saved, AbortAll, Boot,
         registry, storage, clients
  <1>6. CASE WindowCloses \/ Shutdown
    <2>1. UNCHANGED <<runs, file>> /\ Copies' \subseteq Copies \cup BySession
      BY <1>6 DEF WindowCloses, Shutdown, registry, clients
    <2>2. \A b \in Copies' : SoundOf(b.session, b.runs)
      BY <1>0, <1>e, <2>1, BySessionSound
    <2> QED
      BY <1>d, <1>e, <2>1, <2>2
  <1>7. ASSUME NEW b \in Copies, SaveSession(b) \/ FlushSession(b) PROVE StoreInv'
    <2>1. UNCHANGED runs /\ Copies' \subseteq Copies
          /\ file' = [file EXCEPT ![b.session] = b.runs]
      BY <1>7 DEF SaveSession, FlushSession, registry, clients
    <2>2. b.session \in Sessions
      BY <1>0 DEF TypeOK, Batches
    <2>3. \A s \in Sessions : file'[s] = IF s = b.session THEN b.runs ELSE file[s]
      BY <1>0, <2>1, <2>2 DEF TypeOK
    <2> QED
      BY <1>d, <1>e, <2>1, <2>3
  <1>8. ASSUME NEW b \in Copies, SaveFails(b) \/ FlushFails(b) PROVE StoreInv'
    <2>1. UNCHANGED runs /\ Copies' \subseteq Copies /\ Damage(b.session)
      BY <1>8 DEF SaveFails, FlushFails, registry, clients
    <2>2. b.session \in Sessions
      BY <1>0 DEF TypeOK, Batches
    <2>3. \A s \in Sessions : SoundOf(s, file'[s])
      BY <1>0, <1>e, <2>1, <2>2, DamageView, SoundEmpty
    <2> QED
      BY <1>d, <1>e, <2>1, <2>3
  <1>9. ASSUME NEW s \in Sessions, Load(s) PROVE StoreInv'
    <2>1. UNCHANGED <<runs, file>>
          /\ Copies' \subseteq Copies \cup {[session |-> s, runs |-> file[s]]}
      BY <1>9 DEF Load, registry, storage
    <2> QED
      BY <1>d, <1>e, <2>1
  <1>10. ASSUME NEW s \in Sessions, LoadFails(s) PROVE StoreInv'
    <2>1. UNCHANGED runs /\ Damage(s)
          /\ Copies' \subseteq Copies \cup {[session |-> s, runs |-> {}]}
      BY <1>10 DEF LoadFails, registry
    <2>2. \A t \in Sessions : SoundOf(t, file'[t])
      BY <1>0, <1>e, <2>1, DamageView, SoundEmpty
    <2>3. ASSUME NEW b \in Copies' PROVE SoundOf(b.session, b.runs)
      <3>1. CASE b \in Copies
        BY <1>e, <3>1
      <3>2. CASE b = [session |-> s, runs |-> {}]
        BY <3>2, SoundEmpty
      <3> QED
        BY <2>1, <3>1, <3>2
    <2> QED
      BY <1>d, <2>1, <2>2, <2>3
  <1>11. ASSUME NEW b \in loaded, Install(b) PROVE StoreInv'
    BY <1>0, <1>c, <1>11, InstallView DEF storage
  <1>12. CASE Exit \/ Crash
    <2>1. Stopped
      BY <1>12 DEF Exit, Crash
    <2>2. Sound(runs')
      BY <2>1, SoundEmpty DEF Stopped, SoundOf
    <2>3. copied' = {} /\ flushed' = {} /\ loaded' = {} /\ file' = file
      BY <2>1 DEF Stopped
    <2> QED
      BY <1>b, <1>e, <2>2, <2>3 DEF StoreInv
  <1> QED
    BY <1>1, <1>2, <1>3, <1>4, <1>5, <1>6, <1>7, <1>8, <1>9, <1>10, <1>11, <1>12
       DEF Next, Writes

\* The phases.
LEMMA PhaseInvStep ==
  ASSUME PersistInv, Next
  PROVE  PhaseInv'
  <1>0. TypeOK /\ PhaseInv /\ (phase = "down" => copied = {} /\ flushed = {})
    BY DEF PersistInv, PhaseInv
  <1>1. ASSUME NEW r \in runs, Progress(r) \/ Close(r) \/ Reopen(r) \/ ClearRun(r)
        PROVE  PhaseInv'
    BY <1>0, <1>1 DEF PhaseInv, Progress, Close, Reopen, ClearRun, storage
  <1>2. ASSUME NEW s \in Sessions,
               \/ \E k \in Kinds : Plan(s, k)
               \/ Evict(s)
               \/ \E keep \in 0..MaxTerminal : Clear(s, keep)
               \/ \E from \in Sessions : Rehome(from, s)
               \/ Load(s) \/ LoadFails(s)
        PROVE  PhaseInv'
    BY <1>0, <1>2 DEF PhaseInv, Plan, Evict, Clear, Rehome, Load, LoadFails,
         registry, storage, clients
  <1>3. ASSUME NEW b \in copied, SaveSession(b) \/ SaveFails(b) PROVE PhaseInv'
    BY <1>0, <1>3 DEF PhaseInv, SaveSession, SaveFails, registry, clients
  <1>4. ASSUME NEW b \in flushed, FlushSession(b) \/ FlushFails(b) PROVE PhaseInv'
    BY <1>0, <1>4 DEF PhaseInv, FlushSession, FlushFails, registry, clients
  <1>5. ASSUME NEW b \in loaded, Install(b) PROVE PhaseInv'
    BY <1>0, <1>5 DEF PhaseInv, Install, storage
  <1>6. CASE NotifyDirty \/ Wake \/ Slept \/ WindowCloses \/ Saved
    BY <1>0, <1>6 DEF PhaseInv, NotifyDirty, Wake, Slept, WindowCloses, Saved,
         registry, storage, clients
  <1>7. CASE Shutdown \/ AbortAll \/ Boot
    BY <1>0, <1>7 DEF PhaseInv, Shutdown, AbortAll, Boot, registry, storage, clients
  <1>8. CASE Exit \/ Crash
    BY <1>8 DEF PhaseInv, Exit, Crash, Stopped
  <1> QED
    BY <1>1, <1>2, <1>3, <1>4, <1>5, <1>6, <1>7, <1>8 DEF Next, Writes

\* The counter stays ahead of the registered dags.
LEMMA CounterInvStep ==
  ASSUME PersistInv, Next
  PROVE  CounterInv'
  <1>0. TypeOK /\ StoreInv /\ CounterInv /\ PhaseInv
    BY DEF PersistInv
  <1>a. \A r \in runs : r \in Runs /\ r.n \in Nat
    BY <1>0 DEF TypeOK, Runs
  <1>b. counter["dag"] \in Nat
    BY <1>0 DEF TypeOK
  <1>1. ASSUME NEW s \in Sessions, NEW k \in Kinds, Plan(s, k) PROVE CounterInv'
    <2>1. k \in {"dag", "goal"}
      BY Bounds
    <2>2. counter["dag"] <= counter'["dag"]
          /\ (k = "dag" => counter'["dag"] = counter["dag"] + 1)
      BY <1>0, <1>1, <2>1, PlanView DEF TypeOK
    <2>3. counter'["dag"] \in Nat
      BY TypeOKStep DEF TypeOK
    <2>4. ASSUME NEW r \in runs', r.kind = "dag" PROVE r.n <= counter'["dag"]
      <3>1. CASE r \in runs
        BY <1>0, <1>a, <1>b, <2>2, <2>3, <2>4, <3>1 DEF CounterInv
      <3>2. CASE r = NewRun(s, k)
        BY <1>0, <1>1, <1>b, <2>2, <2>3, <2>4, <3>2, PlanView
      <3> QED
        BY <1>0, <1>1, <3>1, <3>2, PlanView
    <2> QED
      BY <2>4 DEF CounterInv
  <1>2. ASSUME NEW r \in runs, Progress(r) \/ Close(r) \/ Reopen(r) PROVE CounterInv'
    <2>1. PICK q : Swaps(r, q)
      BY <1>0, <1>2, SwapView
    <2> QED
      BY <1>0, <2>1 DEF Swaps, Keeps, Silent, CounterInv
  <1>3. CASE \/ \E s \in Sessions : Evict(s)
             \/ \E s \in Sessions : \E keep \in 0..MaxTerminal : Clear(s, keep)
             \/ \E r \in runs : ClearRun(r)
    <2>1. Drops
      BY <1>0, <1>3, DropView
    <2> QED
      BY <1>0, <2>1 DEF Drops, Silent, CounterInv
  <1>4. ASSUME NEW from \in Sessions, NEW to \in Sessions, Rehome(from, to)
        PROVE  CounterInv'
    <2>1. ASSUME NEW r \in runs' PROVE \E p \in runs : p.kind = r.kind /\ p.n = r.n
      BY <1>a, <1>4 DEF Rehome, Runs
    <2> QED
      BY <1>0, <1>4, <2>1 DEF Rehome, CounterInv
  <1>5. ASSUME NEW b \in loaded, Install(b) PROVE CounterInv'
    <2>1. counter'["dag"] \in Nat
      BY TypeOKStep DEF TypeOK
    <2>2. ASSUME NEW r \in runs, r.kind = "dag" PROVE r.n <= counter'["dag"]
      BY <1>0, <1>a, <1>b, <1>5, <2>1, <2>2, InstallView DEF CounterInv
    <2> QED
      BY <1>0, <1>5, <2>2, InstallView DEF CounterInv
  <1>6. CASE UNCHANGED <<runs, counter>>
    BY <1>0, <1>6 DEF CounterInv
  <1>7. CASE Exit \/ Crash
    BY <1>7 DEF Exit, Crash, Stopped, CounterInv
  <1>8. CASE \/ NotifyDirty \/ Writes \/ (\E b \in copied : SaveFails(b))
             \/ (\E s \in Sessions : Load(s) \/ LoadFails(s)) \/ Shutdown
             \/ (\E b \in flushed : FlushSession(b) \/ FlushFails(b))
             \/ AbortAll \/ Boot
    <2>1. UNCHANGED <<runs, counter>>
      BY <1>8 DEF NotifyDirty, Writes, Wake, Slept, WindowCloses, SaveSession, Saved,
           SaveFails, Load, LoadFails, Shutdown, FlushSession, FlushFails, AbortAll,
           Boot, registry
    <2> QED
      BY <1>6, <2>1
  <1> QED
    BY <1>1, <1>2, <1>3, <1>4, <1>5, <1>7, <1>8 DEF Next

\* Sessions that are not activated are left alone.
LEMMA SessionsInvStep ==
  ASSUME PersistInv, Next
  PROVE  SessionsInv'
  <1>0. TypeOK /\ StoreInv /\ PhaseInv /\ SessionsInv
    BY DEF PersistInv
  <1>a. /\ \A r \in runs : r.session \in active
        /\ \A b \in copied \cup flushed : b.session \in active
        /\ \A b, c \in loaded : b.session = c.session => b = c
        /\ \A b \in loaded : b.session \notin active \cup mixed
                                => file[b.session] \subseteq b.runs
    BY <1>0 DEF SessionsInv
  <1>s. \A b \in copied \cup flushed \cup loaded : b.session \in Sessions
    BY <1>0 DEF TypeOK, Batches
  <1>b. ASSUME \A r \in runs' : r.session \in active,
               UNCHANGED <<copied, flushed, loaded, active, file>>,
               mixed \subseteq mixed'
        PROVE  SessionsInv'
    BY <1>a, <1>b DEF SessionsInv
  <1>1. ASSUME NEW s \in Sessions, NEW k \in Kinds, Plan(s, k) PROVE SessionsInv'
    <2>1. \A r \in runs' : r.session \in active
      BY <1>0, <1>1, <1>a, PlanView
    <2> QED
      BY <1>b, <1>1, <2>1 DEF Plan, storage, clients
  <1>2. ASSUME NEW r \in runs, Progress(r) \/ Close(r) \/ Reopen(r) PROVE SessionsInv'
    <2>1. PICK q : Swaps(r, q)
      BY <1>0, <1>2, SwapView
    <2>2. \A p \in runs' : p.session \in active
      BY <1>a, <2>1 DEF Swaps, Keeps
    <2> QED
      BY <1>b, <2>1, <2>2 DEF Swaps, Silent, storage, clients
  <1>3. CASE \/ \E s \in Sessions : Evict(s)
             \/ \E s \in Sessions : \E keep \in 0..MaxTerminal : Clear(s, keep)
             \/ \E r \in runs : ClearRun(r)
    <2>1. Drops
      BY <1>0, <1>3, DropView
    <2> QED
      BY <1>a, <1>b, <2>1 DEF Drops, Silent, storage, clients
  <1>4. ASSUME NEW from \in Sessions, NEW to \in Sessions, Rehome(from, to)
        PROVE  SessionsInv'
    <2>1. ASSUME NEW r \in runs' PROVE r.session \in active
      <3>1. PICK p \in runs :
               r = IF p.session = from THEN [p EXCEPT !.session = to] ELSE p
        BY <1>4 DEF Rehome
      <3>2. p \in Runs
        BY <1>0 DEF TypeOK
      <3>3. r.session = to \/ r.session = p.session
        BY <3>1, <3>2 DEF Runs
      <3> QED
        BY <1>4, <1>a, <3>3 DEF Rehome
    <2> QED
      BY <1>b, <1>4, <2>1 DEF Rehome, storage
  <1>5. CASE NotifyDirty \/ Wake \/ Slept \/ Saved \/ AbortAll \/ Boot
    BY <1>a, <1>b, <1>5 DEF NotifyDirty, Wake, Slept, Saved, AbortAll, Boot,
         registry, storage, clients
  <1>6. CASE WindowCloses \/ Shutdown
    <2>1. UNCHANGED <<runs, file, loaded, active, mixed>>
          /\ copied' \cup flushed' \subseteq copied \cup flushed \cup BySession
      BY <1>6 DEF WindowCloses, Shutdown, registry, clients
    <2>2. \A b \in BySession : b.session \in active
      BY <1>0, <1>a, BySessionSound
    <2> QED
      BY <1>a, <2>1, <2>2 DEF SessionsInv
  <1>7. ASSUME NEW b \in copied \cup flushed, SaveSession(b) \/ FlushSession(b)
        PROVE  SessionsInv'
    <2>1. UNCHANGED <<runs, loaded, active, mixed>>
          /\ copied' \cup flushed' \subseteq copied \cup flushed
          /\ file' = [file EXCEPT ![b.session] = b.runs]
      BY <1>7 DEF SaveSession, FlushSession, registry, clients
    <2>2. \A s \in Sessions : s \notin active => file'[s] = file[s]
      BY <1>0, <1>a, <2>1 DEF TypeOK
    <2> QED
      BY <1>a, <1>s, <2>1, <2>2 DEF SessionsInv
  <1>8. ASSUME NEW b \in copied \cup flushed, SaveFails(b) \/ FlushFails(b)
        PROVE  SessionsInv'
    <2>1. UNCHANGED <<runs, loaded, active, mixed>>
          /\ copied' \cup flushed' \subseteq copied \cup flushed
          /\ Damage(b.session)
      BY <1>8 DEF SaveFails, FlushFails, registry, clients
    <2>2. \A s \in Sessions : s \notin active => file'[s] = file[s]
      BY <1>0, <1>a, <1>s, <2>1, DamageView
    <2> QED
      BY <1>a, <1>s, <2>1, <2>2 DEF SessionsInv
  <1>9. ASSUME NEW s \in Sessions, Load(s) PROVE SessionsInv'
    <2> DEFINE c == [session |-> s, runs |-> file[s]]
    <2>1. UNCHANGED <<runs, copied, flushed, file, active, mixed>>
          /\ loaded' = loaded \cup {c} /\ \A b \in loaded : b.session # s
      BY <1>9 DEF Load, registry, storage
    <2>2. c.session = s /\ c.runs = file[s]
      OBVIOUS
    <2> HIDE DEF c
    <2> QED
      BY <1>a, <2>1, <2>2 DEF SessionsInv
  <1>10. ASSUME NEW s \in Sessions, LoadFails(s) PROVE SessionsInv'
    <2> DEFINE c == [session |-> s, runs |-> {}]
    <2>1. UNCHANGED <<runs, copied, flushed, active>> /\ Damage(s)
          /\ loaded' = loaded \cup {c} /\ (\A b \in loaded : b.session # s)
          /\ mixed' = mixed \cup {s}
      BY <1>10 DEF LoadFails, registry
    <2>2. c.session = s
      OBVIOUS
    <2>3. \A t \in Sessions : t # s => file'[t] = file[t]
      BY <1>0, <2>1, DamageView
    <2> HIDE DEF c
    <2> QED
      BY <1>a, <1>s, <2>1, <2>2, <2>3 DEF SessionsInv
  <1>11. ASSUME NEW b \in loaded, Install(b) PROVE SessionsInv'
    <2>1. UNCHANGED <<copied, flushed, file, mixed>> /\ loaded' = loaded \ {b}
          /\ active' = active \cup {b.session}
          /\ \A r \in runs' : r \in runs \/ r.session = b.session
      BY <1>0, <1>11, InstallView DEF storage
    <2> QED
      BY <1>a, <2>1 DEF SessionsInv
  <1>12. CASE Exit \/ Crash
    BY <1>12 DEF Exit, Crash, Stopped, SessionsInv
  <1> QED
    BY <1>1, <1>2, <1>3, <1>4, <1>5, <1>6, <1>7, <1>8, <1>9, <1>10, <1>11, <1>12
       DEF Next, Writes

\* What is owed to the files.
LEMMA SaveInvStep ==
  ASSUME PersistInv, Next
  PROVE  SaveInv'
  <1>0. TypeOK /\ StoreInv /\ PhaseInv /\ SaveInv
    BY DEF PersistInv
  <1>a. owed \in Nat
    BY <1>0, Bounds DEF TypeOK
  <1>b. \A b \in copied : b.session \in Sessions /\ b.runs \in SUBSET Runs
    BY <1>0 DEF TypeOK, Batches
  <1>c. ASSUME owed' = owed + 1 PROVE SaveInv'
    BY <1>a, <1>c DEF SaveInv
  <1>d. ASSUME UNCHANGED <<phase, runs, owed, permit, writer, copied, failed, file>>
        PROVE  SaveInv'
    BY <1>0, <1>d DEF SaveInv, LiveOf, Unsaved
  <1>1. ASSUME NEW s \in Sessions, NEW k \in Kinds, Plan(s, k) PROVE SaveInv'
    BY <1>c, <1>1 DEF Plan, Changes
  <1>2. ASSUME NEW r \in runs, Progress(r) \/ Close(r) \/ Reopen(r) PROVE SaveInv'
    BY <1>c, <1>2 DEF Progress, Close, Reopen, Changes
  <1>3. CASE \/ \E s \in Sessions : Evict(s)
             \/ \E s \in Sessions : \E keep \in 0..MaxTerminal : Clear(s, keep)
             \/ \E r \in runs : ClearRun(r)
    <2>1. Drops
      BY <1>0, <1>3, DropView
    <2> QED
      BY <1>c, <1>d, <2>1 DEF Drops, Silent, storage
  <1>4. ASSUME NEW from \in Sessions, NEW to \in Sessions, Rehome(from, to)
        PROVE  SaveInv'
    BY <1>c, <1>4 DEF Rehome, Changes
  <1>5. CASE NotifyDirty \/ Wake \/ Slept
    BY <1>5 DEF NotifyDirty, Wake, Slept, SaveInv
  <1>6. CASE WindowCloses
    <2>1. copied' = BySession /\ UNCHANGED <<runs, file, failed>>
      BY <1>6 DEF WindowCloses, registry
    <2> QED
      BY <1>0, <2>1, BySessionSound DEF SaveInv, LiveOf, Unsaved
  <1>7. ASSUME NEW b \in copied, SaveSession(b) PROVE SaveInv'
    <2>1. /\ copied' = copied \ {b}
          /\ file' = [file EXCEPT ![b.session] = b.runs]
          /\ failed' = failed \ {b.session}
          /\ UNCHANGED <<phase, runs, owed, permit, writer>>
      BY <1>7 DEF SaveSession, registry
    <2> SUFFICES ASSUME phase = "up", owed = 0, ~permit, writer \in {"idle", "save"}
                 PROVE  /\ \A c \in copied' : c.runs = LiveOf(c.session)
                        /\ \A s \in Sessions \ failed' :
                             Unsaved(s)' => \E c \in copied' : c.session = s
      BY <2>1 DEF SaveInv, LiveOf
    <2>2. /\ \A c \in copied : c.runs = LiveOf(c.session)
          /\ \A s \in Sessions \ failed :
               Unsaved(s) => \E c \in copied : c.session = s
      BY <1>0 DEF SaveInv
    <2>3. ASSUME NEW s \in Sessions \ failed', Unsaved(s)'
          PROVE  \E c \in copied' : c.session = s
      <3>1. CASE s = b.session
        <4>1. file'[s] = LiveOf(s)
          BY <1>0, <2>1, <2>2, <3>1 DEF TypeOK
        <4> QED
          BY <2>1, <2>3, <4>1 DEF Unsaved, LiveOf
      <3>2. CASE s # b.session
        <4>1. s \notin failed /\ file'[s] = file[s]
          BY <1>0, <1>b, <2>1, <3>2 DEF TypeOK
        <4>2. Unsaved(s)
          BY <2>1, <2>3, <4>1 DEF Unsaved, LiveOf
        <4> QED
          BY <2>1, <2>2, <3>2, <4>1, <4>2
      <3> QED
        BY <3>1, <3>2
    <2> QED
      BY <2>1, <2>2, <2>3
  <1>8. CASE Saved
    <2>1. UNCHANGED <<phase, runs, owed, permit, copied, failed, file>>
          /\ writer = "save"
      BY <1>8 DEF Saved, registry
    <2> QED
      BY <1>0, <2>1 DEF SaveInv, LiveOf, Unsaved
  <1>9. ASSUME NEW b \in copied, SaveFails(b) PROVE SaveInv'
    <2>1. /\ copied' = {} /\ Damage(b.session)
          /\ failed' = failed \cup {c.session : c \in copied}
          /\ UNCHANGED <<phase, runs, owed, permit>>
      BY <1>9 DEF SaveFails, registry
    <2>2. writer = "save"
      BY <1>0 DEF PhaseInv
    <2>3. ASSUME phase = "up", owed = 0, ~permit, NEW s \in Sessions \ failed'
          PROVE  ~Unsaved(s)'
      <3>1. s \notin failed /\ ~ \E c \in copied : c.session = s
        BY <2>1
      <3>2. ~Unsaved(s)
        BY <1>0, <2>2, <2>3, <3>1 DEF SaveInv
      <3>3. file'[s] = file[s]
        BY <1>0, <1>b, <2>1, <3>1, DamageView
      <3> QED
        BY <2>1, <3>2, <3>3 DEF Unsaved, LiveOf
    <2> QED
      BY <2>1, <2>3 DEF SaveInv
  <1>10. ASSUME NEW s \in Sessions, Load(s) PROVE SaveInv'
    BY <1>d, <1>10 DEF Load, registry, storage
  <1>11. ASSUME NEW s \in Sessions, LoadFails(s) PROVE SaveInv'
    <2>1. UNCHANGED <<phase, runs, owed, permit, writer, copied>> /\ Damage(s)
          /\ failed' = failed \cup {s}
      BY <1>11 DEF LoadFails, registry
    <2>2. \A t \in Sessions \ failed' : file'[t] = file[t]
      BY <1>0, <2>1, DamageView
    <2> QED
      BY <1>0, <2>1, <2>2 DEF SaveInv, LiveOf, Unsaved
  <1>12. ASSUME NEW b \in loaded, Install(b) PROVE SaveInv'
    <2>1. CASE Restorable(b) = {}
      <3>1. UNCHANGED <<phase, runs, owed, permit, writer, copied, failed, file>>
        BY <1>12, <2>1 DEF Install, storage
      <3> QED
        BY <1>d, <3>1
    <2>2. CASE Restorable(b) # {}
      BY <1>c, <1>12, <2>2 DEF Install, Changes
    <2> QED
      BY <2>1, <2>2
  <1>13. CASE \/ Shutdown \/ AbortAll \/ Exit \/ Crash
    BY <1>13 DEF Shutdown, AbortAll, Exit, Crash, Stopped, SaveInv
  <1>14. ASSUME NEW b \in flushed, FlushSession(b) \/ FlushFails(b) PROVE SaveInv'
    BY <1>0, <1>14 DEF FlushSession, FlushFails, PhaseInv, SaveInv
  <1>15. CASE Boot
    BY <1>0, <1>15 DEF Boot, PhaseInv, SaveInv, Unsaved, LiveOf, registry, storage
  <1> QED
    BY <1>1, <1>2, <1>3, <1>4, <1>5, <1>6, <1>7, <1>8, <1>9, <1>10, <1>11, <1>12,
       <1>13, <1>14, <1>15 DEF Next, Writes

\* Where a dag of s is recorded.
LEMMA RecordedWhere ==
  \A s : \A p : p \in Recorded(s) <=>
    /\ p.session = s /\ p.kind = "dag"
    /\ \/ p \in runs
       \/ p \in file[s]
       \/ \E b \in copied \cup flushed \cup loaded : b.session = s /\ p \in b.runs
  BY DEF Recorded

\* An id keeps its meaning.
LEMMA AgreeInvStep ==
  ASSUME PersistInv, Next
  PROVE  AgreeInv'
  <1>0. TypeOK /\ StoreInv /\ PhaseInv /\ CounterInv /\ SessionsInv /\ AgreeInv
    BY DEF PersistInv
  <1>t. counter["dag"] \in Nat /\ counter'["dag"] \in Nat
    BY <1>0, TypeOKStep DEF TypeOK
  <1>n. \A s \in Sessions : \A p \in Recorded(s) : p \in Runs /\ p.n \in Nat
    BY <1>0, RecordedWhere DEF TypeOK, Batches, Runs
  <1>a. ASSUME NEW s \in Sessions, s \in active \ mixed, Recorded(s)' \subseteq Recorded(s),
               counter["dag"] <= counter'["dag"]
        PROVE  Agrees(s)'
    BY <1>0, <1>t, <1>n, <1>a DEF AgreeInv, Agrees
  <1>b. ASSUME active' \subseteq active, mixed \subseteq mixed',
               counter["dag"] <= counter'["dag"],
               \A s \in active' \ mixed' : Recorded(s)' \subseteq Recorded(s)
        PROVE  AgreeInv'
    <2>1. active \subseteq Sessions
      BY <1>0 DEF TypeOK
    <2> QED
      BY <1>a, <1>b, <2>1 DEF AgreeInv
  <1>c. counter["dag"] <= counter["dag"]
    BY <1>t
  <1>s. /\ active \subseteq Sessions
        /\ \A b \in copied \cup flushed \cup loaded : b.session \in Sessions
    BY <1>0 DEF TypeOK, Batches
  <1>1. ASSUME NEW s \in Sessions, NEW k \in Kinds, Plan(s, k) PROVE AgreeInv'
    <2> DEFINE new == NewRun(s, k)
    <2>1. /\ new \in Runs /\ new.kind = k /\ new.session = s
          /\ new.n = counter[k] + 1
          /\ runs' = {r \in runs : ~SameId(r, new)} \cup {new}
          /\ counter' = [counter EXCEPT ![k] = counter[k] + 1]
          /\ UNCHANGED <<file, copied, flushed, loaded, active, mixed>>
      BY <1>0, <1>1, PlanView DEF storage, clients
    <2> HIDE DEF new
    <2>2. counter["dag"] <= counter'["dag"]
      BY <1>0, <2>1, Bounds DEF TypeOK
    <2>3. ASSUME NEW t \in active \ mixed PROVE Agrees(t)'
      <3>1. Recorded(t)' \subseteq Recorded(t) \cup {p \in {new} : p.session = t /\ p.kind = "dag"}
        BY <2>1 DEF Recorded
      <3>2. CASE t = s /\ k = "dag"
        <4>1. \A p \in Recorded(t) : p.n <= counter["dag"] /\ p.n \in Nat
          BY <1>0, <1>n, <1>s DEF AgreeInv, Agrees
        <4>2. new.n = counter["dag"] + 1 /\ counter'["dag"] = counter["dag"] + 1
          BY <1>0, <2>1, <3>2 DEF TypeOK
        <4>3. \A p \in Recorded(t) : ~SameId(p, new) /\ ~SameId(new, p)
          BY <1>t, <4>1, <4>2 DEF SameId
        <4>4. \A p, q \in Recorded(t) : SameId(p, q) => p.uid = q.uid
          BY <1>0 DEF AgreeInv, Agrees
        <4>5. \A p \in Recorded(t) \cup {new} : p.n <= counter'["dag"]
          BY <1>t, <4>1, <4>2
        <4> QED
          BY <3>1, <4>3, <4>4, <4>5 DEF Agrees
      <3>3. CASE ~(t = s /\ k = "dag")
        <4>1. Recorded(t)' \subseteq Recorded(t)
          BY <2>1, <3>1, <3>3
        <4> QED
          BY <1>a, <1>s, <2>2, <4>1
      <3> QED
        BY <3>2, <3>3
    <2> QED
      BY <2>1, <2>3 DEF AgreeInv
  <1>2. ASSUME NEW r \in runs, Progress(r) \/ Close(r) \/ Reopen(r) PROVE AgreeInv'
    <2>1. PICK q : Swaps(r, q)
      BY <1>0, <1>2, SwapView
    <2>2. /\ q.kind = r.kind /\ q.n = r.n /\ q.session = r.session /\ q.uid = r.uid
          /\ runs' = (runs \ {r}) \cup {q}
          /\ UNCHANGED <<counter, file, copied, flushed, loaded, active, mixed>>
      BY <2>1 DEF Swaps, Keeps, Silent, storage, clients
    <2>3. ASSUME NEW t \in active \ mixed PROVE Agrees(t)'
      <3>1. ASSUME NEW p \in Recorded(t)'
            PROVE  \E o \in Recorded(t) : SameId(o, p) /\ o.uid = p.uid /\ o.n = p.n
        <4>1. CASE p \in Recorded(t)
          BY <4>1 DEF SameId
        <4>2. CASE p = q
          <5>1. r \in Recorded(t)
            BY <2>2, <3>1, <4>2 DEF Recorded
          <5> QED
            BY <2>2, <4>2, <5>1 DEF SameId
        <4> QED
          BY <2>2, <3>1, <4>1, <4>2 DEF Recorded
      <3>2. Agrees(t)
        BY <1>0 DEF AgreeInv
      <3> QED
        BY <2>2, <3>1, <3>2 DEF Agrees, SameId
    <2> QED
      BY <2>2, <2>3 DEF AgreeInv
  <1>3. CASE \/ \E s \in Sessions : Evict(s)
             \/ \E s \in Sessions : \E keep \in 0..MaxTerminal : Clear(s, keep)
             \/ \E r \in runs : ClearRun(r)
    <2>1. Drops
      BY <1>0, <1>3, DropView
    <2>2. /\ runs' \subseteq runs
          /\ UNCHANGED <<counter, file, copied, flushed, loaded, active, mixed>>
      BY <2>1 DEF Drops, Silent, storage, clients
    <2>3. \A s : Recorded(s)' \subseteq Recorded(s)
      BY <2>2 DEF Recorded
    <2> QED
      BY <1>b, <1>c, <2>2, <2>3
  <1>4. ASSUME NEW from \in Sessions, NEW to \in Sessions, Rehome(from, to)
        PROVE  AgreeInv'
    <2>1. /\ mixed' = mixed \cup {to}
          /\ UNCHANGED <<counter, file, copied, flushed, loaded, active>>
      BY <1>4 DEF Rehome, storage
    <2>2. ASSUME NEW r \in runs', r \notin runs PROVE r.session = to
      BY <1>0, <1>4, <2>2 DEF Rehome, TypeOK, Runs
    <2>3. \A s \in active' \ mixed' : Recorded(s)' \subseteq Recorded(s)
      BY <2>1, <2>2 DEF Recorded
    <2> QED
      BY <1>b, <1>c, <2>1, <2>3
  <1>5. CASE NotifyDirty \/ Wake \/ Slept \/ Saved \/ AbortAll \/ Boot
    <2>1. UNCHANGED <<runs, counter, file, copied, flushed, loaded, active, mixed>>
      BY <1>5 DEF NotifyDirty, Wake, Slept, Saved, AbortAll, Boot, registry, storage,
                  clients
    <2>2. \A s : Recorded(s)' = Recorded(s)
      BY <2>1 DEF Recorded
    <2> QED
      BY <1>b, <1>c, <2>1, <2>2
  <1>6. CASE WindowCloses \/ Shutdown
    <2>1. UNCHANGED <<runs, counter, file, loaded, active, mixed>>
          /\ copied' \cup flushed' \subseteq copied \cup flushed \cup BySession
      BY <1>6 DEF WindowCloses, Shutdown, registry, clients
    <2>2. \A b \in BySession : b.runs \subseteq runs
      BY <1>0, BySessionSound
    <2>3. \A s : Recorded(s)' \subseteq Recorded(s)
      BY <2>1, <2>2 DEF Recorded
    <2> QED
      BY <1>b, <1>c, <2>1, <2>3
  <1>7. ASSUME NEW b \in copied \cup flushed, SaveSession(b) \/ FlushSession(b)
        PROVE  AgreeInv'
    <2>1. UNCHANGED <<runs, counter, loaded, active, mixed>>
          /\ copied' \cup flushed' \subseteq copied \cup flushed
          /\ file' = [file EXCEPT ![b.session] = b.runs]
      BY <1>7 DEF SaveSession, FlushSession, registry, clients
    <2>2. \A s \in Sessions : file'[s] = IF s = b.session THEN b.runs ELSE file[s]
      BY <1>0, <2>1 DEF TypeOK
    <2>3. \A s \in Sessions : Recorded(s)' \subseteq Recorded(s)
      BY <2>1, <2>2 DEF Recorded
    <2> QED
      BY <1>b, <1>c, <1>s, <2>1, <2>3
  <1>8. ASSUME NEW b \in copied \cup flushed, SaveFails(b) \/ FlushFails(b)
        PROVE  AgreeInv'
    <2>1. UNCHANGED <<runs, counter, loaded, active, mixed>>
          /\ copied' \cup flushed' \subseteq copied \cup flushed
          /\ Damage(b.session)
      BY <1>8 DEF SaveFails, FlushFails, registry, clients
    <2>2. \A s \in Sessions : file'[s] \subseteq file[s]
      BY <1>0, <1>s, <2>1, DamageView
    <2>3. \A s \in Sessions : Recorded(s)' \subseteq Recorded(s)
      BY <2>1, <2>2 DEF Recorded
    <2> QED
      BY <1>b, <1>c, <1>s, <2>1, <2>3
  <1>9. ASSUME NEW s \in Sessions, Load(s) PROVE AgreeInv'
    <2> DEFINE c == [session |-> s, runs |-> file[s]]
    <2>1. UNCHANGED <<runs, counter, copied, flushed, file, active, mixed>>
          /\ loaded' = loaded \cup {c} /\ c.session = s /\ c.runs = file[s]
      BY <1>9 DEF Load, registry, storage
    <2> HIDE DEF c
    <2>2. \A t : Recorded(t)' \subseteq Recorded(t)
      BY <2>1 DEF Recorded
    <2> QED
      BY <1>b, <1>c, <2>1, <2>2
  <1>10. ASSUME NEW s \in Sessions, LoadFails(s) PROVE AgreeInv'
    <2> DEFINE c == [session |-> s, runs |-> {}]
    <2>1. UNCHANGED <<runs, counter, copied, flushed, active>> /\ Damage(s)
          /\ loaded' = loaded \cup {c} /\ c.runs = {} /\ mixed' = mixed \cup {s}
      BY <1>10 DEF LoadFails, registry
    <2> HIDE DEF c
    <2>2. \A t \in Sessions : file'[t] \subseteq file[t]
      BY <1>0, <2>1, DamageView
    <2>3. \A t \in Sessions : Recorded(t)' \subseteq Recorded(t)
      BY <2>1, <2>2 DEF Recorded
    <2> QED
      BY <1>b, <1>c, <1>s, <2>1, <2>3
  <1>11. ASSUME NEW b \in loaded, Install(b) PROVE AgreeInv'
    <2> DEFINE s == b.session
    <2>1. /\ UNCHANGED <<copied, flushed, file, mixed>> /\ loaded' = loaded \ {b}
          /\ active' = active \cup {s}
          /\ runs' = runs \cup Restorable(b)
          /\ Restorable(b) \subseteq b.runs
          /\ \A p \in b.runs : p.session = s
          /\ counter["dag"] <= counter'["dag"]
          /\ \A p \in Restorable(b) : p.kind = "dag" => p.n <= counter'["dag"]
      BY <1>0, <1>11, InstallView DEF storage
    <2>2. ASSUME NEW t \in active \ mixed PROVE Agrees(t)'
      <3>1. Recorded(t)' \subseteq Recorded(t)
        BY <2>1 DEF Recorded
      <3> QED
        BY <1>a, <1>s, <2>1, <3>1
    <2>3. CASE s \notin active \cup mixed
      <3>1. Recorded(s)' \subseteq {p \in b.runs : p.kind = "dag"}
        BY <1>0, <2>1, <2>3 DEF Recorded, SessionsInv
      <3>2. ASSUME NEW p \in b.runs, p.kind = "dag" PROVE p.n <= counter'["dag"]
        <4>1. CASE p \in Restorable(b)
          BY <2>1, <3>2, <4>1
        <4>2. CASE p \notin Restorable(b)
          <5>1. PICK r \in runs : SameId(r, p)
            BY <4>2 DEF Restorable
          <5>2. r.n \in Nat /\ r.n <= counter["dag"] /\ r.n = p.n
            BY <1>0, <3>2, <5>1 DEF CounterInv, SameId, TypeOK, Runs
          <5> QED
            BY <1>t, <2>1, <5>2
        <4> QED
          BY <4>1, <4>2
      <3>3. \A p, q \in b.runs : SameId(p, q) => p.uid = q.uid
        BY <1>0 DEF StoreInv, SoundOf, Sound
      <3>4. Agrees(s)'
        BY <3>1, <3>2, <3>3 DEF Agrees
      <3> QED
        BY <2>1, <2>2, <3>4 DEF AgreeInv
    <2>4. CASE s \in active \cup mixed
      BY <2>1, <2>2, <2>4 DEF AgreeInv
    <2> QED
      BY <2>3, <2>4
  <1>12. CASE Exit \/ Crash
    BY <1>12 DEF Exit, Crash, Stopped, AgreeInv
  <1> QED
    BY <1>1, <1>2, <1>3, <1>4, <1>5, <1>6, <1>7, <1>8, <1>9, <1>10, <1>11, <1>12
       DEF Next, Writes

\* The invariant holds of a daemon that has just been installed.
LEMMA PersistInvInit == Init => PersistInv
  <1> SUFFICES ASSUME Init PROVE PersistInv
    OBVIOUS
  <1>1. TypeOK
    <2>1. 0 \in 0..MaxCalls /\ 0 \in Nat
      BY Bounds
    <2>2. /\ counter \in [{"dag", "goal"} -> Nat]
          /\ left \in [{"plan", "op", "load", "stop"} -> Nat]
          /\ file \in [Sessions -> SUBSET Runs]
      BY <2>1, Bounds DEF Init
    <2> QED
      BY <2>1, <2>2 DEF Init, TypeOK
  <1>2. StoreInv
    <2>1. left["plan"] <= MaxPlans
      BY Bounds DEF Init
    <2>2. Sound(runs) /\ \A s \in Sessions : SoundOf(s, file[s])
      BY SoundEmpty DEF Init, SoundOf
    <2> QED
      BY <2>1, <2>2 DEF Init, StoreInv
  <1>3. PhaseInv /\ CounterInv /\ SessionsInv /\ AgreeInv
    BY DEF Init, PhaseInv, CounterInv, SessionsInv, AgreeInv
  <1>4. SaveInv
    BY DEF Init, SaveInv, Unsaved
  <1> QED
    BY <1>1, <1>2, <1>3, <1>4 DEF PersistInv

\* It is inductive.
LEMMA PersistInvStep == PersistInv /\ [Next]_vars => PersistInv'
  <1> SUFFICES ASSUME PersistInv, [Next]_vars PROVE PersistInv'
    OBVIOUS
  <1>1. CASE Next
    BY <1>1, TypeOKStep, StoreInvStep, PhaseInvStep, CounterInvStep,
       SessionsInvStep, AgreeInvStep, SaveInvStep DEF PersistInv
  <1>2. CASE UNCHANGED vars
    <2>1. TypeOK' /\ StoreInv' /\ PhaseInv'
      BY <1>2 DEF PersistInv, TypeOK, StoreInv, PhaseInv, vars
    <2>2. CounterInv' /\ SessionsInv'
      BY <1>2 DEF PersistInv, CounterInv, SessionsInv, vars
    <2>3. AgreeInv'
      BY <1>2 DEF PersistInv, AgreeInv, Agrees, Recorded, vars
    <2>4. SaveInv'
      BY <1>2 DEF PersistInv, SaveInv, Unsaved, LiveOf, vars
    <2> QED
      BY <2>1, <2>2, <2>3, <2>4 DEF PersistInv
  <1> QED
    BY <1>1, <1>2

\* A live dag stays registered while the process lives.
LiveRunsStayStep ==
  (phase # "down" /\ phase' # "down") =>
     \A r \in runs : (r.live /\ r.kind = "dag") => \E q \in runs' : q.uid = r.uid

\* Only finish, clear or a crash takes a live dag out of the registry, and the
\* first two find it no longer live.
LEMMA LiveRunsStayHolds == PersistInv /\ [Next]_vars => [LiveRunsStayStep]_vars
  <1> SUFFICES ASSUME PersistInv, Next, phase # "down", phase' # "down",
                      NEW r \in runs, r.live, r.kind = "dag"
               PROVE  \E q \in runs' : q.uid = r.uid
    BY DEF LiveRunsStayStep
  <1>0. TypeOK /\ StoreInv /\ CounterInv
    BY DEF PersistInv
  <1>1. ASSUME NEW s \in Sessions, NEW k \in Kinds, Plan(s, k)
        PROVE  \E q \in runs' : q.uid = r.uid
    <2>1. ~SameId(r, NewRun(s, k))
      <3>1. r.n <= counter["dag"] /\ r.n \in Nat /\ counter["dag"] \in Nat
        BY <1>0 DEF CounterInv, TypeOK, Runs
      <3>2. NewRun(s, k).kind = k /\ NewRun(s, k).n = counter[k] + 1
        BY <1>0, <1>1, PlanView
      <3> QED
        BY <3>1, <3>2 DEF SameId
    <2>2. r \in runs'
      BY <1>0, <1>1, <2>1, PlanView
    <2> QED
      BY <2>2
  <1>2. ASSUME NEW p \in runs, Progress(p) \/ Close(p) \/ Reopen(p)
        PROVE  \E q \in runs' : q.uid = r.uid
    <2>1. PICK q : Swaps(p, q)
      BY <1>0, <1>2, SwapView
    <2> QED
      BY <2>1 DEF Swaps, Keeps
  <1>3. CASE \/ \E s \in Sessions : Evict(s)
             \/ \E s \in Sessions : \E keep \in 0..MaxTerminal : Clear(s, keep)
             \/ \E p \in runs : ClearRun(p)
    BY <1>0, <1>3, DropView DEF Drops
  <1>4. ASSUME NEW from \in Sessions, NEW to \in Sessions, Rehome(from, to)
        PROVE  \E q \in runs' : q.uid = r.uid
    <2> DEFINE q == IF r.session = from THEN [r EXCEPT !.session = to] ELSE r
    <2>1. q \in runs'
      BY <1>4 DEF Rehome
    <2>2. q.uid = r.uid
      BY <1>0 DEF TypeOK, Runs
    <2> QED
      BY <2>1, <2>2
  <1>5. ASSUME NEW b \in loaded, Install(b) PROVE \E q \in runs' : q.uid = r.uid
    BY <1>5 DEF Install
  <1>6. CASE Exit \/ Crash
    BY <1>6 DEF Exit, Crash, Stopped
  <1>7. CASE \/ NotifyDirty \/ Writes \/ (\E b \in copied : SaveFails(b))
             \/ (\E s \in Sessions : Load(s) \/ LoadFails(s)) \/ Shutdown
             \/ (\E b \in flushed : FlushSession(b) \/ FlushFails(b))
             \/ AbortAll \/ Boot
    <2>1. runs' = runs
      BY <1>7 DEF NotifyDirty, Writes, Wake, Slept, WindowCloses, SaveSession, Saved,
           SaveFails, Load, LoadFails, Shutdown, FlushSession, FlushFails, AbortAll,
           Boot, registry
    <2> QED
      BY <2>1
  <1> QED
    BY <1>1, <1>2, <1>3, <1>4, <1>5, <1>6, <1>7 DEF Next

\* A restore skips an id only for a reason.
RestoreStep ==
  \A b \in loaded : Installed(b) =>
     \A p \in b.runs : p.kind = "dag" =>
        \/ \E r \in runs' : r.uid = p.uid
        \/ \E r \in runs : SameId(r, p) /\ r.session # b.session
        \/ b.session \in mixed

\* What a restore leaves out is held under its id by a run of another session,
\* or the file was mixed by a rehoming.
LEMMA RestoreHolds == PersistInv /\ [Next]_vars => [RestoreStep]_vars
  <1> SUFFICES ASSUME PersistInv, Next, NEW b \in loaded, Installed(b),
                      NEW p \in b.runs, p.kind = "dag", b.session \notin mixed
               PROVE  \/ \E r \in runs' : r.uid = p.uid
                      \/ \E r \in runs : SameId(r, p) /\ r.session # b.session
    BY DEF RestoreStep
  <1>0. TypeOK /\ StoreInv /\ SessionsInv /\ AgreeInv
    BY DEF PersistInv
  <1>1. Install(b)
    <2>1. b \in loaded /\ b \notin loaded' /\ phase' = "up"
      BY DEF Installed
    <2> QED
      BY <2>1 DEF Next, Plan, Progress, Close, Reopen, Evict, Clear, ClearRun, Rehome,
           NotifyDirty, Writes, Wake, Slept, WindowCloses, SaveSession, Saved,
           SaveFails, Load, LoadFails, Install, Shutdown, FlushSession, FlushFails,
           AbortAll, Exit, Crash, Boot, Stopped, clients
  <1>2. CASE p \in Restorable(b)
    BY <1>0, <1>1, <1>2, InstallView
  <1>3. CASE p \notin Restorable(b)
    <2>1. PICK r \in runs : SameId(r, p)
      BY <1>3 DEF Restorable
    <2>2. CASE r.session # b.session
      BY <2>1, <2>2
    <2>3. CASE r.session = b.session
      <3>1. b.session \in active \ mixed
        BY <1>0, <2>3 DEF SessionsInv
      <3>2. r \in Recorded(b.session) /\ p \in Recorded(b.session)
        <4>1. p.session = b.session /\ r.kind = "dag"
          BY <1>0, <2>1 DEF StoreInv, SoundOf, SameId
        <4> QED
          BY <2>3, <4>1, RecordedWhere
      <3>3. r.uid = p.uid
        BY <1>0, <2>1, <3>1, <3>2 DEF AgreeInv, Agrees
      <3>4. r \in runs'
        BY <1>1 DEF Install
      <3> QED
        BY <3>3, <3>4
    <2> QED
      BY <2>2, <2>3
  <1> QED
    BY <1>2, <1>3

-----------------------------------------------------------------------------
(***************************************************************************)
(* The theorems.                                                           *)
(***************************************************************************)

\* The registry, the writer, the files and the bounded events keep their types.
THEOREM PersistTypeCorrect == Spec => []TypeOK
  <1>1. PersistInv => TypeOK
    BY DEF PersistInv
  <1> QED
    BY <1>1, PersistInvInit, PersistInvStep, PTL DEF Spec

\* No change of the registry is lost on its way to the files: when nothing is
\* pending, travelling or being written, every file whose last save and load
\* worked holds exactly the running runs of its session.
THEOREM NoChangeIsLost == Spec => []SavedWhenQuiet
  <1>1. PersistInv => SavedWhenQuiet
    BY DEF PersistInv, PhaseInv, SaveInv, SavedWhenQuiet, Quiet
  <1> QED
    BY <1>1, PersistInvInit, PersistInvStep, PTL DEF Spec

\* No plan, clear, eviction, rehoming or restore takes a running dag out of the
\* registry: the counter is past the id of every registered dag, restored ones
\* included.
THEOREM RunningDagsStay == Spec => LiveRunsStay
  <1>1. LiveRunsStay <=> [][LiveRunsStayStep]_vars
    BY DEF LiveRunsStay, LiveRunsStayStep
  <1> QED
    BY <1>1, PersistInvInit, PersistInvStep, LiveRunsStayHolds, PTL DEF Spec

\* A restore brings back every dag in the session's file whose id is not taken
\* by a run of another session, unless a load of the session failed or another
\* session's runs were rehomed into it.
THEOREM RestoreIsComplete == Spec => RestoreSkipsOnlyTaken
  <1>1. RestoreSkipsOnlyTaken <=> [][RestoreStep]_vars
    BY DEF RestoreSkipsOnlyTaken, RestoreStep
  <1> QED
    BY <1>1, PersistInvInit, PersistInvStep, RestoreHolds, PTL DEF Spec
=============================================================================
