------------------------- MODULE SubagentRunProofs -------------------------
(***************************************************************************)
(* The safety properties of run_agent, for every set of jobs, limit of the *)
(* registry, number of steering messages, iteration budget and queue mode. *)
(* The loop and the registry bring their own invariants; what is left is   *)
(* how the runner, the prompt's task, the watcher and the watchdog stand   *)
(* to each other.                                                          *)
(***************************************************************************)
EXTENDS SubagentRun, AgentLoopProofs, SeqFilterProofs

-----------------------------------------------------------------------------
(***************************************************************************)
(* The registry of subagent jobs, whatever its users: what eviction leaves *)
(* of the list, and an invariant that every operation of the registry      *)
(* keeps.                                                                  *)
(***************************************************************************)


\* One section of one operation.
RegistryStep ==
  \E j \in Jobs :
    \/ Register(j)
    \/ SetControl(j)
    \/ \E s \in TerminalStatuses : Stamp(j, s)
    \/ Settle(j)
    \/ Trim(j)

\* A record is in the list once; it gets there when its job is registered and
\* stays while the job runs.
ListFollowsFinish ==
  /\ Distinct(jobs)
  /\ \A j \in Jobs : /\ finish[j] = "new" => ~IsListed(j)
                     /\ finish[j] = "running" => IsListed(j)

\* finish stamps the record before it goes on.
StatusFollowsFinish ==
  \A j \in Jobs : status[j] = "Running" <=> finish[j] \in {"new", "running"}

\* A record that is still there after the second section was settled by it.
SettledFollowsFinish ==
  \A j \in Jobs : finish[j] \in {"settling", "done"} /\ IsListed(j)
                     => j \in settled

\* The inductive invariant of the registry.
RegistryInv ==
  /\ RegistryTypeOK
  /\ ListFollowsFinish
  /\ StatusFollowsFinish
  /\ SettledFollowsFinish
  /\ RegistryBounded

\* What EvictionOrder says of one step.
EvictionOrderStep ==
  \A i \in 1..Len(jobs) :
    ~ jobs[i] \in Elements(jobs') =>
       /\ status[jobs[i]] # "Running"
       /\ \A k \in 1..(i - 1) :
            jobs[k] \in Elements(jobs') => status[jobs[k]] = "Running"

-----------------------------------------------------------------------------
(***************************************************************************)
(* Eviction.                                                               *)
(***************************************************************************)

\* The places of terminal records in js before place k.
Older(js, k) == {l \in 1..(k - 1) : status[js[l]] # "Running"}

\* The places eviction empties.
VictimPlaces(js) ==
  {k \in 1..Len(js) : /\ status[js[k]] # "Running"
                      /\ Cardinality(Older(js, k)) < Len(js) - MaxJobs}

\* There are finitely many older records, and no fewer behind a later place.
LEMMA OlderFinite ==
  ASSUME NEW js \in Seq(Jobs), NEW k \in 1..Len(js)
  PROVE  /\ IsFiniteSet(Older(js, k))
         /\ Cardinality(Older(js, k)) \in Nat
         /\ \A l \in 1..k : Cardinality(Older(js, l)) <= Cardinality(Older(js, k))
  <1>1. IsFiniteSet(1..(k - 1))
    <2>1. 1 \in Int /\ k - 1 \in Int
      OBVIOUS
    <2> QED
      BY <2>1, FS_Interval
  <1>2. IsFiniteSet(Older(js, k)) /\ Cardinality(Older(js, k)) \in Nat
    <2>1. Older(js, k) \subseteq 1..(k - 1)
      BY DEF Older
    <2> QED
      BY <1>1, <2>1, FS_Subset, FS_CardinalityType
  <1>3. ASSUME NEW l \in 1..k
        PROVE  Cardinality(Older(js, l)) <= Cardinality(Older(js, k))
    <2>1. Older(js, l) \subseteq Older(js, k)
      BY DEF Older
    <2> QED
      BY <1>2, <2>1, FS_Subset
  <1> QED
    BY <1>2, <1>3

\* Eviction leaves a list that is short enough, or has no terminal record.
LEMMA EvictBounded ==
  ASSUME NEW js \in Seq(Jobs), status \in [Jobs -> JobStatuses]
  PROVE  \/ Len(Evict(js)) <= MaxJobs
         \/ \A i \in 1..Len(Evict(js)) : status[Evict(js)[i]] = "Running"
  <1> DEFINE n == Len(js)
             Staying == {i \in 1..n : js[i] \in Jobs \ Victims(js)}
             VP == VictimPlaces(js)
             Left == {k \in 1..n : /\ status[js[k]] # "Running"
                                   /\ ~ Cardinality(Older(js, k)) < n - MaxJobs}
  <1>0. n \in Nat /\ MaxJobs \in Nat
    BY RegistryAssumption
  <1>a. IsFiniteSet(1..n) /\ Cardinality(1..n) = n
    <2>1. 1 \in Int /\ n \in Int
      BY <1>0
    <2>2. IsFiniteSet(1..n) /\ Cardinality(1..n) = IF 1 > n THEN 0 ELSE n - 1 + 1
      BY <2>1, FS_Interval
    <2> QED
      BY <1>0, <2>2
  <1>b. IsFiniteSet(Staying) /\ Len(Evict(js)) = Cardinality(Staying)
    <2> DEFINE A == Jobs \ Victims(js)
    <2>1. IsFiniteSet({i \in 1..Len(js) : js[i] \in A})
          /\ Len(Only(js, A)) = Cardinality({i \in 1..Len(js) : js[i] \in A})
      <3> HIDE DEF A
      <3> QED
        BY OnlyLen
    <2> QED
      BY <2>1 DEF Evict
  <1>c. /\ VP \subseteq 1..n /\ Staying \subseteq (1..n) \ VP
    BY DEF VictimPlaces, Victims, Older
  <1>d. /\ IsFiniteSet(VP) /\ Cardinality(VP) \in Nat
        /\ Cardinality((1..n) \ VP) = n - Cardinality(VP)
        /\ Cardinality(Staying) <= Cardinality((1..n) \ VP)
    <2>1. IsFiniteSet(VP) /\ Cardinality(VP) \in Nat
      BY <1>a, <1>c, FS_Subset, FS_CardinalityType
    <2>2. IsFiniteSet((1..n) \ VP)
      BY <1>a, FS_Difference
    <2>3. Cardinality((1..n) \ VP) = Cardinality(1..n) - Cardinality((1..n) \cap VP)
      BY <1>a, FS_Difference
    <2>4. (1..n) \cap VP = VP
      BY <1>c
    <2>5. Cardinality(Staying) <= Cardinality((1..n) \ VP)
      BY <1>c, <2>2, FS_Subset
    <2> QED
      BY <1>a, <2>1, <2>3, <2>4, <2>5
  <1>1. CASE Left = {}
    <2>1. Elements(Evict(js)) = Elements(js) \cap (Jobs \ Victims(js))
      BY OnlyRange DEF Evict
    <2>2. ASSUME NEW e \in Elements(Evict(js)) PROVE status[e] = "Running"
      <3>1. e \in Elements(js) /\ e \notin Victims(js)
        BY <2>1
      <3>2. PICK k \in 1..n : e = js[k]
        BY <3>1 DEF Elements
      <3> QED
        BY <1>1, <3>1, <3>2 DEF Victims, Older
    <2> QED
      BY <2>2 DEF Elements
  <1>2. CASE Left # {}
    <2>1. Left \in SUBSET Nat
      BY <1>0
    <2>2. PICK k \in Left : \A l \in Left : k <= l
      <3> HIDE DEF Left
      <3> QED
        BY <1>2, <2>1, LeastNumber
    <2>3. Older(js, k) \subseteq VP
      <3> SUFFICES ASSUME NEW l \in Older(js, k) PROVE l \in VP
        OBVIOUS
      <3>1. l \in 1..n /\ l < k /\ status[js[l]] # "Running"
        BY <1>0, <2>2 DEF Older
      <3>2. l \notin Left
        BY <1>0, <2>2, <3>1
      <3> QED
        BY <3>1, <3>2 DEF VictimPlaces
    <2>4. Cardinality(Older(js, k)) <= Cardinality(VP)
      BY <1>d, <2>3, FS_Subset
    <2>5. Cardinality(Older(js, k)) \in Nat /\ ~ Cardinality(Older(js, k)) < n - MaxJobs
      BY <2>2, OlderFinite
    <2>6. Cardinality(Staying) \in Nat
      BY <1>b, FS_CardinalityType
    <2> QED
      <3> HIDE DEF Staying, VP, n
      <3> QED
        BY <1>0, <1>b, <1>d, <2>4, <2>5, <2>6
  <1> QED
    BY <1>1, <1>2

\* Eviction yields a list of the same records without the victims, each once.
LEMMA EvictKeeps ==
  ASSUME NEW js \in Seq(Jobs)
  PROVE  /\ Evict(js) \in Seq(Jobs)
         /\ Elements(Evict(js)) = Elements(js) \ Victims(js)
         /\ Distinct(js) => Distinct(Evict(js))
  <1>1. Evict(js) \in Seq(Jobs)
    BY OnlySeq DEF Evict
  <1>2. Elements(Evict(js)) = Elements(js) \cap (Jobs \ Victims(js))
    BY OnlyRange DEF Evict
  <1>3. Elements(js) \subseteq Jobs
    BY DEF Elements
  <1>4. Distinct(js) => Distinct(Evict(js))
    BY OnlyDistinct DEF Evict
  <1> QED
    BY <1>1, <1>2, <1>3, <1>4

\* Only terminal records are victims, and of those the oldest.
LEMMA VictimsAreOldest ==
  ASSUME NEW js \in Seq(Jobs), Distinct(js),
         NEW i \in 1..Len(js), js[i] \in Victims(js)
  PROVE  /\ status[js[i]] # "Running"
         /\ \A k \in 1..(i - 1) :
              js[k] \notin Victims(js) => status[js[k]] = "Running"
  <1>0. Len(js) \in Nat /\ MaxJobs \in Nat
    BY RegistryAssumption
  <1>1. PICK p \in 1..Len(js) :
           /\ js[i] = js[p]
           /\ status[js[p]] # "Running"
           /\ Cardinality(Older(js, p)) < Len(js) - MaxJobs
    BY DEF Victims, Older
  <1>2. p = i
    BY <1>1 DEF Distinct
  <1>3. ASSUME NEW k \in 1..(i - 1), status[js[k]] # "Running"
        PROVE  js[k] \in Victims(js)
    <2>1. k \in 1..i /\ k \in 1..Len(js)
      BY <1>0
    <2>2. /\ Cardinality(Older(js, k)) <= Cardinality(Older(js, i))
          /\ Cardinality(Older(js, k)) \in Nat
          /\ Cardinality(Older(js, i)) \in Nat
      BY <2>1, OlderFinite
    <2>3. Cardinality(Older(js, k)) < Len(js) - MaxJobs
      BY <1>0, <1>1, <1>2, <2>2
    <2> QED
      BY <1>3, <2>1, <2>3 DEF Victims, Older
  <1> QED
    BY <1>1, <1>2, <1>3

-----------------------------------------------------------------------------
(***************************************************************************)
(* The invariant.                                                          *)
(***************************************************************************)

\* It holds of the empty registry.
LEMMA RegistryInvInit == RegistryInit => RegistryInv
  <1> SUFFICES ASSUME RegistryInit PROVE RegistryInv
    OBVIOUS
  <1>1. jobs = <<>> /\ Len(jobs) = 0 /\ jobs \in Seq(Jobs) /\ MaxJobs \in Nat
    BY RegistryAssumption DEF RegistryInit
  <1>2. Elements(jobs) = {} /\ Distinct(jobs)
    BY <1>1 DEF Elements, Distinct
  <1>3. RegistryTypeOK
    BY <1>1 DEF RegistryInit, RegistryTypeOK, JobStatuses, FinishSteps
  <1>4. ListFollowsFinish /\ StatusFollowsFinish /\ SettledFollowsFinish
    BY <1>2 DEF RegistryInit, ListFollowsFinish, StatusFollowsFinish,
                SettledFollowsFinish, IsListed
  <1>5. RegistryBounded
    BY <1>1 DEF RegistryBounded
  <1> QED
    BY <1>3, <1>4, <1>5 DEF RegistryInv

\* What eviction does to a list that holds every running job once: nothing is
\* lost of what the invariant says about the list.
LEMMA EvictPreserves ==
  ASSUME RegistryTypeOK, NEW js \in Seq(Jobs), Distinct(js), jobs' = Evict(js),
         status' = status
  PROVE  /\ jobs' \in Seq(Jobs)
         /\ Distinct(jobs')
         /\ Elements(jobs') \subseteq Elements(js)
         /\ \A j \in Elements(js) : status[j] = "Running" => j \in Elements(jobs')
         /\ RegistryBounded'
  <1>1. /\ jobs' \in Seq(Jobs)
        /\ Elements(jobs') = Elements(js) \ Victims(js)
        /\ Distinct(jobs')
    BY EvictKeeps
  <1>2. ASSUME NEW j \in Victims(js) PROVE status[j] # "Running"
    BY DEF Victims
  <1>3. RegistryBounded'
    BY EvictBounded DEF RegistryTypeOK, RegistryBounded
  <1> QED
    BY <1>1, <1>2, <1>3

\* Every operation of the registry keeps it.
LEMMA RegistryInvStep ==
  ASSUME RegistryInv, RegistryStep
  PROVE  RegistryInv'
  <1> USE DEF RegistryInv
  <1>0. PICK j \in Jobs : \/ Register(j) \/ SetControl(j)
                          \/ \E s \in TerminalStatuses : Stamp(j, s)
                          \/ Settle(j) \/ Trim(j)
    BY DEF RegistryStep
  <1>t. RegistryTypeOK
    OBVIOUS
  <1>1. CASE Register(j)
    <2> DEFINE js == Append(jobs, j)
    <2>1. js \in Seq(Jobs) /\ Elements(js) = Elements(jobs) \cup {j}
      BY <1>t, ElementsAppend DEF RegistryTypeOK
    <2>2. j \notin Elements(jobs)
      BY <1>1 DEF Register, ListFollowsFinish, IsListed
    <2>3. Distinct(js)
      BY <1>t, <2>2, DistinctAppend DEF RegistryTypeOK, ListFollowsFinish
    <2>4. jobs' = Evict(js) /\ status' = status
      BY <1>1 DEF Register
    <2> HIDE DEF js
    <2>5. /\ jobs' \in Seq(Jobs)
          /\ Distinct(jobs')
          /\ Elements(jobs') \subseteq Elements(js)
          /\ \A i \in Elements(js) : status[i] = "Running" => i \in Elements(jobs')
          /\ RegistryBounded'
      BY <1>t, <2>1, <2>3, <2>4, EvictPreserves
    <2>6. RegistryTypeOK'
      BY <1>1, <2>5 DEF RegistryTypeOK, Register, FinishSteps
    <2>7. ListFollowsFinish'
      BY <1>1, <2>1, <2>2, <2>5
         DEF RegistryTypeOK, Register, ListFollowsFinish, StatusFollowsFinish,
             IsListed
    <2>8. StatusFollowsFinish'
      BY <1>1 DEF RegistryTypeOK, Register, StatusFollowsFinish
    <2>9. SettledFollowsFinish'
      BY <1>1, <2>1, <2>5
         DEF RegistryTypeOK, Register, SettledFollowsFinish, IsListed
    <2> QED
      BY <2>5, <2>6, <2>7, <2>8, <2>9
  <1>2. CASE SetControl(j)
    <2>1. RegistryTypeOK'
      BY <1>2 DEF RegistryTypeOK, SetControl
    <2>2. UNCHANGED <<jobs, status, settled, finish>>
      BY <1>2 DEF SetControl
    <2> QED
      BY <2>1, <2>2 DEF ListFollowsFinish, StatusFollowsFinish,
           SettledFollowsFinish, RegistryBounded, IsListed
  <1>3. CASE \E s \in TerminalStatuses : Stamp(j, s)
    <2>1. PICK s \in TerminalStatuses : Stamp(j, s)
      BY <1>3
    <2>2. s \in JobStatuses /\ s # "Running"
      BY DEF TerminalStatuses, JobStatuses
    <2>3. IsListed(j)
      BY <2>1 DEF Stamp, ListFollowsFinish
    <2>4. /\ jobs' = jobs /\ settled' = settled
          /\ status' = [status EXCEPT ![j] = s]
          /\ finish' = [finish EXCEPT ![j] = "stamped"]
          /\ control' = control \ {j}
          /\ finish[j] = "running"
      BY <2>1, <2>3 DEF Stamp
    <2>5. RegistryTypeOK'
      BY <2>2, <2>4 DEF RegistryTypeOK, FinishSteps
    <2>6. ListFollowsFinish' /\ SettledFollowsFinish'
      BY <2>4 DEF RegistryTypeOK, ListFollowsFinish, SettledFollowsFinish, IsListed
    <2>7. StatusFollowsFinish'
      BY <2>2, <2>4 DEF RegistryTypeOK, StatusFollowsFinish
    <2>8. RegistryBounded'
      BY <2>4 DEF RegistryTypeOK, RegistryBounded
    <2> QED
      BY <2>5, <2>6, <2>7, <2>8
  <1>4. CASE Settle(j)
    <2>1. /\ UNCHANGED <<jobs, status, control>>
          /\ finish[j] = "stamped"
          /\ finish' = [finish EXCEPT ![j] = "settling"]
          /\ settled \subseteq settled'
          /\ settled' \subseteq settled \cup {j}
          /\ IsListed(j) => j \in settled'
      BY <1>4 DEF Settle
    <2>2. RegistryTypeOK'
      BY <2>1 DEF RegistryTypeOK, FinishSteps
    <2>3. ListFollowsFinish' /\ StatusFollowsFinish'
      BY <2>1 DEF RegistryTypeOK, ListFollowsFinish, StatusFollowsFinish, IsListed
    <2>4. SettledFollowsFinish'
      BY <2>1 DEF RegistryTypeOK, SettledFollowsFinish, IsListed
    <2>5. RegistryBounded'
      BY <2>1 DEF RegistryTypeOK, RegistryBounded
    <2> QED
      BY <2>2, <2>3, <2>4, <2>5
  <1>5. CASE Trim(j)
    <2>1. jobs' = Evict(jobs) /\ status' = status /\ jobs \in Seq(Jobs)
          /\ Distinct(jobs)
      BY <1>5, <1>t DEF Trim, RegistryTypeOK, ListFollowsFinish
    <2>2. /\ jobs' \in Seq(Jobs)
          /\ Distinct(jobs')
          /\ Elements(jobs') \subseteq Elements(jobs)
          /\ \A i \in Elements(jobs) : status[i] = "Running" => i \in Elements(jobs')
          /\ RegistryBounded'
      BY <1>t, <2>1, EvictPreserves
    <2>3. RegistryTypeOK'
      BY <1>5, <2>2 DEF RegistryTypeOK, Trim, FinishSteps
    <2>4. ListFollowsFinish'
      BY <1>5, <2>2 DEF RegistryTypeOK, Trim, ListFollowsFinish,
                        StatusFollowsFinish, IsListed
    <2>5. StatusFollowsFinish'
      BY <1>5 DEF RegistryTypeOK, Trim, StatusFollowsFinish
    <2>6. SettledFollowsFinish'
      BY <1>5, <2>2 DEF RegistryTypeOK, Trim, SettledFollowsFinish, IsListed
    <2> QED
      BY <2>2, <2>3, <2>4, <2>5, <2>6
  <1> QED
    BY <1>0, <1>1, <1>2, <1>3, <1>4, <1>5

\* It still holds when the registry is left alone.
LEMMA RegistryInvStutter ==
  ASSUME RegistryInv, UNCHANGED registryVars
  PROVE  RegistryInv'
  BY DEF RegistryInv, RegistryTypeOK, ListFollowsFinish, StatusFollowsFinish,
         SettledFollowsFinish, RegistryBounded, IsListed, registryVars

\* It gives what finish owes.
LEMMA RegistryInvSettles == RegistryInv => FinishedIsSettled
  BY DEF RegistryInv, StatusFollowsFinish, SettledFollowsFinish,
         FinishedIsSettled

\* Under it no operation takes a record out of order.
LEMMA RegistryInvEvicts ==
  ASSUME RegistryInv, RegistryStep
  PROVE  EvictionOrderStep
  <1> USE DEF RegistryInv
  <1>0. PICK j \in Jobs : \/ Register(j) \/ SetControl(j)
                          \/ \E s \in TerminalStatuses : Stamp(j, s)
                          \/ Settle(j) \/ Trim(j)
    BY DEF RegistryStep
  <1>1. ASSUME NEW js \in Seq(Jobs), Distinct(js), jobs' = Evict(js),
               Len(jobs) <= Len(js), \A i \in 1..Len(jobs) : js[i] = jobs[i]
        PROVE  EvictionOrderStep
    <2> SUFFICES ASSUME NEW i \in 1..Len(jobs), ~ jobs[i] \in Elements(jobs')
                 PROVE  /\ status[jobs[i]] # "Running"
                        /\ \A k \in 1..(i - 1) :
                             jobs[k] \in Elements(jobs')
                                => status[jobs[k]] = "Running"
      BY DEF EvictionOrderStep
    <2>0. jobs \in Seq(Jobs) /\ Len(jobs) \in Nat /\ Len(js) \in Nat
      BY DEF RegistryTypeOK
    <2>1. i \in 1..Len(js) /\ js[i] = jobs[i]
      BY <1>1, <2>0
    <2>2. Elements(jobs') = Elements(js) \ Victims(js)
      BY <1>1, EvictKeeps
    <2>3. js[i] \in Victims(js)
      BY <2>1, <2>2 DEF Elements
    <2>4. /\ status[js[i]] # "Running"
          /\ \A k \in 1..(i - 1) :
               js[k] \notin Victims(js) => status[js[k]] = "Running"
      BY <1>1, <2>1, <2>3, VictimsAreOldest
    <2>5. \A k \in 1..(i - 1) : js[k] = jobs[k]
      BY <1>1, <2>0
    <2> QED
      BY <2>1, <2>2, <2>4, <2>5
  <1>2. CASE Register(j)
    <2> DEFINE js == Append(jobs, j)
    <2>1. js \in Seq(Jobs) /\ Len(jobs) <= Len(js)
          /\ \A i \in 1..Len(jobs) : js[i] = jobs[i]
      BY DEF RegistryTypeOK
    <2>2. j \notin Elements(jobs)
      BY <1>2 DEF Register, ListFollowsFinish, IsListed
    <2>3. Distinct(js)
      BY <2>2, DistinctAppend DEF RegistryTypeOK, ListFollowsFinish
    <2>4. jobs' = Evict(js)
      BY <1>2 DEF Register
    <2> HIDE DEF js
    <2> QED
      BY <1>1, <2>1, <2>3, <2>4
  <1>3. CASE Trim(j)
    <2>1. jobs' = Evict(jobs) /\ jobs \in Seq(Jobs) /\ Len(jobs) \in Nat
          /\ Distinct(jobs)
      BY <1>3 DEF Trim, RegistryTypeOK, ListFollowsFinish
    <2> QED
      BY <1>1, <2>1
  <1>4. CASE jobs' = jobs
    BY <1>4 DEF EvictionOrderStep, Elements
  <1> QED
    BY <1>0, <1>2, <1>3, <1>4 DEF SetControl, Stamp, Settle

-----------------------------------------------------------------------------
(***************************************************************************)
(* The runner.                                                             *)
(***************************************************************************)


\* The loop runs only in its task, and run_agent leaves the select only when
\* that task has finished or is being dropped.
TaskInv ==
  /\ runner \in {"new", "registered", "attached"}
        => task = "none" /\ watchdog = "none"
  /\ task # "running" => loop = "idle"
  /\ runner \in {"joining", "reporting", "finishing"}
        => task = "finished" \/ killed
  /\ runner = "grace" => timedOut
  /\ killed => timedOut /\ runner \in {"joining", "reporting", "finishing"}
  /\ task = "dropped" => killed
  /\ finish[Self] \in {"stamped", "settling", "done"} => runner = "finishing"

\* A cancelled run has somebody who cancelled it, and whoever did is known
\* when the result is read.
VerdictInv ==
  /\ activeCancel = "cancelled" \/ outcome = "stopped"
        => outer \/ watchdog \in {"aborting", "fired"}
  /\ verdict # "none" => runner \in {"reporting", "finishing"}
  /\ verdict = "ok" => /\ task = "finished"
                       /\ Ok(outcome)
                       /\ watchdog \in {"off", "stopped"}
  /\ verdict = "interrupted" => task = "finished" /\ outcome = "interrupted"
  /\ status[Self] \in {"Succeeded", "Interrupted"} => task = "finished"

\* Follow-ups are never queued for a subagent, only clients steer it, and the
\* loop holds messages only while it appends them.
MailInv ==
  /\ followUp = <<>>
  /\ steering \in Seq(Messages \ {Prompt})
  /\ loop # "pushing" => batch = <<>>
  /\ held = "steer" => sent < Steers

\* The inductive invariant.
RunInv ==
  /\ TypeOK
  /\ RegistryInv
  /\ TaskInv
  /\ VerdictInv
  /\ ReportIsHonest
  /\ MailInv

-----------------------------------------------------------------------------
(***************************************************************************)
(* What the steps of Next do to the registry, and the loop to its run.     *)
(***************************************************************************)

\* Every terminal status run_agent reports is one.
LEMMA JobStatusTerminal == JobStatus \in TerminalStatuses
  BY DEF JobStatus, TerminalStatuses

\* Whatever runs, the registry sees one of its own operations or nothing; the
\* finish of this job is moved by its own runner only.
LEMMA RegistryView ==
  ASSUME TypeOK, Next
  PROVE  /\ RegistryStep \/ UNCHANGED registryVars
         /\ (Begin \/ Report \/ FinishSelf)
              \/ (finish'[Self] = finish[Self] /\ status'[Self] = status[Self])
  <1>0. Self \in Jobs
    BY RunAssumption
  <1>1. CASE Begin
    BY <1>0, <1>1 DEF Begin, RegistryStep
  <1>2. CASE AttachControl
    BY <1>0, <1>2 DEF AttachControl, SetControl, RegistryStep
  <1>3. CASE Report
    BY <1>0, <1>3, JobStatusTerminal DEF Report, RegistryStep
  <1>4. CASE FinishSelf
    BY <1>0, <1>4 DEF FinishSelf, FinishJob, RegistryStep
  <1>5. ASSUME NEW j \in Jobs \ {Self}, OtherJob(j)
        PROVE  /\ RegistryStep
               /\ finish'[Self] = finish[Self] /\ status'[Self] = status[Self]
    <2>1. RegistryStep
      BY <1>5 DEF OtherJob, FinishJob, RegistryStep, TerminalStatuses
    <2>2. finish'[Self] = finish[Self] /\ status'[Self] = status[Self]
      BY <1>0, <1>5 DEF OtherJob, FinishJob, Register, Stamp, Settle, Trim,
                        TypeOK, RegistryTypeOK
    <2> QED
      BY <2>1, <2>2
  <1>6. CASE \/ TaskBegins \/ TaskRuns \/ Streams \/ TaskFinishes \/ TaskDropped
             \/ CallerCancels \/ WatcherFires
             \/ WatchdogWaits \/ WatchdogAborts \/ WatchdogFires \/ WatchdogStops
             \/ Launch \/ SelectDone \/ SelectFired \/ GraceEnds \/ Join
             \/ TakeControl \/ Steer \/ Interrupt
    <2>1. UNCHANGED registryVars
      BY <1>6 DEF TaskBegins, TaskRuns, Streams, TaskFinishes, TaskDropped,
         CallerCancels,
           WatcherFires, WatchdogWaits, WatchdogAborts, WatchdogFires,
           WatchdogStops, Launch,
           SelectDone, SelectFired, GraceEnds, Join, TakeControl, Steer, Interrupt
    <2> QED
      BY <2>1 DEF registryVars
  <1> QED
    BY <1>1, <1>2, <1>3, <1>4, <1>5, <1>6 DEF Next

\* The watchdog's clock is no other part's business.
ClockStep == Streams \/ WatchdogWaits

\* Only the flag moves.
LEMMA ClockStepEffect ==
  ASSUME ClockStep
  PROVE  UNCHANGED <<loopVars, registryVars, runnerVars>> /\ active' \in BOOLEAN
  BY DEF ClockStep, Streams, WatchdogWaits, Heard

\* A run takes steps only between its start and its end, cancels nothing, and
\* stops early only when it was cancelled.
LEMMA RunStepEffect ==
  ASSUME LoopTypeOK, RunStep
  PROVE  /\ loop # "idle"
         /\ activeCancel' = "cancelled" => activeCancel = "cancelled"
         /\ outcome' = "stopped"
              => outcome = "stopped" \/ activeCancel = "cancelled"
  BY DEF RunStep, LoopStep, ProviderStep, PushMessage, LoopHead, CallModel,
         CallAborted, CallInterrupted, TurnEnds, InterruptedTurnEnds, EndRun,
         ModelReplies, ModelFails, ToolsReturn, Boundary, End, Release, CallLive

-----------------------------------------------------------------------------
(***************************************************************************)
(* The invariant.                                                          *)
(***************************************************************************)

\* It holds of a run that has not begun.
LEMMA RunInvInit == Init => RunInv
  <1> SUFFICES ASSUME Init PROVE RunInv
    OBVIOUS
  <1>1. LoopTypeOK /\ RegistryInv
    BY LoopTypeInit, RegistryInvInit DEF Init
  <1>2. TypeOK
    <2>1. RegistryTypeOK /\ 0 \in 0..Steers
      BY <1>1, RunAssumption DEF RegistryInv
    <2> QED
      BY <1>1, <2>1 DEF Init, TypeOK
  <1>3. Self \in Jobs /\ status[Self] = "Running" /\ finish[Self] = "new"
    BY RunAssumption DEF Init, RegistryInit
  <1>4. TaskInv /\ VerdictInv /\ ReportIsHonest
    BY <1>3 DEF Init, LoopInit, TaskInv, VerdictInv, ReportIsHonest
  <1>5. MailInv
    <2>1. <<>> \in Seq(Messages \ {Prompt})
      OBVIOUS
    <2> QED
      BY <2>1 DEF Init, LoopInit, MailInv
  <1> QED
    BY <1>1, <1>2, <1>4, <1>5 DEF RunInv

\* The types.
LEMMA TypeOKStep ==
  ASSUME RunInv, Next
  PROVE  TypeOK'
  <1> USE DEF RunInv
  <1>0. LoopTypeOK /\ RegistryTypeOK
    BY DEF TypeOK
  <1>1. RegistryTypeOK'
    BY RegistryView, RegistryInvStep, RegistryInvStutter DEF RegistryInv
  <1>2. CASE TaskBegins
    <2>1. <<Prompt>> \in Seq(Messages)
      BY RunAssumption DEF Prompt
    <2>2. LoopTypeOK'
      BY <1>0, <1>2, <2>1, BeginDropType DEF TaskBegins
    <2> QED
      BY <1>1, <1>2, <2>2 DEF TaskBegins, Heard, TypeOK
  <1>3. CASE TaskRuns
    <2>2. LoopTypeOK'
      BY <1>0, <1>3, RunStepType DEF TaskRuns
    <2> QED
      BY <1>1, <1>3, <2>2 DEF TaskRuns, Heard, TypeOK, runnerVars
  <1>4. CASE TaskFinishes
    <2>2. LoopTypeOK'
      BY <1>0, <1>4, LoopTypeStutter DEF TaskFinishes
    <2> QED
      BY <1>1, <1>4, <2>2 DEF TaskFinishes, TypeOK
  <1>5. CASE TaskDropped
    <2>2. LoopTypeOK'
      BY <1>0, <1>5, BeginDropType, LoopTypeStutter DEF TaskDropped
    <2> QED
      BY <1>1, <1>5, <2>2 DEF TaskDropped, TypeOK
  <1>6. CASE CallerCancels
    <2>2. LoopTypeOK'
      BY <1>0, <1>6, LoopTypeStutter DEF CallerCancels
    <2> QED
      BY <1>1, <1>6, <2>2 DEF CallerCancels, TypeOK
  <1>7. CASE WatcherFires
    <2>2. LoopTypeOK'
      BY <1>0, <1>7, CancelledType
         DEF WatcherFires, AbortAgent, AbortRun, LoopTypeOK, queueVars
    <2> QED
      BY <1>1, <1>7, <2>2 DEF WatcherFires, TypeOK
  <1>8. CASE WatchdogAborts
    <2>2. LoopTypeOK'
      BY <1>0, <1>8, CancelledType
         DEF WatchdogAborts, AbortAgent, AbortRun, LoopTypeOK, queueVars
    <2> QED
      BY <1>1, <1>8, <2>2 DEF WatchdogAborts, TypeOK
  <1>9. CASE WatchdogFires
    <2>2. LoopTypeOK'
      BY <1>0, <1>9, LoopTypeStutter DEF WatchdogFires
    <2> QED
      BY <1>1, <1>9, <2>2 DEF WatchdogFires, TypeOK
  <1>10. CASE WatchdogStops
    <2>2. LoopTypeOK'
      BY <1>0, <1>10, LoopTypeStutter DEF WatchdogStops
    <2> QED
      BY <1>1, <1>10, <2>2 DEF WatchdogStops, TypeOK
  <1>11. CASE Begin
    <2>2. LoopTypeOK'
      BY <1>0, <1>11, LoopTypeStutter DEF Begin
    <2> QED
      BY <1>1, <1>11, <2>2 DEF Begin, TypeOK
  <1>12. CASE AttachControl
    <2>2. LoopTypeOK'
      BY <1>0, <1>12, LoopTypeStutter DEF AttachControl
    <2> QED
      BY <1>1, <1>12, <2>2 DEF AttachControl, TypeOK
  <1>13. CASE Launch
    <2>2. LoopTypeOK'
      BY <1>0, <1>13, LoopTypeStutter DEF Launch
    <2> QED
      BY <1>1, <1>13, <2>2 DEF Launch, Heard, TypeOK
  <1>14. CASE SelectDone
    <2>2. LoopTypeOK'
      BY <1>0, <1>14, LoopTypeStutter DEF SelectDone
    <2> QED
      BY <1>1, <1>14, <2>2 DEF SelectDone, TypeOK
  <1>15. CASE SelectFired
    <2>2. LoopTypeOK'
      BY <1>0, <1>15, LoopTypeStutter DEF SelectFired
    <2> QED
      BY <1>1, <1>15, <2>2 DEF SelectFired, TypeOK
  <1>16. CASE GraceEnds
    <2>2. LoopTypeOK'
      BY <1>0, <1>16, LoopTypeStutter DEF GraceEnds
    <2> QED
      BY <1>1, <1>16, <2>2 DEF GraceEnds, TypeOK
  <1>17. CASE Join
    <2>2. LoopTypeOK'
      BY <1>0, <1>17, LoopTypeStutter DEF Join
    <2> QED
      BY <1>1, <1>17, <2>2 DEF Join, TypeOK
  <1>18. CASE Report
    <2>2. LoopTypeOK'
      BY <1>0, <1>18, LoopTypeStutter DEF Report
    <2> QED
      BY <1>1, <1>18, <2>2 DEF Report, TypeOK
  <1>19. CASE FinishSelf
    <2>2. LoopTypeOK'
      BY <1>0, <1>19, LoopTypeStutter DEF FinishSelf
    <2> QED
      BY <1>1, <1>19, <2>2 DEF FinishSelf, TypeOK, runVars, runnerVars
  <1>20. CASE TakeControl
    <2>2. LoopTypeOK'
      BY <1>0, <1>20, LoopTypeStutter DEF TakeControl
    <2> QED
      BY <1>1, <1>20, <2>2 DEF TakeControl, TypeOK
  <1>21. CASE Steer
    <2>1. sent + 1 \in Messages /\ sent + 1 \in 0..Steers
      BY <1>21, RunAssumption DEF Steer, MailInv, TypeOK
    <2>2. LoopTypeOK'
      BY <1>0, <1>21, <2>1 DEF Steer, EnqueueSteering, LoopTypeOK
    <2> QED
      BY <1>1, <1>21, <2>2, <2>1 DEF Steer, TypeOK
  <1>22. CASE Interrupt
    <2>2. LoopTypeOK'
      BY <1>0, <1>22, CancelledType
         DEF Interrupt, InterruptTurn, LoopTypeOK, queueVars
    <2> QED
      BY <1>1, <1>22, <2>2 DEF Interrupt, TypeOK
  <1>23. ASSUME NEW j \in Jobs \ {Self}, OtherJob(j) PROVE TypeOK'
    <2>1. LoopTypeOK'
      BY <1>0, <1>23, LoopTypeStutter DEF OtherJob
    <2> QED
      BY <1>1, <1>23, <2>1 DEF OtherJob, TypeOK, runVars, runnerVars
  <1>24. CASE ClockStep
    <2>1. LoopTypeOK'
      BY <1>0, <1>24, ClockStepEffect, LoopTypeStutter
    <2> QED
      BY <1>1, <1>24, <2>1, ClockStepEffect DEF TypeOK, runnerVars
  <1> QED
    BY <1>2, <1>3, <1>4, <1>5, <1>6, <1>7, <1>8, <1>9, <1>10, <1>11, <1>12,
       <1>13, <1>14, <1>15, <1>16, <1>17, <1>18, <1>19, <1>20, <1>21, <1>22,
       <1>23, <1>24
       DEF Next, ClockStep

\* The runner, the task and the loop.
LEMMA TaskInvStep ==
  ASSUME RunInv, Next
  PROVE  TaskInv'
  <1> USE DEF RunInv
  <1>0. LoopTypeOK /\ RegistryTypeOK /\ Self \in Jobs
    BY RunAssumption DEF TypeOK
  <1>1. (Begin \/ Report \/ FinishSelf) \/ finish'[Self] = finish[Self]
    BY RegistryView
  <1>2. CASE TaskBegins
    BY <1>1, <1>2 DEF TaskBegins, BeginRun, TaskInv, TypeOK, registryVars
  <1>3. CASE TaskRuns
    BY <1>0, <1>1, <1>3, RunStepEffect DEF TaskRuns, TaskInv, TypeOK, runVars,
       runnerVars,
         registryVars
  <1>4. CASE TaskFinishes
    BY <1>1, <1>4 DEF TaskFinishes, TaskInv, TypeOK, loopVars, registryVars
  <1>5. CASE TaskDropped
    BY <1>1, <1>5 DEF TaskDropped, DropRun, Release, TaskInv, TypeOK, loopVars,
         registryVars
  <1>6. CASE CallerCancels
    BY <1>1, <1>6 DEF CallerCancels, TaskInv, TypeOK, loopVars, registryVars
  <1>7. CASE WatcherFires
    BY <1>1, <1>7 DEF WatcherFires, TaskInv, TypeOK, loopVars, registryVars,
       AbortAgent
  <1>8. CASE WatchdogAborts
    BY <1>1, <1>8 DEF WatchdogAborts, TaskInv, TypeOK, loopVars, registryVars,
       AbortAgent
  <1>9. CASE WatchdogFires
    BY <1>1, <1>9 DEF WatchdogFires, TaskInv, TypeOK, loopVars, registryVars
  <1>10. CASE WatchdogStops
    BY <1>1, <1>10 DEF WatchdogStops, TaskInv, TypeOK, loopVars, registryVars
  <1>11. CASE Begin
    BY <1>0, <1>11 DEF Begin, Register, TaskInv, TypeOK, RegistryTypeOK, loopVars
  <1>12. CASE AttachControl
    BY <1>1, <1>12 DEF AttachControl, TaskInv, TypeOK, loopVars, registryVars,
       SetControl
  <1>13. CASE Launch
    BY <1>1, <1>13 DEF Launch, TaskInv, TypeOK, loopVars, registryVars
  <1>14. CASE SelectDone
    BY <1>1, <1>14 DEF SelectDone, TaskInv, TypeOK, loopVars, registryVars
  <1>15. CASE SelectFired
    BY <1>1, <1>15 DEF SelectFired, TaskInv, TypeOK, loopVars, registryVars
  <1>16. CASE GraceEnds
    BY <1>1, <1>16 DEF GraceEnds, TaskInv, TypeOK, loopVars, registryVars
  <1>17. CASE Join
    BY <1>1, <1>17 DEF Join, TaskInv, TypeOK, loopVars, registryVars
  <1>18. CASE Report
    BY <1>0, <1>18 DEF Report, Stamp, TaskInv, TypeOK, RegistryTypeOK, loopVars
  <1>19. CASE FinishSelf
    <2>1. runner = "finishing"
      BY <1>19 DEF FinishSelf, FinishJob, Settle, Trim, TaskInv
    <2> QED
      BY <1>19, <2>1 DEF FinishSelf, TaskInv, loopVars, runVars, runnerVars
  <1>20. CASE TakeControl
    BY <1>1, <1>20 DEF TakeControl, TaskInv, TypeOK, loopVars, registryVars
  <1>21. CASE Steer
    BY <1>1, <1>21 DEF Steer, TaskInv, TypeOK, loopVars, registryVars
  <1>22. CASE Interrupt
    BY <1>1, <1>22 DEF Interrupt, TaskInv, TypeOK, loopVars, registryVars
  <1>23. ASSUME NEW j \in Jobs \ {Self}, OtherJob(j) PROVE TaskInv'
    <2>1. finish'[Self] = finish[Self]
      BY <1>0, <1>23 DEF OtherJob, FinishJob, Register, Stamp, Settle, Trim,
                        RegistryTypeOK
    <2> QED
      BY <1>23, <2>1 DEF OtherJob, TaskInv, loopVars, runVars, runnerVars
  <1>24. CASE ClockStep
    BY <1>24, ClockStepEffect DEF TaskInv, loopVars, registryVars, runnerVars
  <1> QED
    BY <1>2, <1>3, <1>4, <1>5, <1>6, <1>7, <1>8, <1>9, <1>10, <1>11, <1>12,
       <1>13, <1>14, <1>15, <1>16, <1>17, <1>18, <1>19, <1>20, <1>21, <1>22,
       <1>23, <1>24
       DEF Next, ClockStep

\* Who cancelled the run, and the result read from it.
LEMMA VerdictInvStep ==
  ASSUME RunInv, Next
  PROVE  VerdictInv'
  <1> USE DEF RunInv
  <1>0. LoopTypeOK /\ RegistryTypeOK /\ Self \in Jobs
    BY RunAssumption DEF TypeOK
  <1>1. (Begin \/ Report \/ FinishSelf) \/ status'[Self] = status[Self]
    BY RegistryView
  <1>2. runner # "finishing" => status[Self] = "Running"
    BY <1>0 DEF RegistryInv, StatusFollowsFinish, TaskInv, RegistryTypeOK,
                FinishSteps
  <1>3. CASE TaskBegins
    BY <1>1, <1>3 DEF TaskBegins, BeginRun, VerdictInv, TypeOK, registryVars
  <1>4. CASE TaskRuns
    BY <1>0, <1>1, <1>4, RunStepEffect DEF TaskRuns, VerdictInv, TypeOK, runVars,
       runnerVars,
         registryVars
  <1>5. CASE TaskFinishes
    BY <1>1, <1>5 DEF TaskFinishes, VerdictInv, TypeOK, loopVars, registryVars
  <1>6. CASE TaskDropped
    BY <1>1, <1>6 DEF TaskDropped, DropRun, Release, VerdictInv, TypeOK, loopVars,
         registryVars
  <1>7. CASE CallerCancels
    BY <1>1, <1>7 DEF CallerCancels, VerdictInv, TypeOK, loopVars, registryVars
  <1>8. CASE WatcherFires
    BY <1>1, <1>8 DEF WatcherFires, VerdictInv, TypeOK, loopVars, registryVars,
         AbortAgent, AbortRun, Cancelled
  <1>9. CASE WatchdogAborts
    BY <1>1, <1>9 DEF WatchdogAborts, VerdictInv, TypeOK, loopVars, registryVars,
         AbortAgent, AbortRun, Cancelled
  <1>10. CASE WatchdogFires
    BY <1>1, <1>10 DEF WatchdogFires, VerdictInv, TypeOK, loopVars, registryVars
  <1>11. CASE WatchdogStops
    BY <1>1, <1>11 DEF WatchdogStops, VerdictInv, TypeOK, loopVars, registryVars
  <1>12. CASE Begin
    BY <1>0, <1>2, <1>12 DEF Begin, Register, VerdictInv, TypeOK, RegistryTypeOK,
         loopVars
  <1>13. CASE AttachControl
    BY <1>1, <1>13 DEF AttachControl, VerdictInv, TypeOK, loopVars, registryVars,
       SetControl
  <1>14. CASE Launch
    BY <1>1, <1>14 DEF Launch, VerdictInv, TypeOK, loopVars, registryVars, TaskInv
  <1>15. CASE SelectDone
    BY <1>1, <1>15 DEF SelectDone, VerdictInv, TypeOK, loopVars, registryVars
  <1>16. CASE SelectFired
    BY <1>1, <1>16 DEF SelectFired, VerdictInv, TypeOK, loopVars, registryVars
  <1>17. CASE GraceEnds
    BY <1>1, <1>17 DEF GraceEnds, VerdictInv, TypeOK, loopVars, registryVars
  <1>18. CASE Join
    BY <1>1, <1>18 DEF Join, WatchdogJoined, Ok, TaskInv, VerdictInv, TypeOK,
         loopVars, registryVars
  <1>19. CASE Report
    <2>1. status'[Self] \in {"Succeeded", "Interrupted"} => task = "finished"
      BY <1>0, <1>2, <1>19 DEF Report, Stamp, JobStatus, VerdictInv, RegistryTypeOK
    <2> QED
      BY <1>19, <2>1 DEF Report, VerdictInv, TypeOK, loopVars
  <1>20. CASE FinishSelf
    <2>1. status' = status
      BY <1>20 DEF FinishSelf, FinishJob, Settle, Trim
    <2> QED
      BY <1>20, <2>1 DEF FinishSelf, VerdictInv, loopVars, runVars, runnerVars
  <1>21. CASE TakeControl
    BY <1>1, <1>21 DEF TakeControl, VerdictInv, TypeOK, loopVars, registryVars
  <1>22. CASE Steer
    BY <1>1, <1>22 DEF Steer, VerdictInv, TypeOK, loopVars, registryVars
  <1>23. CASE Interrupt
    BY <1>1, <1>23 DEF Interrupt, VerdictInv, TypeOK, loopVars, registryVars
  <1>24. ASSUME NEW j \in Jobs \ {Self}, OtherJob(j) PROVE VerdictInv'
    <2>1. status'[Self] = status[Self]
      BY <1>0, <1>24 DEF OtherJob, FinishJob, Register, Stamp, Settle, Trim,
                        RegistryTypeOK
    <2> QED
      BY <1>24, <2>1 DEF OtherJob, VerdictInv, loopVars, runVars, runnerVars
  <1>25. CASE ClockStep
    BY <1>25, ClockStepEffect DEF VerdictInv, loopVars, registryVars, runnerVars
  <1> QED
    BY <1>3, <1>4, <1>5, <1>6, <1>7, <1>8, <1>9, <1>10, <1>11, <1>12, <1>13,
       <1>14, <1>15, <1>16, <1>17, <1>18, <1>19, <1>20, <1>21, <1>22, <1>23,
       <1>24, <1>25
       DEF Next, ClockStep

\* The outcome of a run whose task has finished is final.
LEMMA OutcomeFinal ==
  ASSUME RunInv, Next, task = "finished"
  PROVE  outcome' = outcome
  BY DEF Next, TaskBegins, TaskRuns, Streams, TaskFinishes, TaskDropped,
         CallerCancels, WatcherFires, WatchdogWaits, WatchdogAborts, WatchdogFires,
         WatchdogStops, Begin,
         AttachControl, Launch, SelectDone, SelectFired, GraceEnds, Join, Report,
         FinishSelf, TakeControl, Steer, Interrupt, OtherJob, AbortAgent, loopVars

\* Stamping the record keeps the report honest, and nothing after it changes
\* the outcome.
LEMMA HonestStep ==
  ASSUME RunInv, Next
  PROVE  ReportIsHonest'
  <1> USE DEF RunInv
  <1>0. RegistryTypeOK /\ Self \in Jobs
    BY RunAssumption DEF TypeOK
  <1>1. runner # "finishing" => status[Self] = "Running"
    BY <1>0 DEF RegistryInv, StatusFollowsFinish, TaskInv, RegistryTypeOK,
                FinishSteps
  <1>2. CASE Report
    <2>1. /\ status'[Self] = "Succeeded" => ~outer /\ verdict = "ok"
          /\ status'[Self] = "Interrupted" => verdict = "interrupted"
      BY <1>0, <1>1, <1>2 DEF Report, Stamp, JobStatus, RegistryTypeOK
    <2>2. outcome' = outcome
      BY <1>2 DEF Report, loopVars
    <2>3. verdict = "ok" /\ ~outer => outcome = "done"
      BY DEF VerdictInv, Ok
    <2>4. verdict = "interrupted" => outcome = "interrupted"
      BY DEF VerdictInv
    <2> QED
      BY <2>1, <2>2, <2>3, <2>4 DEF ReportIsHonest
  <1>3. CASE status'[Self] = status[Self]
    <2>1. CASE status[Self] \in {"Succeeded", "Interrupted"}
      BY <1>3, <2>1, OutcomeFinal DEF ReportIsHonest, VerdictInv
    <2>2. CASE status[Self] \notin {"Succeeded", "Interrupted"}
      BY <1>3, <2>2 DEF ReportIsHonest
    <2> QED
      BY <2>1, <2>2
  <1>4. CASE Begin \/ FinishSelf
    <2>1. status' = status
      BY <1>4 DEF Begin, FinishSelf, FinishJob, Register, Settle, Trim
    <2> QED
      BY <1>3, <2>1
  <1> QED
    BY <1>2, <1>3, <1>4, RegistryView

-----------------------------------------------------------------------------
(***************************************************************************)
(* Steering.                                                               *)
(***************************************************************************)

\* A boundary moves the messages it takes from the queue to the batch, and
\* there are no follow-ups for it to take.
LEMMA BoundarySteers ==
  ASSUME RunInv, batch = <<>>, NEW last \in BOOLEAN, NEW o, Boundary(last, o)
  PROVE  /\ batch' = Drained(steering)
         /\ steering' = Kept(steering)
         /\ followUp' = <<>>
         /\ transcript' = transcript
         /\ loop' = "pushing" \/ batch' = <<>>
  <1>1. Drained(steering) \in Seq(Messages) /\ followUp = <<>>
    BY DrainedKept DEF RunInv, TypeOK, LoopTypeOK, MailInv
  <1>2. Drained(followUp) = <<>> /\ Kept(followUp) = <<>>
    BY <1>1 DEF Drained, Kept
  <1>3. /\ batch' = Drained(steering) \o <<>>
        /\ followUp' = <<>>
        /\ steering' = Kept(steering)
        /\ transcript' = transcript
        /\ loop' = "pushing" \/ batch' = <<>>
    BY <1>1, <1>2 DEF Boundary, End
  <1>4. Drained(steering) \o <<>> = Drained(steering)
    BY <1>1, ConcatEmptySeq
  <1> QED
    BY <1>3, <1>4

\* What a step of a run does to the messages: it appends one of the batch, or
\* takes a new batch, or leaves all of them where they are.
Pushes    == /\ batch # <<>> /\ loop = "pushing"
             /\ transcript' = Append(transcript, Head(batch))
             /\ batch' = Tail(batch)
             /\ UNCHANGED <<loop, steering, followUp>>
Takes     == /\ batch = <<>>
             /\ batch' = Drained(steering) /\ steering' = Kept(steering)
             /\ loop' = "pushing" \/ batch' = <<>>
             /\ UNCHANGED <<followUp, transcript>>
LeavesAll == /\ UNCHANGED <<batch, steering, followUp, transcript>>
             /\ loop' = "pushing" \/ batch = <<>>

\* There is no fourth case.
LEMMA RunStepMessages ==
  ASSUME RunInv, RunStep
  PROVE  Pushes \/ Takes \/ LeavesAll
  <1> USE DEF queueVars
  <1>1. CASE PushMessage
    BY <1>1 DEF PushMessage, Pushes
  <1>2. CASE LoopHead \/ CallModel \/ CallAborted \/ CallInterrupted \/ EndRun
             \/ ModelReplies \/ ModelFails
    BY <1>2 DEF LoopHead, CallModel, CallAborted, CallInterrupted, EndRun,
         ModelReplies, ModelFails, CallLive, LeavesAll, RunInv, MailInv
  <1>3. ASSUME NEW last \in BOOLEAN, NEW o, Boundary(last, o),
               loop \in {"tools", "last", "partial"}
        PROVE  Takes
    <2>1. batch = <<>> /\ followUp = <<>>
      BY <1>3 DEF RunInv, MailInv
    <2> QED
      BY <1>3, <2>1, BoundarySteers DEF Takes
  <1>4. CASE TurnEnds \/ InterruptedTurnEnds
    BY <1>3, <1>4 DEF TurnEnds, InterruptedTurnEnds
  <1>5. CASE ToolsReturn
    <2>1. CASE Boundary(FALSE, "done")
      BY <1>3, <1>5, <2>1 DEF ToolsReturn
    <2>2. CASE UNCHANGED <<activeCancel, turnCancel, queueVars, batch,
                           transcript, unanswered>>
      BY <1>5, <2>2 DEF ToolsReturn, LeavesAll, RunInv, MailInv
    <2> QED
      BY <1>5, <2>1, <2>2 DEF ToolsReturn
  <1> QED
    BY <1>1, <1>2, <1>4, <1>5 DEF RunStep, LoopStep, ProviderStep

\* The queues and the batch.
LEMMA MailInvStep ==
  ASSUME RunInv, Next
  PROVE  MailInv'
  <1> USE DEF RunInv
  <1> DEFINE Mails == Seq(Messages \ {Prompt})
  <1>0. steering \in Mails
    BY DEF MailInv
  <1>1. CASE TaskBegins
    BY <1>1 DEF TaskBegins, BeginRun, MailInv, queueVars
  <1>2. CASE TaskRuns
    <2>1. Pushes \/ Takes \/ LeavesAll
      BY <1>2, RunStepMessages DEF TaskRuns
    <2>2. UNCHANGED <<held, sent>>
      BY <1>2 DEF TaskRuns, runVars, runnerVars
    <2>3. CASE Pushes
      BY <2>2, <2>3 DEF Pushes, MailInv
    <2>4. CASE Takes
      <3>1. Kept(steering) \in Mails
        <4> HIDE DEF Mails
        <4>1. \A S : \A q \in Seq(S) : Kept(q) \in Seq(S)
          BY DrainedKept
        <4> QED
          BY <1>0, <4>1 DEF Mails
      <3> QED
        BY <2>2, <2>4, <3>1 DEF Takes, MailInv
    <2>5. CASE LeavesAll
      BY <2>2, <2>5 DEF LeavesAll, MailInv
    <2> QED
      BY <2>1, <2>3, <2>4, <2>5
  <1>3. CASE TaskDropped
    BY <1>3 DEF TaskDropped, DropRun, Release, MailInv, loopVars, queueVars
  <1>4. CASE WatcherFires \/ WatchdogAborts
    BY <1>4 DEF WatcherFires, WatchdogAborts, AbortAgent, MailInv, queueVars
  <1>5. CASE TakeControl
    BY <1>5 DEF TakeControl, MailInv, loopVars
  <1>6. CASE Steer
    <2>1. sent + 1 \in Messages \ {Prompt}
      BY <1>6, RunAssumption DEF Steer, MailInv, TypeOK, Prompt
    <2>2. steering' \in Mails
      BY <1>0, <1>6, <2>1, AppendProperties DEF Steer, EnqueueSteering
    <2> QED
      BY <1>6, <2>2 DEF Steer, MailInv
  <1>7. CASE Interrupt
    BY <1>7 DEF Interrupt, MailInv, queueVars
  <1>8. CASE \/ Streams \/ WatchdogWaits
             \/ TaskFinishes \/ CallerCancels \/ WatchdogFires \/ WatchdogStops
             \/ Begin \/ AttachControl \/ Launch \/ SelectDone \/ SelectFired
             \/ GraceEnds \/ Join \/ Report \/ FinishSelf
             \/ \E j \in Jobs \ {Self} : OtherJob(j)
    <2>1. UNCHANGED <<loopVars, held, sent>>
      BY <1>8 DEF Streams, WatchdogWaits, TaskFinishes, CallerCancels,
         WatchdogFires, WatchdogStops, Begin,
           AttachControl, Launch, SelectDone, SelectFired, GraceEnds, Join, Report,
           FinishSelf, OtherJob, runVars, runnerVars
    <2> QED
      BY <2>1 DEF MailInv, loopVars
  <1> QED
    BY <1>1, <1>2, <1>3, <1>4, <1>5, <1>6, <1>7, <1>8 DEF Next

\* The invariant is inductive.
LEMMA RunInvStep == RunInv /\ [Next]_vars => RunInv'
  <1> SUFFICES ASSUME RunInv, [Next]_vars PROVE RunInv'
    OBVIOUS
  <1>1. CASE Next
    <2>1. RegistryInv'
      BY <1>1, RegistryView, RegistryInvStep, RegistryInvStutter DEF RunInv
    <2> QED
      BY <1>1, <2>1, TypeOKStep, TaskInvStep, VerdictInvStep, HonestStep,
         MailInvStep DEF RunInv
  <1>2. CASE UNCHANGED vars
    <2>1. UNCHANGED loopVars /\ UNCHANGED registryVars /\ UNCHANGED runnerVars
          /\ UNCHANGED active
      BY <1>2 DEF vars, runVars
    <2>2. RegistryInv' /\ LoopTypeOK'
      BY <2>1, RegistryInvStutter, LoopTypeStutter DEF RunInv, TypeOK
    <2>3. TypeOK'
      BY <2>1, <2>2 DEF RunInv, TypeOK, RegistryInv, runVars, runnerVars
    <2>4. TaskInv' /\ VerdictInv' /\ ReportIsHonest' /\ MailInv'
      BY <2>1 DEF RunInv, TaskInv, VerdictInv, ReportIsHonest, MailInv, loopVars,
                  registryVars, runVars, runnerVars
    <2> QED
      BY <2>2, <2>3, <2>4 DEF RunInv
  <1> QED
    BY <1>1, <1>2

-----------------------------------------------------------------------------
(***************************************************************************)
(* The theorems.                                                           *)
(***************************************************************************)

\* run_agent, its tasks and the registry keep their types: no run counts more
\* model calls than its budget, and clients send no more than they may.
THEOREM RunTypeCorrect == Spec => []TypeOK
  <1>1. RunInv => TypeOK
    BY DEF RunInv
  <1> QED
    BY <1>1, RunInvInit, RunInvStep, PTL DEF Spec

\* A job is reported as succeeded or as interrupted only if its run really
\* ended so: of watcher, watchdog and prompt, whoever cancelled the run is
\* known by the time run_agent reads the result.
THEOREM RunReportHonest == Spec => []ReportIsHonest
  <1>1. RunInv => ReportIsHonest
    BY DEF RunInv
  <1> QED
    BY <1>1, RunInvInit, RunInvStep, PTL DEF Spec

\* With the result in hand no run of the agent is left, unless its task is
\* being dropped.
THEOREM RunLeavesNoOrphan == Spec => []NoOrphanRun
  <1>1. RunInv => NoOrphanRun
    BY DEF RunInv, TaskInv, TypeOK, NoOrphanRun
  <1> QED
    BY <1>1, RunInvInit, RunInvStep, PTL DEF Spec

\* A list longer than MAX_JOBS holds running jobs only, while no finish is
\* under way.
THEOREM JobListBounded == Spec => []RegistryBounded
  <1>1. RunInv => RegistryBounded
    BY DEF RunInv, RegistryInv
  <1> QED
    BY <1>1, RunInvInit, RunInvStep, PTL DEF Spec

\* A runner that is through with finish left a terminal record, announced if it
\* can still be listed.
THEOREM JobFinishedSettled == Spec => []FinishedIsSettled
  <1>1. RunInv => FinishedIsSettled
    BY RegistryInvSettles DEF RunInv
  <1> QED
    BY <1>1, RunInvInit, RunInvStep, PTL DEF Spec

\* Records leave the list finished, and the oldest finished ones first.
THEOREM JobEvictionOrdered == Spec => EvictionOrder
  <1>1. ASSUME RunInv, [Next]_vars PROVE [EvictionOrderStep]_jobs
    <2>1. CASE Next
      BY <1>1, <2>1, RegistryView, RegistryInvEvicts DEF RunInv, registryVars
    <2>2. CASE UNCHANGED vars
      BY <2>2 DEF vars, registryVars
    <2> QED
      BY <1>1, <2>1, <2>2
  <1>2. EvictionOrder <=> [][EvictionOrderStep]_jobs
    BY DEF EvictionOrder, EvictionOrderStep
  <1> QED
    BY <1>1, <1>2, RunInvInit, RunInvStep, PTL DEF Spec

-----------------------------------------------------------------------------
(***************************************************************************)
(* The run implements the mailbox its clients see.                         *)
(***************************************************************************)

\* The messages of clients.
Mails == Messages \ {Prompt}

\* Steered on the sequences a step handles.
LEMMA SteeredParts ==
  /\ Steered(<<>>) = <<>>
  /\ Steered(<<Prompt>>) = <<>>
  /\ \A q \in Seq(Mails) : Steered(q) = q
  /\ \A q \in Seq(Messages) : Steered(q) \in Seq(Mails)
  <1>1. Steered(<<>>) = <<>>
    BY OnlyEmpty DEF Steered
  <1>2. Steered(<<Prompt>>) = <<>>
    <2>1. <<>> \in Seq({Prompt}) /\ Prompt \in {Prompt} /\ Prompt \notin Mails
          /\ Append(<<>>, Prompt) = <<Prompt>>
      BY DEF Mails
    <2>2. Only(Append(<<>>, Prompt), Mails) = Only(<<>>, Mails)
      BY <2>1, OnlyAppend, Zenon
    <2> QED
      BY <1>1, <2>1, <2>2, Zenon DEF Steered, Mails
  <1>3. ASSUME NEW q \in Seq(Mails) PROVE Steered(q) = q
    <2>1. Only(q, Mails) = q
      BY OnlyAll, Zenon
    <2> QED
      BY <2>1, Zenon DEF Steered, Mails
  <1>4. ASSUME NEW q \in Seq(Messages) PROVE Steered(q) \in Seq(Mails)
    <2>1. Only(q, Mails) \in Seq(Messages \cap Mails)
      BY OnlyType, Zenon
    <2>2. Messages \cap Mails = Mails
      BY DEF Mails
    <2> QED
      BY <2>1, <2>2, Zenon DEF Steered, Mails
  <1> QED
    BY <1>1, <1>2, <1>3, <1>4

\* What clients see of a run that has not begun.
LEMMA MailRefinesInit == Init => Mail!MailInit
  <1> SUFFICES ASSUME Init PROVE Mail!MailInit
    OBVIOUS
  <1>1. batch = <<>> /\ steering = <<>> /\ transcript = <<>> /\ task = "none"
    BY DEF Init, LoopInit
  <1>2. Steered(batch) = <<>> /\ Steered(transcript) = <<>>
    BY <1>1, SteeredParts
  <1> QED
    BY <1>1, <1>2 DEF Mail!MailInit

\* A message of the batch goes to the transcript: clients see it delivered, or
\* nothing when it is the prompt.
LEMMA PushRefines ==
  ASSUME RunInv, Pushes, task # "dropped", UNCHANGED task
  PROVE  [Mail!MailNext]_(Mail!mailVars)
  <1>1. /\ batch \in Seq(Messages) /\ batch # <<>> /\ transcript \in Seq(Messages)
        /\ steering \in Seq(Mails)
    BY DEF RunInv, TypeOK, LoopTypeOK, MailInv, Pushes, Mails
  <1>2. /\ transcript' = Append(transcript, Head(batch))
        /\ batch' = Tail(batch) /\ steering' = steering
    BY DEF Pushes
  <1>3. PICK h \in Messages, t \in Seq(Messages) :
           h = Head(batch) /\ t = Tail(batch)
    <2>1. Head(batch) \in Messages /\ Tail(batch) \in Seq(Messages)
      BY <1>1
    <2> QED
      BY <2>1, Zenon
  <1>4. PICK p \in Seq(Mails), d \in Seq(Mails) :
           p = Steered(t) /\ d = Steered(transcript)
    BY <1>1, SteeredParts, Zenon
  <1>5. CASE h \in Mails
    <2>1. Steered(batch) = <<h>> \o p
      BY <1>1, <1>3, <1>4, <1>5, OnlyHeadTail, Zenon DEF Steered, Mails
    <2>2. Steered(transcript') = Append(d, h)
      BY <1>1, <1>2, <1>3, <1>4, <1>5, OnlyAppend, Zenon DEF Steered, Mails
    <2>3. /\ (<<h>> \o p) \o steering # <<>>
          /\ Head((<<h>> \o p) \o steering) = h
          /\ Tail((<<h>> \o p) \o steering) = p \o steering
      BY <1>1, <1>5
    <2>4. Mail!Deliver
      <3>1. Steered(batch) \o steering # <<>>
        BY <2>1, <2>3, Zenon
      <3>2. Steered(transcript')
              = Append(Steered(transcript), Head(Steered(batch) \o steering))
        BY <1>4, <2>1, <2>2, <2>3, Zenon
      <3>3. Steered(batch') \o steering' = Tail(Steered(batch) \o steering)
        BY <1>2, <1>3, <1>4, <2>1, <2>3, Zenon
      <3> QED
        BY <3>1, <3>2, <3>3 DEF Mail!Deliver
    <2> QED
      BY <2>4 DEF Mail!MailNext
  <1>6. CASE h \notin Mails
    <2>1. Steered(batch) = p
      BY <1>1, <1>3, <1>4, <1>6, OnlyHeadTail, Zenon DEF Steered, Mails
    <2>2. Steered(transcript') = Steered(transcript)
      BY <1>1, <1>2, <1>3, <1>6, OnlyAppend, Zenon DEF Steered, Mails
    <2>3. UNCHANGED (Mail!mailVars)
      <3>1. Steered(batch') \o steering' = Steered(batch) \o steering
        BY <1>2, <1>3, <1>4, <2>1, Zenon
      <3> QED
        BY <2>2, <3>1 DEF Mail!mailVars
    <2> QED
      BY <2>3
  <1> QED
    BY <1>5, <1>6

\* A new batch is taken from the head of the queue: clients see nothing.
LEMMA TakeRefines ==
  ASSUME RunInv, Takes, UNCHANGED task
  PROVE  UNCHANGED (Mail!mailVars)
  <1>1. /\ batch = <<>> /\ batch' = Drained(steering)
        /\ steering' = Kept(steering) /\ transcript' = transcript
        /\ steering \in Seq(Mails)
    BY DEF Takes, RunInv, MailInv, Mails
  <1>2. /\ Drained(steering) \in Seq(Mails)
        /\ Drained(steering) \o Kept(steering) = steering
    BY <1>1, DrainedKept
  <1>3. Steered(batch') = Drained(steering) /\ Steered(batch) = <<>>
    BY <1>1, <1>2, SteeredParts, Zenon
  <1>4. <<>> \o steering = steering
    BY <1>1, ConcatEmptySeq, Zenon
  <1>5. Steered(batch') \o steering' = Steered(batch) \o steering
    BY <1>1, <1>2, <1>3, <1>4, Zenon
  <1>6. Steered(transcript') = Steered(transcript)
    BY <1>1
  <1> QED
    BY <1>5, <1>6 DEF Mail!mailVars

\* The task is dropped with its batch: clients see the agent gone, and lose
\* what it had taken and not delivered.
LEMMA DropRefines ==
  ASSUME RunInv, TaskDropped
  PROVE  Mail!Kill
  <1>1. /\ batch \in Seq(Messages) /\ steering \in Seq(Mails)
        /\ task # "dropped" /\ task' = "dropped"
        /\ steering' = steering /\ transcript' = transcript /\ batch' = <<>>
    BY DEF RunInv, TypeOK, LoopTypeOK, MailInv, TaskDropped, DropRun, Release,
           loopVars, queueVars, Mails
  <1>2. PICK p \in Seq(Mails) : p = Steered(batch)
    BY <1>1, SteeredParts, Zenon
  <1>3. Steered(batch') = <<>> /\ <<>> \o steering = steering
    BY <1>1, SteeredParts, ConcatEmptySeq, Zenon
  <1>4. /\ Len(p) \in 0..Len(p \o steering)
        /\ SubSeq(p \o steering, Len(p) + 1, Len(p \o steering)) = steering
    <2> DEFINE r == SubSeq(p \o steering, Len(p) + 1, Len(p \o steering))
    <2>1. /\ Len(p) \in Nat /\ Len(steering) \in Nat
          /\ Len(p \o steering) = Len(p) + Len(steering)
      BY <1>1
    <2>2. r \in Seq(Mails) /\ Len(r) = Len(steering)
          /\ \A i \in 1..Len(steering) : r[i] = steering[i]
      BY <1>1, <2>1
    <2> HIDE DEF r
    <2>3. r = steering
      BY <1>1, <2>2, SeqEqual, Zenon
    <2> QED
      BY <2>1, <2>3 DEF r
  <1>5. \E n \in 0..Len(Steered(batch) \o steering) :
           Steered(batch') \o steering'
             = SubSeq(Steered(batch) \o steering, n + 1,
                      Len(Steered(batch) \o steering))
    BY <1>1, <1>2, <1>3, <1>4, Zenon
  <1>6. Steered(transcript') = Steered(transcript)
    BY <1>1
  <1> QED
    BY <1>1, <1>5, <1>6 DEF Mail!Kill

\* A client steers: the message is accepted.
LEMMA SteerRefines ==
  ASSUME RunInv, Steer
  PROVE  \E m \in Mails : Mail!Accept(m)
  <1>1. PICK m \in Mails : m = sent + 1
    <2>1. sent + 1 \in Mails
      BY RunAssumption DEF Steer, RunInv, MailInv, TypeOK, Prompt, Mails
    <2> QED
      BY <2>1, Zenon
  <1>2. /\ steering \in Seq(Mails) /\ batch \in Seq(Messages)
        /\ steering' = Append(steering, m)
        /\ UNCHANGED <<batch, transcript, task>>
    BY <1>1 DEF RunInv, TypeOK, LoopTypeOK, MailInv, Steer, EnqueueSteering, Mails
  <1>3. PICK p \in Seq(Mails) : p = Steered(batch)
    BY <1>2, SteeredParts, Zenon
  <1>4. p \o Append(steering, m) = Append(p \o steering, m)
    BY <1>2
  <1>5. Steered(batch') \o steering' = Append(Steered(batch) \o steering, m)
    BY <1>2, <1>3, <1>4, Zenon
  <1>6. Mail!Accept(m)
    BY <1>2, <1>5 DEF Mail!Accept
  <1> QED
    BY <1>6

\* Every step of the run is a step of the mailbox, or none.
LEMMA MailRefinesStep ==
  ASSUME RunInv, [Next]_vars
  PROVE  [Mail!MailNext]_(Mail!mailVars)
  <1> DEFINE Same == UNCHANGED <<batch, steering, transcript>>
                     /\ ((task = "dropped")' <=> task = "dropped")
  <1>0. ASSUME Same PROVE UNCHANGED (Mail!mailVars)
    BY <1>0 DEF Mail!mailVars
  <1>1. CASE TaskBegins
    <2>1. /\ batch = <<>> /\ batch' = <<Prompt>>
          /\ UNCHANGED <<steering, transcript>>
          /\ task = "spawned" /\ task' = "running"
      BY <1>1 DEF TaskBegins, BeginRun, RunInv, MailInv, queueVars
    <2>2. Steered(batch') = Steered(batch)
      BY <2>1, SteeredParts, Zenon
    <2> QED
      BY <2>1, <2>2 DEF Mail!mailVars
  <1>2. CASE TaskRuns
    <2>1. task = "running" /\ UNCHANGED task
      BY <1>2 DEF TaskRuns, runVars, runnerVars
    <2>2. Pushes \/ Takes \/ LeavesAll
      BY <1>2, RunStepMessages DEF TaskRuns
    <2>3. CASE LeavesAll
      BY <1>0, <2>1, <2>3 DEF LeavesAll
    <2> QED
      BY <2>1, <2>2, <2>3, PushRefines, TakeRefines
  <1>3. CASE TaskDropped
    BY <1>3, DropRefines DEF Mail!MailNext
  <1>4. CASE Steer
    BY <1>4, SteerRefines DEF Mail!MailNext, Mails
  <1>5. CASE \/ TaskFinishes \/ Launch
    <2>1. Same
      BY <1>5 DEF TaskFinishes, Launch, loopVars, RunInv, TaskInv
    <2> QED
      BY <1>0, <2>1
  <1>6. CASE \/ Streams \/ CallerCancels \/ WatcherFires
             \/ WatchdogWaits \/ WatchdogAborts \/ WatchdogFires \/ WatchdogStops
             \/ Begin \/ AttachControl \/ SelectDone \/ SelectFired \/ GraceEnds
             \/ Join \/ Report \/ FinishSelf \/ TakeControl \/ Interrupt
             \/ (\E j \in Jobs \ {Self} : OtherJob(j)) \/ UNCHANGED vars
    <2>1. Same
      BY <1>6 DEF Streams, CallerCancels, WatcherFires, WatchdogWaits,
           WatchdogAborts, WatchdogFires,
           WatchdogStops, Begin, AttachControl, SelectDone, SelectFired, GraceEnds,
           Join, Report, FinishSelf, TakeControl, Interrupt, OtherJob, AbortAgent,
           loopVars, runVars, runnerVars, vars, queueVars
    <2> QED
      BY <1>0, <2>1
  <1> QED
    BY <1>1, <1>2, <1>3, <1>4, <1>5, <1>6 DEF Next

\* Steering messages reach the conversation in the order they were accepted,
\* none twice, and none is lost before the run's task is dropped: whatever the
\* loop does with its queue and its batch, run_agent implements Mailbox.
THEOREM SteeringRefinesMailbox == Spec => SteeringIsMailbox
  BY RunInvInit, RunInvStep, MailRefinesInit, MailRefinesStep, PTL
     DEF Spec, SteeringIsMailbox, Mail!MailSpec

=============================================================================
