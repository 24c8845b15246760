---------------------------- MODULE JobRegistry ----------------------------
(***************************************************************************)
(* SubagentJobRegistry (multiagent/jobs.rs): the records of subagent jobs, *)
(* shared by every runner task.  Each operation is one or more sections    *)
(* under the registry's lock; finish is three of them, and other tasks run *)
(* in between.  Metrics, output and the transport's snapshots are left     *)
(* out.                                                                    *)
(***************************************************************************)
EXTENDS Integers, Sequences, FiniteSets, SeqFilter

CONSTANTS
  Jobs,      \* job ids
  MaxJobs    \* MAX_JOBS

ASSUME RegistryAssumption == IsFiniteSet(Jobs) /\ MaxJobs \in Nat

VARIABLES
  jobs,      \* the records, oldest first
  status,    \* the status in each record
  control,   \* jobs with a live control handle
  settled,   \* jobs whose Completed event was broadcast, transcript saved and
             \* operation scope closed
  finish     \* how far the runner of each job is

registryVars == <<jobs, status, control, settled, finish>>

TerminalStatuses == {"Succeeded", "Failed", "Cancelled", "Interrupted"}
JobStatuses      == {"Running"} \cup TerminalStatuses

\* "stamped" and "settling" are between the sections of finish.
FinishSteps == {"new", "running", "stamped", "settling", "done"}

IsListed(j) == j \in Elements(jobs)

RegistryTypeOK ==
  /\ jobs \in Seq(Jobs)
  /\ status \in [Jobs -> JobStatuses]
  /\ control \subseteq Jobs
  /\ settled \subseteq Jobs
  /\ finish \in [Jobs -> FinishSteps]

RegistryInit ==
  /\ jobs = <<>>
  /\ status = [j \in Jobs |-> "Running"]
  /\ control = {}
  /\ settled = {}
  /\ finish = [j \in Jobs |-> "new"]

\* Slip: the oldest records, running or not.
VictimsOldest(js) == {js[i] : i \in 1..(Len(js) - MaxJobs)}

\* The oldest terminal records, as many as the list is too long by; a running
\* job is never taken, however long the list.
Victims(js) ==
  {js[i] : i \in {k \in 1..Len(js) :
     /\ status[js[k]] # "Running"
     /\ Cardinality({l \in 1..(k - 1) : status[js[l]] # "Running"})
          < Len(js) - MaxJobs}}

Evict(js) == Only(js, Jobs \ Victims(js))

Register(j) ==
  /\ finish[j] = "new"
  /\ jobs' = Evict(Append(jobs, j))
  /\ finish' = [finish EXCEPT ![j] = "running"]
  /\ UNCHANGED <<status, control, settled>>

SetControl(j) ==
  /\ control' = IF IsListed(j) THEN control \cup {j} ELSE control
  /\ UNCHANGED <<jobs, status, settled, finish>>

\* finish, first section: the terminal status, and no control from here on.
Stamp(j, s) ==
  /\ finish[j] = "running"
  /\ status' = IF IsListed(j) THEN [status EXCEPT ![j] = s] ELSE status
  /\ control' = control \ {j}
  /\ finish' = [finish EXCEPT ![j] = "stamped"]
  /\ UNCHANGED <<jobs, settled>>

\* Slip: only a success is announced.
SettleSucceeded(j) ==
  /\ finish[j] = "stamped"
  /\ settled' = IF status[j] = "Succeeded" THEN settled \cup {j} ELSE settled
  /\ finish' = [finish EXCEPT ![j] = "settling"]
  /\ UNCHANGED <<jobs, status, control>>

\* Second section: look the record up again and settle what is found.
Settle(j) ==
  /\ finish[j] = "stamped"
  /\ settled' = IF IsListed(j) THEN settled \cup {j} ELSE settled
  /\ finish' = [finish EXCEPT ![j] = "settling"]
  /\ UNCHANGED <<jobs, status, control>>

\* Slip: finish does not trim.
TrimNothing(j) ==
  /\ finish[j] = "settling"
  /\ finish' = [finish EXCEPT ![j] = "done"]
  /\ UNCHANGED <<jobs, status, control, settled>>

\* Third section: trim the list.
Trim(j) ==
  /\ finish[j] = "settling"
  /\ jobs' = Evict(jobs)
  /\ finish' = [finish EXCEPT ![j] = "done"]
  /\ UNCHANGED <<status, control, settled>>

(***************************************************************************)
(* Properties.                                                             *)
(***************************************************************************)
\* The list outgrows MAX_JOBS only by records evict may not take: while no
\* finish is under way, a list longer than MAX_JOBS holds running jobs only.
RegistryBounded ==
  (\A j \in Jobs : finish[j] \notin {"stamped", "settling"}) =>
     \/ Len(jobs) <= MaxJobs
     \/ \A i \in 1..Len(jobs) : status[jobs[i]] = "Running"

\* A record only leaves the list finished, and never while an older finished
\* one stays.
EvictionOrder ==
  [][\A i \in 1..Len(jobs) :
       ~ jobs[i] \in Elements(jobs') =>
          /\ status[jobs[i]] # "Running"
          /\ \A k \in 1..(i - 1) :
               jobs[k] \in Elements(jobs') => status[jobs[k]] = "Running"]_jobs

\* A runner that is through with finish left no running record behind, and a
\* terminal record a client can still list has been announced, unless its
\* finish is under way.
FinishedIsSettled ==
  \A j \in Jobs :
    /\ finish[j] = "done" => status[j] # "Running"
    /\ finish[j] = "done" /\ IsListed(j) => j \in settled

\* "broadcast by the registry as jobs start, produce output, update metrics,
\* and complete" (job_events.rs): every finish settles its job.  The code
\* loses it when the record is evicted between the sections.
EveryFinishSettles == \A j \in Jobs : finish[j] = "done" => j \in settled
=============================================================================
