------------------------------- MODULE DagRun -------------------------------
(***************************************************************************)
(* What the DAG engine promises about one run, with no threads, tokens or  *)
(* jobs: a node starts only after its dependencies, a finished node stays  *)
(* finished while the run is loaded, and the run is closed only over       *)
(* terminal nodes.  DagEngine implements this specification.               *)
(***************************************************************************)
EXTENDS DagModel

VARIABLES deps,       \* the graph of the run
          status,     \* the status of each node
          runStatus   \* the status of the run

absVars == <<deps, status, runStatus>>

Closed      == {"Completed", "Failed", "Cancelled"}
Registered  == {"Running"} \cup Closed
RunStatuses == {"Unplanned", "Gone", "Down"} \cup Registered

AbsInit == /\ deps      = [n \in Nodes |-> {}]
           /\ status    = [n \in Nodes |-> "Pending"]
           /\ runStatus = "Unplanned"

\* A new run: every node waits.
Plan == /\ runStatus = "Unplanned"
        /\ runStatus' = "Running"
        /\ deps' \in [Nodes -> SUBSET Nodes]
        /\ status' = [n \in Nodes |-> "Pending"]

\* Waiting nodes are re-derived; one becomes ready only if its turn has come.
Classify ==
  /\ runStatus \in Registered
  /\ status' \in [Nodes -> Statuses]
  /\ \A n \in Nodes :
       \/ status'[n] = status[n]
       \/ /\ status[n] \in Waiting
          /\ \/ status'[n] \in {"Pending", "Cancelled"}
             \/ status'[n] = "Ready" /\ DepsDone(deps, status, n)
  /\ UNCHANGED <<deps, runStatus>>

Start(n) == /\ runStatus = "Running"
            /\ status[n] = "Ready"
            /\ DepsDone(deps, status, n)
            /\ status' = [status EXCEPT ![n] = "Running"]
            /\ UNCHANGED <<deps, runStatus>>

Finish(n) == /\ runStatus = "Running"
             /\ status[n] = "Running"
             /\ \E s \in {"Succeeded", "Failed"} :
                   status' = [status EXCEPT ![n] = s]
             /\ UNCHANGED <<deps, runStatus>>

\* The run is closed over terminal nodes, and says whether one is blocked.
Close == /\ runStatus = "Running"
         /\ \A n \in Nodes : status[n] \in Terminal
         /\ \/ /\ \E n \in Nodes : status[n] \in Blocked
               /\ runStatus' = "Failed"
            \/ /\ \A n \in Nodes : status[n] \in Done
               /\ runStatus' = "Completed"
         /\ UNCHANGED <<deps, status>>

Cancel == /\ runStatus = "Running"
          /\ runStatus' = "Cancelled"
          /\ status' = [n \in Nodes |-> IF status[n] \in Terminal
                                          THEN status[n] ELSE "Cancelled"]
          /\ UNCHANGED deps

\* The operator reopens the run: some blocked nodes wait again and, for a
\* skip, one unfinished node counts as done.
Reopen ==
  /\ runStatus \in Registered
  /\ runStatus' = "Running"
  /\ \E S \in SUBSET Nodes :
       /\ \A n \in S : status[n] \in Blocked
       /\ \/ status' = [n \in Nodes |-> IF n \in S THEN "Pending" ELSE status[n]]
          \/ \E k \in Nodes :
               /\ status[k] \notin Done
               /\ status' = [n \in Nodes |-> IF n = k THEN "Skipped"
                                             ELSE IF n \in S THEN "Pending"
                                             ELSE status[n]]
  /\ UNCHANGED deps

\* A closed run may be dropped from the registry.
Drop == /\ runStatus \in Closed
        /\ runStatus' = "Gone"
        /\ UNCHANGED <<deps, status>>

\* The process dies; a later one may load what was saved, with no node running.
Crash == /\ runStatus # "Unplanned"
         /\ runStatus' = "Down"
         /\ UNCHANGED deps
         /\ status' \in [Nodes -> Statuses]

Recover ==
  /\ runStatus = "Down"
  /\ runStatus' = "Running"
  /\ UNCHANGED deps
  /\ status' \in [Nodes -> Statuses \ {"Running"}]
  /\ \A n \in Nodes : status'[n] \in {"Ready", "Succeeded", "Failed"}
                        => DepsDone(deps, status', n)

AbsNext == \/ Plan
           \/ Classify
           \/ \E n \in Nodes : Start(n) \/ Finish(n)
           \/ Close
           \/ Cancel
           \/ Reopen
           \/ Drop
           \/ Crash
           \/ Recover

AbsSpec == AbsInit /\ [][AbsNext]_absVars

=============================================================================
