----------------------------- MODULE DagEngine -----------------------------
(***************************************************************************)
(* The DAG engine working on one run                                       *)
(* (crates/theway-core/src/multiagent/graph/{engine,scheduler,             *)
(* node_launcher,persist}.rs).                                             *)
(*                                                                         *)
(* Engine calls run on many threads: clients plan, retry, skip, cancel and *)
(* clear, and every node's job reports its own completion.  The engine     *)
(* mutex protects one lock section, not one call: a call is a series of    *)
(* sections with other threads' sections in between, and calls nest        *)
(* (tick -> start_node -> launch -> on_node_completed -> tick ...).  An    *)
(* action here is one lock section.  What a thread still has to do is its  *)
(* stack of frames, each frame one section with the values the code carries*)
(* to it in local variables.                                               *)
(***************************************************************************)
EXTENDS DagModel, Sequences, FiniteSets

CONSTANTS Threads,         \* threads executing engine calls
          Graphs,          \* the definitions clients submit
          FailFast,        \* the values clients give fail_fast, among "on", "off"
          MaxConcurrency,  \* max_concurrency of the run
          OpKinds,         \* the interventions that happen; "crash" is one
          MaxOps           \* bound on the number of interventions

ASSUME EngineAssumption ==
  /\ IsFiniteSet(Threads) /\ Threads # {}
  /\ Graphs \subseteq [Nodes -> SUBSET (Nodes \cup {Unknown})]
  /\ FailFast \subseteq {"on", "off"}
  /\ MaxConcurrency \in Nat \ {0}
  /\ OpKinds \subseteq {"retry", "skip", "cancel", "clear", "wait", "crash"}
  /\ MaxOps \in Nat

VARIABLES deps,        \* depends_on of each node
          failFast,    \* DagRun.fail_fast
          runStatus,   \* DagRun.status; "Unplanned"/"Gone"/"Down": no such run
          status,      \* DagNode.status
          gen,         \* DagNode.launch_gen; also names the token of a launch
          jobs,        \* EngineInner.jobs: token registered for a node, 0 if none
          cancelled,   \* the cancelled CancellationTokens, as <<node, token>>
          tasks,       \* the spawned run_node tasks
          stack,       \* what each thread still has to do
          saved,       \* the node statuses in the session's state file
          ops          \* interventions that may still happen

vars == <<deps, failFast, runStatus, status, gen, jobs, cancelled, tasks,
          stack, saved, ops>>

Closed      == {"Completed", "Failed", "Cancelled"}
Registered  == {"Running"} \cup Closed     \* the run is in EngineInner.runs
RunStatuses == {"Unplanned", "Gone", "Down"} \cup Registered

NoSnapshot == [n \in Nodes |-> "None"]

RunningNodes == {n \in Nodes : status[n] = "Running"}

-----------------------------------------------------------------------------
(***************************************************************************)
(* Frames and stacks.                                                      *)
(***************************************************************************)
Frame(op, n, tok, res, ids) ==
  [op |-> op, node |-> n, tok |-> tok, res |-> res, ids |-> ids]

Do(op)                  == Frame(op, 0, 0, "-", {})
DoNode(op, n)           == Frame(op, n, 0, "-", {})
DoToken(op, n, tok)     == Frame(op, n, tok, "-", {})
DoReport(n, tok, res)   == Frame("completed", n, tok, res, {})
DoAbort(ids)            == Frame("abort", 0, 0, "-", ids)

Results == {"-", "ok", "err"}

Frames ==
  [op : {"reconcile", "tick", "complete", "cancel", "abort"},
   node : {0}, tok : Nat, res : Results, ids : SUBSET Nodes]
    \cup
  [op : {"start", "launch", "after", "token"},
   node : Nodes, tok : Nat, res : {"-"}, ids : {{}}]
    \cup
  [op : {"completed"}, node : Nodes, tok : Nat, res : Results, ids : {{}}]

Tasks == [node : Nodes, tok : Nat, ph : {"running", "reporting"},
          res : Results]

Idle(t)   == stack[t] = <<>>
At(t, op) == stack[t] # <<>> /\ Head(stack[t]).op = op
Top(t)    == Head(stack[t])

Call(t, frames)    == /\ Idle(t)
                      /\ stack' = [stack EXCEPT ![t] = frames]
Replace(t, frames) == stack' = [stack EXCEPT ![t] = frames \o Tail(@)]
Return(t)          == stack' = [stack EXCEPT ![t] = Tail(@)]

Intervene(kind) == /\ kind \in OpKinds
                   /\ ops > 0
                   /\ ops' = ops - 1

-----------------------------------------------------------------------------
Init == /\ deps      = [n \in Nodes |-> {}]
        /\ failFast  = "off"
        /\ runStatus = "Unplanned"
        /\ status    = [n \in Nodes |-> "Pending"]
        /\ gen       = [n \in Nodes |-> 0]
        /\ jobs      = [n \in Nodes |-> 0]
        /\ cancelled = {}
        /\ tasks     = {}
        /\ stack     = [t \in Threads |-> <<>>]
        /\ saved     = NoSnapshot
        /\ ops       = MaxOps

(***************************************************************************)
(* plan: validate, build_run and register, then reconcile and tick.  A     *)
(* rejected definition changes nothing.                                    *)
(***************************************************************************)
Plan(t, g, ff) ==
  /\ runStatus = "Unplanned"
  /\ ValidateGraph(g)
  /\ Call(t, <<Do("reconcile"), Do("tick")>>)
  /\ runStatus' = "Running"
  /\ deps' = g
  /\ failFast' = ff
  /\ UNCHANGED <<status, gen, jobs, cancelled, tasks, saved, ops>>

-----------------------------------------------------------------------------
(***************************************************************************)
(* Scheduler sections.                                                     *)
(***************************************************************************)

\* reconcile: acts on any registered run, whatever the run's own status.
ReconcileStep(t) ==
  /\ At(t, "reconcile")
  /\ status' = IF runStatus \in Registered THEN Reconcile(deps, status) ELSE status
  /\ Return(t)
  /\ UNCHANGED <<deps, failFast, runStatus, gen, jobs, cancelled, tasks,
                 saved, ops>>

\* Slip: the budget is not looked at.
CanLaunchAny == runStatus = "Running" /\ \E n \in Nodes : status[n] = "Ready"

\* tick, the section that reads: is there budget, and which node is first?
CanLaunch == /\ runStatus = "Running"
             /\ Cardinality(RunningNodes) < MaxConcurrency
             /\ \E n \in Nodes : status[n] = "Ready"

FirstReady(n) == /\ status[n] = "Ready"
                 /\ \A m \in Nodes : status[m] = "Ready" => n <= m

TickStep(t) ==
  /\ At(t, "tick")
  /\ \/ /\ CanLaunch
        /\ \E n \in Nodes :
             /\ FirstReady(n)
             /\ stack' = [stack EXCEPT ![t] = <<DoNode("start", n)>> \o @]
     \/ /\ ~CanLaunch
        /\ Return(t)
  /\ UNCHANGED <<deps, failFast, runStatus, status, gen, jobs, cancelled,
                 tasks, saved, ops>>

\* start_node: locks again, and checks only that the node is still ready.
StartStep(t) ==
  /\ At(t, "start")
  /\ LET n == Top(t).node IN
     \/ /\ runStatus \in Registered /\ status[n] = "Ready"
        /\ status' = [status EXCEPT ![n] = "Running"]
        /\ gen'    = [gen    EXCEPT ![n] = @ + 1]
        /\ jobs'   = [jobs   EXCEPT ![n] = gen[n] + 1]
        /\ Replace(t, <<DoToken("launch", n, gen[n] + 1)>>)
     \/ /\ ~(runStatus \in Registered /\ status[n] = "Ready")
        /\ Return(t)
        /\ UNCHANGED <<status, gen, jobs>>
  /\ UNCHANGED <<deps, failFast, runStatus, cancelled, tasks, saved, ops>>

(***************************************************************************)
(* launch: a missing launcher, a panic, an unknown agent, tool, thinking   *)
(* level or model fails the node in this very call; a cancelled token or a *)
(* run that is gone ends it silently; otherwise a task is spawned.  A task *)
(* spawned for a session without a model has nothing to do but report the  *)
(* failure.                                                                *)
(***************************************************************************)
LaunchFails(t) ==
  /\ At(t, "launch")
  /\ Replace(t, <<DoReport(Top(t).node, Top(t).tok, "err")>>)
  /\ UNCHANGED <<deps, failFast, runStatus, status, gen, jobs, cancelled,
                 tasks, saved, ops>>

LaunchDropped(t) ==
  /\ At(t, "launch")
  /\ \/ runStatus \notin Registered
     \/ <<Top(t).node, Top(t).tok>> \in cancelled
  /\ Return(t)
  /\ UNCHANGED <<deps, failFast, runStatus, status, gen, jobs, cancelled,
                 tasks, saved, ops>>

LaunchSpawns(t) ==
  /\ At(t, "launch")
  /\ runStatus \in Registered
  /\ <<Top(t).node, Top(t).tok>> \notin cancelled
  /\ \E phase \in {[ph |-> "running", res |-> "-"],
                   [ph |-> "reporting", res |-> "err"]} :
       tasks' = tasks \cup {[node |-> Top(t).node, tok |-> Top(t).tok,
                             ph |-> phase.ph, res |-> phase.res]}
  /\ Return(t)
  /\ UNCHANGED <<deps, failFast, runStatus, status, gen, jobs, cancelled,
                 saved, ops>>

\* Slip: the token stays in the job table.
CompletedKeepsJob(t) ==
  /\ At(t, "completed")
  /\ LET n == Top(t).node IN
     \/ /\ runStatus \in Registered /\ status[n] = "Running"
        /\ status' = [status EXCEPT ![n] =
                        IF Top(t).res = "ok" THEN "Succeeded" ELSE "Failed"]
        /\ Replace(t, <<DoNode("after", n)>>)
     \/ /\ ~(runStatus \in Registered /\ status[n] = "Running")
        /\ Return(t)
        /\ UNCHANGED status
  /\ UNCHANGED <<deps, failFast, runStatus, gen, jobs, cancelled, tasks, saved, ops>>

\* Slip: a report is applied whatever the node's status.
CompletedUnchecked(t) ==
  /\ At(t, "completed")
  /\ LET n == Top(t).node IN
     /\ status' = [status EXCEPT ![n] =
                     IF Top(t).res = "ok" THEN "Succeeded" ELSE "Failed"]
     /\ jobs' = [jobs EXCEPT ![n] = 0]
     /\ Replace(t, <<DoNode("after", n)>>)
  /\ UNCHANGED <<deps, failFast, runStatus, gen, cancelled, tasks, saved, ops>>

(***************************************************************************)
(* on_node_completed: applied if the node is Running, whichever launch of  *)
(* the node the report comes from (the report carries no launch_gen; tok   *)
(* records its origin for the properties below).                           *)
(***************************************************************************)
CompletedStep(t) ==
  /\ At(t, "completed")
  /\ LET n == Top(t).node IN
     \/ /\ runStatus \in Registered /\ status[n] = "Running"
        /\ status' = [status EXCEPT ![n] =
                        IF Top(t).res = "ok" THEN "Succeeded" ELSE "Failed"]
        /\ jobs' = [jobs EXCEPT ![n] = 0]
        /\ Replace(t, <<DoNode("after", n)>>)
     \/ /\ ~(runStatus \in Registered /\ status[n] = "Running")
        /\ Return(t)
        /\ UNCHANGED <<status, jobs>>
  /\ UNCHANGED <<deps, failFast, runStatus, gen, cancelled, tasks, saved, ops>>

\* Slip: the scheduler is not woken after a node ends.
AfterWithoutTick(t) ==
  /\ At(t, "after")
  /\ Replace(t, <<Do("reconcile"), Do("complete")>>)
  /\ UNCHANGED <<deps, failFast, runStatus, status, gen, jobs, cancelled,
                 tasks, saved, ops>>

\* after_node_terminal: decides in one section, acts in later ones.
AfterStep(t) ==
  /\ At(t, "after")
  /\ \/ /\ runStatus \notin Registered
        /\ Return(t)
     \/ /\ runStatus \in Registered
        /\ IF status[Top(t).node] = "Failed" /\ failFast = "on"
             THEN Replace(t, <<Do("cancel")>>)
             ELSE Replace(t, <<Do("reconcile"), Do("tick"), Do("complete")>>)
  /\ UNCHANGED <<deps, failFast, runStatus, status, gen, jobs, cancelled,
                 tasks, saved, ops>>

\* Slip: a run with a blocked node is never closed.
CompleteOnlyDone(t) ==
  /\ At(t, "complete")
  /\ runStatus' = IF runStatus = "Running" /\ \A n \in Nodes : status[n] \in Done
                    THEN "Completed" ELSE runStatus
  /\ Return(t)
  /\ UNCHANGED <<deps, failFast, status, gen, jobs, cancelled, tasks, saved,
                 ops>>

\* maybe_complete.
CompleteStep(t) ==
  /\ At(t, "complete")
  /\ runStatus' =
       IF runStatus = "Running" /\ \A n \in Nodes : status[n] \in Terminal
         THEN IF \E n \in Nodes : status[n] \in Blocked
                THEN "Failed" ELSE "Completed"
         ELSE runStatus
  /\ Return(t)
  /\ UNCHANGED <<deps, failFast, status, gen, jobs, cancelled, tasks, saved,
                 ops>>

-----------------------------------------------------------------------------
(***************************************************************************)
(* Interventions.                                                          *)
(***************************************************************************)

\* Slips: ready nodes are forgotten; finished nodes are cancelled too.
CancelForgetsReady ==
  /\ runStatus' = "Cancelled"
  /\ status' = [n \in Nodes |-> IF status[n] \in {"Pending", "Running"}
                                  THEN "Cancelled" ELSE status[n]]

CancelEverything ==
  /\ runStatus' = "Cancelled"
  /\ status' = [n \in Nodes |-> "Cancelled"]

\* cancel_run, first lock section: flip the nodes and the run.
CancelNodes ==
  /\ runStatus' = "Cancelled"
  /\ status' = [n \in Nodes |-> IF status[n] \in Terminal THEN status[n]
                                                          ELSE "Cancelled"]

CancelRun(t) ==
  /\ Intervene("cancel")
  /\ runStatus = "Running"
  /\ CancelNodes
  /\ Call(t, <<DoAbort(RunningNodes)>>)
  /\ UNCHANGED <<deps, failFast, gen, jobs, cancelled, tasks, saved>>

\* The same call, made by after_node_terminal of a fail-fast run.
CancelStep(t) ==
  /\ At(t, "cancel")
  /\ \/ /\ runStatus = "Running"
        /\ CancelNodes
        /\ Replace(t, <<DoAbort(RunningNodes)>>)
     \/ /\ runStatus # "Running"
        /\ Return(t)
        /\ UNCHANGED <<runStatus, status>>
  /\ UNCHANGED <<deps, failFast, gen, jobs, cancelled, tasks, saved, ops>>

\* cancel_run, second lock section: cancel whatever tokens the nodes that
\* were running have by now.
AbortStep(t) ==
  /\ At(t, "abort")
  /\ LET ids == Top(t).ids IN
     /\ cancelled' = cancelled \cup {<<n, jobs[n]>> : n \in {m \in ids : jobs[m] # 0}}
     /\ jobs' = [n \in Nodes |-> IF n \in ids THEN 0 ELSE jobs[n]]
  /\ Return(t)
  /\ UNCHANGED <<deps, failFast, runStatus, status, gen, tasks, saved, ops>>

\* Slips: every unfinished node is reset; a named node is reset unseen.
ToResetUnfinished(ids) == {n \in (IF ids = {} THEN Nodes ELSE ids) : status[n] \notin Done}

ToResetNamed(ids) == IF ids = {} THEN {n \in Nodes : status[n] \in Blocked} ELSE ids

\* retry: the named blocked nodes (all blocked nodes if none is named) and
\* the blocked nodes downstream of them wait again; a closed run reopens.
ToReset(ids) ==
  LET targets == {n \in (IF ids = {} THEN Nodes ELSE ids) : status[n] \in Blocked}
  IN  targets \cup {c \in UNION {DownstreamClosure(deps, n) : n \in targets} :
                      status[c] \in Blocked}

Retry(t, ids) ==
  /\ Intervene("retry")
  /\ runStatus \in Registered
  /\ status' = [n \in Nodes |-> IF n \in ToReset(ids) THEN "Pending" ELSE status[n]]
  /\ runStatus' = "Running"
  /\ Call(t, <<Do("reconcile"), Do("tick"), Do("complete")>>)
  /\ UNCHANGED <<deps, failFast, gen, jobs, cancelled, tasks, saved>>

\* skip: the node counts as done; skipping a failed node releases what it
\* blocked.  The token leaves the job table under the lock and is cancelled
\* after it.
Released(n) ==
  IF status[n] = "Failed"
    THEN {c \in DownstreamClosure(deps, n) : status[c] \in Blocked} ELSE {}

Skip(t, n) ==
  /\ Intervene("skip")
  /\ runStatus \in Registered
  /\ status[n] \notin Done
  /\ status' = [m \in Nodes |-> IF m = n THEN "Skipped"
                                ELSE IF m \in Released(n) THEN "Pending"
                                ELSE status[m]]
  /\ runStatus' = "Running"
  /\ IF status[n] = "Running"
       THEN /\ jobs' = [jobs EXCEPT ![n] = 0]
            /\ IF jobs[n] # 0
                 THEN Call(t, <<DoToken("token", n, jobs[n]), DoNode("after", n)>>)
                 ELSE Call(t, <<DoNode("after", n)>>)
       ELSE /\ Call(t, <<DoNode("after", n)>>)
            /\ UNCHANGED jobs
  /\ UNCHANGED <<deps, failFast, gen, cancelled, tasks, saved>>

TokenStep(t) ==
  /\ At(t, "token")
  /\ cancelled' = cancelled \cup {<<Top(t).node, Top(t).tok>>}
  /\ Return(t)
  /\ UNCHANGED <<deps, failFast, runStatus, status, gen, jobs, tasks, saved,
                 ops>>

\* clear_run, clear_session_runs and the retention cap drop closed runs only.
Clear ==
  /\ Intervene("clear")
  /\ runStatus \in Closed
  /\ runStatus' = "Gone"
  /\ UNCHANGED <<deps, failFast, status, gen, jobs, cancelled, tasks, stack,
                 saved>>

\* wait_for_run begins with maybe_complete, before it looks at the run.
Wait(t) ==
  /\ Intervene("wait")
  /\ Call(t, <<Do("complete")>>)
  /\ UNCHANGED <<deps, failFast, runStatus, status, gen, jobs, cancelled,
                 tasks, saved>>

-----------------------------------------------------------------------------
(***************************************************************************)
(* run_node: the spawned task runs the subagent, looks once at its token,  *)
(* and then either ends silently or reports.                               *)
(***************************************************************************)
TaskAborted(j) ==
  /\ j.ph = "running"
  /\ <<j.node, j.tok>> \in cancelled
  /\ tasks' = tasks \ {j}
  /\ UNCHANGED <<deps, failFast, runStatus, status, gen, jobs, cancelled,
                 stack, saved, ops>>

TaskFinished(j, res) ==
  /\ j.ph = "running"
  /\ <<j.node, j.tok>> \notin cancelled
  /\ tasks' = (tasks \ {j}) \cup {[j EXCEPT !.ph = "reporting", !.res = res]}
  /\ UNCHANGED <<deps, failFast, runStatus, status, gen, jobs, cancelled,
                 stack, saved, ops>>

TaskReports(j, t) ==
  /\ j.ph = "reporting"
  /\ tasks' = tasks \ {j}
  /\ Call(t, <<DoReport(j.node, j.tok, j.res)>>)
  /\ UNCHANGED <<deps, failFast, runStatus, status, gen, jobs, cancelled,
                 saved, ops>>

-----------------------------------------------------------------------------
(***************************************************************************)
(* Persistence and restart.  The debounced writer saves the running runs;  *)
(* a crash loses everything else; restore hydrates what was saved, with    *)
(* running nodes demoted to ready and launch generations restarted, then   *)
(* reconciles and ticks.  A session whose runs are all gone is not         *)
(* rewritten.                                                              *)
(***************************************************************************)
Save ==
  /\ "crash" \in OpKinds /\ ops > 0   \* otherwise nothing reads it
  /\ runStatus \in Registered
  /\ saved' = IF runStatus = "Running" THEN status ELSE NoSnapshot
  /\ UNCHANGED <<deps, failFast, runStatus, status, gen, jobs, cancelled,
                 tasks, stack, ops>>

Crash ==
  /\ Intervene("crash")
  /\ runStatus # "Unplanned"
  /\ runStatus' = "Down"
  /\ status'    = [n \in Nodes |-> "Pending"]
  /\ gen'       = [n \in Nodes |-> 0]
  /\ jobs'      = [n \in Nodes |-> 0]
  /\ cancelled' = {}
  /\ tasks'     = {}
  /\ stack'     = [t \in Threads |-> <<>>]
  /\ UNCHANGED <<deps, failFast, saved>>

\* Slips: every unfinished node is made ready; successes are repeated;
\* running nodes stay running.
HydrateReady(st)    == [n \in Nodes |-> IF st[n] \in Terminal THEN st[n] ELSE "Ready"]
HydrateRestarts(st) == [n \in Nodes |-> IF st[n] \in {"Running", "Succeeded"}
                                           THEN "Ready" ELSE st[n]]
HydrateVerbatim(st) == st

Hydrate(st) == [n \in Nodes |-> IF st[n] = "Running" THEN "Ready" ELSE st[n]]

Restore(t) ==
  /\ runStatus = "Down"
  /\ saved # NoSnapshot
  /\ Call(t, <<Do("reconcile"), Do("tick")>>)
  /\ runStatus' = "Running"
  /\ status' = Hydrate(saved)
  /\ UNCHANGED <<deps, failFast, gen, jobs, cancelled, tasks, saved, ops>>

-----------------------------------------------------------------------------
ThreadStep(t) ==
  \/ ReconcileStep(t)
  \/ TickStep(t)
  \/ StartStep(t)
  \/ LaunchFails(t)
  \/ LaunchDropped(t)
  \/ LaunchSpawns(t)
  \/ CompletedStep(t)
  \/ AfterStep(t)
  \/ CompleteStep(t)
  \/ CancelStep(t)
  \/ AbortStep(t)
  \/ TokenStep(t)

TaskEnds(j) == TaskAborted(j) \/ \E res \in {"ok", "err"} : TaskFinished(j, res)

Next ==
  \/ \E t \in Threads : \E g \in Graphs : \E ff \in FailFast : Plan(t, g, ff)
  \/ \E t \in Threads : ThreadStep(t)
  \/ \E t \in Threads : CancelRun(t)
  \/ \E t \in Threads : \E ids \in SUBSET Nodes : Retry(t, ids)
  \/ \E t \in Threads : \E n \in Nodes : Skip(t, n)
  \/ Clear
  \/ \E t \in Threads : Wait(t)
  \/ \E j \in tasks : TaskEnds(j)
  \/ \E j \in tasks : \E t \in Threads : TaskReports(j, t)
  \/ Save
  \/ Crash
  \/ \E t \in Threads : Restore(t)

Spec == Init /\ [][Next]_vars

(***************************************************************************)
(* Fairness.  A thread inside an engine call keeps running (the sections   *)
(* block on nothing but the short engine mutex), a subagent's run ends     *)
(* (run_agent bounds its iterations and its idle watchdog aborts a silent  *)
(* one; a provider that streams one reply for ever is left out), and a     *)
(* task that has its result is eventually scheduled to report.  Clients,   *)
(* crashes, saves and restarts owe nothing.                                *)
(***************************************************************************)
Fairness ==
  /\ \A t \in Threads : WF_vars(ThreadStep(t))
  /\ WF_vars(\E j \in tasks : TaskEnds(j))
  /\ WF_vars(\E j \in tasks : \E t \in Threads : TaskReports(j, t))

FairSpec == Spec /\ Fairness

-----------------------------------------------------------------------------
(***************************************************************************)
(* Type invariant.                                                         *)
(***************************************************************************)
TypeOK ==
  /\ deps      \in [Nodes -> SUBSET Nodes]
  /\ failFast  \in {"on", "off"}
  /\ runStatus \in RunStatuses
  /\ status    \in [Nodes -> Statuses]
  /\ gen       \in [Nodes -> Nat]
  /\ jobs      \in [Nodes -> Nat]
  /\ cancelled \subseteq Nodes \X Nat
  /\ tasks     \subseteq Tasks
  /\ stack     \in [Threads -> Seq(Frames)]
  /\ saved     \in [Nodes -> Statuses] \cup {NoSnapshot}
  /\ ops       \in 0..MaxOps

(***************************************************************************)
(* Safety that no interleaving of calls, reports and crashes may break.    *)
(***************************************************************************)

\* A node that is ready, running or has run waited for its dependencies:
\* every one of them has succeeded or was skipped, still.  Holds although
\* start_node checks nothing but the node's own status, and although retry
\* and skip rewrite the graph's statuses under running jobs.
StartedAfterDeps ==
  runStatus \in Registered =>
    \A n \in Nodes : status[n] \in {"Ready", "Running", "Succeeded", "Failed"}
                        => DepsDone(deps, status, n)

\* A closed run is settled: every node is terminal (so no stale tick of
\* another thread can start one), Completed means every node is done and
\* Failed means one is blocked.
ClosedRunIsSettled ==
  runStatus \in Closed =>
    /\ \A n \in Nodes : status[n] \in Terminal
    /\ runStatus = "Completed" => \A n \in Nodes : status[n] \in Done
    /\ runStatus = "Failed"    => \E n \in Nodes : status[n] \in Blocked

\* While the run is loaded nothing undoes a success or a skip: no retry, no
\* cancellation and no late report re-runs a node that is done.
DoneIsFinal ==
  [][(runStatus \in Registered /\ runStatus' \in Registered) =>
       \A n \in Nodes : status[n] \in Done => status'[n] = status[n]]_vars

\* A success that reached the state file is not repeated: whatever crashes
\* and restarts follow, a node saved as done is never launched again.
DurableDone ==
  [][\A n \in Nodes : (saved[n] \in Done /\ status'[n] = "Running")
                        => status[n] = "Running"]_vars

\* What makes StartedAfterDeps and DurableDone survive a restart: a state file
\* is a sound cut of the run (every node it records as started has its
\* dependencies recorded as done), a loaded run is never behind its file, and
\* there is no file before the run is planned.
SnapshotSound ==
  /\ \A n \in Nodes : saved[n] \in {"Ready", "Running", "Succeeded", "Failed"}
                        => DepsDone(deps, saved, n)
  /\ runStatus \in Registered =>
       \A n \in Nodes : saved[n] \in Done => status[n] \in Done
  /\ runStatus = "Unplanned" =>
       /\ saved = NoSnapshot
       /\ status = [n \in Nodes |-> "Pending"]
  /\ runStatus = "Down" => status = [n \in Nodes |-> "Pending"]

\* "Max concurrently running nodes" (types.rs), "within the concurrency budget"
\* (scheduler.rs).  The code breaks this: tick reads the budget in one lock section
\* and start_node spends it in another.
WithinBudget == Cardinality(RunningNodes) <= MaxConcurrency

\* How far the budget is exceeded: each thread inside a call spends at most one
\* slot that others have spent too, so that the first one stays within it.
OvershootBounded ==
  Cardinality(RunningNodes) < MaxConcurrency + Cardinality(Threads)

\* The engine implements the abstract run.
Run == INSTANCE DagRun

ImplementsRun == Run!AbsSpec

(***************************************************************************)
(* Safety of launches and reports, without whole-run cancellation.         *)
(***************************************************************************)
InFlight(n, tok) ==
  \/ \E j \in tasks : /\ j.node = n
                      /\ j.tok = tok
                      /\ (j.ph = "reporting" \/ <<n, tok>> \notin cancelled)
  \/ \E t \in Threads : \E i \in 1..Len(stack[t]) :
        LET f == stack[t][i] IN
        f.op \in {"launch", "completed"} /\ f.node = n /\ f.tok = tok

\* The job table is exact: a running node has a registered token, and that
\* token belongs to a launch in flight that will report; a task that is not
\* cancelled, or about to be, is registered, so it can be cancelled.
JobTableExact ==
  /\ \A n \in Nodes : (status[n] = "Running") <=> (jobs[n] # 0)
  /\ \A n \in Nodes : jobs[n] # 0 => InFlight(n, jobs[n])
  /\ \A j \in tasks :
       \/ j.ph = "reporting"
       \/ <<j.node, j.tok>> \in cancelled
       \/ jobs[j.node] = j.tok
       \/ \E t \in Threads : \E i \in 1..Len(stack[t]) :
             stack[t][i] = DoToken("token", j.node, j.tok)

\* A completion report is applied only to the launch that produced it.
ReportIsCurrent ==
  [][\A t \in Threads :
       (/\ At(t, "completed")
        /\ stack'[t] # stack[t]
        /\ status[Top(t).node] = "Running"
        /\ status'[Top(t).node] # "Running")
         => Top(t).tok = gen[Top(t).node]]_vars

\* A failure reaches everything downstream: when no call is in progress no
\* waiting node is left behind a failed or cancelled dependency.
BlockedCascades ==
  (runStatus \in Registered /\ \A t \in Threads : Idle(t)) =>
    \A n \in Nodes : \A d \in deps[n] :
       status[d] \in Blocked => status[n] \notin Waiting

\* The engine is never stuck: when no call is in progress a run that is
\* still Running has a job in flight that will report.
NeverStuck ==
  (runStatus = "Running" /\ \A t \in Threads : Idle(t)) =>
    \E n \in Nodes : status[n] = "Running" /\ InFlight(n, jobs[n])

\* A run reaches a terminal status for good once clients leave it alone.
RunSettles == <>[](runStatus # "Running")

=============================================================================
