-------------------------- MODULE DagEngineProofs --------------------------
(***************************************************************************)
(* TLAPS proofs about DagEngine, for every number of nodes, every set of   *)
(* threads, every submitted graph and any number of interventions: what no *)
(* interleaving breaks, that the engine implements the abstract run, how   *)
(* far its threads overshoot the concurrency, that the job table is exact  *)
(* and a report applied to its own launch, and that nothing the engine has *)
(* to act on is forgotten.                                                 *)
(***************************************************************************)
EXTENDS DagEngine, DagModelProofs


-----------------------------------------------------------------------------
(***************************************************************************)
(* Frames and stacks.                                                      *)
(***************************************************************************)

\* The frame constructors build frames.
LEMMA FrameTypes ==
  /\ \A op \in {"reconcile", "tick", "complete", "cancel"} : Do(op) \in Frames
  /\ \A ids \in SUBSET Nodes : DoAbort(ids) \in Frames
  /\ \A op \in {"start", "after"} : \A n \in Nodes : DoNode(op, n) \in Frames
  /\ \A op \in {"launch", "token"} : \A n \in Nodes : \A k \in Nat :
        DoToken(op, n, k) \in Frames
  /\ \A n \in Nodes : \A k \in Nat : \A r \in Results :
        DoReport(n, k, r) \in Frames
  BY DEF Do, DoAbort, DoNode, DoToken, DoReport, Frame, Frames, Results

\* Short sequences of frames are stacks.
LEMMA ShortStacks ==
  /\ <<>> \in Seq(Frames)
  /\ \A a \in Frames : <<a>> \in Seq(Frames)
  /\ \A a, b \in Frames : <<a, b>> \in Seq(Frames)
  /\ \A a, b, c \in Frames : <<a, b, c>> \in Seq(Frames)
  OBVIOUS

\* The frame a thread is at is well formed, and so is the rest of its stack.
LEMMA TopFrame ==
  ASSUME TypeOK, NEW t \in Threads, NEW op, At(t, op)
  PROVE  /\ Top(t) \in Frames
         /\ Top(t).op = op
         /\ Tail(stack[t]) \in Seq(Frames)
  <1>1. stack[t] \in Seq(Frames) /\ stack[t] # <<>>
    BY DEF TypeOK, At
  <1>2. Head(stack[t]) \in Frames /\ Tail(stack[t]) \in Seq(Frames)
    BY <1>1, HeadTailProperties
  <1> QED
    BY <1>2 DEF Top, At

\* A thread at a section about a node carries that node.
LEMMA TopNode ==
  ASSUME TypeOK, NEW t \in Threads,
         NEW op \in {"start", "launch", "completed", "after", "token"}, At(t, op)
  PROVE  /\ Top(t).node \in Nodes
         /\ Top(t).tok \in Nat
         /\ Top(t).res \in Results
  <1>1. Top(t) \in Frames /\ Top(t).op = op
    BY TopFrame
  <1> QED
    BY <1>1 DEF Frames, Results

\* An idle thread that starts a call gets a stack of frames.
LEMMA CallType ==
  ASSUME TypeOK, NEW t \in Threads, NEW fs \in Seq(Frames), Call(t, fs)
  PROVE  stack' \in [Threads -> Seq(Frames)]
  BY DEF TypeOK, Call

\* Leaving a section leaves a stack of frames.
LEMMA ReturnType ==
  ASSUME TypeOK, NEW t \in Threads, NEW op, At(t, op), Return(t)
  PROVE  stack' \in [Threads -> Seq(Frames)]
  <1>1. Tail(stack[t]) \in Seq(Frames)
    BY TopFrame
  <1> QED
    BY <1>1 DEF TypeOK, Return

\* A section that continues as other sections leaves a stack of frames.
LEMMA ReplaceType ==
  ASSUME TypeOK, NEW t \in Threads, NEW op, At(t, op),
         NEW fs \in Seq(Frames), Replace(t, fs)
  PROVE  stack' \in [Threads -> Seq(Frames)]
  <1>1. Tail(stack[t]) \in Seq(Frames)
    BY TopFrame
  <1>2. fs \o Tail(stack[t]) \in Seq(Frames)
    BY <1>1, ConcatProperties
  <1> QED
    BY <1>2 DEF TypeOK, Replace

-----------------------------------------------------------------------------
(***************************************************************************)
(* Type correctness, one step per action.                                  *)
(***************************************************************************)

\* reconcile, retry, skip, cancel and hydrate assign statuses only.
LEMMA StatusTypes ==
  ASSUME TypeOK
  PROVE  /\ Reconcile(deps, status) \in [Nodes -> Statuses]
         /\ \A st \in [Nodes -> Statuses] : Hydrate(st) \in [Nodes -> Statuses]
  BY DEF TypeOK, Reconcile, Hydrate, Statuses

\* An accepted definition names only its own nodes.
LEMMA PlanType ==
  ASSUME NEW g \in Graphs, ValidateGraph(g)
  PROVE  g \in [Nodes -> SUBSET Nodes]
  BY EngineAssumption DEF ValidateGraph

\* Every lock section of a call leaves every variable in its type.
LEMMA TypeThreadStep ==
  ASSUME TypeOK, NEW t \in Threads, ThreadStep(t)
  PROVE  TypeOK'
  <1>1. CASE ReconcileStep(t)
    <2>1. stack' \in [Threads -> Seq(Frames)]
      BY <1>1, ReturnType DEF ReconcileStep
    <2>2. status' \in [Nodes -> Statuses]
      BY <1>1, StatusTypes DEF ReconcileStep, TypeOK
    <2> QED
      BY <1>1, <2>1, <2>2 DEF ReconcileStep, TypeOK, NoSnapshot
  <1>2. CASE TickStep(t)
    <2>1. ASSUME NEW n \in Nodes,
                 stack' = [stack EXCEPT ![t] = <<DoNode("start", n)>> \o @]
          PROVE  TypeOK'
      <3>1. <<DoNode("start", n)>> \in Seq(Frames)
        BY FrameTypes, ShortStacks
      <3>2. <<DoNode("start", n)>> \o stack[t] \in Seq(Frames)
        BY <3>1, ConcatProperties DEF TypeOK
      <3> QED
        BY <1>2, <2>1, <3>2 DEF TickStep, TypeOK, NoSnapshot
    <2>2. CASE Return(t)
      <3>1. stack' \in [Threads -> Seq(Frames)]
        BY <1>2, <2>2, ReturnType DEF TickStep
      <3> QED
        BY <1>2, <3>1 DEF TickStep, TypeOK, NoSnapshot
    <2> QED
      BY <1>2, <2>1, <2>2 DEF TickStep
  <1>3. CASE StartStep(t)
    <2> DEFINE n == Top(t).node
    <2>1. n \in Nodes
      BY <1>3, TopNode DEF StartStep
    <2>2. CASE Return(t) /\ UNCHANGED <<status, gen, jobs>>
      <3>1. stack' \in [Threads -> Seq(Frames)]
        BY <1>3, <2>2, ReturnType DEF StartStep
      <3> QED
        BY <1>3, <2>2, <3>1 DEF StartStep, TypeOK, NoSnapshot
    <2>3. CASE /\ status' = [status EXCEPT ![n] = "Running"]
               /\ gen'    = [gen    EXCEPT ![n] = @ + 1]
               /\ jobs'   = [jobs   EXCEPT ![n] = gen[n] + 1]
               /\ Replace(t, <<DoToken("launch", n, gen[n] + 1)>>)
      <3>1. gen[n] + 1 \in Nat
        BY <2>1 DEF TypeOK
      <3>2. <<DoToken("launch", n, gen[n] + 1)>> \in Seq(Frames)
        BY <2>1, <3>1, FrameTypes, ShortStacks
      <3>3. stack' \in [Threads -> Seq(Frames)]
        BY <1>3, <2>3, <3>2, ReplaceType DEF StartStep
      <3> QED
        BY <1>3, <2>1, <2>3, <3>1, <3>3 DEF StartStep, TypeOK, Statuses, NoSnapshot
    <2> QED
      BY <1>3, <2>2, <2>3 DEF StartStep
  <1>4. CASE LaunchFails(t)
    <2>1. <<DoReport(Top(t).node, Top(t).tok, "err")>> \in Seq(Frames)
      BY <1>4, TopNode, FrameTypes, ShortStacks DEF LaunchFails, Results
    <2>2. stack' \in [Threads -> Seq(Frames)]
      BY <1>4, <2>1, ReplaceType DEF LaunchFails
    <2> QED
      BY <1>4, <2>2 DEF LaunchFails, TypeOK, NoSnapshot
  <1>5. CASE LaunchDropped(t)
    <2>1. stack' \in [Threads -> Seq(Frames)]
      BY <1>5, ReturnType DEF LaunchDropped
    <2> QED
      BY <1>5, <2>1 DEF LaunchDropped, TypeOK, NoSnapshot
  <1>6. CASE LaunchSpawns(t)
    <2>1. stack' \in [Threads -> Seq(Frames)]
      BY <1>6, ReturnType DEF LaunchSpawns
    <2>2. Top(t).node \in Nodes /\ Top(t).tok \in Nat
      BY <1>6, TopNode DEF LaunchSpawns
    <2>3. tasks' \subseteq Tasks
      BY <1>6, <2>2 DEF LaunchSpawns, TypeOK, Tasks, Results
    <2> QED
      BY <1>6, <2>1, <2>3 DEF LaunchSpawns, TypeOK, NoSnapshot
  <1>7. CASE CompletedStep(t)
    <2> DEFINE n == Top(t).node
    <2>1. n \in Nodes
      BY <1>7, TopNode DEF CompletedStep
    <2>2. CASE Return(t) /\ UNCHANGED <<status, jobs>>
      <3>1. stack' \in [Threads -> Seq(Frames)]
        BY <1>7, <2>2, ReturnType DEF CompletedStep
      <3> QED
        BY <1>7, <2>2, <3>1 DEF CompletedStep, TypeOK, NoSnapshot
    <2>3. CASE /\ status' = [status EXCEPT ![n] =
                               IF Top(t).res = "ok" THEN "Succeeded" ELSE "Failed"]
               /\ jobs' = [jobs EXCEPT ![n] = 0]
               /\ Replace(t, <<DoNode("after", n)>>)
      <3>1. <<DoNode("after", n)>> \in Seq(Frames)
        BY <2>1, FrameTypes, ShortStacks
      <3>2. stack' \in [Threads -> Seq(Frames)]
        BY <1>7, <2>3, <3>1, ReplaceType DEF CompletedStep
      <3> QED
        BY <1>7, <2>1, <2>3, <3>2 DEF CompletedStep, TypeOK, Statuses, NoSnapshot
    <2> QED
      BY <1>7, <2>2, <2>3 DEF CompletedStep
  <1>8. CASE AfterStep(t)
    <2>1. /\ <<Do("cancel")>> \in Seq(Frames)
          /\ <<Do("reconcile"), Do("tick"), Do("complete")>> \in Seq(Frames)
      BY FrameTypes, ShortStacks
    <2>2. stack' \in [Threads -> Seq(Frames)]
      BY <1>8, <2>1, ReturnType, ReplaceType DEF AfterStep
    <2> QED
      BY <1>8, <2>2 DEF AfterStep, TypeOK, NoSnapshot
  <1>9. CASE CompleteStep(t)
    <2>1. stack' \in [Threads -> Seq(Frames)]
      BY <1>9, ReturnType DEF CompleteStep
    <2>2. runStatus' \in RunStatuses
      BY <1>9 DEF CompleteStep, TypeOK, RunStatuses, Registered, Closed
    <2> QED
      BY <1>9, <2>1, <2>2 DEF CompleteStep, TypeOK, NoSnapshot
  <1>10. CASE CancelStep(t)
    <2>1. RunningNodes \in SUBSET Nodes
      BY DEF RunningNodes
    <2>2. <<DoAbort(RunningNodes)>> \in Seq(Frames)
      BY <2>1, FrameTypes, ShortStacks
    <2>3. stack' \in [Threads -> Seq(Frames)]
      BY <1>10, <2>2, ReturnType, ReplaceType DEF CancelStep
    <2>4. runStatus' \in RunStatuses /\ status' \in [Nodes -> Statuses]
      BY <1>10 DEF CancelStep, CancelNodes, TypeOK, RunStatuses, Registered,
                   Closed, Statuses
    <2> QED
      BY <1>10, <2>3, <2>4 DEF CancelStep, TypeOK, NoSnapshot
  <1>11. CASE AbortStep(t)
    <2>1. stack' \in [Threads -> Seq(Frames)]
      BY <1>11, ReturnType DEF AbortStep
    <2>2. jobs' \in [Nodes -> Nat]
      BY <1>11 DEF AbortStep, TypeOK
    <2>3. Top(t).ids \subseteq Nodes
      BY <1>11, TopFrame DEF AbortStep, Frames
    <2>4. cancelled' \subseteq Nodes \X Nat
      BY <1>11, <2>3 DEF AbortStep, TypeOK
    <2> QED
      BY <1>11, <2>1, <2>2, <2>4 DEF AbortStep, TypeOK, NoSnapshot
  <1>12. CASE TokenStep(t)
    <2>1. stack' \in [Threads -> Seq(Frames)]
      BY <1>12, ReturnType DEF TokenStep
    <2>2. Top(t).node \in Nodes /\ Top(t).tok \in Nat
      BY <1>12, TopNode DEF TokenStep
    <2> QED
      BY <1>12, <2>1, <2>2 DEF TokenStep, TypeOK, NoSnapshot
  <1> QED
    BY <1>1, <1>2, <1>3, <1>4, <1>5, <1>6, <1>7, <1>8, <1>9, <1>10, <1>11, <1>12
    DEF ThreadStep

\* A client's call leaves every variable in its type.
LEMMA TypeClientStep ==
  ASSUME TypeOK, NEW t \in Threads,
         \/ \E g \in Graphs : \E ff \in FailFast : Plan(t, g, ff)
         \/ CancelRun(t)
         \/ \E ids \in SUBSET Nodes : Retry(t, ids)
         \/ \E n \in Nodes : Skip(t, n)
         \/ Wait(t)
         \/ Restore(t)
  PROVE  TypeOK'
  <1>1. /\ <<Do("reconcile"), Do("tick")>> \in Seq(Frames)
        /\ <<Do("reconcile"), Do("tick"), Do("complete")>> \in Seq(Frames)
        /\ <<Do("complete")>> \in Seq(Frames)
        /\ <<DoAbort(RunningNodes)>> \in Seq(Frames)
    <2>1. RunningNodes \in SUBSET Nodes
      BY DEF RunningNodes
    <2> QED
      BY <2>1, FrameTypes, ShortStacks
  <1>2. \A kind : Intervene(kind) => ops' \in 0..MaxOps
    BY EngineAssumption DEF Intervene, TypeOK
  <1>3. ASSUME NEW g \in Graphs, NEW ff \in FailFast, Plan(t, g, ff)
        PROVE  TypeOK'
    <2>1. stack' \in [Threads -> Seq(Frames)]
      BY <1>1, <1>3, CallType DEF Plan
    <2>2. deps' \in [Nodes -> SUBSET Nodes]
      BY <1>3, PlanType DEF Plan
    <2>3. failFast' \in {"on", "off"}
      BY <1>3, EngineAssumption DEF Plan
    <2> QED
      BY <1>3, <2>1, <2>2, <2>3
      DEF Plan, TypeOK, NoSnapshot, RunStatuses, Registered
  <1>4. CASE CancelRun(t)
    <2>1. stack' \in [Threads -> Seq(Frames)]
      BY <1>1, <1>4, CallType DEF CancelRun
    <2>2. runStatus' \in RunStatuses /\ status' \in [Nodes -> Statuses]
      BY <1>4 DEF CancelRun, CancelNodes, TypeOK, RunStatuses, Registered,
                  Closed, Statuses
    <2>3. ops' \in 0..MaxOps
      BY <1>2, <1>4 DEF CancelRun
    <2> QED
      BY <1>4, <2>1, <2>2, <2>3 DEF CancelRun, TypeOK, NoSnapshot
  <1>5. ASSUME NEW ids \in SUBSET Nodes, Retry(t, ids)
        PROVE  TypeOK'
    <2>1. stack' \in [Threads -> Seq(Frames)]
      BY <1>1, <1>5, CallType DEF Retry
    <2>2. status' \in [Nodes -> Statuses]
      BY <1>5 DEF Retry, TypeOK, Statuses
    <2>3. ops' \in 0..MaxOps
      BY <1>2, <1>5 DEF Retry
    <2> QED
      BY <1>5, <2>1, <2>2, <2>3
      DEF Retry, TypeOK, NoSnapshot, RunStatuses, Registered
  <1>6. ASSUME NEW n \in Nodes, Skip(t, n)
        PROVE  TypeOK'
    <2>1. /\ <<DoNode("after", n)>> \in Seq(Frames)
          /\ <<DoToken("token", n, jobs[n]), DoNode("after", n)>> \in Seq(Frames)
      BY FrameTypes, ShortStacks DEF TypeOK
    <2>2. stack' \in [Threads -> Seq(Frames)]
      BY <1>6, <2>1, CallType DEF Skip
    <2>3. status' \in [Nodes -> Statuses]
      BY <1>6 DEF Skip, TypeOK, Statuses
    <2>4. jobs' \in [Nodes -> Nat]
      <3>1. jobs' = [jobs EXCEPT ![n] = 0] \/ jobs' = jobs
        BY <1>6 DEF Skip
      <3> QED
        BY <3>1 DEF TypeOK
    <2>5. ops' \in 0..MaxOps
      BY <1>2, <1>6 DEF Skip
    <2>6. /\ runStatus' = "Running"
          /\ UNCHANGED <<deps, failFast, gen, cancelled, tasks, saved>>
      BY <1>6 DEF Skip
    <2> QED
      BY <2>2, <2>3, <2>4, <2>5, <2>6
      DEF TypeOK, NoSnapshot, RunStatuses, Registered
  <1>7. CASE Wait(t)
    <2>1. stack' \in [Threads -> Seq(Frames)]
      BY <1>1, <1>7, CallType DEF Wait
    <2>2. ops' \in 0..MaxOps
      BY <1>2, <1>7 DEF Wait
    <2> QED
      BY <1>7, <2>1, <2>2 DEF Wait, TypeOK, NoSnapshot
  <1>8. CASE Restore(t)
    <2>1. stack' \in [Threads -> Seq(Frames)]
      BY <1>1, <1>8, CallType DEF Restore
    <2>2. saved \in [Nodes -> Statuses]
      BY <1>8 DEF Restore, TypeOK
    <2>3. status' \in [Nodes -> Statuses]
      BY <1>8, <2>2, StatusTypes DEF Restore
    <2> QED
      BY <1>8, <2>1, <2>3
      DEF Restore, TypeOK, NoSnapshot, RunStatuses, Registered
  <1> QED
    BY <1>3, <1>4, <1>5, <1>6, <1>7, <1>8

\* The next-state relation leaves every variable in its type.
LEMMA TypeNext ==
  ASSUME TypeOK, [Next]_vars
  PROVE  TypeOK'
  <1>1. CASE UNCHANGED vars
    BY <1>1 DEF vars, TypeOK, NoSnapshot
  <1>2. ASSUME NEW t \in Threads, ThreadStep(t)
        PROVE  TypeOK'
    BY <1>2, TypeThreadStep
  <1>3. CASE Clear
    <2>1. ops' \in 0..MaxOps
      BY <1>3, EngineAssumption DEF Clear, Intervene, TypeOK
    <2> QED
      BY <1>3, <2>1 DEF Clear, TypeOK, NoSnapshot, RunStatuses
  <1>4. ASSUME NEW j \in tasks, TaskEnds(j)
        PROVE  TypeOK'
    <2>1. tasks' \subseteq Tasks
      <3>1. j \in Tasks
        BY DEF TypeOK
      <3>2. CASE TaskAborted(j)
        BY <3>2 DEF TaskAborted, TypeOK
      <3>3. ASSUME NEW res \in {"ok", "err"}, TaskFinished(j, res)
            PROVE  tasks' \subseteq Tasks
        <4>1. [j EXCEPT !.ph = "reporting", !.res = res] \in Tasks
          BY <3>1 DEF Tasks, Results
        <4> QED
          BY <3>3, <4>1 DEF TaskFinished, TypeOK
      <3> QED
        BY <1>4, <3>2, <3>3 DEF TaskEnds
    <2>2. UNCHANGED <<deps, failFast, runStatus, status, gen, jobs, cancelled,
                      stack, saved, ops>>
      BY <1>4 DEF TaskEnds, TaskAborted, TaskFinished
    <2> QED
      BY <2>1, <2>2 DEF TypeOK, NoSnapshot
  <1>5. ASSUME NEW j \in tasks, NEW t \in Threads, TaskReports(j, t)
        PROVE  TypeOK'
    <2>1. j \in Tasks
      BY DEF TypeOK
    <2>2. <<DoReport(j.node, j.tok, j.res)>> \in Seq(Frames)
      BY <2>1, FrameTypes, ShortStacks DEF Tasks
    <2>3. stack' \in [Threads -> Seq(Frames)]
      BY <1>5, <2>2, CallType DEF TaskReports
    <2> QED
      BY <1>5, <2>3 DEF TaskReports, TypeOK, NoSnapshot
  <1>6. CASE Save
    <2>1. saved' \in [Nodes -> Statuses] \cup {NoSnapshot}
      BY <1>6 DEF Save, TypeOK
    <2> QED
      BY <1>6, <2>1 DEF Save, TypeOK, NoSnapshot
  <1>7. CASE Crash
    <2>1. ops' \in 0..MaxOps
      BY <1>7, EngineAssumption DEF Crash, Intervene, TypeOK
    <2>2. stack' \in [Threads -> Seq(Frames)]
      BY <1>7, ShortStacks DEF Crash
    <2> QED
      BY <1>7, <2>1, <2>2 DEF Crash, TypeOK, NoSnapshot, RunStatuses, Statuses
  <1> QED
    BY <1>1, <1>2, <1>3, <1>4, <1>5, <1>6, <1>7, TypeClientStep DEF Next

\* Initially every variable has its type.
LEMMA TypeInit ==
  ASSUME Init
  PROVE  TypeOK
  BY EngineAssumption, ShortStacks
  DEF Init, TypeOK, Statuses, RunStatuses, NoSnapshot

\* The engine's data keeps its shape through every interleaving of calls,
\* reports, crashes and restarts: in particular every frame a thread carries
\* between two lock sections names a node of the run, and a snapshot is either
\* absent or total.
THEOREM TypeCorrect == Spec => []TypeOK
  <1>1. Init => TypeOK
    BY TypeInit
  <1>2. TypeOK /\ [Next]_vars => TypeOK'
    BY TypeNext
  <1> QED
    BY <1>1, <1>2, PTL DEF Spec

-----------------------------------------------------------------------------
(***************************************************************************)
(* The safety invariant.  StartedAfterDeps and ClosedRunIsSettled need each *)
(* other (start_node does not look at the run's status, so only the        *)
(* terminal nodes of a closed run keep a stale tick from starting one), and *)
(* both need SnapshotSound to survive a restart.                           *)
(***************************************************************************)
SafetyInv == /\ TypeOK
             /\ StartedAfterDeps
             /\ ClosedRunIsSettled
             /\ SnapshotSound

\* The sections that leave the run's own record alone.
Quiet == UNCHANGED <<deps, status, runStatus, saved>>

\* The sections that only read, launch or cancel tokens leave the graph, the
\* statuses and the file alone.
LEMMA QuietSteps ==
  ASSUME NEW t \in Threads,
         \/ TickStep(t) \/ LaunchFails(t) \/ LaunchDropped(t) \/ LaunchSpawns(t)
         \/ AfterStep(t) \/ AbortStep(t) \/ TokenStep(t) \/ Wait(t)
         \/ \E j \in tasks : TaskEnds(j) \/ TaskReports(j, t)
  PROVE  Quiet
  <1>1. ASSUME NEW j \in tasks, TaskEnds(j)
        PROVE  Quiet
    BY <1>1 DEF TaskEnds, TaskAborted, TaskFinished, Quiet
  <1>2. ASSUME NEW j \in tasks, TaskReports(j, t)
        PROVE  Quiet
    BY <1>2 DEF TaskReports, Quiet
  <1>3. CASE TickStep(t)
    BY <1>3 DEF TickStep, Quiet
  <1>4. CASE LaunchFails(t) \/ LaunchDropped(t) \/ LaunchSpawns(t)
    BY <1>4 DEF LaunchFails, LaunchDropped, LaunchSpawns, Quiet
  <1>5. CASE AfterStep(t)
    BY <1>5 DEF AfterStep, Quiet
  <1>6. CASE AbortStep(t) \/ TokenStep(t) \/ Wait(t)
    BY <1>6 DEF AbortStep, TokenStep, Wait, Quiet
  <1> QED
    BY <1>1, <1>2, <1>3, <1>4, <1>5, <1>6

\* The steps that do change it, each by its effect on the record.
Starts(n)    == /\ runStatus \in Registered /\ status[n] = "Ready"
                /\ status' = [status EXCEPT ![n] = "Running"]
                /\ UNCHANGED <<deps, runStatus, saved>>
Completes(n) == /\ runStatus \in Registered /\ status[n] = "Running"
                /\ \E s \in {"Succeeded", "Failed"} :
                     status' = [status EXCEPT ![n] = s]
                /\ UNCHANGED <<deps, runStatus, saved>>
Reconciles   == /\ runStatus \in Registered
                /\ status' = Reconcile(deps, status)
                /\ UNCHANGED <<deps, runStatus, saved>>
Closes       == /\ runStatus = "Running"
                /\ \A n \in Nodes : status[n] \in Terminal
                /\ runStatus' = IF \E n \in Nodes : status[n] \in Blocked
                                  THEN "Failed" ELSE "Completed"
                /\ UNCHANGED <<deps, status, saved>>
Cancels      == /\ runStatus = "Running"
                /\ CancelNodes
                /\ UNCHANGED <<deps, saved>>

\* Each section of a call has one of these effects, or none.
LEMMA ThreadEffect ==
  ASSUME TypeOK, NEW t \in Threads, ThreadStep(t)
  PROVE  \/ Quiet
         \/ \E n \in Nodes : Starts(n) \/ Completes(n)
         \/ Reconciles
         \/ Closes
         \/ Cancels
  <1>1. CASE ReconcileStep(t)
    BY <1>1 DEF ReconcileStep, Reconciles, Quiet
  <1>2. CASE StartStep(t)
    <2>1. Top(t).node \in Nodes
      BY <1>2, TopNode DEF StartStep
    <2>2. Quiet \/ Starts(Top(t).node)
      BY <1>2 DEF StartStep, Starts, Quiet
    <2> QED
      BY <2>1, <2>2
  <1>3. CASE CompletedStep(t)
    <2>1. Top(t).node \in Nodes
      BY <1>3, TopNode DEF CompletedStep
    <2>2. Quiet \/ Completes(Top(t).node)
      BY <1>3 DEF CompletedStep, Completes, Quiet
    <2> QED
      BY <2>1, <2>2
  <1>4. CASE CompleteStep(t)
    BY <1>4 DEF CompleteStep, Closes, Quiet
  <1>5. CASE CancelStep(t)
    BY <1>5 DEF CancelStep, Cancels, Quiet
  <1> QED
    BY <1>1, <1>2, <1>3, <1>4, <1>5, QuietSteps DEF ThreadStep

-----------------------------------------------------------------------------
(***************************************************************************)
(* Preservation, effect by effect.                                         *)
(***************************************************************************)
Sound == StartedAfterDeps /\ ClosedRunIsSettled /\ SnapshotSound

\* No section of a call loses a done node, a dependency order or a settlement.
LEMMA SoundThreadStep ==
  ASSUME SafetyInv, NEW t \in Threads, ThreadStep(t)
  PROVE  Sound'
  <1> USE DEF Sound, SafetyInv
  <1>1. CASE Quiet
    BY <1>1 DEF Quiet, StartedAfterDeps, ClosedRunIsSettled, SnapshotSound,
                DepsDone, Registered, Closed, NoSnapshot
  <1>2. ASSUME NEW n \in Nodes, Starts(n)
        PROVE  Sound'
    <2>1. runStatus = "Running"
      BY <1>2 DEF Starts, ClosedRunIsSettled, Registered, Closed, Terminal,
                  Done, Blocked
    <2>2. \A m \in Nodes : status[m] \in Done => status'[m] = status[m]
      BY <1>2 DEF Starts, TypeOK, Done
    <2>3. StartedAfterDeps'
      BY <1>2, <2>1, <2>2
      DEF Starts, StartedAfterDeps, DepsDone, TypeOK, Registered
    <2>4. SnapshotSound'
      BY <1>2, <2>1, <2>2
      DEF Starts, SnapshotSound, DepsDone, Registered, NoSnapshot
    <2> QED
      BY <1>2, <2>1, <2>3, <2>4 DEF Starts, ClosedRunIsSettled, Closed
  <1>3. ASSUME NEW n \in Nodes, Completes(n)
        PROVE  Sound'
    <2>1. runStatus = "Running"
      BY <1>3 DEF Completes, ClosedRunIsSettled, Registered, Closed, Terminal,
                  Done, Blocked
    <2>2. \A m \in Nodes : status[m] \in Done => status'[m] \in Done
      BY <1>3 DEF Completes, TypeOK, Done
    <2>3. StartedAfterDeps'
      BY <1>3, <2>1, <2>2
      DEF Completes, StartedAfterDeps, DepsDone, TypeOK, Registered
    <2>4. SnapshotSound'
      BY <1>3, <2>1, <2>2
      DEF Completes, SnapshotSound, DepsDone, Registered, NoSnapshot
    <2> QED
      BY <1>3, <2>1, <2>3, <2>4 DEF Completes, ClosedRunIsSettled, Closed
  <1>4. CASE Reconciles
    <2>1. \A m \in Nodes : status[m] \in Terminal => status'[m] = status[m]
      BY <1>4 DEF Reconciles, Reconcile, Terminal, Done, Blocked, Waiting
    <2>2. \A m \in Nodes : status[m] \in Done => status'[m] \in Done
      BY <2>1 DEF Terminal
    <2>3. \A m \in Nodes : status'[m] \in {"Ready", "Running", "Succeeded", "Failed"}
             => DepsDone(deps, status, m)
      BY <1>4 DEF Reconciles, Reconcile, Waiting, StartedAfterDeps
    <2>4. StartedAfterDeps'
      BY <1>4, <2>2, <2>3 DEF Reconciles, StartedAfterDeps, DepsDone
    <2>5. SnapshotSound'
      BY <1>4, <2>2
      DEF Reconciles, SnapshotSound, DepsDone, Registered, Closed, NoSnapshot
    <2>6. ClosedRunIsSettled'
      BY <1>4, <2>1 DEF Reconciles, ClosedRunIsSettled, Terminal
    <2> QED
      BY <2>4, <2>5, <2>6
  <1>5. CASE Closes
    <2>1. runStatus' \in {"Failed", "Completed"}
      BY <1>5 DEF Closes
    <2>2. StartedAfterDeps'
      BY <1>5, <2>1 DEF Closes, StartedAfterDeps, DepsDone, Registered, Closed
    <2>3. SnapshotSound'
      BY <1>5, <2>1
      DEF Closes, SnapshotSound, DepsDone, Registered, Closed, NoSnapshot
    <2>4. ClosedRunIsSettled'
      BY <1>5 DEF Closes, ClosedRunIsSettled, Terminal
    <2> QED
      BY <2>2, <2>3, <2>4
  <1>6. CASE Cancels
    <2>1. \A m \in Nodes : /\ status'[m] \in Terminal
                           /\ status[m] \in Terminal => status'[m] = status[m]
                           /\ status'[m] \in {"Ready", "Running", "Succeeded", "Failed"}
                                => status'[m] = status[m]
      BY <1>6 DEF Cancels, CancelNodes, Terminal, Blocked
    <2>2. \A m \in Nodes : status[m] \in Done => status'[m] \in Done
      BY <2>1 DEF Terminal
    <2>3. StartedAfterDeps'
      BY <1>6, <2>1, <2>2
      DEF Cancels, CancelNodes, StartedAfterDeps, DepsDone, Registered
    <2>4. SnapshotSound'
      BY <1>6, <2>2
      DEF Cancels, CancelNodes, SnapshotSound, DepsDone, Registered, NoSnapshot
    <2>5. ClosedRunIsSettled'
      BY <1>6, <2>1 DEF Cancels, CancelNodes, ClosedRunIsSettled
    <2> QED
      BY <2>3, <2>4, <2>5
  <1> QED
    BY <1>1, <1>2, <1>3, <1>4, <1>5, <1>6, ThreadEffect

\* Neither does an intervention, a save, a crash or a restart.
LEMMA SoundNext ==
  ASSUME SafetyInv, [Next]_vars
  PROVE  Sound'
  <1> USE DEF Sound, SafetyInv
  <1>1. CASE Quiet
    BY <1>1 DEF Quiet, StartedAfterDeps, ClosedRunIsSettled, SnapshotSound,
                DepsDone, Registered, Closed, NoSnapshot
  <1>2. ASSUME NEW t \in Threads, NEW g \in Graphs, NEW ff \in FailFast,
               Plan(t, g, ff)
        PROVE  Sound'
    <2>1. \A m \in Nodes : status'[m] = "Pending" /\ saved'[m] = "None"
      BY <1>2 DEF Plan, SnapshotSound, NoSnapshot
    <2> QED
      BY <1>2, <2>1 DEF Plan, StartedAfterDeps, ClosedRunIsSettled,
                        SnapshotSound, Registered, Closed, Done, NoSnapshot
  <1>3. ASSUME NEW t \in Threads, CancelRun(t)
        PROVE  Sound'
    <2>1. \A m \in Nodes : /\ status'[m] \in Terminal
                           /\ status[m] \in Terminal => status'[m] = status[m]
                           /\ status'[m] \in {"Ready", "Running", "Succeeded", "Failed"}
                                => status'[m] = status[m]
      BY <1>3 DEF CancelRun, CancelNodes, Terminal, Blocked
    <2>2. \A m \in Nodes : status[m] \in Done => status'[m] \in Done
      BY <2>1 DEF Terminal
    <2>3. StartedAfterDeps'
      BY <1>3, <2>1, <2>2
      DEF CancelRun, CancelNodes, StartedAfterDeps, DepsDone, Registered
    <2>4. SnapshotSound'
      BY <1>3, <2>2
      DEF CancelRun, CancelNodes, SnapshotSound, DepsDone, Registered, NoSnapshot
    <2>5. ClosedRunIsSettled'
      BY <1>3, <2>1 DEF CancelRun, CancelNodes, ClosedRunIsSettled
    <2> QED
      BY <2>3, <2>4, <2>5
  <1>4. ASSUME NEW t \in Threads, NEW ids \in SUBSET Nodes, Retry(t, ids)
        PROVE  Sound'
    <2>1. \A m \in ToReset(ids) : status[m] \in Blocked
      BY DEF ToReset
    <2>2. \A m \in Nodes : /\ status[m] \in Done => status'[m] \in Done
                           /\ status'[m] = status[m] \/ status'[m] = "Pending"
      BY <1>4, <2>1 DEF Retry, Done, Blocked
    <2>3. StartedAfterDeps'
      BY <1>4, <2>2 DEF Retry, StartedAfterDeps, DepsDone, Registered
    <2>4. SnapshotSound'
      BY <1>4, <2>2 DEF Retry, SnapshotSound, DepsDone, Registered, NoSnapshot
    <2>5. ClosedRunIsSettled'
      BY <1>4 DEF Retry, ClosedRunIsSettled, Closed
    <2> QED
      BY <2>3, <2>4, <2>5
  <1>5. ASSUME NEW t \in Threads, NEW n \in Nodes, Skip(t, n)
        PROVE  Sound'
    <2>1. \A m \in Released(n) : status[m] \in Blocked
      BY DEF Released
    <2>2. /\ runStatus \in Registered
          /\ runStatus' = "Running"
          /\ UNCHANGED <<deps, saved>>
      BY <1>5 DEF Skip
    <2>3. \A m \in Nodes :
            status'[m] = IF m = n THEN "Skipped"
                         ELSE IF m \in Released(n) THEN "Pending"
                         ELSE status[m]
      BY <1>5 DEF Skip
    <2>4. \A m \in Nodes : /\ status[m] \in Done => status'[m] \in Done
                           /\ status'[m] \in {status[m], "Pending", "Skipped"}
      BY <2>1, <2>3 DEF Done, Blocked
    <2>5. StartedAfterDeps'
      BY <2>2, <2>4 DEF StartedAfterDeps, DepsDone, Registered
    <2>6. SnapshotSound'
      BY <2>2, <2>4 DEF SnapshotSound, DepsDone, Registered, NoSnapshot
    <2>7. ClosedRunIsSettled'
      BY <2>2 DEF ClosedRunIsSettled, Closed
    <2> QED
      BY <2>5, <2>6, <2>7
  <1>6. CASE Clear
    BY <1>6 DEF Clear, StartedAfterDeps, ClosedRunIsSettled, SnapshotSound,
                DepsDone, Registered, Closed
  <1>7. CASE Save
    <2>1. /\ runStatus \in Registered
          /\ UNCHANGED <<deps, status, runStatus>>
          /\ saved' = status \/ saved' = NoSnapshot
      BY <1>7 DEF Save
    <2>2. SnapshotSound'
      <3>1. CASE saved' = status
        BY <2>1, <3>1
        DEF SnapshotSound, StartedAfterDeps, DepsDone, Registered, Closed, NoSnapshot
      <3>2. CASE saved' = NoSnapshot
        <4>1. \A m \in Nodes : saved'[m] = "None"
          BY <3>2 DEF NoSnapshot
        <4> QED
          BY <2>1, <4>1
          DEF SnapshotSound, Done, Registered, Closed
      <3> QED
        BY <2>1, <3>1, <3>2
    <2> QED
      BY <2>1, <2>2 DEF StartedAfterDeps, ClosedRunIsSettled, DepsDone
  <1>8. CASE Crash
    BY <1>8 DEF Crash, StartedAfterDeps, ClosedRunIsSettled, SnapshotSound,
                DepsDone, Registered, Closed
  <1>9. ASSUME NEW t \in Threads, Restore(t)
        PROVE  Sound'
    <2>1. /\ runStatus' = "Running"
          /\ UNCHANGED <<deps, saved>>
          /\ \A m \in Nodes :
               status'[m] = IF saved[m] = "Running" THEN "Ready" ELSE saved[m]
      BY <1>9 DEF Restore, Hydrate
    <2>2. \A m \in Nodes : /\ saved[m] \in Done => status'[m] \in Done
                           /\ status'[m] \in {"Ready", "Running", "Succeeded", "Failed"}
                                => saved[m] \in {"Ready", "Running", "Succeeded", "Failed"}
      BY <2>1 DEF Done
    <2>3. StartedAfterDeps'
      BY <2>1, <2>2 DEF StartedAfterDeps, SnapshotSound, DepsDone
    <2>4. SnapshotSound'
      BY <2>1, <2>2 DEF SnapshotSound, DepsDone
    <2> QED
      BY <2>1, <2>3, <2>4 DEF ClosedRunIsSettled, Closed
  <1>10. CASE UNCHANGED vars
    BY <1>1, <1>10 DEF vars, Quiet
  <1>11. ASSUME NEW t \in Threads,
                \/ ThreadStep(t)
                \/ Wait(t)
                \/ \E j \in tasks : TaskReports(j, t)
         PROVE  Sound'
    BY <1>1, <1>11, QuietSteps, SoundThreadStep
  <1>12. ASSUME NEW j \in tasks, TaskEnds(j)
         PROVE  Sound'
    <2>1. Quiet
      BY <1>12 DEF TaskEnds, TaskAborted, TaskFinished, Quiet
    <2> QED
      BY <1>1, <2>1
  <1> QED
    BY <1>2, <1>3, <1>4, <1>5, <1>6, <1>7, <1>8, <1>9, <1>10, <1>11, <1>12
    DEF Next

\* The safety invariant is inductive.
THEOREM Safety == Spec => []SafetyInv
  <1>1. Init => SafetyInv
    <2> SUFFICES ASSUME Init PROVE SafetyInv
      OBVIOUS
    <2>1. TypeOK
      BY TypeInit
    <2>2. runStatus = "Unplanned" /\ \A m \in Nodes : saved[m] = "None"
      BY DEF Init, NoSnapshot
    <2>3. StartedAfterDeps /\ ClosedRunIsSettled
      BY <2>2 DEF StartedAfterDeps, ClosedRunIsSettled, Registered, Closed
    <2>4. SnapshotSound
      BY <2>2 DEF SnapshotSound, Init, Registered, Closed
    <2> QED
      BY <2>1, <2>3, <2>4 DEF SafetyInv
  <1>2. SafetyInv /\ [Next]_vars => SafetyInv'
    BY TypeNext, SoundNext DEF SafetyInv, Sound
  <1> QED
    BY <1>1, <1>2, PTL DEF Spec

\* For every graph, any number of threads, retries, skips, cancellations and
\* crashes: no node is ready, running or has run unless all its dependencies
\* are done.
THEOREM DepsRespected == Spec => []StartedAfterDeps
  <1>1. SafetyInv => StartedAfterDeps
    BY DEF SafetyInv
  <1> QED
    BY <1>1, Safety, PTL

\* A closed run is settled, whatever ticks and reports of other threads are
\* still in progress when it closes.
THEOREM ClosedSettled == Spec => []ClosedRunIsSettled
  <1>1. SafetyInv => ClosedRunIsSettled
    BY DEF SafetyInv
  <1> QED
    BY <1>1, Safety, PTL

\* The state file is a sound cut of the run at all times, and a loaded run is
\* never behind its file: what a restart finds can be run on.
THEOREM SnapshotIsSound == Spec => []SnapshotSound
  <1>1. SafetyInv => SnapshotSound
    BY DEF SafetyInv
  <1> QED
    BY <1>1, Safety, PTL

-----------------------------------------------------------------------------
(***************************************************************************)
(* Refinement.  Every lock section of the engine is one step of the        *)
(* abstract run, or none.                                                  *)
(***************************************************************************)

\* The two modules share the vocabulary of DagModel.
LEMMA SameVocabulary ==
  /\ Run!Nodes = Nodes
  /\ Run!Statuses = Statuses
  /\ Run!Done = Done
  /\ Run!Blocked = Blocked
  /\ Run!Terminal = Terminal
  /\ Run!Waiting = Waiting
  /\ Run!Closed = Closed
  /\ Run!Registered = Registered
  /\ \A g, st, n : Run!DepsDone(g, st, n) <=> DepsDone(g, st, n)
  BY DEF Run!Nodes, Nodes, Run!Statuses, Statuses, Run!Done, Done, Run!Blocked,
         Blocked, Run!Terminal, Terminal, Run!Waiting, Waiting, Run!Closed,
         Closed, Run!Registered, Registered, Run!DepsDone, DepsDone

\* Every lock section is a step of the abstract run or a stutter.
LEMMA ThreadStepImplements ==
  ASSUME SafetyInv, NEW t \in Threads, ThreadStep(t)
  PROVE  Run!AbsNext \/ UNCHANGED Run!absVars
  <1> USE SameVocabulary
  <1>0. TypeOK
    BY DEF SafetyInv
  <1>1. CASE Quiet
    BY <1>1 DEF Quiet, Run!absVars
  <1>2. ASSUME NEW n \in Nodes, Starts(n)
        PROVE  Run!AbsNext
    <2>1. runStatus = "Running"
      BY <1>2 DEF SafetyInv, Starts, ClosedRunIsSettled, Registered, Closed,
                  Terminal, Done, Blocked
    <2>2. DepsDone(deps, status, n)
      BY <1>2 DEF SafetyInv, Starts, StartedAfterDeps
    <2>3. Run!Start(n)
      BY <1>2, <2>1, <2>2 DEF Starts, Run!Start
    <2> QED
      BY <2>3 DEF Run!AbsNext
  <1>3. ASSUME NEW n \in Nodes, Completes(n)
        PROVE  Run!AbsNext
    <2>1. runStatus = "Running"
      BY <1>3 DEF SafetyInv, Completes, ClosedRunIsSettled, Registered, Closed,
                  Terminal, Done, Blocked
    <2>2. Run!Finish(n)
      BY <1>3, <2>1 DEF Completes, Run!Finish
    <2> QED
      BY <2>2 DEF Run!AbsNext
  <1>4. CASE Reconciles
    <2>1. status' \in [Nodes -> Statuses]
      BY <1>0, <1>4, StatusTypes DEF Reconciles
    <2>2. \A n \in Nodes :
            \/ status'[n] = status[n]
            \/ /\ status[n] \in Waiting
               /\ \/ status'[n] \in {"Pending", "Cancelled"}
                  \/ status'[n] = "Ready" /\ DepsDone(deps, status, n)
      BY <1>4 DEF Reconciles, Reconcile
    <2>3. Run!Classify
      BY <1>4, <2>1, <2>2 DEF Reconciles, Run!Classify
    <2> QED
      BY <2>3 DEF Run!AbsNext
  <1>5. CASE Closes
    <2>1. Run!Close
      BY <1>5 DEF Closes, Run!Close, Terminal
    <2> QED
      BY <2>1 DEF Run!AbsNext
  <1>6. CASE Cancels
    <2>1. Run!Cancel
      BY <1>6 DEF Cancels, CancelNodes, Run!Cancel
    <2> QED
      BY <2>1 DEF Run!AbsNext
  <1> QED
    BY <1>0, <1>1, <1>2, <1>3, <1>4, <1>5, <1>6, ThreadEffect

\* So is every step of the engine.
LEMMA NextImplements ==
  ASSUME SafetyInv, [Next]_vars
  PROVE  Run!AbsNext \/ UNCHANGED Run!absVars
  <1> USE SameVocabulary
  <1>0. TypeOK
    BY DEF SafetyInv
  <1>1. CASE Quiet
    BY <1>1 DEF Quiet, Run!absVars
  <1>2. ASSUME NEW t \in Threads, NEW g \in Graphs, NEW ff \in FailFast,
               Plan(t, g, ff)
        PROVE  Run!AbsNext
    <2>1. deps' \in [Nodes -> SUBSET Nodes]
      BY <1>2, PlanType DEF Plan
    <2>2. status' = [n \in Nodes |-> "Pending"]
      BY <1>2 DEF Plan, SafetyInv, SnapshotSound
    <2>3. Run!Plan
      BY <1>2, <2>1, <2>2 DEF Plan, Run!Plan
    <2> QED
      BY <2>3 DEF Run!AbsNext
  <1>3. ASSUME NEW t \in Threads, CancelRun(t)
        PROVE  Run!AbsNext
    <2>1. Run!Cancel
      BY <1>3 DEF CancelRun, CancelNodes, Run!Cancel
    <2> QED
      BY <2>1 DEF Run!AbsNext
  <1>4. ASSUME NEW t \in Threads, NEW ids \in SUBSET Nodes, Retry(t, ids)
        PROVE  Run!AbsNext
    <2> DEFINE S == ToReset(ids) \cap Nodes
    <2>1. \A n \in S : status[n] \in Blocked
      BY DEF ToReset
    <2>2. status' = [n \in Nodes |-> IF n \in S THEN "Pending" ELSE status[n]]
      BY <1>4 DEF Retry
    <2>3. Run!Reopen
      BY <1>4, <2>1, <2>2 DEF Retry, Run!Reopen
    <2> QED
      BY <2>3 DEF Run!AbsNext
  <1>5. ASSUME NEW t \in Threads, NEW n \in Nodes, Skip(t, n)
        PROVE  Run!AbsNext
    <2> DEFINE S == Released(n) \cap Nodes
    <2>1. \A m \in S : status[m] \in Blocked
      BY DEF Released
    <2>2. /\ runStatus \in Registered
          /\ runStatus' = "Running"
          /\ UNCHANGED deps
          /\ status[n] \notin Done
          /\ status' = [m \in Nodes |-> IF m = n THEN "Skipped"
                                        ELSE IF m \in S THEN "Pending"
                                        ELSE status[m]]
      BY <1>5 DEF Skip
    <2>3. Run!Reopen
      BY <2>1, <2>2 DEF Run!Reopen
    <2> QED
      BY <2>3 DEF Run!AbsNext
  <1>6. CASE Clear
    <2>1. Run!Drop
      BY <1>6 DEF Clear, Run!Drop
    <2> QED
      BY <2>1 DEF Run!AbsNext
  <1>7. CASE Save
    BY <1>7 DEF Save, Run!absVars
  <1>8. CASE Crash
    <2>1. Run!Crash
      BY <1>8 DEF Crash, Run!Crash, Statuses
    <2> QED
      BY <2>1 DEF Run!AbsNext
  <1>9. ASSUME NEW t \in Threads, Restore(t)
        PROVE  Run!AbsNext
    <2>1. /\ saved \in [Nodes -> Statuses]
          /\ status' = [n \in Nodes |-> IF saved[n] = "Running" THEN "Ready"
                                                                ELSE saved[n]]
      BY <1>0, <1>9 DEF Restore, TypeOK, Hydrate
    <2>2. status' \in [Nodes -> Statuses \ {"Running"}]
      BY <2>1 DEF Statuses
    <2>3. \A n \in Nodes : /\ saved[n] \in Done => status'[n] \in Done
                           /\ status'[n] \in {"Ready", "Succeeded", "Failed"}
                                => saved[n] \in {"Ready", "Running", "Succeeded", "Failed"}
      BY <2>1 DEF Done
    <2>4. \A n \in Nodes : status'[n] \in {"Ready", "Succeeded", "Failed"}
                             => DepsDone(deps, status', n)
      BY <2>3 DEF SafetyInv, SnapshotSound, DepsDone
    <2>5. Run!Recover
      BY <1>9, <2>2, <2>4 DEF Restore, Run!Recover
    <2> QED
      BY <2>5 DEF Run!AbsNext
  <1>10. CASE UNCHANGED vars
    BY <1>10 DEF vars, Run!absVars
  <1>11. ASSUME NEW t \in Threads,
                \/ ThreadStep(t)
                \/ Wait(t)
                \/ \E j \in tasks : TaskReports(j, t)
         PROVE  Run!AbsNext \/ UNCHANGED Run!absVars
    BY <1>1, <1>11, QuietSteps, ThreadStepImplements
  <1>12. ASSUME NEW j \in tasks, TaskEnds(j)
         PROVE  UNCHANGED Run!absVars
    BY <1>12 DEF TaskEnds, TaskAborted, TaskFinished, Run!absVars
  <1> QED
    BY <1>2, <1>3, <1>4, <1>5, <1>6, <1>7, <1>8, <1>9, <1>10, <1>11, <1>12
    DEF Next

\* The engine, with its threads, job table, tokens, tasks and state file,
\* implements the abstract run of DagRun: whatever the interleaving, a node
\* starts only after its dependencies, done nodes stay done, and a run closes
\* only over terminal nodes.
THEOREM EngineImplementsRun == Spec => ImplementsRun
  <1>1. Init => Run!AbsInit
    BY SameVocabulary DEF Init, Run!AbsInit
  <1>2. SafetyInv /\ [Next]_vars => [Run!AbsNext]_Run!absVars
    BY NextImplements
  <1> QED
    BY <1>1, <1>2, Safety, PTL DEF Spec, ImplementsRun, Run!AbsSpec

-----------------------------------------------------------------------------
(***************************************************************************)
(* What no step does.                                                      *)
(***************************************************************************)

\* The abstract run never undoes a done node while it is loaded.
LEMMA AbstractDoneIsFinal ==
  ASSUME TypeOK, Run!AbsNext \/ UNCHANGED Run!absVars,
         runStatus \in Registered, runStatus' \in Registered,
         NEW n \in Nodes, status[n] \in Done
  PROVE  status'[n] = status[n]
  <1> USE SameVocabulary
  <1>1. CASE UNCHANGED Run!absVars
    BY <1>1 DEF Run!absVars
  <1>2. CASE Run!Plan \/ Run!Recover \/ Run!Drop \/ Run!Crash
    BY <1>2 DEF Run!Plan, Run!Recover, Run!Drop, Run!Crash, Registered, Closed
  <1>3. CASE Run!Classify
    BY <1>3 DEF Run!Classify, Done, Waiting
  <1>4. ASSUME NEW m \in Nodes, Run!Start(m) \/ Run!Finish(m)
        PROVE  status'[n] = status[n]
    BY <1>4 DEF Run!Start, Run!Finish, Done, TypeOK
  <1>5. CASE Run!Close
    BY <1>5 DEF Run!Close
  <1>6. CASE Run!Cancel
    BY <1>6 DEF Run!Cancel, Terminal
  <1>7. CASE Run!Reopen
    BY <1>7 DEF Run!Reopen, Done, Blocked
  <1> QED
    BY <1>1, <1>2, <1>3, <1>4, <1>5, <1>6, <1>7 DEF Run!AbsNext

\* While the run is loaded, no retry, cancellation, late report or reconcile
\* changes a node that succeeded or was skipped.
THEOREM DoneNodesStay == Spec => DoneIsFinal
  <1>1. SafetyInv /\ [Next]_vars =>
          [(runStatus \in Registered /\ runStatus' \in Registered) =>
             \A n \in Nodes : status[n] \in Done => status'[n] = status[n]]_vars
    BY NextImplements, AbstractDoneIsFinal DEF SafetyInv
  <1> QED
    BY <1>1, Safety, PTL DEF Spec, DoneIsFinal

\* Only start_node makes a node Running, and only a Ready node of a loaded run.
LEMMA OnlyStartRuns ==
  ASSUME TypeOK, Run!AbsNext \/ UNCHANGED Run!absVars,
         NEW n \in Nodes, status'[n] = "Running", status[n] # "Running",
         runStatus' # "Down"
  PROVE  runStatus = "Running" /\ status[n] = "Ready"
  <1> USE SameVocabulary
  <1>1. CASE UNCHANGED Run!absVars \/ Run!Close \/ Run!Drop
    BY <1>1 DEF Run!absVars, Run!Close, Run!Drop
  <1>2. CASE Run!Plan \/ Run!Recover \/ Run!Crash
    BY <1>2 DEF Run!Plan, Run!Recover, Run!Crash
  <1>3. CASE Run!Classify
    BY <1>3 DEF Run!Classify
  <1>4. ASSUME NEW m \in Nodes, Run!Start(m) \/ Run!Finish(m)
        PROVE  runStatus = "Running" /\ status[n] = "Ready"
    BY <1>4 DEF Run!Start, Run!Finish, TypeOK
  <1>5. CASE Run!Cancel
    BY <1>5 DEF Run!Cancel
  <1>6. CASE Run!Reopen
    BY <1>6 DEF Run!Reopen
  <1> QED
    BY <1>1, <1>2, <1>3, <1>4, <1>5, <1>6 DEF Run!AbsNext

\* A node the state file records as done is never launched again, whatever
\* crashes and restarts follow.
THEOREM DoneNodesAreDurable == Spec => DurableDone
  <1>1. ASSUME SafetyInv, [Next]_vars, NEW n \in Nodes,
               saved[n] \in Done, status'[n] = "Running"
        PROVE  status[n] = "Running"
    <2>1. SafetyInv'
      BY <1>1, TypeNext, SoundNext DEF SafetyInv, Sound
    <2>2. runStatus' # "Down"
      BY <1>1, <2>1 DEF SafetyInv, SnapshotSound
    <2>3. SUFFICES ASSUME status[n] # "Running" PROVE FALSE
      OBVIOUS
    <2>4. runStatus = "Running" /\ status[n] = "Ready"
      BY <1>1, <2>2, <2>3, NextImplements, OnlyStartRuns DEF SafetyInv
    <2> QED
      BY <1>1, <2>4 DEF SafetyInv, SnapshotSound, Registered, Done
  <1>2. SafetyInv /\ [Next]_vars =>
          [\A n \in Nodes : (saved[n] \in Done /\ status'[n] = "Running")
                              => status[n] = "Running"]_vars
    BY <1>1
  <1> QED
    BY <1>2, Safety, PTL DEF Spec, DurableDone


-----------------------------------------------------------------------------
(***************************************************************************)
(* Stacks.  A thread that is at a start, a launch, a report or a token     *)
(* executes that section next: such a frame is never under another one.    *)
(***************************************************************************)
TopOnly == {"start", "launch", "completed", "token"}

TopsOnTop == \A t \in Threads : \A i \in 2..Len(stack[t]) :
                stack[t][i].op \notin TopOnly

\* What a thread goes back to when it leaves its section.
Below(t) == IF stack[t] = <<>> THEN <<>> ELSE Tail(stack[t])

\* The thread's section is replaced by the sections fs.
Onto(t, fs) == stack' = [stack EXCEPT ![t] = fs \o Below(t)]

\* Every way a thread moves has this form.
LEMMA MovesOnto ==
  ASSUME TypeOK, NEW t \in Threads
  PROVE  /\ \A fs \in Seq(Frames) : Call(t, fs) => Onto(t, fs)
         /\ \A op : At(t, op) /\ Return(t) => Onto(t, <<>>)
         /\ \A op, fs : At(t, op) /\ Replace(t, fs) => Onto(t, fs)
         /\ \A op, f : At(t, op) /\ stack' = [stack EXCEPT ![t] = <<f>> \o @]
                         => Onto(t, <<f, Top(t)>>)
  <1>0. stack[t] \in Seq(Frames)
    BY DEF TypeOK
  <1>1. ASSUME NEW fs \in Seq(Frames), Call(t, fs) PROVE Onto(t, fs)
    <2>1. stack[t] = <<>> /\ stack' = [stack EXCEPT ![t] = fs]
      BY <1>1 DEF Call, Idle
    <2>2. fs \o <<>> = fs
      OBVIOUS
    <2> QED
      BY <2>1, <2>2 DEF Onto, Below
  <1>2. ASSUME NEW op, At(t, op), Return(t) PROVE Onto(t, <<>>)
    <2>1. stack[t] # <<>> /\ stack' = [stack EXCEPT ![t] = Tail(@)]
      BY <1>2 DEF At, Return
    <2>2. Tail(stack[t]) \in Seq(Frames)
      BY <1>0, <2>1
    <2>3. <<>> \o Tail(stack[t]) = Tail(stack[t])
      BY <2>2
    <2> QED
      BY <2>1, <2>3 DEF Onto, Below
  <1>3. ASSUME NEW op, NEW fs, At(t, op), Replace(t, fs) PROVE Onto(t, fs)
    BY <1>3 DEF At, Replace, Onto, Below
  <1>4. ASSUME NEW op, NEW f, At(t, op),
               stack' = [stack EXCEPT ![t] = <<f>> \o @]
        PROVE  Onto(t, <<f, Top(t)>>)
    <2>1. stack[t] # <<>>
      BY <1>4 DEF At
    <2>2. <<f>> \o stack[t] = <<f, Head(stack[t])>> \o Tail(stack[t])
      BY <1>0, <2>1
    <2> QED
      BY <1>4, <2>1, <2>2 DEF Onto, Below, Top
  <1> QED
    BY <1>1, <1>2, <1>3, <1>4

\* What the threads are at after such a move.
LEMMA OntoTop ==
  ASSUME TypeOK, TopsOnTop, NEW t \in Threads, NEW fs \in Seq(Frames),
         Onto(t, fs), \A i \in 2..Len(fs) : fs[i].op \notin TopOnly
  PROVE  /\ TopsOnTop'
         /\ \A u \in Threads \ {t} : stack'[u] = stack[u]
         /\ fs = <<>> => \A op \in TopOnly : ~At(t, op)'
         /\ fs # <<>> => stack'[t] # <<>> /\ Top(t)' = fs[1]
  <1>0. stack[t] \in Seq(Frames)
    BY DEF TypeOK
  <1> DEFINE b == Below(t)
  <1>1. b \in Seq(Frames) /\ \A i \in 1..Len(b) : b[i].op \notin TopOnly
    <2>1. CASE stack[t] = <<>>
      BY <2>1 DEF Below
    <2>2. CASE stack[t] # <<>>
      <3>1. b = Tail(stack[t])
        BY <2>2 DEF Below
      <3>2. /\ b \in Seq(Frames) /\ Len(b) = Len(stack[t]) - 1
            /\ Len(stack[t]) \in Nat
            /\ \A i \in 1..Len(b) : b[i] = stack[t][i + 1]
        BY <1>0, <2>2, <3>1
      <3>3. \A i \in 1..Len(b) : i + 1 \in 2..Len(stack[t])
        BY <3>2
      <3> QED
        BY <3>2, <3>3 DEF TopsOnTop
    <2> QED
      BY <2>1, <2>2
  <1>2. stack' = [stack EXCEPT ![t] = fs \o b]
    BY DEF Onto
  <1> HIDE DEF b
  <1>3. /\ stack'[t] = fs \o b
        /\ \A u \in Threads \ {t} : stack'[u] = stack[u]
    BY <1>2 DEF TypeOK
  <1>4. /\ fs \o b \in Seq(Frames)
        /\ Len(fs \o b) = Len(fs) + Len(b)
        /\ \A i \in 1..Len(fs) : (fs \o b)[i] = fs[i]
        /\ \A i \in (Len(fs) + 1)..(Len(fs) + Len(b)) :
              (fs \o b)[i] = b[i - Len(fs)]
        /\ Len(fs) \in Nat /\ Len(b) \in Nat
    BY <1>1
  <1>5. \A i \in 2..Len(fs \o b) : (fs \o b)[i].op \notin TopOnly
    <2> SUFFICES ASSUME NEW i \in 2..Len(fs \o b)
                 PROVE  (fs \o b)[i].op \notin TopOnly
      OBVIOUS
    <2>1. CASE i <= Len(fs)
      BY <1>4, <2>1
    <2>2. CASE i > Len(fs)
      <3>1. i - Len(fs) \in 1..Len(b) /\ i \in (Len(fs) + 1)..(Len(fs) + Len(b))
        BY <1>4, <2>2
      <3> QED
        BY <1>1, <1>4, <3>1
    <2> QED
      BY <1>4, <2>1, <2>2
  <1>6. TopsOnTop'
    BY <1>3, <1>5 DEF TopsOnTop
  <1>7. ASSUME fs = <<>>, NEW op \in TopOnly PROVE ~At(t, op)'
    <2>1. stack'[t] = b
      BY <1>1, <1>3, <1>7
    <2>2. CASE b = <<>>
      BY <2>1, <2>2 DEF At
    <2>3. CASE b # <<>>
      <3>1. Head(b) = b[1] /\ 1 \in 1..Len(b)
        BY <1>1, <2>3
      <3> QED
        BY <1>1, <2>1, <3>1 DEF At
    <2> QED
      BY <2>2, <2>3
  <1>8. ASSUME fs # <<>> PROVE stack'[t] # <<>> /\ Top(t)' = fs[1]
    <2>1. Len(fs) >= 1
      BY <1>8
    <2>2. Len(fs \o b) >= 1 /\ (fs \o b)[1] = fs[1]
      BY <1>4, <2>1
    <2>3. fs \o b # <<>> /\ Head(fs \o b) = (fs \o b)[1]
      BY <1>4, <2>2
    <2> QED
      BY <1>3, <2>2, <2>3 DEF Top
  <1> QED
    BY <1>3, <1>6, <1>7, <1>8

\* The sections a thread may go on with that are not of that kind.
Plain(fs) == /\ fs \in Seq(Frames)
             /\ \A i \in 1..Len(fs) : fs[i].op \notin TopOnly

Leaves(t) == \E fs : Plain(fs) /\ Onto(t, fs)

\* The stacks the engine's calls are made of.
LEMMA PlainStacks ==
  /\ Plain(<<>>)
  /\ Plain(<<Do("reconcile"), Do("tick")>>)
  /\ Plain(<<Do("reconcile"), Do("tick"), Do("complete")>>)
  /\ Plain(<<Do("complete")>>)
  /\ Plain(<<Do("cancel")>>)
  /\ \A ids \in SUBSET Nodes : Plain(<<DoAbort(ids)>>)
  /\ \A n \in Nodes : Plain(<<DoNode("after", n)>>)
  <1>1. /\ <<>> \in Seq(Frames)
        /\ <<Do("reconcile"), Do("tick")>> \in Seq(Frames)
        /\ <<Do("reconcile"), Do("tick"), Do("complete")>> \in Seq(Frames)
        /\ <<Do("complete")>> \in Seq(Frames)
        /\ <<Do("cancel")>> \in Seq(Frames)
        /\ \A ids \in SUBSET Nodes : <<DoAbort(ids)>> \in Seq(Frames)
        /\ \A n \in Nodes : <<DoNode("after", n)>> \in Seq(Frames)
    BY FrameTypes, ShortStacks
  <1>2. /\ \A op : Do(op).op = op
        /\ \A ids : DoAbort(ids).op = "abort"
        /\ \A op, n : DoNode(op, n).op = op
    BY DEF Do, DoAbort, DoNode, Frame
  <1> QED
    BY <1>1, <1>2 DEF Plain, TopOnly

\* A thread that leaves for such sections is at none of the others.
LEMMA PlainMove ==
  ASSUME TypeOK, TopsOnTop, NEW t \in Threads, Leaves(t)
  PROVE  /\ TopsOnTop'
         /\ \A u \in Threads \ {t} : stack'[u] = stack[u]
         /\ \A op \in TopOnly : ~At(t, op)'
  <1>1. PICK fs : Plain(fs) /\ Onto(t, fs)
    BY DEF Leaves
  <1>2. fs \in Seq(Frames) /\ \A i \in 2..Len(fs) : fs[i].op \notin TopOnly
    BY <1>1 DEF Plain
  <1>3. /\ TopsOnTop'
        /\ \A u \in Threads \ {t} : stack'[u] = stack[u]
        /\ fs = <<>> => \A op \in TopOnly : ~At(t, op)'
        /\ fs # <<>> => stack'[t] # <<>> /\ Top(t)' = fs[1]
    BY <1>1, <1>2, OntoTop
  <1>4. fs # <<>> => fs[1].op \notin TopOnly
    BY <1>1 DEF Plain
  <1>5. fs # <<>> => Head(stack'[t]) = fs[1]
    BY <1>3 DEF Top
  <1> QED
    BY <1>3, <1>4, <1>5 DEF At

\* Where each section and each call takes its thread.
LEMMA Sections ==
  ASSUME TypeOK, NEW t \in Threads
  PROVE  /\ (\/ ReconcileStep(t) \/ LaunchDropped(t) \/ LaunchSpawns(t)
             \/ CompletedStep(t) \/ AfterStep(t) \/ CompleteStep(t)
             \/ CancelStep(t) \/ AbortStep(t) \/ TokenStep(t)) => Leaves(t)
         /\ TickStep(t) =>
              \/ Leaves(t)
              \/ CanLaunch /\ \E n \in Nodes : Onto(t, <<DoNode("start", n), Top(t)>>)
         /\ StartStep(t) /\ ~(\E n \in Nodes : Starts(n)) => Leaves(t)
         /\ (\/ \E g \in Graphs : \E ff \in FailFast : Plan(t, g, ff)
             \/ CancelRun(t)
             \/ \E ids \in SUBSET Nodes : Retry(t, ids)
             \/ Wait(t)
             \/ Restore(t)) => Leaves(t)
  <1> USE MovesOnto, PlainStacks
  <1>0. \A fs : Plain(fs) => fs \in Seq(Frames)
    BY DEF Plain
  <1>00. RunningNodes \in SUBSET Nodes
    BY DEF RunningNodes
  <1>1. ASSUME ReconcileStep(t) PROVE Leaves(t)
    BY <1>1 DEF ReconcileStep, Leaves
  <1>2. ASSUME LaunchDropped(t) \/ LaunchSpawns(t) PROVE Leaves(t)
    BY <1>2 DEF LaunchDropped, LaunchSpawns, Leaves
  <1>3. ASSUME CompletedStep(t) PROVE Leaves(t)
    <2>1. Top(t).node \in Nodes
      BY <1>3, TopNode DEF CompletedStep
    <2>2. Onto(t, <<>>) \/ Onto(t, <<DoNode("after", Top(t).node)>>)
      BY <1>3 DEF CompletedStep
    <2> QED
      BY <2>1, <2>2 DEF Leaves
  <1>4. ASSUME AfterStep(t) PROVE Leaves(t)
    <2>1. \/ Onto(t, <<>>) \/ Onto(t, <<Do("cancel")>>)
          \/ Onto(t, <<Do("reconcile"), Do("tick"), Do("complete")>>)
      BY <1>4 DEF AfterStep
    <2> QED
      BY <2>1 DEF Leaves
  <1>5. ASSUME CompleteStep(t) PROVE Leaves(t)
    BY <1>5 DEF CompleteStep, Leaves
  <1>6. ASSUME CancelStep(t) PROVE Leaves(t)
    <2>1. Onto(t, <<>>) \/ Onto(t, <<DoAbort(RunningNodes)>>)
      BY <1>6 DEF CancelStep
    <2> QED
      BY <1>00, <2>1 DEF Leaves
  <1>7. ASSUME AbortStep(t) PROVE Leaves(t)
    BY <1>7 DEF AbortStep, Leaves
  <1>8. ASSUME TokenStep(t) PROVE Leaves(t)
    BY <1>8 DEF TokenStep, Leaves
  <1>9. ASSUME TickStep(t)
        PROVE  \/ Leaves(t)
               \/ CanLaunch /\ \E n \in Nodes : Onto(t, <<DoNode("start", n), Top(t)>>)
    <2>1. \/ Onto(t, <<>>)
          \/ CanLaunch /\ \E n \in Nodes : Onto(t, <<DoNode("start", n), Top(t)>>)
      BY <1>9 DEF TickStep
    <2>2. Onto(t, <<>>) => Leaves(t)
      BY DEF Leaves
    <2> QED
      BY <2>1, <2>2
  <1>10. ASSUME StartStep(t) /\ ~(\E n \in Nodes : Starts(n)) PROVE Leaves(t)
    <2>1. Top(t).node \in Nodes
      BY <1>10, TopNode DEF StartStep
    <2>2. Onto(t, <<>>)
      BY <1>10, <2>1 DEF StartStep, Starts
    <2> QED
      BY <2>2 DEF Leaves
  <1>11. ASSUME NEW g \in Graphs, NEW ff \in FailFast, Plan(t, g, ff)
         PROVE  Leaves(t)
    BY <1>0, <1>11 DEF Plan, Leaves
  <1>12. ASSUME CancelRun(t) PROVE Leaves(t)
    BY <1>0, <1>00, <1>12 DEF CancelRun, Leaves
  <1>13. ASSUME NEW ids \in SUBSET Nodes, Retry(t, ids)
         PROVE  Leaves(t)
    BY <1>0, <1>13 DEF Retry, Leaves
  <1>14. ASSUME Wait(t) PROVE Leaves(t)
    BY <1>0, <1>14 DEF Wait, Leaves
  <1>15. ASSUME Restore(t) PROVE Leaves(t)
    BY <1>0, <1>15 DEF Restore, Leaves
  <1> QED
    BY <1>1, <1>2, <1>3, <1>4, <1>5, <1>6, <1>7, <1>8, <1>9, <1>10, <1>11,
       <1>12, <1>13, <1>14, <1>15

\* The calls and sections that take a thread to a launch, a report or a token.
LEMMA SpecialSections ==
  ASSUME TypeOK, TopsOnTop, NEW t \in Threads
  PROVE  /\ \A n \in Nodes : StartStep(t) /\ Starts(n) /\ Top(t).node = n =>
              /\ TopsOnTop'
              /\ \A u \in Threads \ {t} : stack'[u] = stack[u]
              /\ stack'[t] # <<>> /\ Top(t)' = DoToken("launch", n, gen[n] + 1)
         /\ LaunchFails(t) =>
              /\ TopsOnTop'
              /\ \A u \in Threads \ {t} : stack'[u] = stack[u]
              /\ stack'[t] # <<>>
              /\ Top(t)' = DoReport(Top(t).node, Top(t).tok, "err")
         /\ \A j \in tasks : TaskReports(j, t) =>
              /\ TopsOnTop'
              /\ \A u \in Threads \ {t} : stack'[u] = stack[u]
              /\ stack'[t] # <<>> /\ Top(t)' = DoReport(j.node, j.tok, j.res)
         /\ \A n \in Nodes : Skip(t, n) =>
              IF status[n] = "Running" /\ jobs[n] # 0
                THEN /\ TopsOnTop'
                     /\ \A u \in Threads \ {t} : stack'[u] = stack[u]
                     /\ stack'[t] # <<>>
                     /\ Top(t)' = DoToken("token", n, jobs[n])
                ELSE Leaves(t)
  <1>1. ASSUME NEW n \in Nodes, StartStep(t), Starts(n), Top(t).node = n
        PROVE  /\ TopsOnTop'
               /\ \A u \in Threads \ {t} : stack'[u] = stack[u]
               /\ stack'[t] # <<>> /\ Top(t)' = DoToken("launch", n, gen[n] + 1)
    <2> DEFINE fs == <<DoToken("launch", n, gen[n] + 1)>>
    <2>1. Replace(t, fs) /\ At(t, "start")
      BY <1>1 DEF StartStep, Starts, TypeOK
    <2>2. Onto(t, fs)
      BY <2>1, MovesOnto
    <2>3. gen[n] + 1 \in Nat
      BY DEF TypeOK
    <2>4. fs \in Seq(Frames)
      BY <2>3, FrameTypes, ShortStacks
    <2>5. fs # <<>> /\ fs[1] = DoToken("launch", n, gen[n] + 1) /\ Len(fs) = 1
      OBVIOUS
    <2> HIDE DEF fs
    <2> QED
      BY <2>2, <2>4, <2>5, OntoTop
  <1>2. ASSUME LaunchFails(t)
        PROVE  /\ TopsOnTop'
               /\ \A u \in Threads \ {t} : stack'[u] = stack[u]
               /\ stack'[t] # <<>>
               /\ Top(t)' = DoReport(Top(t).node, Top(t).tok, "err")
    <2> DEFINE fs == <<DoReport(Top(t).node, Top(t).tok, "err")>>
    <2>1. Replace(t, fs) /\ At(t, "launch")
      BY <1>2 DEF LaunchFails
    <2>2. Onto(t, fs)
      BY <2>1, MovesOnto
    <2>3. Top(t).node \in Nodes /\ Top(t).tok \in Nat
      BY <2>1, TopNode
    <2>4. fs \in Seq(Frames)
      BY <2>3, FrameTypes, ShortStacks DEF Results
    <2>5. /\ fs # <<>> /\ Len(fs) = 1
          /\ fs[1] = DoReport(Top(t).node, Top(t).tok, "err")
      OBVIOUS
    <2> HIDE DEF fs
    <2> QED
      BY <2>2, <2>4, <2>5, OntoTop
  <1>3. ASSUME NEW j \in tasks, TaskReports(j, t)
        PROVE  /\ TopsOnTop'
               /\ \A u \in Threads \ {t} : stack'[u] = stack[u]
               /\ stack'[t] # <<>> /\ Top(t)' = DoReport(j.node, j.tok, j.res)
    <2> DEFINE fs == <<DoReport(j.node, j.tok, j.res)>>
    <2>1. j \in Tasks
      BY DEF TypeOK
    <2>2. fs \in Seq(Frames)
      BY <2>1, FrameTypes, ShortStacks DEF Tasks
    <2>3. Onto(t, fs)
      BY <1>3, <2>2, MovesOnto DEF TaskReports
    <2>4. fs # <<>> /\ Len(fs) = 1 /\ fs[1] = DoReport(j.node, j.tok, j.res)
      OBVIOUS
    <2> HIDE DEF fs
    <2> QED
      BY <2>2, <2>3, <2>4, OntoTop
  <1>4. ASSUME NEW n \in Nodes, Skip(t, n), status[n] = "Running", jobs[n] # 0
        PROVE  /\ TopsOnTop'
               /\ \A u \in Threads \ {t} : stack'[u] = stack[u]
               /\ stack'[t] # <<>> /\ Top(t)' = DoToken("token", n, jobs[n])
    <2> DEFINE fs == <<DoToken("token", n, jobs[n]), DoNode("after", n)>>
    <2>1. jobs[n] \in Nat
      BY DEF TypeOK
    <2>2. fs \in Seq(Frames)
      BY <2>1, FrameTypes, ShortStacks
    <2>3. Call(t, fs)
      BY <1>4 DEF Skip
    <2>4. Onto(t, fs)
      BY <2>2, <2>3, MovesOnto
    <2>5. /\ fs # <<>> /\ Len(fs) = 2 /\ fs[1] = DoToken("token", n, jobs[n])
          /\ fs[2].op = "after"
      BY DEF DoNode, Frame
    <2> HIDE DEF fs
    <2>6. \A i \in 2..Len(fs) : fs[i].op \notin TopOnly
      BY <2>5 DEF TopOnly
    <2> QED
      BY <2>2, <2>4, <2>5, <2>6, OntoTop
  <1>5. ASSUME NEW n \in Nodes, Skip(t, n), ~(status[n] = "Running" /\ jobs[n] # 0)
        PROVE  Leaves(t)
    <2>1. Call(t, <<DoNode("after", n)>>)
      BY <1>5 DEF Skip
    <2>2. Plain(<<DoNode("after", n)>>)
      BY PlainStacks
    <2>3. Onto(t, <<DoNode("after", n)>>)
      BY <2>1, <2>2, MovesOnto DEF Plain
    <2> QED
      BY <2>2, <2>3 DEF Leaves
  <1> QED
    BY <1>1, <1>2, <1>3, <1>4, <1>5

-----------------------------------------------------------------------------
(***************************************************************************)
(* The overshoot.  tick reads the budget, start_node spends it: the threads *)
(* that have read and not yet spent are counted with the running nodes.    *)
(***************************************************************************)
Starters == {t \in Threads : At(t, "start")}

OvershootInv ==
  /\ TopsOnTop
  /\ Cardinality(RunningNodes) + Cardinality(Starters)
       < MaxConcurrency + Cardinality(Threads)

\* Only start_node makes a node Running.
LEMMA NoneStarted ==
  ASSUME SafetyInv, Next, ~\E t \in Threads : StartStep(t)
  PROVE  RunningNodes' \subseteq RunningNodes
  <1>0. TypeOK
    BY DEF SafetyInv
  <1> SUFFICES ASSUME NEW m \in Nodes, status'[m] = "Running"
               PROVE  status[m] = "Running"
    BY DEF RunningNodes
  <1>1. ASSUME NEW t \in Threads, ThreadStep(t) PROVE status[m] = "Running"
    <2>1. CASE ReconcileStep(t)
      BY <2>1 DEF ReconcileStep, Reconcile
    <2>2. CASE CompletedStep(t)
      BY <1>0, <2>2 DEF CompletedStep, TypeOK
    <2>3. CASE CompleteStep(t)
      BY <2>3 DEF CompleteStep
    <2>4. CASE CancelStep(t)
      BY <2>4 DEF CancelStep, CancelNodes
    <2> QED
      BY <1>1, <2>1, <2>2, <2>3, <2>4, QuietSteps DEF ThreadStep, Quiet
  <1>2. ASSUME NEW t \in Threads, NEW g \in Graphs, NEW ff \in FailFast,
               Plan(t, g, ff)
        PROVE  status[m] = "Running"
    BY <1>2 DEF Plan
  <1>3. ASSUME NEW t \in Threads, CancelRun(t) PROVE status[m] = "Running"
    BY <1>3 DEF CancelRun, CancelNodes
  <1>4. ASSUME NEW t \in Threads, NEW ids \in SUBSET Nodes, Retry(t, ids)
        PROVE  status[m] = "Running"
    BY <1>4 DEF Retry
  <1>5. ASSUME NEW t \in Threads, NEW n \in Nodes, Skip(t, n)
        PROVE  status[m] = "Running"
    BY <1>5 DEF Skip
  <1>6. CASE Clear
    BY <1>6 DEF Clear
  <1>7. ASSUME NEW t \in Threads, Wait(t) PROVE status[m] = "Running"
    BY <1>7 DEF Wait
  <1>8. ASSUME NEW j \in tasks, TaskEnds(j) PROVE status[m] = "Running"
    BY <1>8 DEF TaskEnds, TaskAborted, TaskFinished
  <1>9. ASSUME NEW j \in tasks, NEW t \in Threads, TaskReports(j, t)
        PROVE  status[m] = "Running"
    BY <1>9 DEF TaskReports
  <1>10. CASE Save
    BY <1>10 DEF Save
  <1>11. CASE Crash
    BY <1>11 DEF Crash
  <1>12. ASSUME NEW t \in Threads, Restore(t) PROVE status[m] = "Running"
    BY <1>12 DEF Restore, Hydrate
  <1> QED
    BY <1>1, <1>2, <1>3, <1>4, <1>5, <1>6, <1>7, <1>8, <1>9, <1>10, <1>11, <1>12
    DEF Next

\* A step spends a budget that was read, reads one that is there, or does
\* neither.
Spends == \E t \in Starters : \E n \in Nodes :
             /\ RunningNodes' \subseteq RunningNodes \cup {n}
             /\ Starters' \subseteq Starters \ {t}
Reads  == /\ Cardinality(RunningNodes) < MaxConcurrency
          /\ RunningNodes' \subseteq RunningNodes
Keeps  == /\ RunningNodes' \subseteq RunningNodes
          /\ Starters' \subseteq Starters

\* Every step is one of the three, and keeps the stacks in order.
LEMMA StartersStep ==
  ASSUME SafetyInv, TopsOnTop, [Next]_vars
  PROVE  TopsOnTop' /\ (Spends \/ Reads \/ Keeps)
  <1>0. TypeOK
    BY DEF SafetyInv
  <1>1. ASSUME NEW t \in Threads, Leaves(t)
        PROVE  TopsOnTop' /\ Starters' \subseteq Starters \ {t}
    <2>1. /\ TopsOnTop'
          /\ \A u \in Threads \ {t} : stack'[u] = stack[u]
          /\ \A op \in TopOnly : ~At(t, op)'
      BY <1>0, <1>1, PlainMove
    <2>2. ~At(t, "start")'
      BY <2>1 DEF TopOnly
    <2> QED
      BY <2>1, <2>2 DEF Starters, At
  <1>2. ASSUME NEW t \in Threads, NEW f, f.op # "start",
               \A u \in Threads \ {t} : stack'[u] = stack[u],
               stack'[t] # <<>> /\ Top(t)' = f
        PROVE  Starters' \subseteq Starters \ {t}
    BY <1>2 DEF Starters, At, Top
  <1>3. ASSUME UNCHANGED stack PROVE TopsOnTop' /\ Starters' = Starters
    BY <1>3 DEF TopsOnTop, Starters, At
  <1>4. CASE UNCHANGED vars
    <2>1. UNCHANGED stack /\ UNCHANGED status
      BY <1>4 DEF vars
    <2> QED
      BY <1>3, <2>1 DEF Keeps, RunningNodes
  <1>5. ASSUME NEW t \in Threads, StartStep(t)
        PROVE  TopsOnTop' /\ Spends
    <2>1. t \in Starters
      BY <1>5 DEF StartStep, Starters
    <2>2. Top(t).node \in Nodes
      BY <1>0, <1>5, TopNode DEF StartStep
    <2>3. RunningNodes' \subseteq RunningNodes \cup {Top(t).node}
      <3>1. CASE status' = status
        BY <3>1 DEF RunningNodes
      <3>2. CASE status' = [status EXCEPT ![Top(t).node] = "Running"]
        BY <1>0, <3>2 DEF RunningNodes, TypeOK
      <3> QED
        BY <1>5, <3>1, <3>2 DEF StartStep
    <2>4. TopsOnTop' /\ Starters' \subseteq Starters \ {t}
      <3>1. CASE \E n \in Nodes : Starts(n)
        <4>1. Starts(Top(t).node)
          <5>1. PICK n \in Nodes : Starts(n)
            BY <3>1
          <5>2. status[n] = "Ready" /\ status'[n] = "Running"
            BY <1>0, <5>1 DEF Starts, TypeOK
          <5> QED
            BY <1>5, <5>1, <5>2 DEF StartStep, Starts
        <4>2. /\ TopsOnTop'
              /\ \A u \in Threads \ {t} : stack'[u] = stack[u]
              /\ stack'[t] # <<>>
              /\ Top(t)' = DoToken("launch", Top(t).node, gen[Top(t).node] + 1)
          BY <1>0, <1>5, <2>2, <4>1, SpecialSections
        <4>3. DoToken("launch", Top(t).node, gen[Top(t).node] + 1).op # "start"
          BY DEF DoToken, Frame
        <4> QED
          BY <1>2, <4>2, <4>3
      <3>2. CASE ~\E n \in Nodes : Starts(n)
        BY <1>0, <1>1, <1>5, <3>2, Sections
      <3> QED
        BY <3>1, <3>2
    <2> QED
      BY <2>1, <2>2, <2>3, <2>4 DEF Spends
  <1>6. ASSUME Next, ~\E t \in Threads : StartStep(t)
        PROVE  TopsOnTop' /\ (Reads \/ Keeps)
    <2>1. RunningNodes' \subseteq RunningNodes
      BY <1>6, NoneStarted
    <2>2. ASSUME NEW t \in Threads, Leaves(t) PROVE TopsOnTop' /\ Keeps
      BY <1>1, <2>1, <2>2 DEF Keeps
    <2>3. ASSUME UNCHANGED stack PROVE TopsOnTop' /\ Keeps
      BY <1>3, <2>1, <2>3 DEF Keeps
    <2>4. ASSUME NEW t \in Threads, TickStep(t)
          PROVE  TopsOnTop' /\ (Reads \/ Keeps)
      <3>1. CASE Leaves(t)
        BY <2>2, <3>1
      <3>2. ASSUME CanLaunch, NEW n \in Nodes, Onto(t, <<DoNode("start", n), Top(t)>>)
            PROVE  TopsOnTop' /\ Reads
        <4> DEFINE fs == <<DoNode("start", n), Top(t)>>
        <4>1. Top(t) \in Frames /\ Top(t).op = "tick"
          BY <1>0, <2>4, TopFrame DEF TickStep
        <4>2. fs \in Seq(Frames) /\ \A i \in 2..Len(fs) : fs[i].op \notin TopOnly
          BY <4>1, FrameTypes, ShortStacks DEF TopOnly
        <4>3. Onto(t, fs)
          BY <3>2
        <4> HIDE DEF fs
        <4>4. TopsOnTop'
          BY <1>0, <4>2, <4>3, OntoTop
        <4> QED
          BY <2>1, <3>2, <4>4 DEF Reads, CanLaunch
      <3> QED
        BY <1>0, <2>4, <3>1, <3>2, Sections
    <2>5. ASSUME NEW t \in Threads, LaunchFails(t) PROVE TopsOnTop' /\ Keeps
      <3>1. DoReport(Top(t).node, Top(t).tok, "err").op # "start"
        BY DEF DoReport, Frame
      <3> QED
        BY <1>0, <1>2, <2>1, <2>5, <3>1, SpecialSections DEF Keeps
    <2>6. ASSUME NEW t \in Threads, NEW n \in Nodes, Skip(t, n)
          PROVE  TopsOnTop' /\ Keeps
      <3>1. DoToken("token", n, jobs[n]).op # "start"
        BY DEF DoToken, Frame
      <3>2. CASE status[n] = "Running" /\ jobs[n] # 0
        BY <1>0, <1>2, <2>1, <2>6, <3>1, <3>2, SpecialSections DEF Keeps
      <3>3. CASE ~(status[n] = "Running" /\ jobs[n] # 0)
        BY <1>0, <2>2, <2>6, <3>3, SpecialSections
      <3> QED
        BY <3>2, <3>3
    <2>7. ASSUME NEW j \in tasks, NEW t \in Threads, TaskReports(j, t)
          PROVE  TopsOnTop' /\ Keeps
      <3>1. DoReport(j.node, j.tok, j.res).op # "start"
        BY DEF DoReport, Frame
      <3> QED
        BY <1>0, <1>2, <2>1, <2>7, <3>1, SpecialSections DEF Keeps
    <2>8. CASE Clear \/ Save \/ \E j \in tasks : TaskEnds(j)
      BY <2>3, <2>8 DEF Clear, Save, TaskEnds, TaskAborted, TaskFinished
    <2>9. CASE Crash
      BY <2>1, <2>9 DEF Crash, TopsOnTop, Keeps, Starters, At
    <2>10. ASSUME NEW t \in Threads, ThreadStep(t)
           PROVE  TopsOnTop' /\ (Reads \/ Keeps)
      <3>1. CASE \/ ReconcileStep(t) \/ LaunchDropped(t) \/ LaunchSpawns(t)
                 \/ CompletedStep(t) \/ AfterStep(t) \/ CompleteStep(t)
                 \/ CancelStep(t) \/ AbortStep(t) \/ TokenStep(t)
        <4>1. Leaves(t)
          BY <1>0, <3>1, Sections
        <4> QED
          BY <2>2, <4>1
      <3> QED
        BY <1>6, <2>4, <2>5, <2>10, <3>1 DEF ThreadStep
    <2>11. ASSUME NEW t \in Threads,
                  \/ \E g \in Graphs : \E ff \in FailFast : Plan(t, g, ff)
                  \/ CancelRun(t)
                  \/ \E ids \in SUBSET Nodes : Retry(t, ids)
                  \/ Wait(t)
                  \/ Restore(t)
           PROVE  TopsOnTop' /\ Keeps
      <3>1. Leaves(t)
        BY <1>0, <2>11, Sections
      <3> QED
        BY <2>2, <3>1
    <2> QED
      BY <1>6, <2>6, <2>7, <2>8, <2>9, <2>10, <2>11 DEF Next
  <1> QED
    BY <1>4, <1>5, <1>6

\* However the threads interleave, fewer than max_concurrency plus the number
\* of threads nodes run at once.
THEOREM ConcurrencyBounded == Spec => []OvershootBounded
  <1>0. /\ \A S : S \subseteq Nodes => IsFiniteSet(S) /\ Cardinality(S) \in Nat
        /\ \A S : S \subseteq Threads =>
             /\ IsFiniteSet(S) /\ Cardinality(S) \in Nat
             /\ Cardinality(S) <= Cardinality(Threads)
    <2>1. IsFiniteSet(Nodes) /\ IsFiniteSet(Threads)
      BY FS_Interval, NAssumption, EngineAssumption DEF Nodes
    <2> QED
      BY <2>1, FS_Subset, FS_CardinalityType
  <1>1. Init => OvershootInv
    <2> SUFFICES ASSUME Init PROVE OvershootInv
      OBVIOUS
    <2>1. TopsOnTop /\ Starters = {} /\ RunningNodes = {}
      BY DEF Init, TopsOnTop, Starters, At, RunningNodes
    <2> QED
      BY <1>0, <2>1, FS_EmptySet, EngineAssumption DEF OvershootInv
  <1>2. SafetyInv /\ OvershootInv /\ [Next]_vars => OvershootInv'
    <2> SUFFICES ASSUME SafetyInv, OvershootInv, [Next]_vars PROVE OvershootInv'
      OBVIOUS
    <2> DEFINE r == Cardinality(RunningNodes)   r2 == Cardinality(RunningNodes')
               s == Cardinality(Starters)       s2 == Cardinality(Starters')
    <2>1. TopsOnTop' /\ (Spends \/ Reads \/ Keeps)
      BY StartersStep DEF OvershootInv
    <2>2. /\ RunningNodes \subseteq Nodes /\ RunningNodes' \subseteq Nodes
          /\ Starters \subseteq Threads /\ Starters' \subseteq Threads
      BY DEF RunningNodes, Starters
    <2>3. /\ r \in Nat /\ r2 \in Nat /\ s \in Nat /\ s2 \in Nat
          /\ Cardinality(Threads) \in Nat /\ MaxConcurrency \in Nat
          /\ s2 <= Cardinality(Threads)
      BY <1>0, <2>2, EngineAssumption
    <2>4. r + s < MaxConcurrency + Cardinality(Threads)
      BY DEF OvershootInv
    <2>5. CASE Spends
      <3>1. PICK t \in Starters, n \in Nodes :
                   /\ RunningNodes' \subseteq RunningNodes \cup {n}
                   /\ Starters' \subseteq Starters \ {t}
        BY <2>5 DEF Spends
      <3>2. IsFiniteSet(RunningNodes) /\ IsFiniteSet(Starters)
        BY <1>0, <2>2
      <3>3. IsFiniteSet(RunningNodes \cup {n}) /\ Cardinality(RunningNodes \cup {n}) <= r + 1
        <4>1. /\ IsFiniteSet(RunningNodes \cup {n})
              /\ Cardinality(RunningNodes \cup {n}) =
                   IF n \in RunningNodes THEN Cardinality(RunningNodes)
                                         ELSE Cardinality(RunningNodes) + 1
          BY <3>2, FS_AddElement
        <4> QED
          BY <2>3, <4>1
      <3>4. IsFiniteSet(Starters \ {t}) /\ Cardinality(Starters \ {t}) = s - 1
        BY <3>1, <3>2, FS_RemoveElement
      <3>5. r2 <= r + 1 /\ s2 <= s - 1
        <4>1. r2 <= Cardinality(RunningNodes \cup {n})
          BY <3>1, <3>3, FS_Subset
        <4>2. s2 <= Cardinality(Starters \ {t})
          BY <3>1, <3>4, FS_Subset
        <4>3. Cardinality(RunningNodes \cup {n}) \in Nat
          BY <3>3, FS_CardinalityType
        <4> HIDE DEF r, r2, s, s2
        <4> QED
          BY <2>3, <3>3, <3>4, <4>1, <4>2, <4>3
      <3> HIDE DEF r, r2, s, s2
      <3>6. r2 + s2 < MaxConcurrency + Cardinality(Threads)
        BY <2>3, <2>4, <3>5
      <3> QED
        BY <2>1, <3>6 DEF OvershootInv, r2, s2
    <2>6. CASE Reads
      <3>1. r2 <= r
        BY <1>0, <2>2, <2>6, FS_Subset DEF Reads
      <3>2. r < MaxConcurrency
        BY <2>6 DEF Reads
      <3> HIDE DEF r, r2, s, s2
      <3>6. r2 + s2 < MaxConcurrency + Cardinality(Threads)
        BY <2>3, <3>1, <3>2
      <3> QED
        BY <2>1, <3>6 DEF OvershootInv, r2, s2
    <2>7. CASE Keeps
      <3>1. r2 <= r /\ s2 <= s
        BY <1>0, <2>2, <2>7, FS_Subset DEF Keeps
      <3> HIDE DEF r, r2, s, s2
      <3>6. r2 + s2 < MaxConcurrency + Cardinality(Threads)
        BY <2>3, <2>4, <3>1
      <3> QED
        BY <2>1, <3>6 DEF OvershootInv, r2, s2
    <2> QED
      BY <2>1, <2>5, <2>6, <2>7
  <1>3. OvershootInv => OvershootBounded
    <2>1. /\ Cardinality(RunningNodes) \in Nat /\ Cardinality(Starters) \in Nat
          /\ Cardinality(Threads) \in Nat /\ MaxConcurrency \in Nat
      BY <1>0, EngineAssumption DEF RunningNodes, Starters
    <2> QED
      BY <2>1 DEF OvershootInv, OvershootBounded
  <1> QED
    BY <1>1, <1>2, <1>3, Safety, PTL DEF Spec

-----------------------------------------------------------------------------
(***************************************************************************)
(* The job table, when no call cancels the run as a whole.  A launch is    *)
(* carried by the thread that launches it, then by its task, then by the   *)
(* thread that reports it.                                                 *)
(***************************************************************************)
NoCancellation == "cancel" \notin OpKinds /\ "on" \notin FailFast

Holds(t, n, k) == /\ At(t, "launch") \/ At(t, "completed")
                  /\ Top(t).node = n
                  /\ Top(t).tok = k

Revokes(t, n, k) == At(t, "token") /\ Top(t).node = n /\ Top(t).tok = k

Runs(j, n, k) == j \in tasks /\ j.node = n /\ j.tok = k

\* The launch is somewhere; it will run unless its token stops it; its token is
\* cancelled, or a thread is about to cancel it.
Carried(n, k) == \/ \E t \in Threads : Holds(t, n, k)
                 \/ \E j \in tasks : Runs(j, n, k)
Live(n, k)    == \/ \E t \in Threads : At(t, "launch") /\ Holds(t, n, k)
                 \/ \E j \in tasks : Runs(j, n, k) /\ j.ph = "running"
Dead(n, k)    == \/ <<n, k>> \in cancelled
                 \/ \E t \in Threads : Revokes(t, n, k)

\* No thread is about to cancel the run.
NoCancelling ==
  /\ failFast = "off"
  /\ \A t \in Threads : \A i \in 1..Len(stack[t]) :
        stack[t][i].op \notin {"cancel", "abort"}

\* A node that runs is registered, under its last launch, and one that is not
\* loaded does not run.
Registers ==
  /\ \A n \in Nodes : (status[n] = "Running") <=> (jobs[n] # 0)
  /\ \A n \in Nodes : jobs[n] \in {0, gen[n]}
  /\ runStatus \notin Registered => \A n \in Nodes : status[n] # "Running"

\* A launch in flight is the registered one, or the node is done without it.
CarriedIsCurrent ==
  \A n \in Nodes : \A k \in Nat :
    Carried(n, k) => /\ k \in 1..gen[n]
                     /\ jobs[n] = k \/ status[n] \in Done

\* A launch is in one place.
CarriedOnce ==
  \A n \in Nodes : \A k \in Nat :
    /\ \A t, u \in Threads : Holds(t, n, k) /\ Holds(u, n, k) => t = u
    /\ \A i, j \in tasks : Runs(i, n, k) /\ Runs(j, n, k) => i = j
    /\ \A t \in Threads : \A j \in tasks : ~(Holds(t, n, k) /\ Runs(j, n, k))

\* The registered launch is in flight, and nobody has cancelled it.
RegisteredIsLive ==
  \A n \in Nodes : jobs[n] # 0 => Carried(n, jobs[n]) /\ ~Dead(n, jobs[n])

\* Cancelled tokens belong to launches that have been.
DeadAreOld == \A n \in Nodes : \A k \in Nat : Dead(n, k) => k <= gen[n]

\* A launch that will run is registered, or its token stops it.
LiveIsRegistered ==
  \A n \in Nodes : \A k \in Nat : Live(n, k) => Dead(n, k) \/ jobs[n] = k

Launches == /\ Registers
            /\ CarriedIsCurrent
            /\ CarriedOnce
            /\ RegisteredIsLive
            /\ DeadAreOld
            /\ LiveIsRegistered

JobInv == TopsOnTop /\ NoCancelling /\ Launches

\* The stacks of a thread that moves hold what they held and the new sections.
LEMMA CalmOnto ==
  ASSUME TypeOK, NoCancelling, NEW t \in Threads, NEW fs \in Seq(Frames),
         Onto(t, fs),
         \A i \in 1..Len(fs) : fs[i].op \notin {"cancel", "abort"}
  PROVE  \A u \in Threads : \A i \in 1..Len(stack'[u]) :
            stack'[u][i].op \notin {"cancel", "abort"}
  <1>0. stack[t] \in Seq(Frames)
    BY DEF TypeOK
  <1> DEFINE b == Below(t)
  <1>1. b \in Seq(Frames) /\ \A i \in 1..Len(b) : b[i].op \notin {"cancel", "abort"}
    <2>1. CASE stack[t] = <<>>
      BY <2>1 DEF Below
    <2>2. CASE stack[t] # <<>>
      <3>1. b = Tail(stack[t])
        BY <2>2 DEF Below
      <3>2. /\ b \in Seq(Frames)
            /\ \A i \in 1..Len(b) : /\ b[i] = stack[t][i + 1]
                                    /\ i + 1 \in 1..Len(stack[t])
        BY <1>0, <2>2, <3>1
      <3> QED
        BY <3>2 DEF NoCancelling
    <2> QED
      BY <2>1, <2>2
  <1>2. stack' = [stack EXCEPT ![t] = fs \o b]
    BY DEF Onto
  <1> HIDE DEF b
  <1>3. /\ stack'[t] = fs \o b
        /\ \A u \in Threads \ {t} : stack'[u] = stack[u]
    BY <1>2 DEF TypeOK
  <1>4. \A i \in 1..Len(fs \o b) : (fs \o b)[i].op \notin {"cancel", "abort"}
    <2> SUFFICES ASSUME NEW i \in 1..Len(fs \o b)
                 PROVE  (fs \o b)[i].op \notin {"cancel", "abort"}
      OBVIOUS
    <2>0. Len(fs) \in Nat /\ Len(b) \in Nat /\ Len(fs \o b) = Len(fs) + Len(b)
      BY <1>1
    <2>1. CASE i <= Len(fs)
      <3>1. (fs \o b)[i] = fs[i] /\ i \in 1..Len(fs)
        BY <1>1, <2>1
      <3> QED
        BY <3>1
    <2>2. CASE i > Len(fs)
      <3>1. (fs \o b)[i] = b[i - Len(fs)] /\ i - Len(fs) \in 1..Len(b)
        BY <1>1, <2>0, <2>2
      <3> QED
        BY <1>1, <3>1
    <2> QED
      BY <2>0, <2>1, <2>2
  <1> QED
    BY <1>3, <1>4 DEF NoCancelling

\* A calm section leads to no cancellation.
Calm(fs) == /\ fs \in Seq(Frames)
            /\ \A i \in 1..Len(fs) : fs[i].op \notin {"cancel", "abort"}

\* The stacks of calls that do not cancel the run.
LEMMA CalmStacks ==
  /\ Calm(<<>>)
  /\ Calm(<<Do("reconcile"), Do("tick")>>)
  /\ Calm(<<Do("reconcile"), Do("tick"), Do("complete")>>)
  /\ Calm(<<Do("complete")>>)
  /\ \A n \in Nodes : Calm(<<DoNode("after", n)>>)
  /\ \A n \in Nodes, f \in Frames : f.op = "tick" => Calm(<<DoNode("start", n), f>>)
  /\ \A n \in Nodes, k \in Nat : Calm(<<DoToken("launch", n, k)>>)
  /\ \A n \in Nodes, k \in Nat : Calm(<<DoToken("token", n, k), DoNode("after", n)>>)
  /\ \A n \in Nodes, k \in Nat, r \in Results : Calm(<<DoReport(n, k, r)>>)
  <1>1. \A f, g \in Frames : /\ f.op \notin {"cancel", "abort"} => Calm(<<f>>)
                             /\ (/\ f.op \notin {"cancel", "abort"}
                                 /\ g.op \notin {"cancel", "abort"})
                                   => Calm(<<f, g>>)
    BY ShortStacks DEF Calm
  <1>2. \A op, n, k, r : /\ Do(op).op = op
                         /\ DoNode(op, n).op = op
                         /\ DoToken(op, n, k).op = op
                         /\ DoReport(n, k, r).op = "completed"
    BY DEF Do, DoNode, DoToken, DoReport, Frame
  <1>3. Calm(<<>>) /\ Calm(<<Do("reconcile"), Do("tick"), Do("complete")>>)
    BY <1>2, FrameTypes, ShortStacks DEF Calm
  <1>4. /\ Calm(<<Do("reconcile"), Do("tick")>>)
        /\ Calm(<<Do("complete")>>)
    BY <1>1, <1>2, FrameTypes
  <1>5. \A n \in Nodes : Calm(<<DoNode("after", n)>>)
    BY <1>1, <1>2, FrameTypes
  <1>6. \A n \in Nodes, f \in Frames :
           f.op = "tick" => Calm(<<DoNode("start", n), f>>)
    BY <1>1, <1>2, FrameTypes
  <1>7. \A n \in Nodes, k \in Nat : Calm(<<DoToken("launch", n, k)>>)
    BY <1>1, <1>2, FrameTypes
  <1>8. \A n \in Nodes, k \in Nat :
           Calm(<<DoToken("token", n, k), DoNode("after", n)>>)
    BY <1>1, <1>2, FrameTypes
  <1>9. \A n \in Nodes, k \in Nat, r \in Results : Calm(<<DoReport(n, k, r)>>)
    BY <1>1, <1>2, FrameTypes
  <1> QED
    BY <1>3, <1>4, <1>5, <1>6, <1>7, <1>8, <1>9

\* Without a cancellation by a client no call gets to cancel the run.
LEMMA NoCancellingStep ==
  ASSUME TypeOK, NoCancellation, NoCancelling, [Next]_vars
  PROVE  NoCancelling'
  <1> USE MovesOnto, CalmStacks
  <1>0. ASSUME NEW t \in Threads, NEW fs, Calm(fs), Onto(t, fs),
               failFast' = "off"
        PROVE  NoCancelling'
    BY <1>0, CalmOnto DEF Calm, NoCancelling
  <1>00. ASSUME UNCHANGED <<stack, failFast>> PROVE NoCancelling'
    BY <1>00 DEF NoCancelling
  <1>01. failFast = "off"
    BY DEF NoCancelling
  <1>02. \A fs : Calm(fs) => fs \in Seq(Frames)
    BY DEF Calm
  <1>1. CASE UNCHANGED vars
    BY <1>00, <1>1 DEF vars
  <1>2. ASSUME NEW t \in Threads, ReconcileStep(t) PROVE NoCancelling'
    BY <1>0, <1>01, <1>2 DEF ReconcileStep
  <1>3. ASSUME NEW t \in Threads, TickStep(t) PROVE NoCancelling'
    <2>1. Top(t) \in Frames /\ Top(t).op = "tick"
      BY <1>3, TopFrame DEF TickStep
    <2>2. failFast' = "off"
      BY <1>01, <1>3 DEF TickStep
    <2>3. Onto(t, <<>>) \/ \E n \in Nodes : Onto(t, <<DoNode("start", n), Top(t)>>)
      BY <1>3 DEF TickStep
    <2>4. CASE Onto(t, <<>>)
      BY <1>0, <2>2, <2>4
    <2>5. ASSUME NEW n \in Nodes, Onto(t, <<DoNode("start", n), Top(t)>>)
          PROVE  NoCancelling'
      <3>1. Calm(<<DoNode("start", n), Top(t)>>)
        BY <2>1
      <3> QED
        BY <1>0, <2>2, <2>5, <3>1
    <2> QED
      BY <2>3, <2>4, <2>5
  <1>4. ASSUME NEW t \in Threads, StartStep(t) PROVE NoCancelling'
    <2>1. Top(t).node \in Nodes
      BY <1>4, TopNode DEF StartStep
    <2>2. gen[Top(t).node] + 1 \in Nat
      BY <2>1 DEF TypeOK
    <2>3. /\ failFast' = "off"
          /\ \/ Onto(t, <<>>)
             \/ Onto(t, <<DoToken("launch", Top(t).node, gen[Top(t).node] + 1)>>)
      BY <1>01, <1>4 DEF StartStep
    <2>4. Calm(<<DoToken("launch", Top(t).node, gen[Top(t).node] + 1)>>)
      BY <2>1, <2>2
    <2> QED
      BY <1>0, <2>3, <2>4
  <1>5. ASSUME NEW t \in Threads, LaunchFails(t) PROVE NoCancelling'
    <2>1. Top(t).node \in Nodes /\ Top(t).tok \in Nat
      BY <1>5, TopNode DEF LaunchFails
    <2>2. /\ failFast' = "off"
          /\ Onto(t, <<DoReport(Top(t).node, Top(t).tok, "err")>>)
      BY <1>01, <1>5 DEF LaunchFails
    <2>3. Calm(<<DoReport(Top(t).node, Top(t).tok, "err")>>)
      BY <2>1 DEF Results
    <2> QED
      BY <1>0, <2>2, <2>3
  <1>6. ASSUME NEW t \in Threads, LaunchDropped(t) \/ LaunchSpawns(t)
        PROVE  NoCancelling'
    BY <1>0, <1>01, <1>6 DEF LaunchDropped, LaunchSpawns
  <1>7. ASSUME NEW t \in Threads, CompletedStep(t) PROVE NoCancelling'
    <2>1. Top(t).node \in Nodes
      BY <1>7, TopNode DEF CompletedStep
    <2>2. /\ failFast' = "off"
          /\ Onto(t, <<>>) \/ Onto(t, <<DoNode("after", Top(t).node)>>)
      BY <1>01, <1>7 DEF CompletedStep
    <2> QED
      BY <1>0, <2>1, <2>2
  <1>8. ASSUME NEW t \in Threads, AfterStep(t) PROVE NoCancelling'
    <2>1. /\ failFast' = "off"
          /\ \/ Onto(t, <<>>)
             \/ Onto(t, <<Do("reconcile"), Do("tick"), Do("complete")>>)
      BY <1>01, <1>8 DEF AfterStep
    <2> QED
      BY <1>0, <2>1
  <1>9. ASSUME NEW t \in Threads, CompleteStep(t) PROVE NoCancelling'
    BY <1>0, <1>01, <1>9 DEF CompleteStep
  <1>10. ASSUME NEW t \in Threads, CancelStep(t) \/ AbortStep(t)
         PROVE  NoCancelling'
    <2>1. /\ stack[t] # <<>> /\ stack[t] \in Seq(Frames)
          /\ Head(stack[t]).op \in {"cancel", "abort"}
      BY <1>10 DEF CancelStep, AbortStep, At, TypeOK
    <2>2. Head(stack[t]) = stack[t][1] /\ 1 \in 1..Len(stack[t])
      BY <2>1
    <2> QED
      BY <2>1, <2>2 DEF NoCancelling
  <1>11. ASSUME NEW t \in Threads, TokenStep(t) PROVE NoCancelling'
    BY <1>0, <1>01, <1>11 DEF TokenStep
  <1>12. ASSUME NEW t \in Threads, NEW g \in Graphs, NEW ff \in FailFast,
                Plan(t, g, ff)
         PROVE  NoCancelling'
    <2>1. ff = "off"
      BY EngineAssumption DEF NoCancellation
    <2> QED
      BY <1>0, <1>02, <1>12, <2>1 DEF Plan
  <1>13. ASSUME NEW t \in Threads, CancelRun(t) PROVE NoCancelling'
    BY <1>13 DEF CancelRun, Intervene, NoCancellation
  <1>14. ASSUME NEW t \in Threads, NEW ids \in SUBSET Nodes, Retry(t, ids)
         PROVE  NoCancelling'
    BY <1>0, <1>01, <1>02, <1>14 DEF Retry
  <1>15. ASSUME NEW t \in Threads, NEW n \in Nodes, Skip(t, n)
         PROVE  NoCancelling'
    <2>1. jobs[n] \in Nat
      BY DEF TypeOK
    <2>2. /\ Calm(<<DoToken("token", n, jobs[n]), DoNode("after", n)>>)
          /\ Calm(<<DoNode("after", n)>>)
      BY <2>1
    <2>3. /\ failFast' = "off"
          /\ \/ Call(t, <<DoToken("token", n, jobs[n]), DoNode("after", n)>>)
             \/ Call(t, <<DoNode("after", n)>>)
      BY <1>01, <1>15 DEF Skip
    <2> QED
      BY <1>0, <1>02, <2>2, <2>3
  <1>16. ASSUME NEW t \in Threads, Wait(t) PROVE NoCancelling'
    BY <1>0, <1>01, <1>02, <1>16 DEF Wait
  <1>17. CASE Clear \/ Save \/ \E j \in tasks : TaskEnds(j)
    BY <1>00, <1>17 DEF Clear, Save, TaskEnds, TaskAborted, TaskFinished
  <1>18. ASSUME NEW j \in tasks, NEW t \in Threads, TaskReports(j, t)
         PROVE  NoCancelling'
    <2>1. j \in Tasks
      BY DEF TypeOK
    <2>2. Calm(<<DoReport(j.node, j.tok, j.res)>>)
      BY <2>1 DEF Tasks
    <2>3. failFast' = "off" /\ Call(t, <<DoReport(j.node, j.tok, j.res)>>)
      BY <1>01, <1>18 DEF TaskReports
    <2> QED
      BY <1>0, <1>02, <2>2, <2>3
  <1>19. CASE Crash
    BY <1>01, <1>19 DEF Crash, NoCancelling
  <1>20. ASSUME NEW t \in Threads, Restore(t) PROVE NoCancelling'
    BY <1>0, <1>01, <1>02, <1>20 DEF Restore
  <1>21. ASSUME NEW t \in Threads, ThreadStep(t) PROVE NoCancelling'
    BY <1>2, <1>3, <1>4, <1>5, <1>6, <1>7, <1>8, <1>9, <1>10, <1>11, <1>21
    DEF ThreadStep
  <1> QED
    BY <1>1, <1>12, <1>13, <1>14, <1>15, <1>16, <1>17, <1>18, <1>19, <1>20, <1>21
    DEF Next

\* The statuses change, but not which nodes run, and no node stops being done.
Steady == /\ \A n \in Nodes : /\ status'[n] = "Running" <=> status[n] = "Running"
                              /\ status[n] \in Done => status'[n] \in Done
          /\ runStatus' \notin Registered => \A n \in Nodes : status'[n] # "Running"

\* A step that may move or drop launches, but leaves the table alone.
LEMMA LaunchesPass ==
  ASSUME TypeOK, Launches, UNCHANGED <<jobs, gen>>, Steady,
         \A n \in Nodes : \A k \in Nat : /\ Carried(n, k)' => Carried(n, k)
                                         /\ Live(n, k)' => Live(n, k)
                                         /\ Dead(n, k)' <=> Dead(n, k),
         \A n \in Nodes : jobs[n] # 0 /\ Carried(n, jobs[n]) => Carried(n, jobs[n])',
         CarriedOnce'
  PROVE  Launches'
  <1>0. \A n \in Nodes : jobs[n] \in Nat
    BY DEF TypeOK
  <1>1. Registers'
    BY DEF Launches, Registers, Steady
  <1>2. CarriedIsCurrent'
    BY DEF Launches, CarriedIsCurrent, Steady
  <1>3. RegisteredIsLive'
    BY <1>0 DEF Launches, RegisteredIsLive
  <1>4. DeadAreOld'
    BY DEF Launches, DeadAreOld
  <1>5. LiveIsRegistered'
    BY DEF Launches, LiveIsRegistered
  <1> QED
    BY <1>1, <1>2, <1>3, <1>4, <1>5 DEF Launches

\* What a thread that moves leaves of the launches, the other threads staying.
LEMMA OthersStay ==
  ASSUME NEW t \in Threads, \A u \in Threads \ {t} : stack'[u] = stack[u]
  PROVE  \A u \in Threads \ {t} : \A n, k :
           /\ Holds(u, n, k)' <=> Holds(u, n, k)
           /\ Revokes(u, n, k)' <=> Revokes(u, n, k)
           /\ At(u, "launch")' <=> At(u, "launch")
  BY DEF Holds, Revokes, At, Top

\* A thread that leaves for plain sections holds no launch and no token.
LEMMA LeaverHoldsNothing ==
  ASSUME TypeOK, TopsOnTop, NEW t \in Threads, Leaves(t)
  PROVE  /\ TopsOnTop'
         /\ \A u \in Threads \ {t} : stack'[u] = stack[u]
         /\ \A n, k : ~Holds(t, n, k)' /\ ~Revokes(t, n, k)'
  BY PlainMove DEF TopOnly, Holds, Revokes

\* Sections and calls that have to do with no launch.
LEMMA LaunchesUndisturbed ==
  ASSUME TypeOK, TopsOnTop, Launches, NEW t \in Threads, Leaves(t),
         \A n, k : ~Holds(t, n, k) /\ ~Revokes(t, n, k),
         UNCHANGED <<jobs, gen, cancelled, tasks>>, Steady
  PROVE  Launches'
  <1>1. \A u \in Threads : \A n, k :
           /\ Holds(u, n, k)' <=> Holds(u, n, k)
           /\ Revokes(u, n, k)' <=> Revokes(u, n, k)
           /\ At(u, "launch") /\ Holds(u, n, k) <=> (At(u, "launch") /\ Holds(u, n, k))'
    BY LeaverHoldsNothing, OthersStay
  <1>2. \A j, n, k : Runs(j, n, k)' <=> Runs(j, n, k)
    BY DEF Runs
  <1>3. \A n, k : /\ Carried(n, k)' <=> Carried(n, k)
                  /\ Live(n, k)' <=> Live(n, k)
                  /\ Dead(n, k)' <=> Dead(n, k)
    BY <1>1, <1>2 DEF Carried, Live, Dead
  <1>4. CarriedOnce'
    BY <1>1, <1>2 DEF CarriedOnce, Launches
  <1> QED
    BY <1>3, <1>4, LaunchesPass

\* A launch that fails becomes a report of the same launch.
LEMMA LaunchFailsPasses ==
  ASSUME TypeOK, TopsOnTop, Launches, NEW t \in Threads, LaunchFails(t),
         Steady
  PROVE  Launches'
  <1> DEFINE n0 == Top(t).node  k0 == Top(t).tok
  <1>0. /\ At(t, "launch") /\ UNCHANGED <<jobs, gen, tasks, cancelled>>
        /\ n0 \in Nodes /\ k0 \in Nat
    BY TopNode DEF LaunchFails
  <1>1. /\ \A u \in Threads \ {t} : stack'[u] = stack[u]
        /\ stack'[t] # <<>> /\ Top(t)' = DoReport(n0, k0, "err")
    BY SpecialSections
  <1>2. At(t, "completed")' /\ Top(t)'.node = n0 /\ Top(t)'.tok = k0
    BY <1>1 DEF At, Top, DoReport, Frame
  <1> HIDE DEF n0, k0
  <1>3. \A n, k : /\ Holds(t, n, k)' <=> (n = n0 /\ k = k0)
                  /\ Holds(t, n, k) <=> (n = n0 /\ k = k0)
                  /\ ~Revokes(t, n, k) /\ ~Revokes(t, n, k)'
                  /\ ~At(t, "launch")'
    BY <1>0, <1>2 DEF Holds, Revokes, At, Top, n0, k0
  <1>4. \A u \in Threads \ {t} : \A n, k :
           /\ Holds(u, n, k)' <=> Holds(u, n, k)
           /\ Revokes(u, n, k)' <=> Revokes(u, n, k)
           /\ At(u, "launch")' <=> At(u, "launch")
    BY <1>1, OthersStay
  <1>5. \A j, n, k : Runs(j, n, k)' <=> Runs(j, n, k)
    BY <1>0 DEF Runs
  <1>6. \A n, k : /\ Carried(n, k)' <=> Carried(n, k)
                  /\ Live(n, k)' => Live(n, k)
                  /\ Dead(n, k)' <=> Dead(n, k)
    BY <1>0, <1>3, <1>4, <1>5 DEF Carried, Live, Dead
  <1>7. CarriedOnce'
    BY <1>0, <1>3, <1>4, <1>5 DEF CarriedOnce, Launches
  <1> QED
    BY <1>0, <1>6, <1>7, LaunchesPass

\* launch that ends silently: the token is cancelled, or nothing runs.
LEMMA LaunchDroppedPasses ==
  ASSUME TypeOK, TopsOnTop, Launches, NEW t \in Threads, LaunchDropped(t),
         Steady
  PROVE  Launches'
  <1> DEFINE n0 == Top(t).node  k0 == Top(t).tok
  <1>0. /\ At(t, "launch") /\ UNCHANGED <<jobs, gen, tasks, cancelled>>
        /\ n0 \in Nodes /\ k0 \in Nat
        /\ runStatus \notin Registered \/ <<n0, k0>> \in cancelled
    BY TopNode DEF LaunchDropped
  <1>1. Leaves(t)
    BY Sections
  <1>2. /\ \A u \in Threads \ {t} : stack'[u] = stack[u]
        /\ \A n, k : ~Holds(t, n, k)' /\ ~Revokes(t, n, k)'
    BY <1>1, LeaverHoldsNothing
  <1> HIDE DEF n0, k0
  <1>3. \A n, k : Holds(t, n, k) => (n = n0 /\ k = k0)
    BY DEF Holds, n0, k0
  <1>30. \A n, k : ~Revokes(t, n, k)
    BY <1>0 DEF At, Revokes
  <1>4. \A u \in Threads \ {t} : \A n, k :
           /\ Holds(u, n, k)' <=> Holds(u, n, k)
           /\ Revokes(u, n, k)' <=> Revokes(u, n, k)
           /\ At(u, "launch")' <=> At(u, "launch")
    BY <1>2, OthersStay
  <1>5. \A j, n, k : Runs(j, n, k)' <=> Runs(j, n, k)
    BY <1>0 DEF Runs
  <1>6. \A n, k : /\ Carried(n, k)' => Carried(n, k)
                  /\ Live(n, k)' => Live(n, k)
                  /\ Dead(n, k)' <=> Dead(n, k)
    BY <1>0, <1>2, <1>30, <1>4, <1>5 DEF Carried, Live, Dead
  <1>7. CarriedOnce'
    BY <1>0, <1>2, <1>4, <1>5 DEF CarriedOnce, Launches
  <1>8. ASSUME NEW n \in Nodes, jobs[n] # 0, Carried(n, jobs[n])
        PROVE  Carried(n, jobs[n])'
    <2>1. status[n] = "Running" /\ runStatus \in Registered
      BY <1>8 DEF Launches, Registers
    <2>2. ~Dead(n, jobs[n])
      BY <1>8 DEF Launches, RegisteredIsLive
    <2>3. <<n, jobs[n]>> # <<n0, k0>>
      BY <1>0, <2>1, <2>2 DEF Dead
    <2>4. ~Holds(t, n, jobs[n])
      BY <1>3, <2>3
    <2>5. \A k : Carried(n, k) /\ ~Holds(t, n, k) => Carried(n, k)'
      BY <1>0, <1>4, <1>5 DEF Carried
    <2> QED
      BY <1>0, <1>8, <2>4, <2>5
  <1> QED
    BY <1>0, <1>6, <1>7, <1>8, LaunchesPass

\* launch that spawns: the task carries the launch.
LEMMA LaunchSpawnsPasses ==
  ASSUME TypeOK, TopsOnTop, Launches, NEW t \in Threads, LaunchSpawns(t),
         Steady
  PROVE  Launches'
  <1> DEFINE n0 == Top(t).node  k0 == Top(t).tok
  <1>0. /\ At(t, "launch") /\ UNCHANGED <<jobs, gen, cancelled>>
        /\ n0 \in Nodes /\ k0 \in Nat
    BY TopNode DEF LaunchSpawns
  <1>00. PICK j0 : tasks' = tasks \cup {j0} /\ j0.node = n0 /\ j0.tok = k0
    <2>1. PICK phase \in {[ph |-> "running", res |-> "-"],
                          [ph |-> "reporting", res |-> "err"]} :
              tasks' = tasks \cup {[node |-> n0, tok |-> k0,
                                    ph |-> phase.ph, res |-> phase.res]}
      BY DEF LaunchSpawns
    <2> DEFINE j == [node |-> n0, tok |-> k0, ph |-> phase.ph, res |-> phase.res]
    <2>2. j.node = n0 /\ j.tok = k0
      OBVIOUS
    <2> QED
      BY <2>1, <2>2
  <1>1. Leaves(t)
    BY Sections
  <1>2. /\ \A u \in Threads \ {t} : stack'[u] = stack[u]
        /\ \A n, k : ~Holds(t, n, k)' /\ ~Revokes(t, n, k)'
    BY <1>1, LeaverHoldsNothing
  <1> HIDE DEF n0, k0
  <1>3. \A n, k : /\ Holds(t, n, k) <=> (n = n0 /\ k = k0)
                  /\ ~Revokes(t, n, k)
    BY <1>0 DEF Holds, Revokes, At, n0, k0
  <1>4. \A u \in Threads \ {t} : \A n, k :
           /\ Holds(u, n, k)' <=> Holds(u, n, k)
           /\ Revokes(u, n, k)' <=> Revokes(u, n, k)
           /\ At(u, "launch")' <=> At(u, "launch")
    BY <1>2, OthersStay
  <1>5. \A j, n, k : Runs(j, n, k)' <=> (Runs(j, n, k) \/ (j = j0 /\ n = n0 /\ k = k0))
    BY <1>00 DEF Runs
  <1>50. /\ j0 \in tasks'
         /\ \A j, n, k : Runs(j, n, k)' => j \in tasks'
         /\ \A j, n, k : Runs(j, n, k) => j \in tasks
    BY <1>00 DEF Runs
  <1>6. ASSUME NEW n, NEW k
        PROVE  /\ Carried(n, k)' <=> Carried(n, k)
               /\ Dead(n, k)' <=> Dead(n, k)
               /\ Live(n, k)' => Live(n, k)
    <2>1. Dead(n, k)' <=> Dead(n, k)
      BY <1>0, <1>2, <1>3, <1>4 DEF Dead
    <2>2. CASE n = n0 /\ k = k0
      <3>1. Carried(n, k) /\ Live(n, k)
        BY <1>0, <1>3, <2>2 DEF Carried, Live
      <3>2. Carried(n, k)'
        BY <1>5, <1>50, <2>2 DEF Carried
      <3> QED
        BY <2>1, <3>1, <3>2
    <2>3. CASE ~(n = n0 /\ k = k0)
      <3>1. /\ \A u \in Threads : Holds(u, n, k)' <=> Holds(u, n, k)
            /\ \A u \in Threads : (At(u, "launch") /\ Holds(u, n, k))'
                                   => At(u, "launch") /\ Holds(u, n, k)
            /\ \A j : Runs(j, n, k)' <=> Runs(j, n, k)
        BY <1>2, <1>3, <1>4, <1>5, <2>3
      <3>2. Carried(n, k)' <=> Carried(n, k)
        BY <1>50, <3>1 DEF Carried
      <3>3. Live(n, k)' => Live(n, k)
        <4>1. \A j : (Runs(j, n, k) /\ j.ph = "running")'
                      => Runs(j, n, k) /\ j.ph = "running"
          BY <3>1
        <4> QED
          BY <1>50, <3>1, <4>1 DEF Live
      <3> QED
        BY <2>1, <3>2, <3>3
    <2> QED
      BY <2>2, <2>3
  <1>7. CarriedOnce'
    <2> SUFFICES ASSUME NEW n \in Nodes, NEW k \in Nat
                 PROVE  /\ \A u, v \in Threads : (Holds(u, n, k) /\ Holds(v, n, k))' => u = v
                        /\ \A i, j : (Runs(i, n, k) /\ Runs(j, n, k))' => i = j
                        /\ \A u \in Threads : \A j : ~(Holds(u, n, k) /\ Runs(j, n, k))'
      BY DEF CarriedOnce
    <2>1. /\ \A u, v \in Threads : Holds(u, n, k) /\ Holds(v, n, k) => u = v
          /\ \A i, j : Runs(i, n, k) /\ Runs(j, n, k) => i = j
          /\ \A u \in Threads : \A j : ~(Holds(u, n, k) /\ Runs(j, n, k))
      BY DEF CarriedOnce, Launches, Runs
    <2>2. CASE n = n0 /\ k = k0
      <3>1. Holds(t, n, k)
        BY <1>3, <2>2
      <3>2. \A u \in Threads : ~Holds(u, n, k)'
        BY <1>2, <1>4, <2>1, <3>1
      <3>3. \A j : Runs(j, n, k)' => j = j0
        BY <1>5, <2>1, <3>1
      <3> QED
        BY <3>2, <3>3
    <2>3. CASE ~(n = n0 /\ k = k0)
      BY <1>2, <1>4, <1>5, <2>1, <2>3
    <2> QED
      BY <2>2, <2>3
  <1> QED
    BY <1>0, <1>6, <1>7, LaunchesPass

\* A task that ends because its token is cancelled, or has its result.
LEMMA TaskEndsPasses ==
  ASSUME TypeOK, TopsOnTop, Launches, NEW j0 \in tasks, TaskEnds(j0), Steady
  PROVE  TopsOnTop' /\ Launches'
  <1>0. UNCHANGED <<jobs, gen, cancelled, stack>>
    BY DEF TaskEnds, TaskAborted, TaskFinished
  <1>1. TopsOnTop'
    BY <1>0 DEF TopsOnTop
  <1>2. \A t, n, k : /\ Holds(t, n, k)' <=> Holds(t, n, k)
                     /\ Revokes(t, n, k)' <=> Revokes(t, n, k)
                     /\ At(t, "launch")' <=> At(t, "launch")
    BY <1>0 DEF Holds, Revokes, At, Top
  <1>3. \A n, k : Dead(n, k)' <=> Dead(n, k)
    BY <1>0, <1>2 DEF Dead
  <1>4. /\ \A j, n, k : Runs(j, n, k)' => j \in tasks'
        /\ \A j, n, k : Runs(j, n, k) => j \in tasks
    BY DEF Runs
  <1>5. CASE TaskAborted(j0)
    <2>1. tasks' = tasks \ {j0} /\ <<j0.node, j0.tok>> \in cancelled
      BY <1>5 DEF TaskAborted
    <2>2. \A j, n, k : Runs(j, n, k)' <=> (Runs(j, n, k) /\ j # j0)
      BY <2>1 DEF Runs
    <2>3. \A n, k : /\ Carried(n, k)' => Carried(n, k)
                    /\ Live(n, k)' => Live(n, k)
      BY <1>2, <1>4, <2>2 DEF Carried, Live
    <2>4. ASSUME NEW n \in Nodes, jobs[n] # 0, Carried(n, jobs[n])
          PROVE  Carried(n, jobs[n])'
      <3>1. ~Dead(n, jobs[n])
        BY <2>4 DEF Launches, RegisteredIsLive
      <3>2. ~Runs(j0, n, jobs[n])
        BY <2>1, <3>1 DEF Dead, Runs
      <3>3. \A k : Carried(n, k) /\ ~Runs(j0, n, k) => Carried(n, k)'
        BY <1>2, <1>4, <2>2 DEF Carried
      <3> QED
        BY <1>0, <2>4, <3>2, <3>3
    <2>5. CarriedOnce'
      BY <1>2, <1>4, <2>2 DEF Launches, CarriedOnce
    <2> QED
      BY <1>0, <1>1, <1>3, <2>3, <2>4, <2>5, LaunchesPass
  <1>6. CASE \E res \in {"ok", "err"} : TaskFinished(j0, res)
    <2>1. PICK res \in {"ok", "err"} : TaskFinished(j0, res)
      BY <1>6
    <2> DEFINE j1 == [j0 EXCEPT !.ph = "reporting", !.res = res]
    <2>2. tasks' = (tasks \ {j0}) \cup {j1}
      BY <2>1 DEF TaskFinished
    <2>3. j0 \in Tasks
      BY DEF TypeOK
    <2>4. j1.node = j0.node /\ j1.tok = j0.tok /\ j1.ph = "reporting"
      BY <2>3 DEF Tasks
    <2> HIDE DEF j1
    <2>5. \A j, n, k : Runs(j, n, k)' <=>
                         \/ Runs(j, n, k) /\ j # j0
                         \/ j = j1 /\ Runs(j0, n, k)
      BY <2>2, <2>4 DEF Runs
    <2>6. \A n, k : Carried(n, k)' <=> Carried(n, k)
      <3> SUFFICES ASSUME NEW n, NEW k PROVE Carried(n, k)' <=> Carried(n, k)
        OBVIOUS
      <3>1. (\E j : Runs(j, n, k)') <=> (\E j : Runs(j, n, k))
        BY <2>5
      <3> QED
        BY <1>2, <1>4, <3>1 DEF Carried
    <2>7. \A n, k : Live(n, k)' => Live(n, k)
      <3> SUFFICES ASSUME NEW n, NEW k, Live(n, k)' PROVE Live(n, k)
        OBVIOUS
      <3>1. \A j : (Runs(j, n, k) /\ j.ph = "running")' => Runs(j, n, k)
        BY <2>4, <2>5
      <3> QED
        BY <1>2, <1>4, <3>1 DEF Live
    <2>8. CarriedOnce'
      <3> SUFFICES ASSUME NEW n \in Nodes, NEW k \in Nat
                   PROVE  /\ \A t, u \in Threads : (Holds(t, n, k) /\ Holds(u, n, k))' => t = u
                          /\ \A i, j : (Runs(i, n, k) /\ Runs(j, n, k))' => i = j
                          /\ \A t \in Threads : \A j : ~(Holds(t, n, k) /\ Runs(j, n, k))'
        BY DEF CarriedOnce
      <3>1. /\ \A t, u \in Threads : Holds(t, n, k) /\ Holds(u, n, k) => t = u
            /\ \A i, j : Runs(i, n, k) /\ Runs(j, n, k) => i = j
            /\ \A t \in Threads : \A j : ~(Holds(t, n, k) /\ Runs(j, n, k))
        BY <1>4 DEF CarriedOnce, Launches
      <3>2. \A i, j : (Runs(i, n, k) /\ Runs(j, n, k))' => i = j
        BY <2>5, <3>1
      <3>3. \A t \in Threads : \A j : ~(Holds(t, n, k) /\ Runs(j, n, k))'
        BY <1>2, <2>5, <3>1
      <3> QED
        BY <1>2, <3>1, <3>2, <3>3
    <2> QED
      BY <1>0, <1>1, <1>3, <2>6, <2>7, <2>8, LaunchesPass
  <1> QED
    BY <1>5, <1>6 DEF TaskEnds

\* A task that reports: the thread carries the launch.
LEMMA TaskReportsPasses ==
  ASSUME TypeOK, TopsOnTop, Launches, NEW j0 \in tasks, NEW t \in Threads,
         TaskReports(j0, t), Steady
  PROVE  Launches'
  <1>0. /\ UNCHANGED <<jobs, gen, cancelled>> /\ Idle(t)
        /\ tasks' = tasks \ {j0}
    BY DEF TaskReports, Call
  <1> DEFINE n0 == j0.node  k0 == j0.tok
  <1>1. /\ \A u \in Threads \ {t} : stack'[u] = stack[u]
        /\ stack'[t] # <<>> /\ Top(t)' = DoReport(n0, k0, j0.res)
    BY SpecialSections
  <1>2. At(t, "completed")' /\ Top(t)'.node = n0 /\ Top(t)'.tok = k0
    BY <1>1 DEF At, Top, DoReport, Frame
  <1>20. Runs(j0, n0, k0) /\ \A n, k : Runs(j0, n, k) => n = n0 /\ k = k0
    BY DEF Runs
  <1> HIDE DEF n0, k0
  <1>3. \A n, k : /\ Holds(t, n, k)' <=> (n = n0 /\ k = k0)
                  /\ ~Holds(t, n, k)
                  /\ ~Revokes(t, n, k)
                  /\ ~Revokes(t, n, k)'
                  /\ ~At(t, "launch")'
    BY <1>0, <1>2 DEF Holds, Revokes, At, Top, Idle
  <1>4. \A u \in Threads \ {t} : \A n, k :
           /\ Holds(u, n, k)' <=> Holds(u, n, k)
           /\ Revokes(u, n, k)' <=> Revokes(u, n, k)
           /\ At(u, "launch")' <=> At(u, "launch")
    BY <1>1, OthersStay
  <1>5. \A j, n, k : Runs(j, n, k)' <=> (Runs(j, n, k) /\ j # j0)
    BY <1>0 DEF Runs
  <1>50. /\ \A j, n, k : Runs(j, n, k)' => j \in tasks'
         /\ \A j, n, k : Runs(j, n, k) => j \in tasks
    BY DEF Runs
  <1>6. ASSUME NEW n, NEW k
        PROVE  /\ Carried(n, k)' <=> Carried(n, k)
               /\ Dead(n, k)' <=> Dead(n, k)
               /\ Live(n, k)' => Live(n, k)
    <2>1. Dead(n, k)' <=> Dead(n, k)
      BY <1>0, <1>3, <1>4 DEF Dead
    <2>2. CASE n = n0 /\ k = k0
      <3>1. Carried(n, k) /\ Carried(n, k)'
        BY <1>20, <1>3, <2>2, <1>50 DEF Carried
      <3>2. Live(n, k)' => Live(n, k)
        BY <1>3, <1>4, <1>5, <1>50 DEF Live
      <3> QED
        BY <2>1, <3>1, <3>2
    <2>3. CASE ~(n = n0 /\ k = k0)
      <3>1. /\ \A u \in Threads : Holds(u, n, k)' <=> Holds(u, n, k)
            /\ \A u \in Threads : (At(u, "launch") /\ Holds(u, n, k))'
                                   => At(u, "launch") /\ Holds(u, n, k)
            /\ \A j : Runs(j, n, k)' <=> Runs(j, n, k)
        BY <1>20, <1>3, <1>4, <1>5, <2>3
      <3>2. Carried(n, k)' <=> Carried(n, k)
        BY <1>50, <3>1 DEF Carried
      <3>3. Live(n, k)' => Live(n, k)
        BY <1>50, <3>1 DEF Live
      <3> QED
        BY <2>1, <3>2, <3>3
    <2> QED
      BY <2>2, <2>3
  <1>7. CarriedOnce'
    <2> SUFFICES ASSUME NEW n \in Nodes, NEW k \in Nat
                 PROVE  /\ \A u, v \in Threads : (Holds(u, n, k) /\ Holds(v, n, k))' => u = v
                        /\ \A i, j : (Runs(i, n, k) /\ Runs(j, n, k))' => i = j
                        /\ \A u \in Threads : \A j : ~(Holds(u, n, k) /\ Runs(j, n, k))'
      BY DEF CarriedOnce
    <2>1. /\ \A u, v \in Threads : Holds(u, n, k) /\ Holds(v, n, k) => u = v
          /\ \A i, j : Runs(i, n, k) /\ Runs(j, n, k) => i = j
          /\ \A u \in Threads : \A j : ~(Holds(u, n, k) /\ Runs(j, n, k))
      BY <1>50 DEF CarriedOnce, Launches
    <2>2. CASE n = n0 /\ k = k0
      <3>1. \A u \in Threads \ {t} : ~Holds(u, n, k)'
        BY <1>20, <1>4, <2>1, <2>2
      <3>2. \A j : ~Runs(j, n, k)'
        BY <1>20, <1>5, <2>1, <2>2
      <3> QED
        BY <3>1, <3>2
    <2>3. CASE ~(n = n0 /\ k = k0)
      BY <1>3, <1>4, <1>5, <2>1, <2>3
    <2> QED
      BY <2>2, <2>3
  <1> QED
    BY <1>0, <1>6, <1>7, LaunchesPass

\* A token that is cancelled after the lock was dropped.
LEMMA TokenStepPasses ==
  ASSUME TypeOK, TopsOnTop, Launches, NEW t \in Threads, TokenStep(t), Steady
  PROVE  Launches'
  <1> DEFINE n0 == Top(t).node  k0 == Top(t).tok
  <1>0. /\ At(t, "token") /\ UNCHANGED <<jobs, gen, tasks>>
        /\ cancelled' = cancelled \cup {<<n0, k0>>}
    BY DEF TokenStep
  <1>1. Leaves(t)
    BY Sections
  <1>2. /\ \A u \in Threads \ {t} : stack'[u] = stack[u]
        /\ \A n, k : ~Holds(t, n, k)' /\ ~Revokes(t, n, k)'
    BY <1>1, LeaverHoldsNothing
  <1>3. \A n, k : /\ Revokes(t, n, k) <=> (n = n0 /\ k = k0)
                  /\ ~Holds(t, n, k)
    BY <1>0 DEF Holds, Revokes, At
  <1> HIDE DEF n0, k0
  <1>4. \A u \in Threads \ {t} : \A n, k :
           /\ Holds(u, n, k)' <=> Holds(u, n, k)
           /\ Revokes(u, n, k)' <=> Revokes(u, n, k)
           /\ At(u, "launch")' <=> At(u, "launch")
    BY <1>2, OthersStay
  <1>5. \A j, n, k : Runs(j, n, k)' <=> Runs(j, n, k)
    BY <1>0 DEF Runs
  <1>6. \A n, k : /\ Carried(n, k)' <=> Carried(n, k)
                  /\ Live(n, k)' => Live(n, k)
    BY <1>0, <1>2, <1>3, <1>4, <1>5 DEF Carried, Live
  <1>60. ASSUME NEW n, NEW k PROVE Dead(n, k)' <=> Dead(n, k)
    <2>1. <<n, k>> \in cancelled' <=> (<<n, k>> \in cancelled \/ (n = n0 /\ k = k0))
      BY <1>0
    <2>2. (\E u \in Threads : Revokes(u, n, k)') \/ (n = n0 /\ k = k0) <=>
            ((\E u \in Threads : Revokes(u, n, k)) \/ (n = n0 /\ k = k0))
      BY <1>2, <1>3, <1>4
    <2>3. n = n0 /\ k = k0 => Revokes(t, n, k)
      BY <1>3
    <2> QED
      BY <2>1, <2>2, <2>3 DEF Dead
  <1>7. CarriedOnce'
    BY <1>0, <1>2, <1>3, <1>4, <1>5 DEF CarriedOnce, Launches
  <1> QED
    BY <1>0, <1>6, <1>60, <1>7, LaunchesPass

\* start_node registers a launch nobody has heard of.
LEMMA StartRegisters ==
  ASSUME TypeOK, TopsOnTop, Launches, NEW t \in Threads, StartStep(t),
         NEW n0 \in Nodes, Starts(n0), Top(t).node = n0
  PROVE  Launches'
  <1> DEFINE k0 == gen[n0] + 1
  <1>0. /\ At(t, "start") /\ UNCHANGED <<tasks, cancelled, runStatus>>
        /\ status[n0] = "Ready" /\ runStatus \in Registered
        /\ status' = [status EXCEPT ![n0] = "Running"]
        /\ gen' = [gen EXCEPT ![n0] = k0] /\ jobs' = [jobs EXCEPT ![n0] = k0]
    BY DEF StartStep, Starts
  <1>00. /\ gen[n0] \in Nat /\ k0 \in Nat /\ k0 # 0 /\ k0 > gen[n0]
         /\ gen'[n0] = k0 /\ jobs'[n0] = k0 /\ status'[n0] = "Running"
         /\ \A m \in Nodes \ {n0} : /\ gen'[m] = gen[m] /\ jobs'[m] = jobs[m]
                                    /\ status'[m] = status[m]
    BY <1>0 DEF TypeOK
  <1>1. /\ \A u \in Threads \ {t} : stack'[u] = stack[u]
        /\ stack'[t] # <<>> /\ Top(t)' = DoToken("launch", n0, k0)
    BY SpecialSections
  <1>2. At(t, "launch")' /\ Top(t)'.node = n0 /\ Top(t)'.tok = k0
    BY <1>1 DEF At, Top, DoToken, Frame
  <1> HIDE DEF k0
  <1>3. \A n, k : /\ Holds(t, n, k)' <=> (n = n0 /\ k = k0)
                  /\ ~Holds(t, n, k)
                  /\ ~Revokes(t, n, k)
                  /\ ~Revokes(t, n, k)'
    BY <1>0, <1>2 DEF Holds, Revokes, At, Top
  <1>4. \A u \in Threads \ {t} : \A n, k :
           /\ Holds(u, n, k)' <=> Holds(u, n, k)
           /\ Revokes(u, n, k)' <=> Revokes(u, n, k)
           /\ At(u, "launch")' <=> At(u, "launch")
    BY <1>1, OthersStay
  <1>5. \A j, n, k : Runs(j, n, k)' <=> Runs(j, n, k)
    BY <1>0 DEF Runs
  <1>6. \A n, k : /\ Dead(n, k)' <=> Dead(n, k)
                  /\ Carried(n, k)' <=> (Carried(n, k) \/ (n = n0 /\ k = k0))
                  /\ Live(n, k)' => Live(n, k) \/ (n = n0 /\ k = k0)
    BY <1>0, <1>3, <1>4, <1>5 DEF Dead, Carried, Live
  <1>7. ~Carried(n0, k0) /\ ~Dead(n0, k0)
    BY <1>00 DEF Launches, CarriedIsCurrent, DeadAreOld
  <1>8. jobs[n0] = 0
    BY <1>0 DEF Launches, Registers
  <1>9. \A k \in Nat : ~Carried(n0, k)
    BY <1>0, <1>8 DEF Launches, CarriedIsCurrent, Done
  <1>10. Registers'
    BY <1>0, <1>00 DEF Launches, Registers
  <1>11. CarriedIsCurrent'
    <2> SUFFICES ASSUME NEW n \in Nodes, NEW k \in Nat, Carried(n, k)'
                 PROVE  k \in 1..gen'[n] /\ (jobs'[n] = k \/ status'[n] \in Done)
      BY DEF CarriedIsCurrent
    <2>1. CASE n = n0 /\ k = k0
      BY <1>00, <2>1
    <2>2. CASE n = n0 /\ k # k0
      BY <1>6, <1>9, <2>2
    <2>3. CASE n # n0
      BY <1>00, <1>6, <2>3 DEF Launches, CarriedIsCurrent
    <2> QED
      BY <2>1, <2>2, <2>3
  <1>12. CarriedOnce'
    <2>1. \A u \in Threads : ~Holds(u, n0, k0)
      BY <1>7 DEF Carried
    <2>2. \A j \in tasks : ~Runs(j, n0, k0)
      BY <1>7 DEF Carried
    <2> QED
      BY <1>0, <1>3, <1>4, <1>5, <2>1, <2>2 DEF Launches, CarriedOnce
  <1>13. RegisteredIsLive'
    <2> SUFFICES ASSUME NEW n \in Nodes, jobs'[n] # 0
                 PROVE  Carried(n, jobs[n])' /\ ~Dead(n, jobs[n])'
      BY DEF RegisteredIsLive
    <2>1. CASE n = n0
      BY <1>00, <1>6, <1>7, <2>1
    <2>2. CASE n # n0
      BY <1>00, <1>6, <2>2 DEF Launches, RegisteredIsLive
    <2> QED
      BY <2>1, <2>2
  <1>14. DeadAreOld'
    <2> SUFFICES ASSUME NEW n \in Nodes, NEW k \in Nat, Dead(n, k)
                 PROVE  k <= gen'[n]
      BY <1>6 DEF DeadAreOld
    <2>1. k <= gen[n]
      BY DEF Launches, DeadAreOld
    <2> QED
      BY <1>00, <2>1
  <1>15. LiveIsRegistered'
    <2> SUFFICES ASSUME NEW n \in Nodes, NEW k \in Nat, Live(n, k)'
                 PROVE  Dead(n, k)' \/ jobs'[n] = k
      BY DEF LiveIsRegistered
    <2>1. CASE n = n0 /\ k = k0
      BY <1>00, <2>1
    <2>2. CASE Live(n, k)
      <3>1. Dead(n, k) \/ jobs[n] = k
        BY <2>2 DEF Launches, LiveIsRegistered
      <3>2. n # n0
        BY <1>9, <2>2 DEF Live, Carried
      <3> QED
        BY <1>00, <1>6, <3>1, <3>2
    <2> QED
      BY <1>6, <2>1, <2>2
  <1> QED
    BY <1>10, <1>11, <1>12, <1>13, <1>14, <1>15 DEF Launches

\* A report that is applied ends the one launch the node has.
LEMMA CompletedUnregisters ==
  ASSUME TypeOK, TopsOnTop, Launches, NEW t \in Threads, CompletedStep(t),
         runStatus \in Registered, status[Top(t).node] = "Running"
  PROVE  Launches' /\ Top(t).tok = jobs[Top(t).node]
  <1>a. PICK n0 \in Nodes, k0 \in Nat : n0 = Top(t).node /\ k0 = Top(t).tok
    BY TopNode DEF CompletedStep
  <1>0. /\ At(t, "completed") /\ UNCHANGED <<gen, tasks, cancelled, runStatus>>
        /\ \E s \in {"Succeeded", "Failed"} : status' = [status EXCEPT ![n0] = s]
        /\ jobs' = [jobs EXCEPT ![n0] = 0]
    BY <1>a DEF CompletedStep
  <1>00. /\ jobs'[n0] = 0 /\ status'[n0] # "Running" /\ status[n0] = "Running"
         /\ \A m \in Nodes \ {n0} : jobs'[m] = jobs[m] /\ status'[m] = status[m]
    BY <1>0, <1>a DEF TypeOK
  <1>1. Leaves(t)
    BY Sections
  <1>2. /\ \A u \in Threads \ {t} : stack'[u] = stack[u]
        /\ \A n, k : ~Holds(t, n, k)' /\ ~Revokes(t, n, k)'
    BY <1>1, LeaverHoldsNothing
  <1>3. \A n, k : /\ Holds(t, n, k) <=> (n = n0 /\ k = k0)
                  /\ ~Revokes(t, n, k)
    BY <1>0, <1>a DEF Holds, Revokes, At
  <1>4. \A u \in Threads \ {t} : \A n, k :
           /\ Holds(u, n, k)' <=> Holds(u, n, k)
           /\ Revokes(u, n, k)' <=> Revokes(u, n, k)
           /\ At(u, "launch")' <=> At(u, "launch")
    BY <1>2, OthersStay
  <1>5. \A j, n, k : Runs(j, n, k)' <=> Runs(j, n, k)
    BY <1>0 DEF Runs
  <1>6. \A n, k : /\ Carried(n, k)' => Carried(n, k)
                  /\ n # n0 => (Carried(n, k)' <=> Carried(n, k))
                  /\ Dead(n, k)' <=> Dead(n, k)
                  /\ Live(n, k)' => Live(n, k)
    BY <1>0, <1>2, <1>3, <1>4, <1>5 DEF Dead, Carried, Live
  <1>7. \A k \in Nat : Carried(n0, k) => jobs[n0] = k
    BY <1>0, <1>00 DEF Launches, CarriedIsCurrent, Done
  <1>8. Holds(t, n0, k0) /\ Carried(n0, k0) /\ jobs[n0] = k0
    BY <1>0, <1>3, <1>7 DEF Carried
  <1>9. ASSUME NEW k \in Nat PROVE ~Carried(n0, k)'
    <2>1. CASE k = k0
      <3>1. /\ \A u \in Threads \ {t} : ~Holds(u, n0, k0)
            /\ \A j \in tasks : ~Runs(j, n0, k0)
        BY <1>0, <1>8 DEF Launches, CarriedOnce
      <3> QED
        BY <1>0, <1>2, <1>4, <1>5, <2>1, <3>1 DEF Carried
    <2>2. CASE k # k0
      BY <1>6, <1>7, <1>8, <2>2
    <2> QED
      BY <2>1, <2>2
  <1>10. Registers'
    BY <1>0, <1>00 DEF Launches, Registers
  <1>11. CarriedIsCurrent'
    <2> SUFFICES ASSUME NEW n \in Nodes, NEW k \in Nat, Carried(n, k)'
                 PROVE  k \in 1..gen[n] /\ (jobs'[n] = k \/ status'[n] \in Done)
      BY <1>0 DEF CarriedIsCurrent
    <2>1. n # n0
      BY <1>9
    <2> QED
      BY <1>00, <1>6, <2>1 DEF Launches, CarriedIsCurrent
  <1>12. CarriedOnce'
    BY <1>0, <1>2, <1>4, <1>5 DEF Launches, CarriedOnce
  <1>13. RegisteredIsLive'
    <2> SUFFICES ASSUME NEW n \in Nodes, jobs'[n] # 0
                 PROVE  Carried(n, jobs[n])' /\ ~Dead(n, jobs[n])'
      BY DEF RegisteredIsLive
    <2>1. n # n0 /\ jobs'[n] = jobs[n]
      BY <1>00
    <2> QED
      BY <1>6, <2>1 DEF Launches, RegisteredIsLive
  <1>14. DeadAreOld'
    BY <1>0, <1>6 DEF Launches, DeadAreOld
  <1>15. LiveIsRegistered'
    <2> SUFFICES ASSUME NEW n \in Nodes, NEW k \in Nat, Live(n, k)'
                 PROVE  Dead(n, k)' \/ jobs'[n] = k
      BY DEF LiveIsRegistered
    <2>1. n # n0
      BY <1>9 DEF Live, Carried
    <2> QED
      BY <1>00, <1>6, <2>1 DEF Launches, LiveIsRegistered
  <1> QED
    BY <1>8, <1>10, <1>11, <1>12, <1>13, <1>14, <1>15, <1>a DEF Launches

\* skip of a running node takes its launch out of the table and will cancel it.
LEMMA SkipRevokes ==
  ASSUME TypeOK, TopsOnTop, Launches, NEW t \in Threads, NEW n0 \in Nodes,
         Skip(t, n0), status[n0] = "Running"
  PROVE  TopsOnTop' /\ Launches'
  <1> DEFINE k0 == jobs[n0]
  <1>0. /\ Idle(t) /\ UNCHANGED <<gen, tasks, cancelled>>
        /\ runStatus' = "Running"
        /\ status' = [m \in Nodes |-> IF m = n0 THEN "Skipped"
                                      ELSE IF m \in Released(n0) THEN "Pending"
                                      ELSE status[m]]
        /\ jobs' = [jobs EXCEPT ![n0] = 0]
    BY DEF Skip, Call
  <1>01. Released(n0) = {}
    BY DEF Released
  <1>00. /\ jobs'[n0] = 0 /\ status'[n0] = "Skipped" /\ k0 \in Nat
         /\ \A m \in Nodes \ {n0} : jobs'[m] = jobs[m] /\ status'[m] = status[m]
    BY <1>0, <1>01 DEF TypeOK
  <1>02. k0 # 0 /\ k0 = gen[n0]
    BY DEF Launches, Registers
  <1>1. /\ TopsOnTop'
        /\ \A u \in Threads \ {t} : stack'[u] = stack[u]
        /\ stack'[t] # <<>> /\ Top(t)' = DoToken("token", n0, k0)
    BY <1>02, SpecialSections
  <1>2. At(t, "token")' /\ Top(t)'.node = n0 /\ Top(t)'.tok = k0
    BY <1>1 DEF At, Top, DoToken, Frame
  <1> HIDE DEF k0
  <1>3. \A n, k : /\ Revokes(t, n, k)' <=> (n = n0 /\ k = k0)
                  /\ ~Revokes(t, n, k)
                  /\ ~Holds(t, n, k)
                  /\ ~Holds(t, n, k)'
    BY <1>0, <1>2 DEF Holds, Revokes, At, Top, Idle
  <1>4. \A u \in Threads \ {t} : \A n, k :
           /\ Holds(u, n, k)' <=> Holds(u, n, k)
           /\ Revokes(u, n, k)' <=> Revokes(u, n, k)
           /\ At(u, "launch")' <=> At(u, "launch")
    BY <1>1, OthersStay
  <1>5. \A j, n, k : Runs(j, n, k)' <=> Runs(j, n, k)
    BY <1>0 DEF Runs
  <1>6. \A n, k : /\ Carried(n, k)' <=> Carried(n, k)
                  /\ Live(n, k)' <=> Live(n, k)
                  /\ Dead(n, k)' <=> (Dead(n, k) \/ (n = n0 /\ k = k0))
    BY <1>0, <1>3, <1>4, <1>5 DEF Dead, Carried, Live
  <1>10. Registers'
    BY <1>0, <1>00 DEF Launches, Registers, Registered
  <1>11. CarriedIsCurrent'
    BY <1>0, <1>00, <1>6 DEF Launches, CarriedIsCurrent, Done
  <1>12. CarriedOnce'
    BY <1>0, <1>3, <1>4, <1>5 DEF Launches, CarriedOnce
  <1>13. RegisteredIsLive'
    <2> SUFFICES ASSUME NEW n \in Nodes, jobs'[n] # 0
                 PROVE  Carried(n, jobs[n])' /\ ~Dead(n, jobs[n])'
      BY DEF RegisteredIsLive
    <2>1. n # n0 /\ jobs'[n] = jobs[n]
      BY <1>00
    <2> QED
      BY <1>6, <2>1 DEF Launches, RegisteredIsLive
  <1>14. DeadAreOld'
    BY <1>0, <1>00, <1>02, <1>6 DEF Launches, DeadAreOld, TypeOK
  <1>15. LiveIsRegistered'
    <2> SUFFICES ASSUME NEW n \in Nodes, NEW k \in Nat, Live(n, k)'
                 PROVE  Dead(n, k)' \/ jobs'[n] = k
      BY DEF LiveIsRegistered
    <2>1. Dead(n, k) \/ jobs[n] = k
      BY <1>6 DEF Launches, LiveIsRegistered
    <2>2. CASE n = n0
      BY <1>6, <2>1, <2>2 DEF k0
    <2>3. CASE n # n0
      BY <1>00, <1>6, <2>1, <2>3
    <2> QED
      BY <2>2, <2>3
  <1> QED
    BY <1>1, <1>10, <1>11, <1>12, <1>13, <1>14, <1>15 DEF Launches

\* A process that has just started has no launches.
Fresh == /\ jobs = [n \in Nodes |-> 0] /\ tasks = {} /\ cancelled = {}
         /\ stack = [t \in Threads |-> <<>>]
         /\ \A n \in Nodes : status[n] # "Running"

\* So what is said of launches holds of nothing.
LEMMA NoLaunches == Fresh => TopsOnTop /\ Launches
  <1> SUFFICES ASSUME Fresh PROVE TopsOnTop /\ Launches
    OBVIOUS
  <1> USE DEF Fresh
  <1>1. \A t \in Threads : \A n, k : ~Holds(t, n, k) /\ ~Revokes(t, n, k)
    BY DEF Holds, Revokes, At
  <1>2. \A n, k : ~Carried(n, k) /\ ~Live(n, k) /\ ~Dead(n, k)
    BY <1>1 DEF Carried, Live, Dead
  <1>3. TopsOnTop /\ Registers /\ CarriedOnce
    BY <1>1 DEF TopsOnTop, Registers, CarriedOnce
  <1> QED
    BY <1>2, <1>3 DEF Launches, CarriedIsCurrent, RegisteredIsLive, DeadAreOld,
                      LiveIsRegistered

\* A report that comes too late: its launch is not the registered one.
LEMMA StaleReportPasses ==
  ASSUME TypeOK, TopsOnTop, Launches, NEW t \in Threads, At(t, "completed"),
         ~(runStatus \in Registered /\ status[Top(t).node] = "Running"),
         Leaves(t), UNCHANGED <<jobs, gen, tasks, cancelled>>, Steady
  PROVE  Launches'
  <1>a. PICK n0 \in Nodes, k0 \in Nat : n0 = Top(t).node /\ k0 = Top(t).tok
    BY TopNode
  <1>2. /\ \A u \in Threads \ {t} : stack'[u] = stack[u]
        /\ \A n, k : ~Holds(t, n, k)' /\ ~Revokes(t, n, k)'
    BY LeaverHoldsNothing
  <1>3. \A n, k : /\ Holds(t, n, k) => n = n0
                  /\ ~Revokes(t, n, k)
    BY <1>a DEF Holds, Revokes, At
  <1>4. \A u \in Threads \ {t} : \A n, k :
           /\ Holds(u, n, k)' <=> Holds(u, n, k)
           /\ Revokes(u, n, k)' <=> Revokes(u, n, k)
           /\ At(u, "launch")' <=> At(u, "launch")
    BY <1>2, OthersStay
  <1>5. \A j, n, k : Runs(j, n, k)' <=> Runs(j, n, k)
    BY DEF Runs
  <1>6. \A n, k : /\ Carried(n, k)' => Carried(n, k)
                  /\ n # n0 => (Carried(n, k)' <=> Carried(n, k))
                  /\ Live(n, k)' => Live(n, k)
                  /\ Dead(n, k)' <=> Dead(n, k)
    BY <1>2, <1>3, <1>4, <1>5 DEF Carried, Live, Dead
  <1>7. CarriedOnce'
    BY <1>2, <1>4, <1>5 DEF CarriedOnce, Launches
  <1>8. jobs[n0] = 0
    BY <1>a DEF Launches, Registers
  <1>9. \A n \in Nodes : jobs[n] # 0 /\ Carried(n, jobs[n]) => Carried(n, jobs[n])'
    BY <1>6, <1>8
  <1> QED
    BY <1>6, <1>7, <1>9, LaunchesPass

\* A step that leaves the statuses and the run's own status alone is steady.
LEMMA SteadyIfQuiet ==
  ASSUME Launches, UNCHANGED <<status, runStatus>>
  PROVE  Steady
  BY DEF Launches, Registers, Steady

\* Every section of a call keeps the launches, without a cancellation.
LEMMA LaunchesThreadStep ==
  ASSUME SafetyInv, JobInv, NEW t \in Threads, ThreadStep(t)
  PROVE  Launches'
  <1>0. TypeOK /\ TopsOnTop /\ Launches
    BY DEF SafetyInv, JobInv
  <1>1. ASSUME NEW op, At(t, op), op \notin {"launch", "completed", "token"}
        PROVE  \A n, k : ~Holds(t, n, k) /\ ~Revokes(t, n, k)
    BY <1>1 DEF Holds, Revokes, At
  <1>2. CASE ReconcileStep(t)
    <2>1. Steady
      BY <1>0, <1>2 DEF ReconcileStep, Steady, Reconcile, Waiting, Done, Launches,
                        Registers
    <2>2. Leaves(t)
      BY <1>0, <1>2, Sections
    <2> QED
      BY <1>0, <1>1, <1>2, <2>1, <2>2, LaunchesUndisturbed DEF ReconcileStep
  <1>3. CASE TickStep(t)
    <2>1. Steady
      BY <1>0, <1>3, SteadyIfQuiet DEF TickStep
    <2>2. CASE Leaves(t)
      BY <1>0, <1>1, <1>3, <2>1, <2>2, LaunchesUndisturbed DEF TickStep
    <2>3. ASSUME NEW n \in Nodes, Onto(t, <<DoNode("start", n), Top(t)>>)
          PROVE  Launches'
      <3> DEFINE fs == <<DoNode("start", n), Top(t)>>
      <3>1. Top(t) \in Frames /\ Top(t).op = "tick"
        BY <1>0, <1>3, TopFrame DEF TickStep
      <3>2. /\ fs \in Seq(Frames) /\ fs # <<>> /\ fs[1] = DoNode("start", n)
            /\ \A i \in 2..Len(fs) : fs[i].op \notin TopOnly
        BY <3>1, FrameTypes, ShortStacks DEF TopOnly
      <3>3. Onto(t, fs)
        BY <2>3
      <3> HIDE DEF fs
      <3>4. /\ \A u \in Threads \ {t} : stack'[u] = stack[u]
            /\ stack'[t] # <<>> /\ Top(t)' = DoNode("start", n)
        BY <1>0, <3>2, <3>3, OntoTop
      <3>5. \A m, k : /\ ~Holds(t, m, k)' /\ ~Revokes(t, m, k)'
                      /\ ~Holds(t, m, k) /\ ~Revokes(t, m, k)
        BY <1>1, <1>3, <3>4 DEF TickStep, Holds, Revokes, At, Top, DoNode, Frame
      <3>6. \A u \in Threads : \A m, k :
              /\ Holds(u, m, k)' <=> Holds(u, m, k)
              /\ Revokes(u, m, k)' <=> Revokes(u, m, k)
              /\ (At(u, "launch") /\ Holds(u, m, k))' <=>
                   (At(u, "launch") /\ Holds(u, m, k))
        BY <3>4, <3>5, OthersStay
      <3>7. UNCHANGED <<jobs, gen, cancelled, tasks>>
        BY <1>3 DEF TickStep
      <3>8. \A j, m, k : Runs(j, m, k)' <=> Runs(j, m, k)
        BY <3>7 DEF Runs
      <3>9. \A m, k : /\ Carried(m, k)' <=> Carried(m, k)
                      /\ Live(m, k)' <=> Live(m, k)
                      /\ Dead(m, k)' <=> Dead(m, k)
        BY <3>6, <3>7, <3>8 DEF Carried, Live, Dead
      <3>10. CarriedOnce'
        BY <1>0, <3>6, <3>7, <3>8 DEF CarriedOnce, Launches
      <3> QED
        BY <1>0, <2>1, <3>7, <3>9, <3>10, LaunchesPass
    <2> QED
      BY <1>0, <1>3, <2>2, <2>3, Sections
  <1>4. CASE StartStep(t)
    <2>1. ASSUME NEW n \in Nodes, Starts(n) PROVE Launches'
      <3>1. status[n] = "Ready" /\ status'[n] = "Running"
        BY <1>0, <2>1 DEF Starts, TypeOK
      <3>2. Top(t).node \in Nodes
        BY <1>0, <1>4, TopNode DEF StartStep
      <3>3. Top(t).node = n
        BY <1>0, <1>4, <3>1, <3>2 DEF StartStep, TypeOK
      <3> QED
        BY <1>0, <1>4, <2>1, <3>3, StartRegisters
    <2>2. CASE ~\E n \in Nodes : Starts(n)
      <3>1. Leaves(t)
        BY <1>0, <1>4, <2>2, Sections
      <3>2. Top(t).node \in Nodes
        BY <1>0, <1>4, TopNode DEF StartStep
      <3>3. UNCHANGED <<status, runStatus, jobs, gen, cancelled, tasks>>
        BY <1>4, <2>2, <3>2 DEF StartStep, Starts
      <3>4. Steady
        BY <1>0, <3>3, SteadyIfQuiet
      <3> QED
        BY <1>0, <1>1, <1>4, <3>1, <3>3, <3>4, LaunchesUndisturbed DEF StartStep
    <2> QED
      BY <2>1, <2>2
  <1>5. CASE LaunchFails(t) \/ LaunchDropped(t) \/ LaunchSpawns(t)
    <2>1. Steady
      BY <1>0, <1>5, SteadyIfQuiet DEF LaunchFails, LaunchDropped, LaunchSpawns
    <2> QED
      BY <1>0, <1>5, <2>1, LaunchFailsPasses, LaunchDroppedPasses, LaunchSpawnsPasses
  <1>6. CASE CompletedStep(t)
    <2>1. CASE runStatus \in Registered /\ status[Top(t).node] = "Running"
      BY <1>0, <1>6, <2>1, CompletedUnregisters
    <2>2. CASE ~(runStatus \in Registered /\ status[Top(t).node] = "Running")
      <3>1. UNCHANGED <<status, runStatus, jobs, gen, tasks, cancelled>>
        BY <1>6, <2>2 DEF CompletedStep
      <3>2. Steady
        BY <1>0, <3>1, SteadyIfQuiet
      <3>3. Leaves(t)
        BY <1>0, <1>6, Sections
      <3>4. At(t, "completed")
        BY <1>6 DEF CompletedStep
      <3> QED
        BY <1>0, <2>2, <3>1, <3>2, <3>3, <3>4, StaleReportPasses
    <2> QED
      BY <2>1, <2>2
  <1>7. CASE AfterStep(t)
    <2>1. Steady
      BY <1>0, <1>7, SteadyIfQuiet DEF AfterStep
    <2>2. Leaves(t)
      BY <1>0, <1>7, Sections
    <2> QED
      BY <1>0, <1>1, <1>7, <2>1, <2>2, LaunchesUndisturbed DEF AfterStep
  <1>8. CASE CompleteStep(t)
    <2>1. Steady
      BY <1>0, <1>8 DEF CompleteStep, Steady, Launches, Registers, Registered, Closed
    <2>2. Leaves(t)
      BY <1>0, <1>8, Sections
    <2> QED
      BY <1>0, <1>1, <1>8, <2>1, <2>2, LaunchesUndisturbed DEF CompleteStep
  <1>9. CASE CancelStep(t) \/ AbortStep(t)
    <2>1. /\ stack[t] # <<>> /\ stack[t] \in Seq(Frames)
          /\ Head(stack[t]).op \in {"cancel", "abort"}
      BY <1>0, <1>9 DEF CancelStep, AbortStep, At, TypeOK
    <2>2. Head(stack[t]) = stack[t][1] /\ 1 \in 1..Len(stack[t])
      BY <2>1
    <2> QED
      BY <2>1, <2>2 DEF JobInv, NoCancelling
  <1>10. CASE TokenStep(t)
    <2>1. Steady
      BY <1>0, <1>10, SteadyIfQuiet DEF TokenStep
    <2> QED
      BY <1>0, <1>10, <2>1, TokenStepPasses
  <1> QED
    BY <1>2, <1>3, <1>4, <1>5, <1>6, <1>7, <1>8, <1>9, <1>10 DEF ThreadStep

\* So does every step.
LEMMA JobInvStep ==
  ASSUME SafetyInv, JobInv, NoCancellation, [Next]_vars
  PROVE  JobInv'
  <1>0. TypeOK /\ TopsOnTop /\ Launches /\ NoCancelling
    BY DEF SafetyInv, JobInv
  <1>1. TopsOnTop'
    BY <1>0, StartersStep
  <1>2. NoCancelling'
    BY <1>0, NoCancellingStep
  <1>3. ASSUME NEW t \in Threads, Idle(t)
        PROVE  \A n, k : ~Holds(t, n, k) /\ ~Revokes(t, n, k)
    BY <1>3 DEF Holds, Revokes, At, Idle
  <1>4. ASSUME UNCHANGED <<stack, tasks, jobs, gen, cancelled>>, Steady
        PROVE  Launches'
    <2>1. \A t, n, k : /\ Holds(t, n, k)' <=> Holds(t, n, k)
                       /\ Revokes(t, n, k)' <=> Revokes(t, n, k)
                       /\ At(t, "launch")' <=> At(t, "launch")
      BY <1>4 DEF Holds, Revokes, At, Top
    <2>2. \A j, n, k : Runs(j, n, k)' <=> Runs(j, n, k)
      BY <1>4 DEF Runs
    <2>3. \A n, k : /\ Carried(n, k)' <=> Carried(n, k)
                    /\ Live(n, k)' <=> Live(n, k)
                    /\ Dead(n, k)' <=> Dead(n, k)
      BY <1>4, <2>1, <2>2 DEF Carried, Live, Dead
    <2>4. CarriedOnce'
      BY <1>0, <1>4, <2>1, <2>2 DEF CarriedOnce, Launches
    <2> QED
      BY <1>0, <1>4, <2>3, <2>4, LaunchesPass
  <1>5. CASE UNCHANGED vars
    <2>1. UNCHANGED <<stack, tasks, jobs, gen, cancelled, status, runStatus>>
      BY <1>5 DEF vars
    <2> QED
      BY <1>0, <1>1, <1>2, <1>4, <2>1, SteadyIfQuiet DEF JobInv
  <1>6. ASSUME NEW t \in Threads, NEW g \in Graphs, NEW ff \in FailFast,
               Plan(t, g, ff)
        PROVE  Launches'
    <2>1. Steady
      BY <1>6 DEF Plan, Steady, Registered
    <2>2. Leaves(t) /\ Idle(t)
      BY <1>0, <1>6, Sections DEF Plan, Call
    <2> QED
      BY <1>0, <1>3, <1>6, <2>1, <2>2, LaunchesUndisturbed DEF Plan
  <1>7. ASSUME NEW t \in Threads, NEW ids \in SUBSET Nodes, Retry(t, ids)
        PROVE  Launches'
    <2>1. \A n \in ToReset(ids) : status[n] \in Blocked
      BY DEF ToReset
    <2>2. Steady
      BY <1>7, <2>1 DEF Retry, Steady, Registered, Blocked, Done
    <2>3. Leaves(t) /\ Idle(t)
      BY <1>0, <1>7, Sections DEF Retry, Call
    <2> QED
      BY <1>0, <1>3, <1>7, <2>2, <2>3, LaunchesUndisturbed DEF Retry
  <1>8. ASSUME NEW t \in Threads, NEW n \in Nodes, Skip(t, n)
        PROVE  Launches'
    <2>1. CASE status[n] = "Running"
      BY <1>0, <1>8, <2>1, SkipRevokes
    <2>2. CASE status[n] # "Running"
      <3>1. \A m \in Released(n) : status[m] \in Blocked
        BY DEF Released
      <3>2. Steady
        BY <1>8, <2>2, <3>1 DEF Skip, Steady, Registered, Blocked, Done
      <3>3. Leaves(t) /\ Idle(t)
        BY <1>0, <1>8, <2>2, SpecialSections DEF Skip, Call
      <3>4. UNCHANGED <<jobs, gen, cancelled, tasks>>
        BY <1>8, <2>2 DEF Skip
      <3> QED
        BY <1>0, <1>3, <3>2, <3>3, <3>4, LaunchesUndisturbed
    <2> QED
      BY <2>1, <2>2
  <1>9. ASSUME Clear PROVE Launches'
    <2>1. Steady
      BY <1>9 DEF Clear, Steady, SafetyInv, ClosedRunIsSettled, Terminal, Done, Blocked
    <2> QED
      <3>1. UNCHANGED <<stack, tasks, jobs, gen, cancelled>>
        BY <1>9 DEF Clear
      <3> QED
        BY <1>4, <2>1, <3>1
  <1>10. ASSUME NEW t \in Threads, Wait(t) PROVE Launches'
    <2>1. Steady
      BY <1>0, <1>10, SteadyIfQuiet DEF Wait
    <2>2. Leaves(t) /\ Idle(t)
      BY <1>0, <1>10, Sections DEF Wait, Call
    <2> QED
      BY <1>0, <1>3, <1>10, <2>1, <2>2, LaunchesUndisturbed DEF Wait
  <1>11. ASSUME NEW j \in tasks, TaskEnds(j) PROVE Launches'
    <2>1. Steady
      BY <1>0, <1>11, SteadyIfQuiet DEF TaskEnds, TaskAborted, TaskFinished
    <2> QED
      BY <1>0, <1>11, <2>1, TaskEndsPasses
  <1>12. ASSUME NEW j \in tasks, NEW t \in Threads, TaskReports(j, t)
         PROVE  Launches'
    <2>1. Steady
      BY <1>0, <1>12, SteadyIfQuiet DEF TaskReports
    <2> QED
      BY <1>0, <1>12, <2>1, TaskReportsPasses
  <1>13. ASSUME Save PROVE Launches'
    <2>1. Steady
      BY <1>0, <1>13, SteadyIfQuiet DEF Save
    <2> QED
      <3>1. UNCHANGED <<stack, tasks, jobs, gen, cancelled>>
        BY <1>13 DEF Save
      <3> QED
        BY <1>4, <2>1, <3>1
  <1>14. ASSUME Crash PROVE Launches'
    <2>1. Fresh'
      BY <1>14 DEF Crash, Fresh
    <2>2. Fresh' => Launches'
      BY NoLaunches, PTL
    <2> QED
      BY <2>1, <2>2
  <1>15. ASSUME NEW t \in Threads, Restore(t) PROVE Launches'
    <2>1. Steady
      BY <1>15 DEF Restore, Steady, Hydrate, Registered, SafetyInv, SnapshotSound, Done
    <2>2. Leaves(t) /\ Idle(t)
      BY <1>0, <1>15, Sections DEF Restore, Call
    <2> QED
      BY <1>0, <1>3, <1>15, <2>1, <2>2, LaunchesUndisturbed DEF Restore
  <1>16. ASSUME NEW t \in Threads, CancelRun(t) PROVE Launches'
    BY <1>16 DEF CancelRun, Intervene, NoCancellation
  <1>17. Launches'
    BY <1>0, <1>1, <1>4, <1>5, <1>6, <1>7, <1>8, <1>9, <1>10, <1>11, <1>12, <1>13,
       <1>14, <1>15, <1>16, LaunchesThreadStep DEF Next, JobInv
  <1> QED
    BY <1>1, <1>2, <1>17 DEF JobInv

\* The first state has no launches.
LEMMA JobInvInit == Init /\ NoCancellation => JobInv
  <1> SUFFICES ASSUME Init PROVE JobInv
    OBVIOUS
  <1>1. Fresh
    BY DEF Init, Fresh
  <1>2. NoCancelling
    BY DEF Init, NoCancelling
  <1> QED
    BY <1>1, <1>2, NoLaunches DEF JobInv

\* The invariant, for every client that retries, skips, clears, waits and for
\* every crash.
LEMMA JobInvHolds == ASSUME NoCancellation PROVE Spec => []JobInv
  <1>1. Init => JobInv
    BY JobInvInit
  <1>2. SafetyInv /\ JobInv /\ [Next]_vars => JobInv'
    BY JobInvStep
  <1> QED
    BY <1>1, <1>2, Safety, PTL DEF Spec

\* The tokens a thread carries are at the top of its stack.
LEMMA HeldIsInFlight ==
  ASSUME TypeOK, NEW n, NEW k, Carried(n, k), ~Dead(n, k)
  PROVE  InFlight(n, k)
  <1>1. ASSUME NEW t \in Threads, Holds(t, n, k) PROVE InFlight(n, k)
    <2>1. stack[t] \in Seq(Frames) /\ stack[t] # <<>>
      BY <1>1 DEF TypeOK, Holds, At
    <2>2. Head(stack[t]) = stack[t][1] /\ 1 \in 1..Len(stack[t])
      BY <2>1
    <2>3. /\ stack[t][1].op \in {"launch", "completed"}
          /\ stack[t][1].node = n /\ stack[t][1].tok = k
      BY <1>1, <2>2 DEF Holds, At, Top
    <2> QED
      BY <2>2, <2>3 DEF InFlight
  <1>2. ASSUME NEW j \in tasks, Runs(j, n, k) PROVE InFlight(n, k)
    BY <1>2 DEF Runs, Dead, InFlight
  <1> QED
    BY <1>1, <1>2 DEF Carried

\* The job table is exact as long as nobody cancels the run as a whole: a node
\* runs exactly when a token is registered for it, that token's launch is in
\* flight and will report, and a task nobody has cancelled or is about to
\* cancel is registered.
THEOREM JobTableIsExact == ASSUME NoCancellation PROVE Spec => []JobTableExact
  <1>1. ASSUME SafetyInv, JobInv PROVE JobTableExact
    <2>0. TypeOK /\ Launches
      BY <1>1 DEF SafetyInv, JobInv
    <2>1. \A n \in Nodes : (status[n] = "Running") <=> (jobs[n] # 0)
      BY <2>0 DEF Launches, Registers
    <2>2. \A n \in Nodes : jobs[n] # 0 => InFlight(n, jobs[n])
      BY <2>0, HeldIsInFlight DEF Launches, RegisteredIsLive
    <2>3. ASSUME NEW j \in tasks, j.ph # "reporting",
                 <<j.node, j.tok>> \notin cancelled, jobs[j.node] # j.tok
          PROVE  \E t \in Threads : \E i \in 1..Len(stack[t]) :
                    stack[t][i] = DoToken("token", j.node, j.tok)
      <3>1. j \in Tasks
        BY <2>0 DEF TypeOK
      <3>2. j.node \in Nodes /\ j.tok \in Nat /\ j.ph = "running"
        BY <2>3, <3>1 DEF Tasks
      <3>3. Live(j.node, j.tok)
        BY <3>2 DEF Live, Runs
      <3>4. PICK t \in Threads : Revokes(t, j.node, j.tok)
        BY <2>0, <2>3, <3>2, <3>3 DEF Launches, LiveIsRegistered, Dead
      <3>5. stack[t] \in Seq(Frames) /\ stack[t] # <<>>
        BY <2>0, <3>4 DEF TypeOK, Revokes, At
      <3>6. Head(stack[t]) = stack[t][1] /\ 1 \in 1..Len(stack[t])
        BY <3>5
      <3>7. /\ Top(t) \in Frames /\ Top(t).op = "token" /\ Top(t).node = j.node
            /\ Top(t).tok = j.tok
        BY <3>4, <3>5 DEF Revokes, At, Top
      <3>8. Top(t) = DoToken("token", j.node, j.tok)
        BY <3>7 DEF Frames, DoToken, Frame
      <3> QED
        BY <3>6, <3>8 DEF Top
    <2> QED
      BY <2>1, <2>2, <2>3 DEF JobTableExact
  <1> QED
    BY <1>1, Safety, JobInvHolds, PTL

\* A completion report is applied only to the launch that produced it, as long
\* as nobody cancels the run as a whole, although the report does not say
\* which launch that is.
THEOREM ReportsAreCurrent == ASSUME NoCancellation PROVE Spec => ReportIsCurrent
  <1>1. ASSUME SafetyInv, JobInv, [Next]_vars, NEW t \in Threads,
               At(t, "completed"), stack'[t] # stack[t],
               status[Top(t).node] = "Running",
               status'[Top(t).node] # "Running"
        PROVE  Top(t).tok = gen[Top(t).node]
    <2>0. TypeOK /\ Launches
      BY <1>1 DEF SafetyInv, JobInv
    <2>1. Top(t).node \in Nodes /\ Top(t).tok \in Nat
      BY <1>1, <2>0, TopNode
    <2>2. Carried(Top(t).node, Top(t).tok)
      BY <1>1 DEF Carried, Holds
    <2>3. jobs[Top(t).node] = Top(t).tok
      BY <1>1, <2>0, <2>1, <2>2 DEF Launches, CarriedIsCurrent, Done
    <2> QED
      BY <1>1, <2>0, <2>1, <2>3 DEF Launches, Registers
  <1>2. SafetyInv /\ JobInv /\ [Next]_vars =>
          [\A t \in Threads :
             (/\ At(t, "completed")
              /\ stack'[t] # stack[t]
              /\ status[Top(t).node] = "Running"
              /\ status'[Top(t).node] # "Running")
               => Top(t).tok = gen[Top(t).node]]_vars
    BY <1>1
  <1> QED
    BY <1>2, Safety, JobInvHolds, PTL DEF Spec, ReportIsCurrent

-----------------------------------------------------------------------------
(***************************************************************************)
(* Nothing is forgotten.  Whoever leaves something behind that the engine  *)
(* has to act on still has the section that will do it ahead.              *)
(***************************************************************************)

\* Some thread has such a section ahead.
Ahead(op) == \E t \in Threads : \E i \in 1..Len(stack[t]) : stack[t][i].op = op

\* Some thread will reconcile, tick and then look whether the run is over.
Closing == \E t \in Threads : \E i \in 1..Len(stack[t]) :
             /\ i + 2 \in 1..Len(stack[t])
             /\ stack[t][i].op = "reconcile"
             /\ stack[t][i + 2].op = "complete"

\* A reconcile is always followed by a tick.
Paired(s) == \A i \in 1..Len(s) : s[i].op = "reconcile" =>
               i + 1 \in 1..Len(s) /\ s[i + 1].op = "tick"

PairedTicks == \A t \in Threads : Paired(stack[t])

\* A thread that moves keeps what it has ahead, but for the section it leaves,
\* and gets the new sections.
LEMMA AheadKept ==
  ASSUME TypeOK, PairedTicks, NEW t \in Threads, NEW fs \in Seq(Frames),
         Onto(t, fs), Paired(fs)
  PROVE  /\ \A op : Ahead(op) /\ ~At(t, op) => Ahead(op)'
         /\ \A i \in 1..Len(fs) : Ahead(fs[i].op)'
         /\ Closing /\ ~At(t, "reconcile") => Closing'
         /\ PairedTicks'
         /\ At(t, "reconcile") => Ahead("tick")'
         /\ \A i \in 1..Len(fs) :
              i + 2 \in 1..Len(fs) /\ fs[i].op = "reconcile" /\ fs[i + 2].op = "complete"
                => Closing'
  <1>0. stack[t] \in Seq(Frames)
    BY DEF TypeOK
  <1> DEFINE b == Below(t)
             k == IF stack[t] = <<>> THEN 0 ELSE 1
             s == fs \o b
  <1>1. /\ b \in Seq(Frames)
        /\ k \in {0, 1}
        /\ Len(stack[t]) \in Nat /\ Len(b) = Len(stack[t]) - k
        /\ \A i \in 1..Len(b) : b[i] = stack[t][i + k]
    <2>1. CASE stack[t] = <<>>
      BY <1>0, <2>1 DEF Below
    <2>2. CASE stack[t] # <<>>
      <3>1. b = Tail(stack[t]) /\ k = 1
        BY <2>2 DEF Below
      <3> HIDE DEF b, k
      <3> QED
        BY <1>0, <2>2, <3>1
    <2> QED
      BY <2>1, <2>2
  <1>2. /\ stack'[t] = s
        /\ \A u \in Threads \ {t} : stack'[u] = stack[u]
    BY DEF Onto, TypeOK
  <1> HIDE DEF b, k
  <1>3. /\ Len(fs) \in Nat /\ Len(b) \in Nat
        /\ s \in Seq(Frames) /\ Len(s) = Len(fs) + Len(b)
        /\ \A i \in 1..Len(fs) : s[i] = fs[i]
        /\ \A i \in 1..Len(b) : s[Len(fs) + i] = b[i]
    <2>1. Len(fs) \in Nat /\ Len(b) \in Nat /\ s \in Seq(Frames)
          /\ Len(s) = Len(fs) + Len(b)
      <3>1. b \in Seq(Frames)
        BY <1>1
      <3>2. fs \o b \in Seq(Frames) /\ Len(fs \o b) = Len(fs) + Len(b)
        BY <3>1, ConcatProperties
      <3>3. Len(fs) \in Nat /\ Len(b) \in Nat
        BY <3>1, LenProperties
      <3> QED
        BY <3>2, <3>3
    <2>2. \A i \in 1..Len(fs) : s[i] = fs[i]
      BY <1>1
    <2>3. ASSUME NEW i \in 1..Len(b) PROVE s[Len(fs) + i] = b[i]
      <3>1. Len(fs) + i \in 1..Len(s) /\ Len(fs) + i > Len(fs)
            /\ (Len(fs) + i) - Len(fs) = i
        BY <2>1
      <3> QED
        BY <1>1, <2>1, <3>1
    <2> QED
      BY <2>1, <2>2, <2>3
  <1> HIDE DEF s
  \* Where a frame of the old stack is in the new one.
  <1>4. \A i \in 1..Len(stack[t]) : i > k =>
           /\ Len(fs) + (i - k) \in 1..Len(s)
           /\ s[Len(fs) + (i - k)] = stack[t][i]
    <2> SUFFICES ASSUME NEW i \in 1..Len(stack[t]), i > k
                 PROVE  /\ Len(fs) + (i - k) \in 1..Len(s)
                        /\ s[Len(fs) + (i - k)] = stack[t][i]
      OBVIOUS
    <2>1. i - k \in 1..Len(b) /\ (i - k) + k = i
      BY <1>1
    <2>2. s[Len(fs) + (i - k)] = b[i - k] /\ b[i - k] = stack[t][i]
      BY <1>1, <1>3, <2>1
    <2> QED
      BY <1>3, <2>1, <2>2
  <1>5. ASSUME NEW i \in 1..Len(stack[t]), ~ (i > k)
        PROVE  i = 1 /\ \A op : stack[t][i].op = op => At(t, op)
    <2>1. i = 1 /\ stack[t] # <<>>
      BY <1>0, <1>1, <1>5
    <2>2. Head(stack[t]) = stack[t][1]
      BY <1>0, <2>1
    <2> QED
      BY <2>1, <2>2 DEF At
  <1>6. ASSUME NEW op, Ahead(op), ~At(t, op) PROVE Ahead(op)'
    <2>0. PICK u \in Threads : \E i \in 1..Len(stack[u]) : stack[u][i].op = op
      BY <1>6 DEF Ahead
    <2>1. PICK i \in 1..Len(stack[u]) : stack[u][i].op = op
      BY <2>0
    <2>2. CASE u = t
      <3>1. i > k
        BY <1>5, <1>6, <2>1, <2>2
      <3> QED
        BY <1>2, <1>4, <2>1, <2>2, <3>1 DEF Ahead
    <2>3. CASE u # t
      BY <1>2, <2>1, <2>3 DEF Ahead
    <2> QED
      BY <2>2, <2>3
  <1>7. ASSUME NEW i \in 1..Len(fs) PROVE Ahead(fs[i].op)'
    <2>1. i \in 1..Len(s) /\ s[i] = fs[i]
      BY <1>3
    <2> QED
      BY <1>2, <2>1 DEF Ahead
  <1>8. ASSUME Closing, ~At(t, "reconcile") PROVE Closing'
    <2>0. PICK u \in Threads : \E i \in 1..Len(stack[u]) :
             /\ i + 2 \in 1..Len(stack[u])
             /\ stack[u][i].op = "reconcile"
             /\ stack[u][i + 2].op = "complete"
      BY <1>8 DEF Closing
    <2>1. PICK i \in 1..Len(stack[u]) :
             /\ i + 2 \in 1..Len(stack[u])
             /\ stack[u][i].op = "reconcile"
             /\ stack[u][i + 2].op = "complete"
      BY <2>0
    <2>2. CASE u = t
      <3>1. i > k
        BY <1>5, <1>8, <2>1, <2>2
      <3>2. i + 2 \in 1..Len(stack[t]) /\ i + 2 > k
        BY <1>1, <2>1, <2>2, <3>1
      <3> DEFINE m == Len(fs) + (i - k)
      <3>3. m \in 1..Len(s) /\ s[m].op = "reconcile"
        BY <1>4, <2>1, <2>2, <3>1
      <3>4. Len(fs) + ((i + 2) - k) \in 1..Len(s) /\ s[Len(fs) + ((i + 2) - k)].op = "complete"
        BY <1>4, <2>1, <2>2, <3>2
      <3>5. Len(fs) + ((i + 2) - k) = m + 2
        BY <1>1, <1>3
      <3> HIDE DEF m
      <3> QED
        BY <1>2, <3>3, <3>4, <3>5 DEF Closing
    <2>3. CASE u # t
      BY <1>2, <2>1, <2>3 DEF Closing
    <2> QED
      BY <2>2, <2>3
  <1>9. Paired(s)
    <2> SUFFICES ASSUME NEW i \in 1..Len(s), s[i].op = "reconcile"
                 PROVE  i + 1 \in 1..Len(s) /\ s[i + 1].op = "tick"
      BY DEF Paired
    <2>1. CASE i <= Len(fs)
      <3>1. i \in 1..Len(fs) /\ fs[i].op = "reconcile"
        BY <1>3, <2>1
      <3>2. i + 1 \in 1..Len(fs) /\ fs[i + 1].op = "tick"
        BY <3>1 DEF Paired
      <3> QED
        BY <1>3, <3>2
    <2>2. CASE i > Len(fs)
      <3> DEFINE m == i - Len(fs)
      <3>1. m \in 1..Len(b) /\ Len(fs) + m = i
        BY <1>3, <2>2
      <3>2. s[i] = b[m] /\ b[m] = stack[t][m + k] /\ m + k \in 1..Len(stack[t])
        <4> HIDE DEF m
        <4> QED
          BY <1>1, <1>3, <3>1
      <3>3. m + k + 1 \in 1..Len(stack[t]) /\ stack[t][m + k + 1].op = "tick"
        <4> HIDE DEF m
        <4> QED
          BY <3>2 DEF PairedTicks, Paired
      <3>4. m + 1 \in 1..Len(b) /\ b[m + 1] = stack[t][m + 1 + k]
        <4> HIDE DEF m
        <4>1. m + 1 \in 1..Len(b)
          BY <1>1, <3>1, <3>3
        <4> QED
          BY <1>1, <4>1
      <3>5. s[Len(fs) + (m + 1)] = b[m + 1] /\ Len(fs) + (m + 1) = i + 1
            /\ m + 1 + k = m + k + 1
        <4>1. s[Len(fs) + (m + 1)] = b[m + 1]
          <5> HIDE DEF m
          <5> QED
            BY <1>3, <3>4
        <4> QED
          BY <1>1, <1>3, <4>1
      <3>6. i + 1 \in 1..Len(s)
        BY <1>3, <3>4, <3>5
      <3> HIDE DEF m
      <3> QED
        BY <3>3, <3>4, <3>5, <3>6
    <2> QED
      BY <1>3, <2>1, <2>2
  <1>10. PairedTicks'
    BY <1>2, <1>9 DEF PairedTicks
  <1>11. ASSUME At(t, "reconcile") PROVE Ahead("tick")'
    <2>1. stack[t] # <<>> /\ Head(stack[t]).op = "reconcile"
      BY <1>11 DEF At
    <2>2. 1 \in 1..Len(stack[t]) /\ stack[t][1].op = "reconcile" /\ k = 1
      BY <1>0, <2>1 DEF k
    <2>3. 2 \in 1..Len(stack[t]) /\ stack[t][2].op = "tick" /\ 2 > k
      BY <2>2 DEF PairedTicks, Paired
    <2>4. Len(fs) + (2 - k) \in 1..Len(s) /\ s[Len(fs) + (2 - k)].op = "tick"
      BY <1>4, <2>3
    <2> QED
      BY <1>2, <2>4 DEF Ahead
  <1>12. ASSUME NEW i \in 1..Len(fs), i + 2 \in 1..Len(fs),
                fs[i].op = "reconcile", fs[i + 2].op = "complete"
         PROVE  Closing'
    <2>1. /\ i \in 1..Len(s) /\ i + 2 \in 1..Len(s)
          /\ s[i] = fs[i] /\ s[i + 2] = fs[i + 2]
      BY <1>3, <1>12
    <2> QED
      BY <1>2, <1>12, <2>1 DEF Closing
  <1> QED
    BY <1>6, <1>7, <1>8, <1>10, <1>11, <1>12

\* The paired stacks the engine's calls are made of.
LEMMA PairedStacks ==
  /\ Paired(<<>>)
  /\ \A f \in Frames : f.op # "reconcile" => Paired(<<f>>)
  /\ \A f, h \in Frames : f.op # "reconcile" /\ h.op # "reconcile" => Paired(<<f, h>>)
  /\ Paired(<<Do("reconcile"), Do("tick")>>)
  /\ Paired(<<Do("reconcile"), Do("tick"), Do("complete")>>)
  <1>1. \A op : Do(op).op = op
    BY DEF Do, Frame
  <1> QED
    BY <1>1 DEF Paired

\* Dependencies are declared before their dependents: in the definitions that
\* clients submit, and in the run.
DeclaredInOrder ==
  \A gr \in Graphs : ValidateGraph(gr) => \A n \in Nodes : \A d \in gr[n] : d < n

InOrder == \A n \in Nodes : \A d \in deps[n] : d < n

\* A waiting node has a blocked dependency.
Behind == \E n \in Nodes : /\ status[n] \in Waiting
                           /\ \E d \in deps[n] : status[d] \in Blocked

\* A pending node could be ready.
Overlooked == \E n \in Nodes : status[n] = "Pending" /\ DepsDone(deps, status, n)

\* A run with a ready node runs nothing.
Starving == /\ runStatus = "Running"
            /\ \E n \in Nodes : status[n] = "Ready"
            /\ \A n \in Nodes : status[n] # "Running"

\* A reconcile lies ahead, or what leads to one or ends the run.
WillReconcile == Ahead("reconcile") \/ Ahead("after") \/ Ahead("cancel")
WillTick      == Ahead("tick") \/ Ahead("after") \/ Ahead("cancel")

AwakeInv ==
  /\ InOrder
  /\ PairedTicks
  /\ runStatus \in Registered /\ (Behind \/ Overlooked) => WillReconcile
  /\ Starving => WillTick

\* A step that changes no status and moves a thread off another section keeps
\* what was ahead.
LEMMA AwakeIfQuiet ==
  ASSUME TypeOK, AwakeInv, NEW t \in Threads, NEW fs \in Seq(Frames),
         Onto(t, fs), Paired(fs), UNCHANGED <<deps, status>>,
         runStatus' = runStatus \/ (runStatus = "Running" /\ runStatus' \in Closed),
         ~At(t, "reconcile"), ~At(t, "after"), ~At(t, "cancel"),
         At(t, "tick") => Ahead("tick")' \/ ~Starving'
  PROVE  AwakeInv'
  <1>1. /\ \A op : Ahead(op) /\ ~At(t, op) => Ahead(op)'
        /\ PairedTicks'
    BY AheadKept DEF AwakeInv
  <1>2. InOrder'
    BY DEF AwakeInv, InOrder
  <1>3. /\ Behind' <=> Behind
        /\ Overlooked' <=> Overlooked
    BY DEF Behind, Overlooked, DepsDone
  <1>4. Starving' => Starving
    BY DEF Starving, Closed
  <1>5. runStatus' \in Registered => runStatus \in Registered
    BY DEF Registered
  <1>6. WillReconcile => WillReconcile'
    BY <1>1 DEF WillReconcile
  <1>7. WillTick /\ (~At(t, "tick") \/ Ahead("tick")') => WillTick'
    BY <1>1 DEF WillTick
  <1> QED
    BY <1>1, <1>2, <1>3, <1>4, <1>5, <1>6, <1>7 DEF AwakeInv

\* A step that leaves a reconcile or a node's end ahead satisfies everyone.
LEMMA AwakeIfPushed ==
  ASSUME TypeOK, AwakeInv, NEW t \in Threads, NEW fs \in Seq(Frames),
         Onto(t, fs), Paired(fs), InOrder',
         \/ fs \in {<<Do("reconcile"), Do("tick")>>,
                    <<Do("reconcile"), Do("tick"), Do("complete")>>,
                    <<Do("cancel")>>}
         \/ \E n \in Nodes : fs = <<DoNode("after", n)>>
         \/ \E n \in Nodes, k \in Nat : fs = <<DoToken("token", n, k), DoNode("after", n)>>
  PROVE  AwakeInv'
  <1>1. /\ PairedTicks'
        /\ \A i \in 1..Len(fs) : Ahead(fs[i].op)'
    BY AheadKept DEF AwakeInv
  <1>2. \A op, n : Do(op).op = op /\ DoNode(op, n).op = op
    BY DEF Do, DoNode, Frame
  <1>3. \/ Ahead("reconcile")' /\ Ahead("tick")'
        \/ Ahead("cancel")'
        \/ Ahead("after")'
    <2>1. CASE fs \in {<<Do("reconcile"), Do("tick")>>,
                       <<Do("reconcile"), Do("tick"), Do("complete")>>}
      <3>1. 1 \in 1..Len(fs) /\ 2 \in 1..Len(fs) /\ fs[1] = Do("reconcile") /\ fs[2] = Do("tick")
        BY <2>1
      <3> QED
        BY <1>1, <1>2, <3>1
    <2>2. CASE fs = <<Do("cancel")>>
      <3>1. 1 \in 1..Len(fs) /\ fs[1] = Do("cancel")
        BY <2>2
      <3> QED
        BY <1>1, <1>2, <3>1
    <2>3. ASSUME NEW n \in Nodes, fs = <<DoNode("after", n)>>
          PROVE  Ahead("after")'
      <3>1. 1 \in 1..Len(fs) /\ fs[1] = DoNode("after", n)
        BY <2>3
      <3> QED
        BY <1>1, <1>2, <3>1
    <2>4. ASSUME NEW n \in Nodes, NEW k \in Nat,
                 fs = <<DoToken("token", n, k), DoNode("after", n)>>
          PROVE  Ahead("after")'
      <3>1. 2 \in 1..Len(fs) /\ fs[2] = DoNode("after", n)
        BY <2>4
      <3> QED
        BY <1>1, <1>2, <3>1
    <2> QED
      BY <2>1, <2>2, <2>3, <2>4
  <1> QED
    BY <1>1, <1>3 DEF AwakeInv, WillReconcile, WillTick

\* The run is settled, or not there.
Over == \/ runStatus \notin Registered
        \/ runStatus # "Running" /\ \A n \in Nodes : status[n] \in Terminal

\* There is nothing to wake for in such a run.
LEMMA AwakeIfOver == InOrder /\ PairedTicks /\ Over => AwakeInv
  <1>1. Over => ~Starving
    BY DEF Over, Starving, Registered
  <1>2. (\A n \in Nodes : status[n] \in Terminal) => ~Behind /\ ~Overlooked
    BY DEF Behind, Overlooked, Terminal, Done, Blocked, Waiting
  <1> QED
    BY <1>1, <1>2 DEF AwakeInv, Over

\* A pass leaves no node behind a blocked one and overlooks none.
LEMMA ReconcileCatchesUp ==
  ASSUME TypeOK, InOrder, UNCHANGED deps, status' = Reconcile(deps, status)
  PROVE  ~Behind' /\ ~Overlooked'
  <1>1. \A n \in Nodes : deps[n] \subseteq Nodes /\ \A d \in deps[n] : d < n
    BY DEF TypeOK, InOrder
  <1>2. ASSUME NEW n \in Nodes, NEW d \in deps[n], status'[d] \in Blocked
        PROVE  status'[n] \notin Waiting
    BY <1>1, <1>2, ReconcileCascades
  <1>3. ASSUME NEW n \in Nodes, status'[n] = "Pending"
        PROVE  ~DepsDone(deps, status', n)
    <2>1. status[n] \in Waiting /\ n \notin Cascaded(deps, status)
      BY <1>3, ReconcileEffect DEF Waiting
    <2>2. ~DepsDone(deps, status, n)
      BY <1>3, <2>1, ReconcileEffect
    <2>3. \A d \in deps[n] : status'[d] \in Done <=> status[d] \in Done
      BY <1>1, ReconcileDone
    <2> QED
      BY <2>2, <2>3 DEF DepsDone
  <1> QED
    BY <1>2, <1>3 DEF Behind, Overlooked


\* With the budget spent something runs.
LEMMA BudgetSpent == ~(Cardinality(RunningNodes) < MaxConcurrency) => RunningNodes # {}
  <1>1. Cardinality({}) = 0 /\ MaxConcurrency \in Nat \ {0}
    BY FS_EmptySet, EngineAssumption
  <1> QED
    BY <1>1

\* A tick that starts a node has another tick ahead.
LEMMA TickAgain ==
  ASSUME TypeOK, PairedTicks, NEW t \in Threads, NEW f \in Frames, NEW h \in Frames,
         Onto(t, <<f, h>>), f.op # "reconcile", h.op = "tick"
  PROVE  Ahead("tick")'
  <1> DEFINE fs == <<f, h>>
  <1>1. fs \in Seq(Frames) /\ Paired(fs)
    BY PairedStacks
  <1>2. 2 \in 1..Len(fs) /\ fs[2].op = "tick"
    OBVIOUS
  <1>3. Onto(t, fs)
    OBVIOUS
  <1> HIDE DEF fs
  <1>4. \A i \in 1..Len(fs) : Ahead(fs[i].op)'
    BY <1>1, <1>3, AheadKept
  <1>5. Ahead(fs[2].op)'
    BY <1>2, <1>4
  <1>6. Ahead(fs[2].op)' <=> Ahead("tick")'
    BY <1>2 DEF Ahead
  <1> QED
    BY <1>5, <1>6
\* Every section of a call keeps the invariant.
LEMMA AwakeThreadStep ==
  ASSUME SafetyInv, AwakeInv, NEW t \in Threads, ThreadStep(t)
  PROVE  AwakeInv'
  <1> USE MovesOnto, PairedStacks, ShortStacks, FrameTypes
  <1>0. TypeOK /\ InOrder /\ PairedTicks
    BY DEF SafetyInv, AwakeInv
  <1>00. deps' = deps /\ InOrder'
    BY <1>0 DEF ThreadStep, ReconcileStep, TickStep, StartStep, LaunchFails,
       LaunchDropped, LaunchSpawns, CompletedStep, AfterStep, CompleteStep,
       CancelStep, AbortStep, TokenStep, InOrder
  <1>01. runStatus \in Closed => \A n \in Nodes : status[n] \in Terminal
    BY DEF SafetyInv, ClosedRunIsSettled
  <1>02. ASSUME NEW op \in {"reconcile", "tick", "start", "launch", "completed",
                            "after", "complete", "cancel", "abort", "token"},
                At(t, op), NEW other, other # op
         PROVE  ~At(t, other)
    BY <1>02 DEF At
  <1>1. CASE ReconcileStep(t)
    <2>1. At(t, "reconcile") /\ Onto(t, <<>>)
      BY <1>0, <1>1 DEF ReconcileStep
    <2>2. PairedTicks' /\ Ahead("tick")'
      BY <1>0, <2>1, AheadKept
    <2>3. CASE runStatus \in Registered
      <3>1. ~Behind' /\ ~Overlooked'
        BY <1>0, <1>00, <1>1, <2>3, ReconcileCatchesUp DEF ReconcileStep
      <3> QED
        BY <1>00, <2>2, <3>1 DEF AwakeInv, WillTick
    <2>4. CASE runStatus \notin Registered
      <3>1. runStatus' \notin Registered
        BY <1>1, <2>4 DEF ReconcileStep
      <3> QED
        BY <1>00, <2>2, <3>1 DEF AwakeInv, WillTick
    <2> QED
      BY <2>3, <2>4
  <1>2. CASE TickStep(t)
    <2>1. /\ At(t, "tick") /\ UNCHANGED <<deps, status, runStatus>>
          /\ Top(t) \in Frames /\ Top(t).op = "tick"
      BY <1>0, <1>2, TopFrame DEF TickStep
    <2>2. ASSUME NEW n \in Nodes, Onto(t, <<DoNode("start", n), Top(t)>>)
          PROVE  AwakeInv'
      <3>1. /\ <<DoNode("start", n), Top(t)>> \in Seq(Frames)
            /\ Paired(<<DoNode("start", n), Top(t)>>)
        <4>1. DoNode("start", n) \in Frames /\ DoNode("start", n).op = "start"
          BY DEF DoNode, Frame
        <4> QED
          BY <2>1, <4>1
      <3>3. Ahead("tick")'
        <4>1. DoNode("start", n) \in Frames /\ DoNode("start", n).op = "start"
          BY DEF DoNode, Frame
        <4> QED
          BY <1>0, <2>1, <2>2, <4>1, TickAgain
      <3> QED
        BY <1>0, <1>02, <2>1, <2>2, <3>1, <3>3, AwakeIfQuiet
    <2>3. CASE ~CanLaunch /\ Onto(t, <<>>)
      <3>1. ~Starving'
        <4>1. CASE Cardinality(RunningNodes) < MaxConcurrency
          BY <2>1, <2>3, <4>1 DEF CanLaunch, Starving
        <4>2. CASE ~(Cardinality(RunningNodes) < MaxConcurrency)
          <5>1. RunningNodes # {}
            BY <4>2, BudgetSpent
          <5> QED
            BY <2>1, <5>1 DEF RunningNodes, Starving
        <4> QED
          BY <4>1, <4>2
      <3> QED
        BY <1>0, <1>02, <2>1, <2>3, <3>1, AwakeIfQuiet
    <2>4. \/ ~CanLaunch /\ Onto(t, <<>>)
          \/ \E n \in Nodes : Onto(t, <<DoNode("start", n), Top(t)>>)
      BY <1>0, <1>2 DEF TickStep
    <2> QED
      BY <2>2, <2>3, <2>4
  <1>3. CASE StartStep(t)
    <2> DEFINE n == Top(t).node
    <2>1. At(t, "start") /\ n \in Nodes /\ runStatus' = runStatus
      BY <1>0, <1>3, TopNode DEF StartStep
    <2>2. CASE Onto(t, <<>>) /\ status' = status
      BY <1>0, <1>00, <1>02, <2>1, <2>2, AwakeIfQuiet
    <2>3. CASE /\ Onto(t, <<DoToken("launch", n, gen[n] + 1)>>)
               /\ status[n] = "Ready" /\ status' = [status EXCEPT ![n] = "Running"]
      <3> DEFINE f == DoToken("launch", n, gen[n] + 1)
      <3>1. f \in Frames /\ f.op = "launch"
        BY <1>0, <2>1 DEF TypeOK, DoToken, Frame
      <3>2. <<f>> \in Seq(Frames) /\ Paired(<<f>>)
        <4> HIDE DEF f
        <4> QED
          BY <3>1
      <3>3. /\ \A op : Ahead(op) /\ ~At(t, op) => Ahead(op)'
            /\ PairedTicks'
        <4> HIDE DEF f
        <4>1. Onto(t, <<f>>)
          BY <2>3 DEF f
        <4> QED
          BY <1>0, <3>2, <4>1, AheadKept
      <3>4. ~Starving'
        BY <1>0, <2>1, <2>3 DEF Starving, TypeOK
      <3>5. /\ \A m \in Nodes : /\ status'[m] \in Waiting => status[m] \in Waiting
                                /\ status'[m] = "Pending" => status[m] = "Pending"
                                /\ status'[m] \in Blocked => status[m] \in Blocked
                                /\ status'[m] \in Done => status[m] \in Done
            /\ \A m \in Nodes : deps[m] \subseteq Nodes
        BY <1>0, <2>1, <2>3 DEF TypeOK, Waiting, Blocked, Done
      <3>6. (Behind' => Behind) /\ (Overlooked' => Overlooked)
        BY <1>00, <3>5 DEF Behind, Overlooked, DepsDone
      <3>7. WillReconcile => WillReconcile'
        BY <1>02, <2>1, <3>3 DEF WillReconcile
      <3> QED
        BY <1>00, <2>1, <3>3, <3>4, <3>6, <3>7 DEF AwakeInv
    <2>4. \/ Onto(t, <<>>) /\ status' = status
          \/ /\ Onto(t, <<DoToken("launch", n, gen[n] + 1)>>)
             /\ status[n] = "Ready" /\ status' = [status EXCEPT ![n] = "Running"]
      BY <1>0, <1>3 DEF StartStep
    <2> QED
      BY <2>2, <2>3, <2>4
  <1>4. CASE LaunchFails(t)
    <2> DEFINE f == DoReport(Top(t).node, Top(t).tok, "err")
    <2>1. At(t, "launch") /\ Onto(t, <<f>>) /\ UNCHANGED <<deps, status, runStatus>>
      BY <1>0, <1>4 DEF LaunchFails
    <2>2. f \in Frames /\ f.op = "completed"
      BY <1>0, <2>1, TopNode DEF DoReport, Frame, Results
    <2> HIDE DEF f
    <2>3. <<f>> \in Seq(Frames) /\ Paired(<<f>>)
      BY <2>2
    <2> QED
      BY <1>0, <1>02, <2>1, <2>3, AwakeIfQuiet
  <1>5. CASE LaunchDropped(t) \/ LaunchSpawns(t) \/ AbortStep(t) \/ TokenStep(t)
    <2>1. /\ At(t, "launch") \/ At(t, "abort") \/ At(t, "token")
          /\ Onto(t, <<>>) /\ UNCHANGED <<deps, status, runStatus>>
      BY <1>0, <1>5 DEF LaunchDropped, LaunchSpawns, AbortStep, TokenStep
    <2> QED
      BY <1>0, <1>02, <2>1, AwakeIfQuiet
  <1>6. CASE CompletedStep(t)
    <2> DEFINE n == Top(t).node
    <2>1. At(t, "completed") /\ n \in Nodes /\ runStatus' = runStatus
      BY <1>0, <1>6, TopNode DEF CompletedStep
    <2>2. CASE Onto(t, <<>>) /\ status' = status
      BY <1>0, <1>00, <1>02, <2>1, <2>2, AwakeIfQuiet
    <2>3. CASE Onto(t, <<DoNode("after", n)>>)
      <3>1. /\ <<DoNode("after", n)>> \in Seq(Frames)
            /\ Paired(<<DoNode("after", n)>>)
        <4>1. DoNode("after", n) \in Frames /\ DoNode("after", n).op = "after"
          BY <2>1 DEF DoNode, Frame
        <4> QED
          BY <4>1
      <3> HIDE DEF n
      <3> QED
        BY <1>0, <1>00, <2>1, <2>3, <3>1, AwakeIfPushed
    <2>4. \/ Onto(t, <<>>) /\ status' = status
          \/ Onto(t, <<DoNode("after", n)>>)
      BY <1>0, <1>6 DEF CompletedStep
    <2> QED
      BY <2>2, <2>3, <2>4
  <1>7. CASE AfterStep(t)
    <2>1. CASE runStatus \notin Registered /\ Onto(t, <<>>)
      <3>1. PairedTicks' /\ runStatus' \notin Registered
        BY <1>0, <1>7, <2>1, AheadKept DEF AfterStep
      <3> QED
        BY <1>00, <3>1 DEF AwakeInv, Starving, Registered
    <2>2. CASE \/ Onto(t, <<Do("cancel")>>)
               \/ Onto(t, <<Do("reconcile"), Do("tick"), Do("complete")>>)
      <3>1. /\ <<Do("cancel")>> \in Seq(Frames)
            /\ <<Do("reconcile"), Do("tick"), Do("complete")>> \in Seq(Frames)
            /\ Paired(<<Do("cancel")>>)
        <4>1. Do("cancel").op = "cancel"
          BY DEF Do, Frame
        <4> QED
          BY <4>1
      <3> QED
        BY <1>0, <1>00, <2>2, <3>1, AwakeIfPushed
    <2>3. \/ runStatus \notin Registered /\ Onto(t, <<>>)
          \/ Onto(t, <<Do("cancel")>>)
          \/ Onto(t, <<Do("reconcile"), Do("tick"), Do("complete")>>)
      BY <1>0, <1>7 DEF AfterStep
    <2> QED
      BY <2>1, <2>2, <2>3
  <1>8. CASE CompleteStep(t)
    <2>1. /\ At(t, "complete") /\ Onto(t, <<>>) /\ UNCHANGED <<deps, status>>
          /\ runStatus' = runStatus \/ (runStatus = "Running" /\ runStatus' \in Closed)
      BY <1>0, <1>8 DEF CompleteStep, Closed
    <2> QED
      BY <1>0, <1>02, <2>1, AwakeIfQuiet
  <1>9. CASE CancelStep(t)
    <2>1. \E fs : Paired(fs) /\ fs \in Seq(Frames) /\ Onto(t, fs)
      <3>1. \A ids \in SUBSET Nodes : /\ <<DoAbort(ids)>> \in Seq(Frames)
                                      /\ Paired(<<DoAbort(ids)>>)
        <4>1. \A ids \in SUBSET Nodes : DoAbort(ids) \in Frames /\ DoAbort(ids).op = "abort"
          BY DEF DoAbort, Frame
        <4> QED
          BY <4>1
      <3>2. Onto(t, <<>>) \/ Onto(t, <<DoAbort(RunningNodes)>>)
        BY <1>0, <1>9 DEF CancelStep
      <3>3. RunningNodes \in SUBSET Nodes
        BY DEF RunningNodes
      <3> QED
        BY <3>1, <3>2, <3>3
    <2>2. PairedTicks'
      BY <1>0, <2>1, AheadKept
    <2>3. Over'
      BY <1>01, <1>9 DEF CancelStep, CancelNodes, Over, Terminal, Blocked,
         Registered, Closed
    <2>4. InOrder' /\ PairedTicks' /\ Over' => AwakeInv'
      BY AwakeIfOver, PTL
    <2> QED
      BY <1>00, <2>2, <2>3, <2>4
  <1> QED
    BY <1>1, <1>2, <1>3, <1>4, <1>5, <1>6, <1>7, <1>8, <1>9 DEF ThreadStep


\* Every step keeps the invariant.
LEMMA AwakeStep ==
  ASSUME SafetyInv, AwakeInv, DeclaredInOrder, [Next]_vars
  PROVE  AwakeInv'
  <1>0. TypeOK /\ InOrder /\ PairedTicks
    BY DEF SafetyInv, AwakeInv
  <1>1. \A op : Do(op).op = op /\ (Do(op) = Do(op))
    BY DEF Do, Frame
  <1>2. ASSUME NEW t \in Threads, NEW fs \in Seq(Frames), Call(t, fs)
        PROVE  Onto(t, fs) /\ \A op : ~At(t, op)
    BY <1>0, <1>2, MovesOnto DEF Call, Idle, At
  <1>3. /\ <<Do("reconcile"), Do("tick")>> \in Seq(Frames)
        /\ <<Do("reconcile"), Do("tick"), Do("complete")>> \in Seq(Frames)
        /\ <<Do("complete")>> \in Seq(Frames)
        /\ \A ids \in SUBSET Nodes : <<DoAbort(ids)>> \in Seq(Frames)
        /\ \A n \in Nodes : <<DoNode("after", n)>> \in Seq(Frames)
    BY FrameTypes, ShortStacks
  <1>4. /\ Paired(<<Do("reconcile"), Do("tick")>>)
        /\ Paired(<<Do("reconcile"), Do("tick"), Do("complete")>>)
        /\ Paired(<<Do("complete")>>)
        /\ \A ids \in SUBSET Nodes : Paired(<<DoAbort(ids)>>)
        /\ \A n \in Nodes : Paired(<<DoNode("after", n)>>)
    <2>1. /\ \A ids : DoAbort(ids).op = "abort"
          /\ \A op : Do(op).op = op
          /\ \A op, n : DoNode(op, n).op = op
      BY DEF Do, DoAbort, DoNode, Frame
    <2> QED
      BY <2>1 DEF Paired
  <1>5. ASSUME UNCHANGED <<stack, deps, status, runStatus>> PROVE AwakeInv'
    <2>1. InOrder'
      BY <1>0, <1>5 DEF InOrder
    <2>2. PairedTicks'
      BY <1>0, <1>5 DEF PairedTicks
    <2>3. \A op : Ahead(op)' <=> Ahead(op)
      BY <1>5 DEF Ahead
    <2>4. WillReconcile' = WillReconcile /\ WillTick' = WillTick
      BY <2>3 DEF WillReconcile, WillTick
    <2>5. Behind' = Behind /\ Overlooked' = Overlooked /\ Starving' = Starving
      BY <1>5 DEF Behind, Overlooked, DepsDone, Starving
    <2> QED
      BY <1>5, <2>1, <2>2, <2>4, <2>5 DEF AwakeInv
  <1>6. ASSUME NEW t \in Threads, NEW g \in Graphs, NEW ff \in FailFast, Plan(t, g, ff)
        PROVE  AwakeInv'
    <2>1. InOrder'
      BY <1>6 DEF Plan, InOrder, DeclaredInOrder
    <2>2. Onto(t, <<Do("reconcile"), Do("tick")>>)
      BY <1>2, <1>3, <1>6 DEF Plan
    <2> QED
      BY <1>0, <1>3, <1>4, <2>1, <2>2, AwakeIfPushed
  <1>7. ASSUME NEW t \in Threads, NEW ids \in SUBSET Nodes, Retry(t, ids)
        PROVE  AwakeInv'
    <2>1. InOrder'
      BY <1>0, <1>7 DEF Retry, InOrder
    <2>2. Onto(t, <<Do("reconcile"), Do("tick"), Do("complete")>>)
      BY <1>2, <1>3, <1>7 DEF Retry
    <2> QED
      BY <1>0, <1>3, <1>4, <2>1, <2>2, AwakeIfPushed
  <1>8. ASSUME NEW t \in Threads, NEW n \in Nodes, Skip(t, n)
        PROVE  AwakeInv'
    <2>1. InOrder'
      BY <1>0, <1>8 DEF Skip, InOrder
    <2>2. CASE Call(t, <<DoNode("after", n)>>)
      <3>1. Onto(t, <<DoNode("after", n)>>)
        BY <1>2, <1>3, <2>2
      <3> QED
        BY <1>0, <1>3, <1>4, <2>1, <3>1, AwakeIfPushed
    <2>3. CASE jobs[n] # 0 /\ Call(t, <<DoToken("token", n, jobs[n]), DoNode("after", n)>>)
      <3> DEFINE k == jobs[n]
                 fs == <<DoToken("token", n, k), DoNode("after", n)>>
      <3>1. k \in Nat
        BY <1>0 DEF TypeOK
      <3>2. fs \in Seq(Frames)
        BY <3>1, FrameTypes, ShortStacks
      <3>3. Paired(fs)
        <4>1. DoToken("token", n, k).op = "token" /\ DoNode("after", n).op = "after"
          BY DEF DoToken, DoNode, Frame
        <4> QED
          BY <4>1 DEF Paired
      <3>4. Onto(t, fs)
        BY <1>2, <2>3, <3>2
      <3> HIDE DEF k
      <3> QED
        BY <1>0, <2>1, <3>1, <3>2, <3>3, <3>4, AwakeIfPushed
    <2> QED
      BY <1>8, <2>2, <2>3 DEF Skip
  <1>9. ASSUME Clear PROVE AwakeInv'
    <2>1. InOrder' /\ PairedTicks' /\ Over'
      BY <1>0, <1>9 DEF Clear, InOrder, PairedTicks, Over, Registered, Closed
    <2>2. InOrder' /\ PairedTicks' /\ Over' => AwakeInv'
      BY AwakeIfOver, PTL
    <2> QED
      BY <2>1, <2>2
  <1>10. ASSUME NEW t \in Threads, Wait(t) PROVE AwakeInv'
    <2>1. UNCHANGED <<deps, status, runStatus>>
      BY <1>10 DEF Wait
    <2>2. Onto(t, <<Do("complete")>>) /\ \A op : ~At(t, op)
      BY <1>2, <1>3, <1>10 DEF Wait
    <2> QED
      BY <1>0, <1>3, <1>4, <2>1, <2>2, AwakeIfQuiet
  <1>11. ASSUME NEW j \in tasks, TaskEnds(j) PROVE AwakeInv'
    BY <1>5, <1>11 DEF TaskEnds, TaskAborted, TaskFinished
  <1>12. ASSUME NEW j \in tasks, NEW t \in Threads, TaskReports(j, t)
         PROVE  AwakeInv'
    <2> DEFINE f == DoReport(j.node, j.tok, j.res)
               fs == <<f>>
    <2>1. UNCHANGED <<deps, status, runStatus>>
      BY <1>12 DEF TaskReports
    <2>2. j \in Tasks
      BY <1>0 DEF TypeOK
    <2>3. fs \in Seq(Frames)
      BY <2>2, FrameTypes, ShortStacks DEF Tasks
    <2>4. Paired(fs)
      <3>1. f.op = "completed"
        BY DEF DoReport, Frame
      <3> HIDE DEF f
      <3> QED
        BY <3>1 DEF Paired
    <2>5. Call(t, fs)
      BY <1>12 DEF TaskReports
    <2> HIDE DEF fs
    <2>6. Onto(t, fs) /\ \A op : ~At(t, op)
      BY <1>2, <2>3, <2>5
    <2> QED
      BY <1>0, <2>1, <2>3, <2>4, <2>6, AwakeIfQuiet
  <1>13. ASSUME Save PROVE AwakeInv'
    BY <1>5, <1>13 DEF Save
  <1>14. ASSUME Crash PROVE AwakeInv'
    <2>1. \A t \in Threads : stack'[t] = <<>>
      BY <1>14 DEF Crash
    <2>2. InOrder' /\ PairedTicks' /\ Over'
      BY <1>0, <1>14, <2>1 DEF Crash, InOrder, PairedTicks, Paired, Over, Registered, Closed
    <2>3. InOrder' /\ PairedTicks' /\ Over' => AwakeInv'
      BY AwakeIfOver, PTL
    <2> QED
      BY <2>2, <2>3
  <1>15. ASSUME NEW t \in Threads, Restore(t) PROVE AwakeInv'
    <2>1. InOrder'
      BY <1>0, <1>15 DEF Restore, InOrder
    <2>2. Onto(t, <<Do("reconcile"), Do("tick")>>)
      BY <1>2, <1>3, <1>15 DEF Restore
    <2> QED
      BY <1>0, <1>3, <1>4, <2>1, <2>2, AwakeIfPushed
  <1>16. ASSUME NEW t \in Threads, CancelRun(t) PROVE AwakeInv'
    <2>1. RunningNodes \in SUBSET Nodes
      BY DEF RunningNodes
    <2>2. Onto(t, <<DoAbort(RunningNodes)>>)
      BY <1>2, <1>3, <1>16, <2>1 DEF CancelRun
    <2>3. PairedTicks'
      BY <1>0, <1>3, <1>4, <2>1, <2>2, AheadKept
    <2>4. InOrder' /\ Over'
      BY <1>0, <1>16 DEF CancelRun, CancelNodes, InOrder, Over, Terminal, Blocked, Registered, Closed
    <2>5. InOrder' /\ PairedTicks' /\ Over' => AwakeInv'
      BY AwakeIfOver, PTL
    <2> QED
      BY <2>3, <2>4, <2>5
  <1>17. CASE UNCHANGED vars
    BY <1>5, <1>17 DEF vars
  <1> QED
    BY <1>6, <1>7, <1>8, <1>9, <1>10, <1>11, <1>12, <1>13, <1>14, <1>15, <1>16,
       <1>17, AwakeThreadStep DEF Next

\* It holds in every run whose dependencies are declared in order.
LEMMA AwakeHolds == ASSUME DeclaredInOrder PROVE Spec => []AwakeInv
  <1>1. Init => AwakeInv
    <2>1. Init => InOrder /\ PairedTicks /\ Over
      BY DEF Init, InOrder, PairedTicks, Paired, Over, Registered, Closed
    <2> QED
      BY <2>1, AwakeIfOver
  <1>2. SafetyInv /\ AwakeInv /\ [Next]_vars => AwakeInv'
    BY AwakeStep
  <1> QED
    BY <1>1, <1>2, Safety, PTL DEF Spec

\* No call is in progress.
NoCalls == \A t \in Threads : Idle(t)

\* Nothing is ahead then.
LEMMA NoCallsAhead == NoCalls => \A op : ~Ahead(op)
  BY DEF NoCalls, Idle, Ahead

\* A failure reaches everything downstream: when no call is in progress no
\* waiting node is left behind a failed or cancelled dependency, whatever
\* clients retry, skip, cancel and clear while jobs report and the daemon
\* crashes, for runs whose nodes are declared after their dependencies.
THEOREM FailuresCascade == ASSUME DeclaredInOrder PROVE Spec => []BlockedCascades
  <1>1. AwakeInv => BlockedCascades
    <2> SUFFICES ASSUME AwakeInv, runStatus \in Registered, NoCalls,
                        NEW n \in Nodes, NEW d \in deps[n],
                        status[d] \in Blocked, status[n] \in Waiting
                 PROVE  FALSE
      BY DEF BlockedCascades, NoCalls
    <2>1. Behind
      BY DEF Behind
    <2> QED
      BY <2>1, NoCallsAhead DEF AwakeInv, WillReconcile
  <1> QED
    BY <1>1, AwakeHolds, PTL

-----------------------------------------------------------------------------
(***************************************************************************)
(* No run is stuck.  With nobody to cancel the run and no crash, a run that*)
(* has come to its end has the section ahead that closes it.               *)
(***************************************************************************)

\* Every node has ended.
Finished == \A n \in Nodes : status[n] \in Terminal

ClosingInv ==
  /\ runStatus # "Down"
  /\ runStatus \in Registered /\ Behind => Ahead("after") \/ Closing
  /\ runStatus = "Running" /\ Finished => Ahead("after") \/ Ahead("complete")

\* Who will reconcile and look will look.
LEMMA ClosingLooks == Closing => Ahead("complete")
  BY DEF Closing, Ahead

\* A step that leaves no node behind and finishes no run keeps what was ahead.
LEMMA ClosingIfQuiet ==
  ASSUME TypeOK, PairedTicks, ClosingInv, NEW t \in Threads, NEW fs \in Seq(Frames),
         Onto(t, fs), Paired(fs), runStatus' # "Down",
         ~At(t, "reconcile"), ~At(t, "after"),
         runStatus' \in Registered /\ Behind' => runStatus \in Registered /\ Behind,
         runStatus' = "Running" /\ Finished' =>
           runStatus = "Running" /\ Finished /\ ~At(t, "complete")
  PROVE  ClosingInv'
  <1>1. /\ \A op : Ahead(op) /\ ~At(t, op) => Ahead(op)'
        /\ Closing => Closing'
    BY AheadKept
  <1> QED
    BY <1>1 DEF ClosingInv

\* A step that leaves a node's end ahead, or a look at the run after a
\* reconcile, satisfies everyone.
LEMMA ClosingIfPushed ==
  ASSUME TypeOK, PairedTicks, NEW t \in Threads, NEW fs \in Seq(Frames),
         Onto(t, fs), Paired(fs), runStatus' # "Down",
         \/ fs = <<Do("reconcile"), Do("tick"), Do("complete")>>
         \/ \E n \in Nodes : fs = <<DoNode("after", n)>>
         \/ \E n \in Nodes, k \in Nat : fs = <<DoToken("token", n, k), DoNode("after", n)>>
  PROVE  ClosingInv'
  <1>1. /\ \A i \in 1..Len(fs) : Ahead(fs[i].op)'
        /\ \A i \in 1..Len(fs) :
             i + 2 \in 1..Len(fs) /\ fs[i].op = "reconcile" /\ fs[i + 2].op = "complete"
               => Closing'
    BY AheadKept
  <1>2. \A op, n : Do(op).op = op /\ DoNode(op, n).op = op
    BY DEF Do, DoNode, Frame
  <1>3. Closing' => Ahead("complete")'
    BY ClosingLooks, PTL
  <1>4. CASE fs = <<Do("reconcile"), Do("tick"), Do("complete")>>
    <2>1. /\ 1 \in 1..Len(fs) /\ 1 + 2 \in 1..Len(fs)
          /\ fs[1].op = "reconcile" /\ fs[1 + 2].op = "complete"
      BY <1>2, <1>4
    <2>2. Closing'
      BY <1>1, <2>1
    <2> QED
      BY <1>3, <2>2 DEF ClosingInv
  <1>5. ASSUME NEW n \in Nodes, fs = <<DoNode("after", n)>>
        PROVE  Ahead("after")'
    <2>1. 1 \in 1..Len(fs) /\ fs[1] = DoNode("after", n)
      BY <1>5
    <2> QED
      BY <1>1, <1>2, <2>1
  <1>6. ASSUME NEW n \in Nodes, NEW k \in Nat,
               fs = <<DoToken("token", n, k), DoNode("after", n)>>
        PROVE  Ahead("after")'
    <2>1. 2 \in 1..Len(fs) /\ fs[2] = DoNode("after", n)
      BY <1>6
    <2> QED
      BY <1>1, <1>2, <2>1
  <1> QED
    BY <1>4, <1>5, <1>6 DEF ClosingInv

\* A pass that finishes the run finds a node behind a blocked one.
LEMMA PassFinishes ==
  ASSUME TypeOK, status' = Reconcile(deps, status), Finished'
  PROVE  Finished \/ Behind
  <1>1. CASE Cascaded(deps, status) = {}
    <2>1. \A n \in Nodes : status'[n] \in {"Ready", "Pending", status[n]}
                           /\ (status[n] \in Waiting => status'[n] \in Waiting)
      BY <1>1, ReconcileEffect DEF Waiting
    <2>2. \A n \in Nodes : status[n] \notin Waiting => status'[n] = status[n]
      BY ReconcileEffect
    <2> QED
      BY <2>1, <2>2 DEF Finished, Waiting, Terminal, Done, Blocked
  <1>2. CASE Cascaded(deps, status) # {}
    BY <1>2, CascadeStartsBehind DEF Behind
  <1> QED
    BY <1>1, <1>2

\* Every section of a call keeps the invariant.
LEMMA ClosingThreadStep ==
  ASSUME SafetyInv, NoCancelling, AwakeInv, ClosingInv, NEW t \in Threads, ThreadStep(t)
  PROVE  ClosingInv'
  <1>0. TypeOK /\ InOrder /\ PairedTicks /\ runStatus # "Down" /\ failFast = "off"
    BY DEF SafetyInv, AwakeInv, ClosingInv, NoCancelling
  <1>1. ASSUME NEW op \in {"reconcile", "tick", "start", "launch", "completed",
                           "after", "complete", "cancel", "abort", "token"},
               At(t, op), NEW other, other # op
        PROVE  ~At(t, other)
    BY <1>1 DEF At
  <1>2. ~At(t, "cancel") /\ ~At(t, "abort")
    <2> SUFFICES ASSUME stack[t] # <<>> PROVE Head(stack[t]).op \notin {"cancel", "abort"}
      BY DEF At
    <2>1. stack[t] \in Seq(Frames)
      BY <1>0 DEF TypeOK
    <2>2. Head(stack[t]) = stack[t][1] /\ 1 \in 1..Len(stack[t])
      BY <2>1
    <2> QED
      BY <2>2 DEF NoCancelling
  <1>3. /\ \A fs : Plain(fs) => fs \in Seq(Frames)
        /\ \A op : At(t, op) /\ Return(t) => Onto(t, <<>>)
        /\ \A op, fs : At(t, op) /\ Replace(t, fs) => Onto(t, fs)
        /\ <<>> \in Seq(Frames) /\ Paired(<<>>)
    BY <1>0, MovesOnto, PlainStacks, PairedStacks DEF Plain
  <1>4. ASSUME NEW op \in {"tick", "start", "launch", "completed", "token"}, At(t, op),
               NEW fs \in Seq(Frames), Onto(t, fs), Paired(fs),
               UNCHANGED <<deps, status, runStatus>>
        PROVE  ClosingInv'
    <2>1. (Behind' <=> Behind) /\ (Finished' <=> Finished)
      BY <1>4 DEF Behind, Finished
    <2> QED
      BY <1>0, <1>1, <1>4, <2>1, ClosingIfQuiet
  <1>5. CASE ReconcileStep(t)
    <2>1. /\ At(t, "reconcile") /\ Onto(t, <<>>) /\ UNCHANGED <<deps, runStatus>>
      BY <1>3, <1>5 DEF ReconcileStep
    <2>2. /\ \A op : Ahead(op) /\ ~At(t, op) => Ahead(op)'
      BY <1>0, <1>3, <2>1, AheadKept
    <2>3. ~At(t, "after") /\ ~At(t, "complete")
      BY <1>1, <2>1
    <2>4. CASE runStatus \in Registered
      <3>1. status' = Reconcile(deps, status)
        BY <1>5, <2>4 DEF ReconcileStep
      <3>2. ~Behind'
        BY <1>0, <2>1, <3>1, ReconcileCatchesUp
      <3>3. runStatus = "Running" /\ Finished' => Ahead("after") \/ Ahead("complete")
        BY <1>0, <3>1, <2>4, PassFinishes, ClosingLooks DEF ClosingInv
      <3> QED
        BY <1>0, <2>1, <2>2, <2>3, <3>2, <3>3 DEF ClosingInv
    <2>5. CASE runStatus \notin Registered
      BY <1>0, <2>1, <2>5 DEF ClosingInv, Registered
    <2> QED
      BY <2>4, <2>5
  <1>6. CASE TickStep(t)
    <2>1. /\ At(t, "tick") /\ UNCHANGED <<deps, status, runStatus>>
          /\ Top(t) \in Frames /\ Top(t).op = "tick"
      BY <1>0, <1>6, TopFrame DEF TickStep
    <2>2. ASSUME NEW n \in Nodes, Onto(t, <<DoNode("start", n), Top(t)>>)
          PROVE  ClosingInv'
      <3>1. DoNode("start", n) \in Frames /\ DoNode("start", n).op = "start"
        BY FrameTypes DEF DoNode, Frame
      <3>2. /\ <<DoNode("start", n), Top(t)>> \in Seq(Frames)
            /\ Paired(<<DoNode("start", n), Top(t)>>)
        BY <2>1, <3>1, ShortStacks, PairedStacks
      <3> QED
        BY <1>4, <2>1, <2>2, <3>2
    <2>3. \/ Onto(t, <<>>)
          \/ \E n \in Nodes : Onto(t, <<DoNode("start", n), Top(t)>>)
      BY <1>0, <1>6, MovesOnto DEF TickStep
    <2> QED
      BY <1>3, <1>4, <2>1, <2>2, <2>3
  <1>7. CASE StartStep(t)
    <2> DEFINE n == Top(t).node
    <2>1. At(t, "start") /\ n \in Nodes /\ runStatus' = runStatus /\ deps' = deps
      BY <1>0, <1>7, TopNode DEF StartStep
    <2>2. CASE Onto(t, <<>>) /\ status' = status
      BY <1>3, <1>4, <2>1, <2>2
    <2>3. CASE /\ Onto(t, <<DoToken("launch", n, gen[n] + 1)>>)
               /\ status[n] = "Ready" /\ status' = [status EXCEPT ![n] = "Running"]
      <3> DEFINE f == DoToken("launch", n, gen[n] + 1)
      <3>1. f \in Frames /\ f.op = "launch"
        <4>1. gen[n] + 1 \in Nat
          BY <1>0, <2>1 DEF TypeOK
        <4> QED
          BY <2>1, <4>1, FrameTypes DEF DoToken, Frame
      <3>2. <<f>> \in Seq(Frames) /\ Paired(<<f>>)
        <4> HIDE DEF f
        <4> QED
          BY <3>1, ShortStacks, PairedStacks
      <3>3. \A m \in Nodes : /\ status'[m] \in Waiting => status[m] \in Waiting
                             /\ status'[m] \in Blocked => status[m] \in Blocked
        BY <1>0, <2>1, <2>3 DEF TypeOK, Waiting, Blocked
      <3>4. Behind' => Behind
        BY <1>0, <2>1, <3>3 DEF Behind, TypeOK
      <3>5. ~Finished'
        BY <1>0, <2>1, <2>3 DEF Finished, TypeOK, Terminal, Done, Blocked
      <3>6. Onto(t, <<f>>)
        BY <2>3
      <3> HIDE DEF f
      <3> QED
        BY <1>0, <1>1, <2>1, <3>2, <3>4, <3>5, <3>6, ClosingIfQuiet
    <2>4. \/ Onto(t, <<>>) /\ status' = status
          \/ /\ Onto(t, <<DoToken("launch", n, gen[n] + 1)>>)
             /\ status[n] = "Ready" /\ status' = [status EXCEPT ![n] = "Running"]
      BY <1>3, <1>7 DEF StartStep
    <2> QED
      BY <2>2, <2>3, <2>4
  <1>8. CASE LaunchFails(t)
    <2> DEFINE f == DoReport(Top(t).node, Top(t).tok, "err")
    <2>1. At(t, "launch") /\ Onto(t, <<f>>) /\ UNCHANGED <<deps, status, runStatus>>
      BY <1>3, <1>8 DEF LaunchFails
    <2>2. f \in Frames /\ f.op = "completed"
      BY <1>0, <2>1, TopNode DEF DoReport, Frame, Results, Frames
    <2> HIDE DEF f
    <2>3. <<f>> \in Seq(Frames) /\ Paired(<<f>>)
      BY <2>2, ShortStacks, PairedStacks
    <2> QED
      BY <1>4, <2>1, <2>3
  <1>9. CASE LaunchDropped(t) \/ LaunchSpawns(t) \/ TokenStep(t)
    <2>1. /\ At(t, "launch") \/ At(t, "token")
          /\ Onto(t, <<>>) /\ UNCHANGED <<deps, status, runStatus>>
      BY <1>3, <1>9 DEF LaunchDropped, LaunchSpawns, TokenStep
    <2> QED
      BY <1>3, <1>4, <2>1
  <1>10. CASE CompletedStep(t)
    <2> DEFINE n == Top(t).node
    <2>1. At(t, "completed") /\ n \in Nodes /\ UNCHANGED <<deps, runStatus>>
      BY <1>0, <1>10, TopNode DEF CompletedStep
    <2>2. CASE Onto(t, <<>>) /\ status' = status
      BY <1>3, <1>4, <2>1, <2>2
    <2>3. CASE Onto(t, <<DoNode("after", n)>>)
      <3>1. DoNode("after", n) \in Frames /\ DoNode("after", n).op = "after"
        BY <2>1, FrameTypes DEF DoNode, Frame
      <3>2. /\ <<DoNode("after", n)>> \in Seq(Frames)
            /\ Paired(<<DoNode("after", n)>>)
        BY <3>1, ShortStacks, PairedStacks
      <3> HIDE DEF n
      <3> QED
        BY <1>0, <2>1, <2>3, <3>2, ClosingIfPushed
    <2>4. \/ Onto(t, <<>>) /\ status' = status
          \/ Onto(t, <<DoNode("after", n)>>)
      BY <1>3, <1>10 DEF CompletedStep
    <2> QED
      BY <2>2, <2>3, <2>4
  <1>11. CASE AfterStep(t)
    <2>1. CASE runStatus \notin Registered
      <3>1. runStatus' = runStatus
        BY <1>11 DEF AfterStep
      <3> QED
        BY <1>0, <2>1, <3>1 DEF ClosingInv, Registered
    <2>2. CASE runStatus \in Registered
      <3>1. Onto(t, <<Do("reconcile"), Do("tick"), Do("complete")>>) /\ runStatus' = runStatus
        BY <1>0, <1>3, <1>11, <2>2 DEF AfterStep
      <3> QED
        BY <1>0, <1>3, <3>1, ClosingIfPushed, PairedStacks, PlainStacks
    <2> QED
      BY <2>1, <2>2
  <1>12. CASE CompleteStep(t)
    <2>1. /\ At(t, "complete") /\ Onto(t, <<>>) /\ UNCHANGED <<deps, status>>
          /\ runStatus' = runStatus \/ (runStatus = "Running" /\ runStatus' \in Closed)
          /\ runStatus = "Running" /\ Finished => runStatus' \in Closed
      BY <1>3, <1>12 DEF CompleteStep, Closed, Finished
    <2>2. (Behind' <=> Behind) /\ (Finished' <=> Finished)
      BY <2>1 DEF Behind, Finished
    <2>3. ~At(t, "reconcile") /\ ~At(t, "after")
      BY <1>1, <2>1
    <2>4. ~(runStatus' = "Running" /\ Finished')
      BY <2>1, <2>2 DEF Closed
    <2>5. /\ runStatus' \in Registered /\ Behind' => runStatus \in Registered /\ Behind
          /\ runStatus' # "Down"
      BY <1>0, <2>1, <2>2 DEF Registered, Closed
    <2> QED
      BY <1>0, <1>3, <2>1, <2>3, <2>4, <2>5, ClosingIfQuiet
  <1>13. CASE CancelStep(t) \/ AbortStep(t)
    BY <1>2, <1>13 DEF CancelStep, AbortStep
  <1> QED
    BY <1>5, <1>6, <1>7, <1>8, <1>9, <1>10, <1>11, <1>12, <1>13 DEF ThreadStep

\* Every step keeps the invariant, without crashes and cancellation.
LEMMA ClosingStep ==
  ASSUME SafetyInv, NoCancelling, AwakeInv, ClosingInv, NoCancellation,
         "crash" \notin OpKinds, [Next]_vars
  PROVE  ClosingInv'
  <1>0. TypeOK /\ PairedTicks /\ runStatus # "Down"
    BY DEF SafetyInv, AwakeInv, ClosingInv
  <1>1. ASSUME NEW t \in Threads, NEW fs \in Seq(Frames), Call(t, fs)
        PROVE  Onto(t, fs) /\ \A op : ~At(t, op)
    BY <1>0, <1>1, MovesOnto DEF Call, Idle, At
  <1>2. /\ <<Do("reconcile"), Do("tick")>> \in Seq(Frames)
        /\ <<Do("reconcile"), Do("tick"), Do("complete")>> \in Seq(Frames)
        /\ <<Do("complete")>> \in Seq(Frames)
        /\ \A n \in Nodes : <<DoNode("after", n)>> \in Seq(Frames)
    BY FrameTypes, ShortStacks
  <1>3. /\ Paired(<<Do("reconcile"), Do("tick")>>)
        /\ Paired(<<Do("reconcile"), Do("tick"), Do("complete")>>)
        /\ Paired(<<Do("complete")>>)
        /\ \A n \in Nodes : Paired(<<DoNode("after", n)>>)
    <2>1. /\ \A op : Do(op).op = op
          /\ \A op, n : DoNode(op, n).op = op
      BY DEF Do, DoNode, Frame
    <2> QED
      BY <2>1 DEF Paired
  <1>4. ASSUME UNCHANGED <<stack, deps, status, runStatus>> PROVE ClosingInv'
    <2>1. \A op : Ahead(op)' <=> Ahead(op)
      BY <1>4 DEF Ahead
    <2>2. /\ Closing' <=> Closing
          /\ Behind' <=> Behind
          /\ Finished' <=> Finished
      BY <1>4 DEF Closing, Behind, Finished
    <2> QED
      BY <1>4, <2>1, <2>2 DEF ClosingInv
  <1>5. ASSUME NEW t \in Threads, NEW g \in Graphs, NEW ff \in FailFast, Plan(t, g, ff)
        PROVE  ClosingInv'
    <2>1. \A n \in Nodes : status'[n] = "Pending"
      BY <1>5 DEF Plan, SafetyInv, SnapshotSound
    <2>2. ~Behind'
      <3>1. \A n \in Nodes : deps'[n] \subseteq Nodes
        BY <1>5 DEF Plan, ValidateGraph
      <3> QED
        BY <2>1, <3>1 DEF Behind, Blocked
    <2>3. ~Finished'
      <3>1. 1 \in Nodes
        BY NAssumption DEF Nodes
      <3> QED
        BY <2>1, <3>1 DEF Finished, Terminal, Done, Blocked
    <2> QED
      BY <1>5, <2>2, <2>3 DEF ClosingInv, Plan
  <1>6. ASSUME NEW t \in Threads, NEW ids \in SUBSET Nodes, Retry(t, ids)
        PROVE  ClosingInv'
    <2>1. Onto(t, <<Do("reconcile"), Do("tick"), Do("complete")>>) /\ runStatus' # "Down"
      BY <1>1, <1>2, <1>6 DEF Retry
    <2> QED
      BY <1>0, <1>2, <1>3, <2>1, ClosingIfPushed
  <1>7. ASSUME NEW t \in Threads, NEW n \in Nodes, Skip(t, n)
        PROVE  ClosingInv'
    <2>1. runStatus' # "Down"
      BY <1>7 DEF Skip
    <2>2. CASE Call(t, <<DoNode("after", n)>>)
      <3>1. Onto(t, <<DoNode("after", n)>>)
        BY <1>1, <1>2, <2>2
      <3> QED
        BY <1>0, <1>2, <1>3, <2>1, <3>1, ClosingIfPushed
    <2>3. CASE Call(t, <<DoToken("token", n, jobs[n]), DoNode("after", n)>>)
      <3> DEFINE k == jobs[n]
                 fs == <<DoToken("token", n, k), DoNode("after", n)>>
      <3>1. k \in Nat
        BY <1>0 DEF TypeOK
      <3>2. fs \in Seq(Frames)
        BY <3>1, FrameTypes, ShortStacks
      <3>3. Paired(fs)
        <4>1. DoToken("token", n, k).op = "token" /\ DoNode("after", n).op = "after"
          BY DEF DoToken, DoNode, Frame
        <4> QED
          BY <4>1 DEF Paired
      <3>4. Onto(t, fs)
        BY <1>1, <2>3, <3>2
      <3> HIDE DEF k
      <3> QED
        BY <1>0, <2>1, <3>1, <3>2, <3>3, <3>4, ClosingIfPushed
    <2> QED
      BY <1>7, <2>2, <2>3 DEF Skip
  <1>8. ASSUME Clear PROVE ClosingInv'
    BY <1>8 DEF Clear, ClosingInv, Registered, Closed
  <1>9. ASSUME NEW t \in Threads, NEW fs \in Seq(Frames), Call(t, fs), Paired(fs),
               UNCHANGED <<deps, status, runStatus>>
        PROVE  ClosingInv'
    <2>1. Onto(t, fs) /\ \A op : ~At(t, op)
      BY <1>1, <1>9
    <2>2. (Behind' <=> Behind) /\ (Finished' <=> Finished)
      BY <1>9 DEF Behind, Finished
    <2> QED
      BY <1>0, <1>9, <2>1, <2>2, ClosingIfQuiet
  <1>10. ASSUME NEW t \in Threads, Wait(t) PROVE ClosingInv'
    BY <1>2, <1>3, <1>9, <1>10 DEF Wait
  <1>11. ASSUME NEW j \in tasks, TaskEnds(j) PROVE ClosingInv'
    BY <1>4, <1>11 DEF TaskEnds, TaskAborted, TaskFinished
  <1>12. ASSUME NEW j \in tasks, NEW t \in Threads, TaskReports(j, t)
         PROVE  ClosingInv'
    <2> DEFINE f == DoReport(j.node, j.tok, j.res)
               fs == <<f>>
    <2>1. UNCHANGED <<deps, status, runStatus>>
      BY <1>12 DEF TaskReports
    <2>2. j \in Tasks
      BY <1>0 DEF TypeOK
    <2>3. fs \in Seq(Frames)
      BY <2>2, FrameTypes, ShortStacks DEF Tasks
    <2>4. Paired(fs)
      <3>1. f.op = "completed"
        BY DEF DoReport, Frame
      <3> HIDE DEF f
      <3> QED
        BY <3>1 DEF Paired
    <2>5. Call(t, fs)
      BY <1>12 DEF TaskReports
    <2> HIDE DEF fs
    <2> QED
      BY <1>9, <2>1, <2>3, <2>4, <2>5
  <1>13. ASSUME Save PROVE ClosingInv'
    BY <1>4, <1>13 DEF Save
  <1>14. ASSUME Crash PROVE ClosingInv'
    BY <1>14 DEF Crash, Intervene
  <1>15. ASSUME NEW t \in Threads, Restore(t) PROVE ClosingInv'
    BY <1>0, <1>15 DEF Restore
  <1>16. ASSUME NEW t \in Threads, CancelRun(t) PROVE ClosingInv'
    BY <1>16 DEF CancelRun, Intervene, NoCancellation
  <1>17. CASE UNCHANGED vars
    BY <1>4, <1>17 DEF vars
  <1> QED
    BY <1>5, <1>6, <1>7, <1>8, <1>10, <1>11, <1>12, <1>13, <1>14, <1>15, <1>16,
       <1>17, ClosingThreadStep DEF Next

\* It holds in every run of that kind.
LEMMA ClosingHolds ==
  ASSUME DeclaredInOrder, NoCancellation, "crash" \notin OpKinds
  PROVE  Spec => []ClosingInv
  <1>1. Init => ClosingInv
    BY DEF Init, ClosingInv, Registered, Closed
  <1>2. SafetyInv /\ JobInv /\ AwakeInv /\ ClosingInv /\ [Next]_vars => ClosingInv'
    BY ClosingStep DEF JobInv
  <1> QED
    BY <1>1, <1>2, Safety, JobInvHolds, AwakeHolds, PTL DEF Spec

\* An unfinished run without a running node has a ready one or overlooks one,
\* unless something waits behind a blocked node.
LEMMA FirstUnfinished ==
  ASSUME TypeOK, InOrder, ~Finished, ~Behind, ~Overlooked, runStatus = "Running",
         \A n \in Nodes : status[n] # "Running"
  PROVE  Starving
  <1> DEFINE W == {n \in Nodes : status[n] \notin Terminal}
  <1>1. W \in SUBSET Nat /\ W # {}
    BY DEF Finished, Nodes
  <1>2. PICK n \in W : \A m \in W : n <= m
    <2> HIDE DEF W
    <2> QED
      BY <1>1, LeastNumber
  <1>3. status[n] \in Waiting
    BY DEF TypeOK, Statuses, Terminal, Done, Blocked, Waiting
  <1>4. DepsDone(deps, status, n)
    <2> SUFFICES ASSUME NEW d \in deps[n] \cap Nodes PROVE status[d] \in Done
      BY DEF DepsDone
    <2>1. d < n /\ ~ (n <= d)
      BY DEF InOrder, Nodes
    <2>2. status[d] \in Terminal
      BY <1>2, <2>1
    <2>3. status[d] \notin Blocked
      BY <1>3 DEF Behind
    <2> QED
      BY <2>2, <2>3 DEF Terminal
  <1>5. status[n] = "Ready"
    BY <1>3, <1>4 DEF Overlooked, Waiting
  <1> QED
    BY <1>5 DEF Starving

\* The engine is never stuck: when no call is in progress a run that is still
\* Running has a job in flight that will report, however clients retry, skip,
\* clear and wait, for runs whose nodes are declared after their dependencies,
\* as long as nobody cancels the run as a whole and the daemon does not crash.
THEOREM EngineNeverStuck ==
  ASSUME DeclaredInOrder, NoCancellation, "crash" \notin OpKinds
  PROVE  Spec => []NeverStuck
  <1>1. SafetyInv /\ JobTableExact /\ AwakeInv /\ ClosingInv => NeverStuck
    <2> SUFFICES ASSUME SafetyInv, JobTableExact, AwakeInv, ClosingInv,
                        runStatus = "Running", NoCalls
                 PROVE  \E n \in Nodes : status[n] = "Running" /\ InFlight(n, jobs[n])
      BY DEF NeverStuck, NoCalls
    <2>1. \A op : ~Ahead(op)
      BY NoCallsAhead
    <2>2. ~Behind /\ ~Overlooked /\ ~Starving /\ InOrder
      BY <2>1 DEF AwakeInv, WillReconcile, WillTick, Registered
    <2>3. ~Finished
      BY <2>1 DEF ClosingInv
    <2>4. PICK n \in Nodes : status[n] = "Running"
      BY <2>2, <2>3, FirstUnfinished DEF SafetyInv
    <2> QED
      BY <2>4 DEF JobTableExact
  <1> QED
    BY <1>1, Safety, JobTableIsExact, AwakeHolds, ClosingHolds, PTL

=============================================================================
