---------------------------- MODULE SubagentRun ----------------------------
(***************************************************************************)
(* run_agent (multiagent/runner.rs): one subagent from registration to its *)
(* report.  The prompt runs in a task of its own (AgentLoop); a watcher    *)
(* turns the caller's cancellation into an abort of the agent, an idle     *)
(* watchdog aborts an agent that makes no progress and, after a grace      *)
(* period, has its task dropped; clients steer and interrupt the agent     *)
(* through the job registry.  The other jobs are runs of the same code,    *)
(* seen through the registry they share.                                   *)
(*                                                                         *)
(* Time is abstracted: the idle timeout may pass at any moment between two *)
(* events of the agent, and the grace period may end at any moment.        *)
(***************************************************************************)
EXTENDS AgentLoop, JobRegistry

CONSTANTS
  Self,      \* the job of this run
  Steers     \* bound on the steering messages clients send

\* Message 0 is the prompt, the steering messages are numbered as they come.
Prompt == 0

ASSUME RunAssumption == /\ Self \in Jobs
                        /\ Steers \in Nat
                        /\ Messages = 0..Steers

VARIABLES
  runner,     \* where run_agent stands
  task,       \* the task that polls the prompt
  watcher,    \* the task that waits for the caller's cancellation
  watchdog,   \* the idle watchdog's task
  outer,      \* the caller cancelled
  timedOut,   \* the select took the watchdog's signal
  killed,     \* handle.abort() was called
  verdict,    \* the result run_agent reports, once it has one
  held,       \* the control handle a client has cloned and will call
  sent,       \* number of steering messages sent so far
  active      \* last_activity: an event since the watchdog last looked

runnerVars == <<runner, task, watcher, watchdog, outer, timedOut, killed,
                verdict, held, sent>>

runVars == <<runnerVars, active>>

vars == <<loopVars, registryVars, runVars>>

TypeOK ==
  /\ LoopTypeOK
  /\ RegistryTypeOK
  /\ runner \in {"new", "registered", "attached", "waiting", "grace", "joining",
                 "reporting", "finishing"}
  /\ task \in {"none", "spawned", "running", "finished", "dropped"}
  /\ watcher \in {"none", "armed", "done"}
  /\ watchdog \in {"none", "off", "armed", "aborting", "fired", "stopped"}
  /\ outer \in BOOLEAN
  /\ timedOut \in BOOLEAN
  /\ killed \in BOOLEAN
  /\ verdict \in {"none", "ok", "interrupted", "error"}
  /\ held \in {"none", "steer", "interrupt"}
  /\ sent \in 0..Steers
  /\ active \in BOOLEAN

Init ==
  /\ LoopInit
  /\ RegistryInit
  /\ runner = "new" /\ task = "none" /\ watcher = "none" /\ watchdog = "none"
  /\ outer = FALSE /\ timedOut = FALSE /\ killed = FALSE
  /\ verdict = "none" /\ held = "none"
  /\ sent = 0
  /\ active = FALSE

(***************************************************************************)
(* The prompt's task.                                                      *)
(***************************************************************************)
\* Any event of the agent puts the watchdog's deadline off.
Heard == active' = TRUE

TaskBegins ==
  /\ task = "spawned"
  /\ BeginRun(<<Prompt>>)
  /\ task' = "running"
  /\ Heard
  /\ UNCHANGED <<registryVars, runner, watcher, watchdog, outer, timedOut,
                 killed, verdict, held, sent>>

TaskRuns ==
  task = "running" /\ RunStep /\ Heard /\ UNCHANGED <<registryVars, runnerVars>>

\* A reply that streams, or a tool that reports progress, is activity although
\* the run gets no further.
Streams ==
  /\ task = "running"
  /\ CallLive \/ loop = "tools"
  /\ Heard
  /\ UNCHANGED <<loopVars, registryVars, runnerVars>>

TaskFinishes ==
  /\ task = "running"
  /\ loop = "idle"
  /\ task' = "finished"
  /\ UNCHANGED <<loopVars, registryVars, runner, watcher, watchdog, outer,
                 timedOut, killed, verdict, held, sent, active>>

\* The aborted task is dropped at the next point where it waits.
TaskDropped ==
  /\ killed
  /\ task \in {"spawned", "running"}
  /\ IF loop = "idle" THEN UNCHANGED loopVars ELSE DropRun
  /\ task' = "dropped"
  /\ UNCHANGED <<registryVars, runner, watcher, watchdog, outer, timedOut,
                 killed, verdict, held, sent, active>>

(***************************************************************************)
(* The watcher and the watchdog.                                           *)
(***************************************************************************)
AbortAgent ==
  /\ AbortRun
  /\ UNCHANGED <<loop, turnCancel, queueVars, batch, transcript, iterations,
                 unanswered, outcome>>

CallerCancels ==
  /\ ~outer
  /\ outer' = TRUE
  /\ UNCHANGED <<loopVars, registryVars, runner, task, watcher, watchdog,
                 timedOut, killed, verdict, held, sent, active>>

WatcherFires ==
  /\ watcher = "armed"
  /\ outer
  /\ AbortAgent
  /\ watcher' = "done"
  /\ UNCHANGED <<registryVars, runner, task, watchdog, outer, timedOut, killed,
                 verdict, held, sent, active>>

\* The deadline follows the last event: the watchdog sleeps on.
WatchdogWaits ==
  /\ watchdog = "armed"
  /\ active
  /\ active' = FALSE
  /\ UNCHANGED <<loopVars, registryVars, runnerVars>>

WatchdogAborts ==
  /\ watchdog = "armed"
  /\ ~active
  /\ AbortAgent
  /\ watchdog' = "aborting"
  /\ UNCHANGED <<registryVars, runner, task, watcher, outer, timedOut, killed,
                 verdict, held, sent, active>>

WatchdogFires ==
  /\ watchdog = "aborting"
  /\ watchdog' = "fired"
  /\ UNCHANGED <<loopVars, registryVars, runner, task, watcher, outer, timedOut,
                 killed, verdict, held, sent, active>>

\* wd_stop is cancelled once the select is left.
WatchdogStops ==
  /\ watchdog = "armed"
  /\ runner = "joining"
  /\ watchdog' = "stopped"
  /\ UNCHANGED <<loopVars, registryVars, runner, task, watcher, outer, timedOut,
                 killed, verdict, held, sent, active>>

(***************************************************************************)
(* run_agent.                                                              *)
(***************************************************************************)
Begin ==
  /\ runner = "new"
  /\ Register(Self)
  /\ runner' = "registered"
  /\ UNCHANGED <<loopVars, task, watcher, watchdog, outer, timedOut, killed,
                 verdict, held, sent, active>>

AttachControl ==
  /\ runner = "registered"
  /\ SetControl(Self)
  /\ runner' = "attached"
  /\ UNCHANGED <<loopVars, task, watcher, watchdog, outer, timedOut, killed,
                 verdict, held, sent, active>>

\* An idle timeout of 0 turns the watchdog off.
Launch ==
  /\ runner = "attached"
  /\ runner' = "waiting"
  /\ watcher' = "armed"
  /\ task' = "spawned"
  /\ watchdog' \in {"off", "armed"}
  /\ Heard
  /\ UNCHANGED <<loopVars, registryVars, outer, timedOut, killed, verdict, held,
                 sent>>

SelectDone ==
  /\ runner = "waiting"
  /\ task = "finished"
  /\ runner' = "joining"
  /\ UNCHANGED <<loopVars, registryVars, task, watcher, watchdog, outer,
                 timedOut, killed, verdict, held, sent, active>>

\* Slip: the select is left with the run still going.
SelectFiredAtOnce ==
  /\ runner = "waiting"
  /\ watchdog = "fired"
  /\ timedOut' = TRUE
  /\ runner' = "joining"
  /\ UNCHANGED <<loopVars, registryVars, task, watcher, watchdog, outer, killed,
                 verdict, held, sent, active>>

\* Slip: the watchdog's signal waits for the run.
SelectFiredWaits ==
  /\ runner = "waiting"
  /\ watchdog = "fired"
  /\ task = "finished"
  /\ timedOut' = TRUE
  /\ runner' = "joining"
  /\ UNCHANGED <<loopVars, registryVars, task, watcher, watchdog, outer, killed,
                 verdict, held, sent, active>>

SelectFired ==
  /\ runner = "waiting"
  /\ watchdog = "fired"
  /\ timedOut' = TRUE
  /\ runner' = IF task = "finished" THEN "joining" ELSE "grace"
  /\ UNCHANGED <<loopVars, registryVars, task, watcher, watchdog, outer, killed,
                 verdict, held, sent, active>>

GraceEnds ==
  /\ runner = "grace"
  /\ killed' = (task # "finished")
  /\ runner' = "joining"
  /\ UNCHANGED <<loopVars, registryVars, task, watcher, watchdog, outer,
                 timedOut, verdict, held, sent, active>>

\* Slip: the flag is read at once.
WatchdogNotAwaited == TRUE

\* The watchdog's task is awaited before its flag is read.
WatchdogJoined == watchdog \in {"off", "fired", "stopped"}

Join ==
  /\ runner = "joining"
  /\ WatchdogJoined
  /\ verdict' = IF timedOut \/ watchdog = "fired" THEN "error"
                ELSE IF Ok(outcome) THEN "ok"
                ELSE IF outcome = "interrupted" THEN "interrupted"
                ELSE "error"
  /\ watcher' = "done"
  /\ runner' = "reporting"
  /\ UNCHANGED <<loopVars, registryVars, task, watchdog, outer, timedOut,
                 killed, held, sent, active>>

\* The caller's cancellation overrides whatever the run returned.
JobStatus == IF outer THEN "Cancelled"
             ELSE IF verdict = "ok" THEN "Succeeded"
             ELSE IF verdict = "interrupted" THEN "Interrupted"
             ELSE "Failed"

Report ==
  /\ runner = "reporting"
  /\ Stamp(Self, JobStatus)
  /\ runner' = "finishing"
  /\ UNCHANGED <<loopVars, task, watcher, watchdog, outer, timedOut, killed,
                 verdict, held, sent, active>>

FinishJob(j) == Settle(j) \/ Trim(j)

FinishSelf == FinishJob(Self) /\ UNCHANGED <<loopVars, runVars>>

Returned == finish[Self] = "done"

(***************************************************************************)
(* Clients: the handle is cloned under the lock and called outside it.     *)
(***************************************************************************)
TakeControl ==
  /\ held = "none"
  /\ Self \in control
  /\ \/ held' = "steer" /\ sent < Steers
     \/ held' = "interrupt"
  /\ UNCHANGED <<loopVars, registryVars, runner, task, watcher, watchdog, outer,
                 timedOut, killed, verdict, sent, active>>

Steer ==
  /\ held = "steer"
  /\ EnqueueSteering(sent + 1)
  /\ sent' = sent + 1
  /\ held' = "none"
  /\ UNCHANGED <<loop, activeCancel, turnCancel, followUp, batch, transcript,
                 iterations, unanswered, outcome,
                 registryVars, runner, task, watcher, watchdog, outer, timedOut,
                 killed, verdict, active>>

Interrupt ==
  /\ held = "interrupt"
  /\ InterruptTurn
  /\ held' = "none"
  /\ UNCHANGED <<loop, activeCancel, queueVars, batch, transcript, iterations,
                 unanswered, outcome, registryVars, runner, task, watcher,
                 watchdog, outer, timedOut, killed, verdict, sent, active>>

\* The runners of the other jobs; the registry treats every terminal status
\* alike.
OtherJob(j) ==
  /\ \/ Register(j)
     \/ Stamp(j, "Succeeded")
     \/ FinishJob(j)
  /\ UNCHANGED <<loopVars, runVars>>

Next ==
  \/ TaskBegins \/ TaskRuns \/ Streams \/ TaskFinishes \/ TaskDropped
  \/ CallerCancels \/ WatcherFires
  \/ WatchdogWaits \/ WatchdogAborts \/ WatchdogFires \/ WatchdogStops
  \/ Begin \/ AttachControl \/ Launch \/ SelectDone \/ SelectFired \/ GraceEnds
  \/ Join \/ Report \/ FinishSelf
  \/ TakeControl \/ Steer \/ Interrupt
  \/ \E j \in Jobs \ {Self} : OtherJob(j)

\* What the run does by itself: see LoopStep.
LoopRuns ==
  task = "running" /\ LoopStep /\ Heard /\ UNCHANGED <<registryVars, runnerVars>>

\* Tasks are scheduled, timers expire unless an event resets them, and dropped
\* tasks unwind; the provider and the tools owe nothing, and neither do the
\* clients.
Fairness ==
  /\ WF_vars(TaskBegins) /\ WF_vars(TaskFinishes) /\ WF_vars(TaskDropped)
  /\ WF_vars(LoopRuns)
  /\ WF_vars(WatcherFires)
  /\ WF_vars(WatchdogWaits) /\ WF_vars(WatchdogAborts)
  /\ WF_vars(WatchdogFires) /\ WF_vars(WatchdogStops)
  /\ WF_vars(Begin) /\ WF_vars(AttachControl) /\ WF_vars(Launch)
  /\ WF_vars(SelectDone) /\ WF_vars(SelectFired) /\ WF_vars(GraceEnds)
  /\ WF_vars(Join) /\ WF_vars(Report) /\ WF_vars(FinishSelf)

Spec == Init /\ [][Next]_vars /\ Fairness

(***************************************************************************)
(* Properties.                                                             *)
(***************************************************************************)
\* A job is reported as succeeded, or as interrupted, only if its run really
\* ended that way: a run an abort cut short also returns Ok(()), and must not
\* pass for a success, whichever of watcher, watchdog and prompt came first.
ReportIsHonest ==
  /\ status[Self] = "Succeeded" => outcome = "done"
  /\ status[Self] = "Interrupted" => outcome = "interrupted"

\* When run_agent has its result, no model call or tool of the agent is left
\* running, unless the task is being dropped after the grace period.
NoOrphanRun ==
  runner \in {"reporting", "finishing"} => loop = "idle" \/ killed

\* A run with a watchdog returns, unless its provider or a tool stays active for
\* ever: a socket or a tool that hangs, at whatever point of the run, "can't hold
\* the node job open forever", but the timeout is "NOT a wall-clock cap"
\* (runner.rs), and a reply that keeps streaming is never cut short.
RunReturns == <>[][~Streams]_vars => ((watchdog = "armed") ~> Returned)

\* "Parent/engine abort cascades to the subagent: a tiny watcher flips the
\* inner cancel when the outer one does" (runner.rs): once the watcher has
\* fired, a run that is under way is cancelled.
CancelCascades ==
  watcher = "done" /\ outer /\ runner = "waiting" /\ loop # "idle"
     => activeCancel = "cancelled"

\* Steering, as its senders see it.
Steered(q) == Only(q, Messages \ {Prompt})

Mail == INSTANCE Mailbox WITH
          Messages  <- Messages \ {Prompt},
          pending   <- Steered(batch) \o steering,
          delivered <- Steered(transcript),
          gone      <- (task = "dropped")

SteeringIsMailbox == Mail!MailSpec
=============================================================================
