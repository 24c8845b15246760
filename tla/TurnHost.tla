------------------------------ MODULE TurnHost ------------------------------
(***************************************************************************)
(* The active session of the daemon: TurnHost's event loop and its queue   *)
(* of turns (theway-daemon turn/daemon), the turn it polls (the harness of *)
(* theway-core around AgentLoop, with compaction, the turn-end hook and    *)
(* the retries of agent_session.rs), the trigger tasks that put messages   *)
(* into the same conversation, and the session log under all of them.      *)
(*                                                                         *)
(* The turn is polled by the event loop, so a command handler runs to its  *)
(* end while the turn stands at one of its awaits; trigger tasks run on    *)
(* other threads.  User messages are numbered as they come.  The record    *)
(* of a round of input stands with its message.  Left out: other sessions, *)
(* the budget cap, extensions' own messages, template turns (they run like *)
(* agent prompts), rows the storage refuses except in the handler that     *)
(* has a path for it, and the handler the event loop gives up on.          *)
(***************************************************************************)
EXTENDS AgentLoop, SessionLog

CONSTANTS
  MaxMessages,     \* bound on user messages
  MaxRetries,      \* max_retries
  MaxCompactions,  \* bound on compactions asked for or decided
  MaxCrashes,      \* bound on restarts of the daemon
  MaxRows          \* bound on the log that the hook's last decision is added to

ASSUME HostAssumption ==
  /\ MaxMessages \in Nat /\ MaxRetries \in Nat
  /\ MaxCompactions \in Nat /\ MaxCrashes \in Nat /\ MaxRows \in Nat
  /\ Messages = 0..MaxMessages
  /\ Writers = {"turn", "host", "trigger"}

VARIABLES
  queue,       \* turns waiting for the one that runs
  turn,        \* the future the event loop polls
  toLog,       \* a message in memory whose listener has still to log it
  host,        \* the command handler that is awaiting the log
  trig,        \* the trigger task
  requests,    \* main runs triggers have asked for
  hasModel,    \* a model is selected
  sent,        \* user messages so far
  compacts,    \* compactions so far
  crashes,     \* restarts so far
  forfeit,     \* messages given up on purpose, or by a documented fault
  well,        \* the last attempt at a run ended with a last reply
  raced        \* two writers have overlapped since the memory was loaded

hostVars == <<queue, turn, toLog, host, trig, requests, hasModel, sent,
              compacts, crashes, forfeit, well, raced>>

vars == <<loopVars, logVars, hostVars>>

\* Only a user prompt is retried; an agent prompt, a user prompt with images and
\* a continued conversation are plain runs.
Kinds  == {"user", "plain", "compaction"}
Stages == {"none", "prep", "summarizing", "compacting", "ready", "running",
           "hook", "noting", "parting", "backoff"}

NoPlan == [kept |-> 0, before |-> 0]

\* hand is what the next run sends; prompt what the retry policy would send again.
Turn(kind, prompt) == [stage |-> "prep", kind |-> kind, hand |-> prompt,
                       prompt |-> IF kind = "user" THEN prompt ELSE <<>>,
                       attempt |-> 0, fellBack |-> FALSE,
                       plan |-> NoPlan]

NoTurn == [Turn("plain", <<>>) EXCEPT !.stage = "none"]
Busy   == turn.stage # "none"

NoOp   == [op |-> "none", msg |-> 0]
NoTask == [step |-> "none", msg |-> 0, followUp |-> FALSE]

Turns == [stage : Stages, kind : Kinds, hand : Seq(Messages),
          prompt : Seq(Messages), attempt : 0..MaxRetries,
          fellBack : BOOLEAN, plan : [kept : Nat, before : Nat]]
Jobs  == [kind : Kinds, msg : Messages, persisted : BOOLEAN]

TypeOK ==
  /\ LoopTypeOK
  /\ LogTypeOK
  /\ queue \in Seq(Jobs)
  /\ turn \in Turns
  /\ toLog \in Messages
  /\ host \in [op : {"none", "prompt", "model"}, msg : Messages]
  /\ trig \in [step : {"none", "inject", "push", "audit"}, msg : Messages,
               followUp : BOOLEAN]
  /\ requests \in 0..MaxMessages
  /\ sent \in 0..MaxMessages
  /\ compacts \in 0..MaxCompactions
  /\ crashes \in 0..MaxCrashes
  /\ {hasModel, well, raced} \subseteq BOOLEAN
  /\ forfeit \subseteq Messages

Init ==
  /\ LoopInit /\ LogInit
  /\ queue = <<>> /\ turn = NoTurn /\ toLog = 0 /\ host = NoOp /\ trig = NoTask
  /\ requests = 0
  /\ hasModel = FALSE
  /\ sent = 0 /\ compacts = 0 /\ crashes = 0
  /\ forfeit = {} /\ well = FALSE /\ raced = FALSE

(***************************************************************************)
(* The queue of turns.                                                     *)
(***************************************************************************)
Job(kind, m, persisted) == [kind |-> kind, msg |-> m, persisted |-> persisted]

\* Slip: a queued prompt is sent whether or not it is in the log.
TurnOfPrompt(job) ==
  Turn(job.kind, IF job.kind = "compaction" THEN <<>> ELSE <<job.msg>>)

\* A user prompt the handler wrote to the log is only continued.
TurnOf(job) ==
  IF job.kind = "compaction" THEN Turn("compaction", <<>>)
  ELSE IF job.persisted THEN Turn("plain", <<>>)
  ELSE Turn(job.kind, <<job.msg>>)

\* start_next_queued_turn, with model saying whether one is selected.
StartNext(q, model) ==
  IF q # <<>> /\ model
  THEN turn' = TurnOf(Head(q)) /\ queue' = Tail(q)
  ELSE turn' = NoTurn /\ queue' = q

\* Slip: the end of a turn starts nothing.
FinishOnly == turn' = NoTurn /\ UNCHANGED queue

\* The future is ready: finish_turn.
Finish == StartNext(queue, hasModel)

(***************************************************************************)
(* Who is in the middle of putting something into memory and log.          *)
(***************************************************************************)
InFlight(w) == \/ leafRead[w] # Unread
               \/ (w = "turn" /\ toLog # 0)
               \/ (w = "trigger" /\ trig.step = "push")

Races(w) == raced' = (raced \/ \E v \in Writers \ {w} : InFlight(v))

(***************************************************************************)
(* The turn.  It is polled between command handlers.                       *)
(***************************************************************************)
Polled(stages) == turn.stage \in stages /\ host = NoOp

To(stage) == turn' = [turn EXCEPT !.stage = stage]

\* No compaction, or one that found nothing to summarise.
TurnBegins ==
  /\ Polled({"prep", "ready"})
  /\ turn.kind # "compaction"
  /\ BeginRun(turn.hand)
  /\ turn' = [turn EXCEPT !.stage = "running", !.hand = <<>>, !.plan = NoPlan]
  /\ UNCHANGED <<logVars, queue, toLog, host, trig, requests, hasModel, sent,
                 compacts, crashes, forfeit, well, raced>>

\* continue_ of an agent without messages; the error is not one to retry.
NothingToContinue ==
  /\ Polled({"prep"})
  /\ turn.kind # "compaction"
  /\ turn.hand = <<>> /\ transcript = <<>>
  /\ Finish
  /\ well' = FALSE
  /\ UNCHANGED <<loopVars, logVars, toLog, host, trig, requests, hasModel,
                 sent, compacts, crashes, forfeit, raced>>

NothingToCompact ==
  /\ Polled({"prep", "ready"})
  /\ turn.kind = "compaction"
  /\ Finish
  /\ UNCHANGED <<loopVars, logVars, toLog, host, trig, requests, hasModel,
                 sent, compacts, crashes, forfeit, well, raced>>

\* do_compact reads the branch and chooses where to cut.
Snapshot ==
  /\ Polled({"prep"})
  /\ hasModel
  /\ turn.kind # "compaction" => compacts < MaxCompactions
  /\ \E k \in CutPoints(Branch) :
       turn' = [turn EXCEPT !.stage = "summarizing",
                            !.plan = CompactionPlan(Branch, k)]
  /\ compacts' = compacts + (IF turn.kind = "compaction" THEN 0 ELSE 1)
  /\ UNCHANGED <<loopVars, logVars, queue, toLog, host, trig, requests,
                 hasModel, sent, crashes, forfeit, well, raced>>

\* The summary is there: append_compaction reads the leaf.
Summarized ==
  /\ Polled({"summarizing"})
  /\ ReadLeaf("turn")
  /\ To("compacting")
  /\ UNCHANGED <<loopVars, queue, toLog, host, trig, requests, hasModel, sent,
                 compacts, crashes, forfeit, well, raced>>

\* The row is written and the messages in memory are replaced; what the trigger
\* task does between the two is no different from its doing it after them.
CompactionApplied ==
  /\ Polled({"compacting"})
  /\ WriteRow("turn", "compaction", Summary, turn.plan.kept)
  /\ transcript' = Replaced(transcript, turn.plan)
  /\ To("ready")
  /\ Races("turn")
  /\ UNCHANGED <<loop, activeCancel, turnCancel, queueVars, batch, iterations,
                 unanswered, outcome, queue, toLog, host, trig, requests,
                 hasModel, sent, compacts, crashes, forfeit, well>>

GiveUp(ms) == forfeit' = forfeit \cup Elements(ms)

\* Slip: one retry more than there are.
RetryOnceMore ==
  /\ turn.kind = "user"
  /\ turn.attempt <= MaxRetries
  /\ turn' = [turn EXCEPT !.stage = "backoff", !.hand = <<>>,
                          !.attempt = @ + 1, !.plan = NoPlan]
  /\ GiveUp(turn.hand)
  /\ UNCHANGED <<logVars, queue>>

\* The retry policy of a user prompt: run again without a prompt, so that one
\* still in hand is lost, or, once, with another model and from the start, which
\* writes the prompt once more.
Retry    == /\ turn.kind = "user"
            /\ turn.attempt < MaxRetries
            /\ turn' = [turn EXCEPT !.stage = "backoff", !.hand = <<>>,
                                    !.attempt = @ + 1, !.plan = NoPlan]
            /\ GiveUp(turn.hand)
            /\ UNCHANGED <<logVars, queue>>
FallBack == /\ turn.kind = "user"
            /\ turn.attempt = MaxRetries
            /\ ~turn.fellBack
            /\ turn' = [turn EXCEPT !.stage = "noting", !.hand = turn.prompt,
                                    !.prompt = <<>>,
                                    !.attempt = 0, !.fellBack = TRUE,
                                    !.plan = NoPlan]
            /\ GiveUp(turn.hand \o turn.prompt)
            /\ ReadLeaf("turn")
            /\ UNCHANGED queue

\* Errors that are not retryable end the turn at once.
AttemptFails ==
  Retry \/ FallBack \/ (Finish /\ GiveUp(turn.hand) /\ UNCHANGED logVars)

SummaryFails ==
  /\ Polled({"summarizing"})
  /\ AttemptFails
  /\ well' = (well /\ turn.kind = "compaction")
  /\ UNCHANGED <<loopVars, toLog, host, trig, requests, hasModel, sent,
                 compacts, crashes, raced>>

\* One step of the run; a message it appends has then to be logged.  Without a
\* model every call fails.
RunAdvances ==
  /\ Polled({"running"})
  /\ loop # "idle"
  /\ toLog = 0
  /\ RunStep
  /\ (loop = "call" /\ loop' \in {"tools", "last"}) => hasModel
  /\ toLog' = IF loop = "pushing" /\ batch # <<>> THEN Head(batch) ELSE 0
  /\ raced' = (raced \/ (toLog' # 0 /\ trig.step = "push"))
  /\ UNCHANGED <<logVars, queue, turn, host, trig, requests, hasModel, sent,
                 compacts, crashes, forfeit, well>>

\* The session listener of finish_message.
ListenerReads ==
  /\ Polled({"running"})
  /\ toLog # 0
  /\ ReadLeaf("turn")
  /\ UNCHANGED <<loopVars, hostVars>>

ListenerWrites ==
  /\ Polled({"running"})
  /\ toLog # 0
  /\ WriteRow("turn", "message", toLog, 0)
  /\ toLog' = 0
  /\ Races("turn")
  /\ UNCHANGED <<loopVars, queue, turn, host, trig, requests, hasModel, sent,
                 compacts, crashes, forfeit, well>>

\* The caller has the result of the run.
Took == /\ outcome' = "none"
        /\ UNCHANGED <<loop, activeCancel, turnCancel, queueVars, batch,
                       transcript, iterations, unanswered>>

\* Ok(()) of the run, be it done or stopped, asks the turn-end hook.
RunSucceeds ==
  /\ Polled({"running"})
  /\ loop = "idle"
  /\ Ok(outcome)
  /\ well' = (outcome = "done")
  /\ Took
  /\ To("hook")
  /\ UNCHANGED <<logVars, queue, toLog, host, trig, requests, hasModel, sent,
                 compacts, crashes, forfeit, raced>>

RunFails ==
  /\ Polled({"running"})
  /\ loop = "idle"
  /\ ~Ok(outcome)
  /\ IF outcome = "failed" THEN AttemptFails
     ELSE Finish /\ UNCHANGED <<logVars, forfeit>>
  /\ well' = FALSE
  /\ Took
  /\ UNCHANGED <<toLog, host, trig, requests, hasModel, sent, compacts,
                 crashes, raced>>

BackoffEnds ==
  /\ Polled({"backoff"})
  /\ To("prep")
  /\ UNCHANGED <<loopVars, logVars, queue, toLog, host, trig, requests,
                 hasModel, sent, compacts, crashes, forfeit, well, raced>>

\* No turn-end hook, or one that decides nothing.
HookPasses ==
  /\ Polled({"hook"})
  /\ Finish
  /\ UNCHANGED <<loopVars, logVars, toLog, host, trig, requests, hasModel,
                 sent, compacts, crashes, forfeit, well, raced>>

\* Stop, pause or the continuation cap: record_turn_end_decision reads the leaf.
HookStops ==
  /\ Polled({"hook"})
  /\ Len(log) < MaxRows
  /\ ReadLeaf("turn")
  /\ To("parting")
  /\ UNCHANGED <<loopVars, queue, toLog, host, trig, requests, hasModel, sent,
                 compacts, crashes, forfeit, well, raced>>

StopNoted ==
  /\ Polled({"parting"})
  /\ WriteRow("turn", "custom", 0, 0)
  /\ Finish
  /\ Races("turn")
  /\ UNCHANGED <<loopVars, toLog, host, trig, requests, hasModel, sent,
                 compacts, crashes, forfeit, well>>

HookContinues ==
  /\ Polled({"hook"})
  /\ sent < MaxMessages
  /\ sent' = sent + 1
  /\ turn' = [turn EXCEPT !.stage = "noting", !.hand = <<sent + 1>>]
  /\ ReadLeaf("turn")
  /\ UNCHANGED <<loopVars, queue, toLog, host, trig, requests, hasModel,
                 compacts, crashes, forfeit, well, raced>>

\* record_turn_end_decision of a continuation, or the model change of the
\* fallback, for which the leaf has been read.
NoteWrites ==
  /\ Polled({"noting"})
  /\ WriteRow("turn", "custom", 0, 0)
  /\ To("prep")
  /\ Races("turn")
  /\ UNCHANGED <<loopVars, queue, toLog, host, trig, requests, hasModel, sent,
                 compacts, crashes, forfeit, well>>

(***************************************************************************)
(* Commands.                                                               *)
(***************************************************************************)
\* The handler goes on with the log, and reads its leaf first.
Await(op, m) == host' = [op |-> op, msg |-> m] /\ ReadLeaf("host")

AtOnce == UNCHANGED <<host, logVars>>

\* submit_web_text.
Submit ==
  /\ host = NoOp
  /\ sent < MaxMessages
  /\ sent' = sent + 1
  /\ IF hasModel THEN AtOnce ELSE Await("prompt", sent + 1)
  /\ IF hasModel /\ ~Busy THEN turn' = Turn("user", <<sent + 1>>)
     ELSE UNCHANGED turn
  /\ IF hasModel /\ Busy
     THEN EnqueueSteering(sent + 1) /\ InterruptTurn
     ELSE UNCHANGED <<steering, turnCancel>>
  /\ UNCHANGED <<loop, activeCancel, followUp, batch, transcript, iterations,
                 unanswered, outcome, queue, toLog, trig, requests, hasModel,
                 compacts, crashes, forfeit, well, raced>>

\* The queued turns are dropped: prompts already logged stay in the
\* conversation, the others are given up.
SubmitInterrupt ==
  /\ host = NoOp
  /\ sent < MaxMessages
  /\ sent' = sent + 1
  /\ IF Busy THEN AbortRun ELSE UNCHANGED activeCancel
  /\ queue' = <<>>
  /\ forfeit' = forfeit \cup {queue[i].msg : i \in
                   {j \in 1..Len(queue) : /\ queue[j].kind # "compaction"
                                          /\ ~queue[j].persisted}}
  /\ IF hasModel /\ ~Busy THEN turn' = Turn("user", <<sent + 1>>) /\ AtOnce
     ELSE Await("prompt", sent + 1) /\ UNCHANGED turn
  /\ UNCHANGED <<loop, turnCancel, queueVars, batch, transcript, iterations,
                 unanswered, outcome, toLog, trig, requests, hasModel,
                 compacts, crashes, well, raced>>

\* queue_user_prompt_with_input.
PromptPersisted ==
  /\ host.op = "prompt"
  /\ WriteRow("host", "message", host.msg, 0)
  /\ transcript' = Append(transcript, host.msg)
  /\ unanswered' = TRUE
  /\ queue' = Append(queue, Job("user", host.msg, TRUE))
  /\ host' = NoOp
  /\ Races("host")
  /\ UNCHANGED <<loop, activeCancel, turnCancel, queueVars, batch, iterations,
                 outcome, turn, toLog, trig, requests, hasModel, sent,
                 compacts, crashes, forfeit, well>>

PromptNotPersisted ==
  /\ host.op = "prompt"
  /\ leafRead' = [leafRead EXCEPT !["host"] = Unread]
  /\ queue' = Append(queue, Job("user", host.msg, FALSE))
  /\ host' = NoOp
  /\ UNCHANGED <<loopVars, log, turn, toLog, trig, requests, hasModel, sent,
                 compacts, crashes, forfeit, well, raced>>

\* Selecting the first model, then starting what waited for it.
SetModel ==
  /\ host = NoOp
  /\ ~hasModel
  /\ Await("model", 0)
  /\ UNCHANGED <<loopVars, queue, turn, toLog, trig, requests, hasModel, sent,
                 compacts, crashes, forfeit, well, raced>>

ModelSet ==
  /\ host.op = "model"
  /\ WriteRow("host", "custom", 0, 0)
  /\ hasModel' = TRUE
  /\ IF Busy THEN UNCHANGED <<queue, turn>> ELSE StartNext(queue, TRUE)
  /\ host' = NoOp
  /\ Races("host")
  /\ UNCHANGED <<loopVars, toLog, trig, requests, sent, compacts, crashes,
                 forfeit, well>>

\* A slash command's turn waits for the one that runs, and needs no model.
\* dispatch_web_slash ends by starting the next queued turn, if none runs.
StartOrQueue(job) ==
  IF Busy THEN queue' = Append(queue, job) /\ UNCHANGED turn
  ELSE turn' = TurnOf(job) /\ UNCHANGED queue

AgentPrompt ==
  /\ host = NoOp
  /\ sent < MaxMessages
  /\ sent' = sent + 1
  /\ StartOrQueue(Job("plain", sent + 1, FALSE))
  /\ UNCHANGED <<loopVars, logVars, toLog, host, trig, requests, hasModel,
                 compacts, crashes, forfeit, well, raced>>

Compact ==
  /\ host = NoOp
  /\ compacts < MaxCompactions
  /\ compacts' = compacts + 1
  /\ StartOrQueue(Job("compaction", 0, FALSE))
  /\ UNCHANGED <<loopVars, logVars, toLog, host, trig, requests, hasModel,
                 sent, crashes, forfeit, well, raced>>

\* Without a run's token the abort is not heard.  The turn-end hook has a token
\* of its own; what it decides is open either way.
Abort ==
  /\ host = NoOp
  /\ Busy
  /\ AbortRun
  /\ UNCHANGED <<loop, turnCancel, queueVars, batch, transcript, iterations,
                 unanswered, outcome, logVars, hostVars>>

(***************************************************************************)
(* Triggers.                                                               *)
(***************************************************************************)
\* inject_and_run looks whether a run is under way.
TriggerFires ==
  /\ trig = NoTask
  /\ sent < MaxMessages
  /\ sent' = sent + 1
  /\ trig' = [step |-> IF loop # "idle" THEN "audit" ELSE "inject",
              msg |-> sent + 1, followUp |-> loop # "idle"]
  /\ IF loop # "idle" THEN EnqueueFollowUp(sent + 1) ELSE UNCHANGED followUp
  /\ UNCHANGED <<loop, activeCancel, turnCancel, steering, batch, transcript,
                 iterations, unanswered, outcome, logVars, queue, turn, toLog,
                 host, requests, hasModel, compacts, crashes, forfeit, well,
                 raced>>

TriggerReads ==
  /\ trig.step \in {"inject", "audit"}
  /\ ReadLeaf("trigger")
  /\ UNCHANGED <<loopVars, hostVars>>

TriggerWrites ==
  /\ trig.step = "inject"
  /\ WriteRow("trigger", "message", trig.msg, 0)
  /\ trig' = [trig EXCEPT !.step = "push"]
  /\ Races("trigger")
  /\ UNCHANGED <<loopVars, queue, turn, toLog, host, requests, hasModel, sent,
                 compacts, crashes, forfeit, well>>

TriggerPushes ==
  /\ trig.step = "push"
  /\ transcript' = Append(transcript, trig.msg)
  /\ unanswered' = TRUE
  /\ trig' = [trig EXCEPT !.step = "audit"]
  /\ UNCHANGED <<loop, activeCancel, turnCancel, queueVars, batch, iterations,
                 outcome, logVars, queue, turn, toLog, host, requests,
                 hasModel, sent, compacts, crashes, forfeit, well, raced>>

\* Slip: no main run is asked for.
AuditSilently ==
  /\ trig.step = "audit"
  /\ WriteRow("trigger", "custom", 0, 0)
  /\ trig' = NoTask
  /\ Races("trigger")
  /\ UNCHANGED <<loopVars, queue, turn, toLog, host, requests, hasModel, sent,
                 compacts, crashes, forfeit, well>>

\* The trigger_result row, and the request for a main run.
TriggerAudits ==
  /\ trig.step = "audit"
  /\ WriteRow("trigger", "custom", 0, 0)
  /\ requests' = requests + (IF trig.followUp THEN 0 ELSE 1)
  /\ trig' = NoTask
  /\ Races("trigger")
  /\ UNCHANGED <<loopVars, queue, turn, toLog, host, hasModel, sent, compacts,
                 crashes, forfeit, well>>

\* start_triggered_turn.  Without a model the request is gone.
TriggeredTurn ==
  /\ host = NoOp
  /\ ~Busy
  /\ requests > 0
  /\ requests' = requests - 1
  /\ turn' = IF hasModel THEN Turn("plain", <<>>) ELSE NoTurn
  /\ UNCHANGED <<loopVars, logVars, queue, toLog, host, trig, hasModel, sent,
                 compacts, crashes, forfeit, well, raced>>

(***************************************************************************)
(* The daemon dies, and the session is activated again from its log.       *)
(***************************************************************************)
Logged(m) == \E i \in 1..Len(log) : log[i].type = "message" /\ log[i].msg = m

Crash ==
  /\ crashes < MaxCrashes
  /\ crashes' = crashes + 1
  /\ transcript' = Context(Branch)
  /\ loop' = "idle" /\ activeCancel' = "none" /\ turnCancel' = "none"
  /\ steering' = <<>> /\ followUp' = <<>> /\ batch' = <<>>
  /\ iterations' = 0 /\ unanswered' = FALSE /\ outcome' = "none"
  /\ leafRead' = [w \in Writers |-> Unread]
  /\ queue' = <<>> /\ turn' = NoTurn /\ toLog' = 0 /\ host' = NoOp
  /\ trig' = NoTask /\ requests' = 0
  /\ forfeit' = forfeit \cup {m \in 1..sent : ~Logged(m)}
  /\ well' = FALSE /\ raced' = FALSE
  /\ UNCHANGED <<log, hasModel, sent, compacts>>

TurnStep ==
  \/ TurnBegins \/ NothingToContinue \/ NothingToCompact
  \/ Snapshot \/ Summarized \/ SummaryFails \/ CompactionApplied
  \/ RunAdvances \/ ListenerReads \/ ListenerWrites
  \/ RunSucceeds \/ RunFails \/ BackoffEnds
  \/ HookPasses \/ HookStops \/ StopNoted \/ HookContinues \/ NoteWrites

Command ==
  \/ Submit \/ SubmitInterrupt \/ PromptPersisted \/ PromptNotPersisted
  \/ SetModel \/ ModelSet \/ AgentPrompt \/ Compact \/ Abort

TriggerStep ==
  \/ TriggerFires \/ TriggerReads \/ TriggerWrites \/ TriggerPushes
  \/ TriggerAudits \/ TriggeredTurn

Next == TurnStep \/ Command \/ TriggerStep \/ Crash

Spec == Init /\ [][Next]_vars

(***************************************************************************)
(* Properties.                                                             *)
(***************************************************************************)
Occurs(m, s) == Cardinality({i \in 1..Len(s) : s[i] = m})

Queued(m) == Cardinality({i \in 1..Len(queue) : /\ queue[i].msg = m
                                                /\ ~queue[i].persisted})

Copies(m) ==
    Cardinality({i \in 1..Len(log) : log[i].type = "message" /\ log[i].msg = m})
  + Occurs(m, turn.hand) + Occurs(m, steering) + Occurs(m, followUp)
  + Occurs(m, batch) + Queued(m)
  + (IF toLog = m THEN 1 ELSE 0)
  + (IF host.op = "prompt" /\ host.msg = m THEN 1 ELSE 0)
  + (IF trig.step = "inject" /\ trig.msg = m THEN 1 ELSE 0)

\* "so a retry never writes a second record for the same round of input"
\* (agent_session.rs), "land in the jsonl exactly once" (action.rs): whatever
\* turns, retries, handlers and triggers do, each message is either in the log
\* once or waiting in one place to get there, unless it was given up.
ExactlyOnce == \A m \in 1..sent : m \in forfeit \/ Copies(m) = 1

\* "state.messages is the in-memory mirror of session Message entries"
\* (triggers.rs): when nobody is in the middle of a write, the agent remembers
\* what a restart would load, through queued prompts, injections, retries and a
\* compaction.  The code keeps this up to the first overlap of two writers and
\* the first compaction of a branch that has one.
MemoryMirrorsLog ==
  (/\ ~raced
   /\ \A w \in Writers : ~InFlight(w)
   /\ Compacted < 2)
     => transcript = Context(Branch)

\* A restart forgets nothing: while no append forked the log, each message in it
\* is in the context a restart loads, or before the first row kept by the last
\* compaction and so in its summary.
RestartLosesNothing ==
  Linear =>
    \A i \in 1..Len(log) :
      log[i].type = "message" =>
        \/ log[i].msg \in Elements(Context(Branch))
        \/ \E c \in 1..Len(log) : /\ log[c].type = "compaction"
                                  /\ i < log[c].kept
                                  /\ \A d \in (c + 1)..Len(log) :
                                       log[d].type # "compaction"

Rests == /\ ~Busy /\ queue = <<>> /\ requests = 0 /\ host = NoOp /\ trig = NoTask
         /\ well

\* A message in the conversation gets its reply: when the host has come to rest
\* after a run that ended well, no message that reached memory is left that no
\* model call saw, whoever put it there and however late.  Of messages that are
\* still in the agent's queues it says nothing: AnsweredAtRest does.
ConversationAnswered == Rests => ~unanswered

\* "a busy tool-calling turn must see the new user message on its NEXT LLM
\* request, not after the whole turn finishes", and without an interrupt it is
\* "drained at the turn boundary anyway" (input.rs); "streaming -> enqueue a
\* follow-up; the in-flight loop runs it at the next boundary" (action.rs): when
\* the host has come to rest after a run that ended well, every message a client
\* or a trigger handed to the agent has been answered.  The code breaks this.
AnsweredAtRest == Rests => ~unanswered /\ steering = <<>> /\ followUp = <<>>

\* "SetModel / Configure re-invoke this once a model exists" (queue.rs): no turn
\* is left waiting in the queue of a host that has a model and runs nothing.
QueueIsServed == queue # <<>> /\ hasModel => Busy
=============================================================================
