----------------------------- MODULE AgentLoop -----------------------------
(***************************************************************************)
(* One agent of theway-core: AgentInner (agent.rs) and the loop that runs  *)
(* a prompt (agent/run_loop).  A run alternates model calls and tools; at  *)
(* each turn boundary it takes what other tasks put into its steering and  *)
(* follow-up queues.  Other tasks reach a run through two tokens: abort    *)
(* cancels the run, interrupt only the model call in flight.               *)
(*                                                                         *)
(* The transcript keeps the user messages; of the replies and tool results *)
(* it matters here only which messages they answer, and the partial reply  *)
(* an interrupted call leaves is not followed.  should_stop_after_turn and *)
(* prepare_next_turn, which no caller sets, are left out.  The module has  *)
(* no Next of its own: it is composed by the modules that start runs.      *)
(***************************************************************************)
EXTENDS Integers, Sequences

CONSTANTS
  Messages,        \* user messages
  MaxIterations,   \* model calls one run may make, or NoCap
  QueueMode        \* "All" or "OneAtATime"

NoCap == -1

ASSUME AgentLoopAssumption == /\ MaxIterations \in Nat \cup {NoCap}
                              /\ QueueMode \in {"All", "OneAtATime"}

VARIABLES
  loop,          \* where the run loop stands
  activeCancel,  \* the token abort() finds: "none", "live" or "cancelled"
  turnCancel,    \* the token interrupt() finds
  steering,      \* the steering queue
  followUp,      \* the follow-up queue
  batch,         \* messages the loop took and has still to append
  transcript,    \* user messages of state.messages
  iterations,    \* model calls of this run
  unanswered,    \* the transcript has a message that no request carried, or
                 \* whose request brought no reply
  outcome        \* how the last run ended

loopVars == <<loop, activeCancel, turnCancel, steering, followUp, batch,
              transcript, iterations, unanswered, outcome>>

queueVars == <<steering, followUp>>

Tokens    == {"none", "live", "cancelled"}
LoopSteps == {"idle", "pushing", "turn", "call", "tools", "last", "partial",
              "ending"}

\* "stopped" is the Ok(()) of a run that found itself cancelled at the head of
\* its loop; callers cannot tell it from "done".
Outcomes  == {"none", "done", "stopped", "aborted", "interrupted", "failed",
              "killed"}
Ok(o)     == o \in {"done", "stopped"}

LoopTypeOK ==
  /\ loop \in LoopSteps
  /\ activeCancel \in Tokens
  /\ turnCancel \in Tokens
  /\ steering \in Seq(Messages)
  /\ followUp \in Seq(Messages)
  /\ batch \in Seq(Messages)
  /\ transcript \in Seq(Messages)
  /\ iterations \in 0..(IF MaxIterations = NoCap THEN 0 ELSE MaxIterations)
  /\ unanswered \in BOOLEAN
  /\ outcome \in Outcomes

LoopInit ==
  /\ loop = "idle"
  /\ activeCancel = "none" /\ turnCancel = "none"
  /\ steering = <<>> /\ followUp = <<>> /\ batch = <<>> /\ transcript = <<>>
  /\ iterations = 0
  /\ unanswered = FALSE
  /\ outcome = "none"

(***************************************************************************)
(* Queues.                                                                 *)
(***************************************************************************)
\* Slip: one message is taken whatever the mode, and the queue emptied.
DrainedFirst(q) == IF q = <<>> THEN q ELSE <<Head(q)>>

Drained(q) == IF QueueMode = "All" \/ q = <<>> THEN q ELSE <<Head(q)>>
Kept(q)    == IF QueueMode = "All" \/ q = <<>> THEN <<>> ELSE Tail(q)

EnqueueSteering(m) == steering' = Append(steering, m)

EnqueueFollowUp(m) == followUp' = Append(followUp, m)

(***************************************************************************)
(* What other tasks do to a run.  Without a token both are no-ops.         *)
(***************************************************************************)
Cancelled(token) == IF token = "live" THEN "cancelled" ELSE token

AbortRun == activeCancel' = Cancelled(activeCancel)

InterruptTurn == turnCancel' = Cancelled(turnCancel)

(***************************************************************************)
(* The run.                                                                *)
(***************************************************************************)
\* Take the run permit (one run at a time) and publish the run's token.  new
\* are the messages of prompt; continue_ starts with none and needs a
\* transcript.
BeginRun(new) ==
  /\ loop = "idle"
  /\ new # <<>> \/ transcript # <<>>
  /\ loop' = "pushing"
  /\ activeCancel' = "live"
  /\ batch' = new
  /\ iterations' = 0
  /\ outcome' = "none"
  /\ UNCHANGED <<turnCancel, queueVars, transcript, unanswered>>

\* finish_message: append, then await the listeners.
PushMessage ==
  /\ loop = "pushing"
  /\ batch # <<>>
  /\ transcript' = Append(transcript, Head(batch))
  /\ batch' = Tail(batch)
  /\ unanswered' = TRUE
  /\ UNCHANGED <<loop, activeCancel, turnCancel, queueVars, iterations, outcome>>

End(o) == /\ loop' = "ending"
          /\ outcome' = o
          /\ iterations' = 0

\* Slip: the budget is looked at one call late.
BudgetOffByOne == MaxIterations = NoCap \/ iterations <= MaxIterations

\* The head of the loop: cancellation, then the iteration budget.
BudgetLeft == MaxIterations = NoCap \/ iterations < MaxIterations

LoopHead ==
  /\ loop = "pushing"
  /\ batch = <<>>
  /\ \/ /\ activeCancel = "cancelled"
        /\ End("stopped")
     \/ /\ activeCancel # "cancelled"
        /\ ~BudgetLeft
        /\ End("failed")
     \/ /\ activeCancel # "cancelled"
        /\ BudgetLeft
        /\ iterations' = IF MaxIterations = NoCap THEN 0 ELSE iterations + 1
        /\ loop' = "turn"
        /\ UNCHANGED outcome
  /\ UNCHANGED <<activeCancel, turnCancel, queueVars, batch, transcript,
                 unanswered>>

\* TurnStart has been emitted: a fresh turn token, and a request with all of the
\* transcript.
CallModel ==
  /\ loop = "turn"
  /\ loop' = "call"
  /\ turnCancel' = "live"
  /\ unanswered' = FALSE
  /\ UNCHANGED <<activeCancel, queueVars, batch, transcript, iterations,
                 outcome>>

\* The select of call_llm is biased: cancel, then turn_cancel, then an event.
CallLive == /\ loop = "call"
            /\ activeCancel # "cancelled"
            /\ turnCancel # "cancelled"

\* The reply is complete; it asks for tools, or it ends the turn.
ModelReplies ==
  /\ CallLive
  /\ loop' \in {"tools", "last"}
  /\ turnCancel' = "none"
  /\ UNCHANGED <<activeCancel, queueVars, batch, transcript, iterations,
                 unanswered, outcome>>

ModelFails ==
  /\ CallLive
  /\ End("failed")
  /\ turnCancel' = "none"
  /\ unanswered' = TRUE
  /\ UNCHANGED <<activeCancel, queueVars, batch, transcript>>

CallAborted ==
  /\ loop = "call"
  /\ activeCancel = "cancelled"
  /\ End("aborted")
  /\ turnCancel' = "none"
  /\ unanswered' = TRUE
  /\ UNCHANGED <<activeCancel, queueVars, batch, transcript>>

\* finalize_partial_turn follows.
CallInterrupted ==
  /\ loop = "call"
  /\ activeCancel # "cancelled"
  /\ turnCancel = "cancelled"
  /\ loop' = "partial"
  /\ turnCancel' = "none"
  /\ unanswered' = TRUE
  /\ UNCHANGED <<activeCancel, queueVars, batch, transcript, iterations,
                 outcome>>

\* The end of a turn.  Steering goes first; follow-ups only when the run would
\* otherwise end.
Boundary(last, o) ==
  LET steer  == Drained(steering)
      follow == IF last /\ steer = <<>> THEN Drained(followUp) ELSE <<>>
  IN  /\ steering' = Kept(steering)
      /\ followUp' = IF last /\ steer = <<>> THEN Kept(followUp) ELSE followUp
      /\ batch' = steer \o follow
      /\ IF last /\ batch' = <<>> THEN End(o)
         ELSE loop' = "pushing" /\ UNCHANGED <<iterations, outcome>>
      /\ UNCHANGED <<activeCancel, turnCancel, transcript, unanswered>>

\* The tools have returned; all of them may have asked to end the run.
ToolsReturn ==
  /\ loop = "tools"
  /\ \/ Boundary(FALSE, "done")
     \/ /\ End("done")
        /\ UNCHANGED <<activeCancel, turnCancel, queueVars, batch, transcript,
                       unanswered>>

TurnEnds == loop = "last" /\ Boundary(TRUE, "done")

InterruptedTurnEnds == loop = "partial" /\ Boundary(TRUE, "interrupted")

\* The permit is dropped: no token is left for abort or interrupt to find.
Release == /\ loop' = "idle"
           /\ activeCancel' = "none"
           /\ turnCancel' = "none"

\* finalize has emitted RunEnded.
EndRun ==
  /\ loop = "ending"
  /\ Release
  /\ UNCHANGED <<queueVars, batch, transcript, iterations, unanswered, outcome>>

\* The task that polls the run is aborted: the future is dropped where it
\* stands, with whatever it had taken out of the queues.
DropRun ==
  /\ loop # "idle"
  /\ Release
  /\ batch' = <<>>
  /\ outcome' = "killed"
  /\ iterations' = 0
  /\ UNCHANGED <<queueVars, transcript, unanswered>>

\* What the loop does by itself, and what it does only if the provider or a
\* tool answers.
LoopStep == \/ PushMessage \/ LoopHead \/ CallModel \/ CallAborted
            \/ CallInterrupted \/ TurnEnds \/ InterruptedTurnEnds \/ EndRun

ProviderStep == ModelReplies \/ ModelFails

RunStep == LoopStep \/ ProviderStep \/ ToolsReturn
=============================================================================
