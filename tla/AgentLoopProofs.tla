-------------------------- MODULE AgentLoopProofs --------------------------
(***************************************************************************)
(* The run loop keeps its types, whoever starts the runs and fills the     *)
(* queues.  The budget of model calls is the part that is not obvious: no  *)
(* run counts past MaxIterations.                                          *)
(***************************************************************************)
EXTENDS AgentLoop, SequenceTheorems, TLAPS

\* An agent that has not run.
LEMMA LoopTypeInit == LoopInit => LoopTypeOK
  <1> SUFFICES ASSUME LoopInit PROVE LoopTypeOK
    OBVIOUS
  <1>1. <<>> \in Seq(Messages)
    OBVIOUS
  <1>2. 0 \in 0..(IF MaxIterations = NoCap THEN 0 ELSE MaxIterations)
    BY AgentLoopAssumption DEF NoCap
  <1> QED
    BY <1>1, <1>2 DEF LoopInit, LoopTypeOK, LoopSteps, Tokens, Outcomes

\* What a boundary takes out of a queue and what it leaves make up the queue.
LEMMA DrainedKept ==
  ASSUME NEW S, NEW q \in Seq(S)
  PROVE  /\ Drained(q) \in Seq(S)
         /\ Kept(q) \in Seq(S)
         /\ Drained(q) \o Kept(q) = q
         /\ Drained(q) = <<>> => q = <<>>
  <1>1. CASE QueueMode = "All"
    BY <1>1 DEF Drained, Kept
  <1>2. CASE q = <<>>
    BY <1>2 DEF Drained, Kept
  <1>3. CASE QueueMode # "All" /\ q # <<>>
    BY <1>3 DEF Drained, Kept
  <1> QED
    BY <1>1, <1>2, <1>3

\* The end of a turn.
LEMMA BoundaryType ==
  ASSUME LoopTypeOK, NEW last \in BOOLEAN, NEW o \in Outcomes, Boundary(last, o)
  PROVE  LoopTypeOK'
  <1> DEFINE steer  == Drained(steering)
             follow == IF last /\ steer = <<>> THEN Drained(followUp) ELSE <<>>
  <1>1. /\ steering' = Kept(steering)
        /\ followUp' = IF last /\ steer = <<>> THEN Kept(followUp) ELSE followUp
        /\ batch' = steer \o follow
        /\ \/ loop' = "ending" /\ outcome' = o /\ iterations' = 0
           \/ loop' = "pushing" /\ UNCHANGED <<iterations, outcome>>
        /\ UNCHANGED <<activeCancel, turnCancel, transcript, unanswered>>
    BY DEF Boundary, End
  <1>2. /\ Drained(steering) \in Seq(Messages) /\ Kept(steering) \in Seq(Messages)
        /\ Drained(followUp) \in Seq(Messages) /\ Kept(followUp) \in Seq(Messages)
    BY DrainedKept DEF LoopTypeOK
  <1>3. steer \in Seq(Messages) /\ follow \in Seq(Messages)
    BY <1>2
  <1> HIDE DEF steer, follow
  <1>4. batch' \in Seq(Messages)
    BY <1>1, <1>3
  <1>5. steering' \in Seq(Messages) /\ followUp' \in Seq(Messages)
    BY <1>1, <1>2 DEF LoopTypeOK
  <1>6. loop' \in LoopSteps /\ outcome' \in Outcomes
    BY <1>1 DEF LoopTypeOK, LoopSteps
  <1>7. iterations' \in 0..(IF MaxIterations = NoCap THEN 0 ELSE MaxIterations)
    BY <1>1, AgentLoopAssumption DEF LoopTypeOK, NoCap
  <1> QED
    BY <1>1, <1>4, <1>5, <1>6, <1>7 DEF LoopTypeOK

\* Every step of a run.
LEMMA RunStepType ==
  ASSUME LoopTypeOK, RunStep
  PROVE  LoopTypeOK'
  <1> DEFINE Cap == IF MaxIterations = NoCap THEN 0 ELSE MaxIterations
  <1>0. 0 \in 0..Cap
    BY AgentLoopAssumption DEF NoCap
  <1>1. CASE PushMessage
    <2>1. Head(batch) \in Messages /\ Tail(batch) \in Seq(Messages)
      BY <1>1 DEF PushMessage, LoopTypeOK
    <2>2. transcript' \in Seq(Messages) /\ batch' \in Seq(Messages)
      BY <1>1, <2>1 DEF PushMessage, LoopTypeOK
    <2> QED
      BY <1>1, <2>2 DEF PushMessage, LoopTypeOK, queueVars
  <1>2. CASE LoopHead
    <2>1. iterations' \in 0..Cap
      BY <1>0, <1>2, AgentLoopAssumption
         DEF LoopHead, LoopTypeOK, BudgetLeft, End, NoCap
    <2>2. loop' \in LoopSteps /\ outcome' \in Outcomes
      BY <1>2 DEF LoopHead, LoopTypeOK, End, LoopSteps, Outcomes
    <2> QED
      BY <1>2, <2>1, <2>2 DEF LoopHead, LoopTypeOK, queueVars
  <1>3. CASE CallModel
    BY <1>3 DEF CallModel, LoopTypeOK, LoopSteps, Tokens, queueVars
  <1>4. CASE CallAborted
    BY <1>0, <1>4 DEF CallAborted, End, LoopTypeOK, LoopSteps, Tokens, Outcomes,
                      queueVars
  <1>5. CASE CallInterrupted
    BY <1>5 DEF CallInterrupted, LoopTypeOK, LoopSteps, Tokens, queueVars
  <1>6. CASE TurnEnds
    BY <1>6, BoundaryType DEF TurnEnds, Outcomes
  <1>7. CASE InterruptedTurnEnds
    BY <1>7, BoundaryType DEF InterruptedTurnEnds, Outcomes
  <1>8. CASE EndRun
    BY <1>8 DEF EndRun, Release, LoopTypeOK, LoopSteps, Tokens, queueVars
  <1>9. CASE ModelReplies
    BY <1>9 DEF ModelReplies, LoopTypeOK, LoopSteps, Tokens, queueVars
  <1>10. CASE ModelFails
    BY <1>0, <1>10 DEF ModelFails, End, LoopTypeOK, LoopSteps, Tokens, Outcomes,
                       queueVars
  <1>11. CASE ToolsReturn
    <2>1. CASE Boundary(FALSE, "done")
      BY <2>1, BoundaryType DEF Outcomes
    <2>2. CASE /\ End("done")
               /\ UNCHANGED <<activeCancel, turnCancel, queueVars, batch,
                              transcript, unanswered>>
      BY <1>0, <2>2 DEF End, LoopTypeOK, LoopSteps, Outcomes, queueVars
    <2> QED
      BY <1>11, <2>1, <2>2 DEF ToolsReturn
  <1> QED
    BY <1>1, <1>2, <1>3, <1>4, <1>5, <1>6, <1>7, <1>8, <1>9, <1>10, <1>11
       DEF RunStep, LoopStep, ProviderStep

\* The start of a run, and a run that is dropped.
LEMMA BeginDropType ==
  ASSUME LoopTypeOK,
         DropRun \/ \E new \in Seq(Messages) : BeginRun(new)
  PROVE  LoopTypeOK'
  <1>1. 0 \in 0..(IF MaxIterations = NoCap THEN 0 ELSE MaxIterations)
    BY AgentLoopAssumption DEF NoCap
  <1>2. CASE DropRun
    <2>1. <<>> \in Seq(Messages)
      OBVIOUS
    <2> QED
      BY <1>1, <1>2, <2>1 DEF DropRun, Release, LoopTypeOK, LoopSteps, Tokens,
                              Outcomes, queueVars
  <1>3. ASSUME NEW new \in Seq(Messages), BeginRun(new) PROVE LoopTypeOK'
    BY <1>1, <1>3 DEF BeginRun, LoopTypeOK, LoopSteps, Tokens, Outcomes, queueVars
  <1> QED
    BY <1>2, <1>3

\* A token that is cancelled is a token.
LEMMA CancelledType == \A t \in Tokens : Cancelled(t) \in Tokens
  BY DEF Cancelled, Tokens

\* A run that is left alone.
LEMMA LoopTypeStutter ==
  ASSUME LoopTypeOK, UNCHANGED loopVars
  PROVE  LoopTypeOK'
  BY DEF LoopTypeOK, loopVars
=============================================================================
