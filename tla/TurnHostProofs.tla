--------------------------- MODULE TurnHostProofs ---------------------------
(***************************************************************************)
(* The active session of the daemon, for every number of messages,         *)
(* retries, compactions and restarts.                                      *)
(***************************************************************************)
EXTENDS TurnHost, AgentLoopProofs, SeqFilterProofs

Users == 1..MaxMessages

\* What is common to all the proofs below: which messages stand where, and what
\* the stage of the turn says of its prompt and of the run.
HostShape ==
  /\ steering \in Seq(Users) /\ followUp \in Seq(Users) /\ batch \in Seq(Users)
  /\ turn.hand \in Seq(Users) /\ turn.prompt \in Seq(Users)
  /\ \A i \in 1..Len(queue) :
       queue[i].kind # "compaction" => queue[i].msg \in Users
  /\ host.op = "prompt" => host.msg \in Users
  /\ trig.step # "none" => trig.msg \in Users
  /\ loop # "idle" => turn.stage = "running"
  /\ toLog # 0 => loop = "pushing"
  /\ batch # <<>> => loop = "pushing"
  /\ turn.stage \in {"none", "running", "hook", "parting"} => turn.hand = <<>>
  /\ turn.kind = "compaction" => turn.hand = <<>>
  /\ turn.stage \in {"running", "hook", "parting"} => turn.kind # "compaction"
  /\ requests + (IF trig.step = "none" THEN 0 ELSE 1) <= sent
  /\ turn.plan.kept <= Len(log)

HostInv == TypeOK /\ HostShape

-----------------------------------------------------------------------------
(***************************************************************************)
(* Types.                                                                  *)
(***************************************************************************)
LEMMA MessageNumbers == /\ Messages = 0..MaxMessages /\ 0 \in Messages
                        /\ Users \subseteq Messages
                        /\ Users = Messages \ {0}
                        /\ \A m \in Users : m \in Nat /\ m # 0
  BY HostAssumption DEF Users

\* A sequence of user messages is one of messages.
LEMMA UserSeqs == \A s : s \in Seq(Users) => s \in Seq(Messages)
  BY MessageNumbers, SeqMonotonic, Zenon

\* The tasks that append to the log.
LEMMA WritersKnown == Writers = {"turn", "host", "trigger"}
  BY HostAssumption

\* Reading the leaf changes no row.
LEMMA LeafRead ==
  ASSUME LogTypeOK, NEW w \in Writers, ReadLeaf(w)
  PROVE  LogTypeOK' /\ Len(log)' = Len(log)
  BY DEF LogTypeOK, ReadLeaf, Unread

\* A row that is written is typed, and hangs on the leaf its writer read.
LEMMA RowWritten ==
  ASSUME LogTypeOK, NEW w \in Writers, NEW t \in RowTypes, NEW m \in Nat,
         NEW kept \in 0..Len(log), WriteRow(w, t, m, kept)
  PROVE  /\ LogTypeOK'
         /\ Len(log)' = Len(log) + 1
         /\ leafRead[w] \in 0..Len(log)
         /\ Row(t, m, kept, leafRead[w]) \in Rows
  <1> DEFINE n == Len(log)  r == Row(t, m, kept, leafRead[w])
  <1>1. n \in Nat /\ log \in Seq(Rows) /\ leafRead[w] \in 0..n
    BY DEF LogTypeOK, WriteRow, Unread
  <1>2. r \in Rows /\ r.parent = leafRead[w] /\ r.kept = kept
    BY <1>1 DEF Row, Rows
  <1>3. /\ log' = Append(log, r)
        /\ leafRead' = [leafRead EXCEPT ![w] = Unread]
    BY DEF WriteRow
  <1> HIDE DEF r
  <1>4. /\ log' \in Seq(Rows) /\ Len(log') = n + 1 /\ log'[n + 1] = r
        /\ \A i \in 1..n : log'[i] = log[i]
    BY <1>1, <1>2, <1>3
  <1>5. \A i \in 1..(n + 1) : log'[i].parent < i /\ log'[i].kept < i
    <2> SUFFICES ASSUME NEW i \in 1..(n + 1)
                 PROVE  log'[i].parent < i /\ log'[i].kept < i
      OBVIOUS
    <2>1. CASE i \in 1..n
      BY <2>1, <1>4 DEF LogTypeOK
    <2>2. CASE i = n + 1
      BY <2>2, <1>1, <1>2, <1>4
    <2> QED
      BY <2>1, <2>2, <1>1
  <1>6. leafRead' \in [Writers -> Unread..(n + 1)]
    BY <1>1, <1>3 DEF LogTypeOK, Unread
  <1>7. LogTypeOK'
    BY <1>4, <1>5, <1>6 DEF LogTypeOK
  <1> QED
    BY <1>1, <1>2, <1>4, <1>7 DEF r

\* Rows are named by their place and hang on earlier ones.
LEMMA RowFacts ==
  ASSUME LogTypeOK
  PROVE  /\ Len(log) \in Nat
         /\ \A i \in 1..Len(log) : /\ log[i] \in Rows
                                   /\ log[i].msg \in Nat
                                   /\ log[i].type \in RowTypes
                                   /\ log[i].parent \in 0..(i - 1)
                                   /\ log[i].kept \in 0..(i - 1)
  <1>1. Len(log) \in Nat /\ \A i \in 1..Len(log) : log[i] \in Rows
    BY DEF LogTypeOK
  <1>2. ASSUME NEW i \in 1..Len(log)
        PROVE  /\ log[i].msg \in Nat /\ log[i].type \in RowTypes
               /\ log[i].parent \in 0..(i - 1) /\ log[i].kept \in 0..(i - 1)
    <2>1. log[i].parent < i /\ log[i].kept < i
      BY DEF LogTypeOK
    <2>2. log[i] \in Rows
      BY <1>1
    <2> QED
      BY <2>1, <2>2, <1>1 DEF Rows
  <1> QED
    BY <1>1, <1>2

-----------------------------------------------------------------------------
(***************************************************************************)
(* The branch of the log.                                                  *)
(***************************************************************************)
\* g leads from row 0 to each of the first m rows of l, by way of the parents.
Leads(g, m, l) ==
  /\ g[0] = <<>>
  /\ \A i \in 1..m : g[i] = Append(g[l[i].parent], i)

Ids == 1..Len(log)

\* A tree whose rows come after their parents has a path to each row.
LEMMA PathsExist ==
  ASSUME LogTypeOK
  PROVE  \E g \in [0..Len(log) -> Seq(Ids)] : Leads(g, Len(log), log)
  <1> DEFINE n == Len(log)
             T == {m \in 0..n : \E g \in [0..m -> Seq(Ids)] : Leads(g, m, log)}
  <1>0. n \in Nat /\ \A i \in 1..n : log[i].parent \in 0..(i - 1)
    BY RowFacts
  <1>1. 0 \in T
    <2> DEFINE g0 == [i \in 0..0 |-> <<>>]
    <2>1. g0 \in [0..0 -> Seq(Ids)] /\ g0[0] = <<>>
      OBVIOUS
    <2>2. Leads(g0, 0, log)
      BY <2>1 DEF Leads
    <2>3. 0 \in 0..n
      BY <1>0
    <2> HIDE DEF g0
    <2> QED
      BY <2>1, <2>2, <2>3
  <1>2. ASSUME NEW m \in 1..n, m - 1 \in T PROVE m \in T
    <2>1. PICK g \in [0..(m - 1) -> Seq(Ids)] : Leads(g, m - 1, log)
      BY <1>2
    <2>2. m \in Nat /\ m \in Ids /\ log[m].parent \in 0..(m - 1)
      BY <1>0 DEF Ids
    <2> DEFINE h == [i \in 0..m |-> IF i = m THEN Append(g[log[m].parent], m)
                                    ELSE g[i]]
    <2>3. /\ h[m] = Append(g[log[m].parent], m)
          /\ \A i \in 0..(m - 1) : h[i] = g[i]
      BY <2>2
    <2>4. h[m] \in Seq(Ids)
      BY <2>2, <2>3
    <2>5. h \in [0..m -> Seq(Ids)]
      BY <2>2, <2>4
    <2> HIDE DEF h
    <2>6. h[0] = <<>>
      BY <2>1, <2>2, <2>3 DEF Leads
    <2>7. ASSUME NEW i \in 1..m PROVE h[i] = Append(h[log[i].parent], i)
      <3>1. CASE i = m
        BY <3>1, <2>2, <2>3
      <3>2. CASE i # m
        <4>1. i \in 1..(m - 1) /\ i \in 0..(m - 1) /\ log[i].parent \in 0..(m - 1)
          BY <3>2, <2>2, <1>0
        <4>2. g[i] = Append(g[log[i].parent], i)
          BY <4>1, <2>1, Zenon DEF Leads
        <4> QED
          BY <4>1, <4>2, <2>3
      <3> QED
        BY <3>1, <3>2
    <2>8. Leads(h, m, log)
      BY <2>6, <2>7 DEF Leads
    <2>9. m \in 0..n
      BY <1>0
    <2> QED
      BY <2>5, <2>8, <2>9
  <1>3. n \in T
    <2> HIDE DEF T, n
    <2> QED
      BY <1>0, <1>1, <1>2, UpTo
  <1> QED
    BY <1>3

BranchIsPath == \E g \in [0..Len(log) -> Seq(Ids)] :
                   Leads(g, Len(log), log) /\ Branch = g[Len(log)]

\* It is the one Branch follows.
LEMMA BranchPath ==
  ASSUME LogTypeOK
  PROVE  BranchIsPath
  <1> DEFINE n == Len(log)
             Value(g, i) == IF i = 0 THEN <<>> ELSE Append(g[log[i].parent], i)
             Fixed(g) == g = [i \in 0..n |-> Value(g, i)]
  <1>0. n \in Nat /\ \A i \in 1..n : log[i].parent \in 0..(i - 1)
    BY RowFacts
  <1>1. PICK g \in [0..n -> Seq(Ids)] : Leads(g, n, log)
    BY PathsExist, Zenon
  <1>2. Fixed(g)
    <2>1. ASSUME NEW i \in 0..n PROVE g[i] = Value(g, i)
      <3>1. CASE i = 0
        BY <1>1, <3>1, Zenon DEF Leads
      <3>2. CASE i # 0
        <4>1. i \in 1..n
          BY <1>0, <3>2
        <4> QED
          BY <3>2, <4>1, <1>1, Zenon DEF Leads
      <3> QED
        BY <3>1, <3>2
    <2> HIDE DEF Value
    <2> QED
      BY <2>1
  <1> DEFINE h == CHOOSE x : Fixed(x)
  <1>3. Fixed(h)
    BY <1>2, Zenon
  <1>4. Branch = h[n]
    BY Zenon DEF Branch
  <1> HIDE DEF h
  <1>5. Leads(h, n, log)
    <2>1. 0 \in 0..n
      BY <1>0
    <2>2. h[0] = <<>>
      BY <1>3, <2>1, Zenon
    <2>3. ASSUME NEW i \in 1..n PROVE h[i] = Append(h[log[i].parent], i)
      <3>1. i \in 0..n /\ i # 0
        BY <1>0
      <3> QED
        BY <1>3, <3>1, Zenon
    <2> QED
      BY <2>2, <2>3, Zenon DEF Leads
  <1>6. h = g
    <2> DEFINE T == {m \in 0..n : \A j \in 0..m : h[j] = g[j]}
    <2>1. 0 \in T
      <3>1. 0 \in 0..n /\ \A j \in 0..0 : j = 0
        BY <1>0
      <3>2. h[0] = g[0]
        BY <1>1, <1>5, Zenon DEF Leads
      <3> QED
        BY <3>1, <3>2
    <2>2. ASSUME NEW m \in 1..n, m - 1 \in T PROVE m \in T
      <3>1. /\ m \in 0..n /\ log[m].parent \in 0..(m - 1)
            /\ \A j \in 0..m : j = m \/ j \in 0..(m - 1)
        BY <1>0
      <3>2. h[m] = Append(h[log[m].parent], m) /\ g[m] = Append(g[log[m].parent], m)
        BY <1>1, <1>5, Zenon DEF Leads
      <3>3. h[m] = g[m]
        BY <2>2, <3>1, <3>2, Zenon
      <3> QED
        BY <2>2, <3>1, <3>3, Zenon
    <2>3. n \in T
      <3> HIDE DEF T, n
      <3> QED
        BY <1>0, <2>1, <2>2, UpTo
    <2>4. \A j \in 0..n : h[j] = g[j]
      BY <2>3
    <2> QED
      BY <1>1, <1>3, <2>4
  <1> QED
    BY <1>1, <1>4, <1>6 DEF BranchIsPath

\* BranchPath as an implication.
LEMMA BranchFollows == LogTypeOK => BranchIsPath
  BY BranchPath

\* A branch is made of rows.
LEMMA BranchType == LogTypeOK => Branch \in Seq(Ids)
  <1> SUFFICES ASSUME LogTypeOK PROVE Branch \in Seq(Ids)
    OBVIOUS
  <1>1. PICK g \in [0..Len(log) -> Seq(Ids)] : Branch = g[Len(log)]
    BY BranchPath, Zenon DEF BranchIsPath
  <1> QED
    BY <1>1 DEF LogTypeOK

\* A row written with the leaf for its parent extends the branch.
LEMMA BranchGrows ==
  ASSUME LogTypeOK, LogTypeOK', Len(log)' = Len(log) + 1,
         \A i \in 1..Len(log) : log'[i] = log[i],
         log'[Len(log) + 1].parent = Len(log)
  PROVE  Branch' = Append(Branch, Len(log) + 1)
  <1> DEFINE n == Len(log)
  <1>0. n \in Nat /\ \A i \in 1..n : log[i].parent \in 0..(i - 1)
    BY RowFacts
  <1>1. PICK g \in [0..n -> Seq(Ids)] : Leads(g, n, log) /\ Branch = g[n]
    BY BranchPath, Zenon DEF BranchIsPath
  <1>2. BranchIsPath'
    BY BranchFollows, PTL
  <1>3. PICK h \in [0..(n + 1) -> Seq(Ids')] :
                Leads(h, n + 1, log') /\ Branch' = h[n + 1]
    BY <1>2 DEF Leads, BranchIsPath
  <1> HIDE DEF n
  <1>4. \A j \in 0..n : h[j] = g[j]
    <2> DEFINE T == {m \in 0..n : \A j \in 0..m : h[j] = g[j]}
    <2>1. 0 \in T
      <3>1. 0 \in 0..n /\ \A j \in 0..0 : j = 0
        BY <1>0
      <3>2. h[0] = g[0]
        BY <1>1, <1>3, Zenon DEF Leads
      <3> QED
        BY <3>1, <3>2
    <2>2. ASSUME NEW m \in 1..n, m - 1 \in T PROVE m \in T
      <3>1. /\ m \in 0..n /\ m \in 1..(n + 1) /\ log[m].parent \in 0..(m - 1)
            /\ \A j \in 0..m : j = m \/ j \in 0..(m - 1)
        BY <1>0
      <3>2. log'[m] = log[m]
        BY DEF n
      <3>3. /\ h[m] = Append(h[log[m].parent], m)
            /\ g[m] = Append(g[log[m].parent], m)
        BY <1>1, <1>3, <3>1, <3>2, Zenon DEF Leads
      <3>4. h[m] = g[m]
        BY <2>2, <3>1, <3>3, Zenon
      <3> QED
        BY <2>2, <3>1, <3>4, Zenon
    <2>3. n \in T
      <3> HIDE DEF T
      <3> QED
        BY <1>0, <2>1, <2>2, UpTo
    <2> QED
      BY <2>3
  <1>5. h[n + 1] = Append(h[n], n + 1)
    <2>1. n + 1 \in 1..(n + 1)
      BY <1>0
    <2>2. log'[n + 1].parent = n
      BY DEF n
    <2> QED
      BY <1>3, <2>1, <2>2, Zenon DEF Leads
  <1>6. h[n] = Branch
    BY <1>0, <1>1, <1>4
  <1> QED
    BY <1>3, <1>5, <1>6 DEF n

-----------------------------------------------------------------------------
(***************************************************************************)
(* The types, step by step.                                                *)
(***************************************************************************)
HostVarsOK ==
  /\ queue \in Seq(Jobs)
  /\ turn \in Turns
  /\ toLog \in Messages
  /\ host \in [op : {"none", "prompt", "model"}, msg : Messages]
  /\ trig \in [step : {"none", "inject", "push", "audit"}, msg : Messages,
               followUp : BOOLEAN]
  /\ requests \in 0..MaxMessages
  /\ sent \in 0..MaxMessages
  /\ compacts \in 0..MaxCompactions
  /\ crashes \in 0..MaxCrashes
  /\ hasModel \in BOOLEAN /\ well \in BOOLEAN /\ raced \in BOOLEAN
  /\ forfeit \subseteq Messages

\* TypeOK in the parts that the proofs below take from it.
LEMMA TypeParts == TypeOK <=> LoopTypeOK /\ LogTypeOK /\ HostVarsOK
  BY DEF TypeOK, HostVarsOK

\* A turn as the queue starts it: it has the message in hand that the next run
\* is to send.
Fresh(t) == /\ t \in Turns
            /\ t.stage = "prep"
            /\ t.hand \in Seq(Users) /\ t.prompt \in Seq(Users)
            /\ t.kind = "compaction" => t.hand = <<>>
            /\ t.plan = NoPlan

\* A turn starts in preparation, with its prompt in hand and nothing planned.
LEMMA FreshTurn ==
  ASSUME NEW kind \in Kinds, NEW p \in Seq(Users), kind = "compaction" => p = <<>>
  PROVE  /\ Fresh(Turn(kind, p))
         /\ Turn(kind, p).kind = kind
         /\ Turn(kind, p).hand = p
  <1>1. p \in Seq(Messages) /\ <<>> \in Seq(Messages) /\ <<>> \in Seq(Users)
    BY UserSeqs
  <1>2. 0 \in 0..MaxRetries
    BY HostAssumption
  <1>3. Turn(kind, p).prompt \in {p, <<>>}
    BY DEF Turn
  <1>4. Turn(kind, p) \in Turns
    BY <1>1, <1>2 DEF Turn, Turns, NoPlan, Stages, Kinds
  <1> QED
    BY <1>1, <1>3, <1>4 DEF Fresh, Turn, NoPlan

\* The turn of an idle host.
LEMMA NoTurnType ==
  /\ NoTurn \in Turns
  /\ NoTurn.stage = "none" /\ NoTurn.hand = <<>> /\ NoTurn.prompt = <<>>
  /\ NoTurn.plan = NoPlan /\ NoTurn.kind = "plain"
  <1>1. <<>> \in Seq(Messages) /\ 0 \in 0..MaxRetries
    BY HostAssumption
  <1> QED
    BY <1>1 DEF NoTurn, Turn, Turns, NoPlan, Stages, Kinds

\* Of a job, the message it still has to send.
Due(job) == IF job.kind # "compaction" /\ ~job.persisted THEN <<job.msg>>
            ELSE <<>>

\* The turn of a queued job has in hand what the job still has to send.
LEMMA JobTurn ==
  ASSUME NEW job \in Jobs, job.kind # "compaction" => job.msg \in Users
  PROVE  /\ Fresh(TurnOf(job))
         /\ TurnOf(job).hand = Due(job)
         /\ TurnOf(job).kind = "compaction" <=> job.kind = "compaction"
  <1>1. /\ <<>> \in Seq(Users) /\ job.kind \in Kinds
        /\ job.persisted \in BOOLEAN
        /\ job.kind # "compaction" => <<job.msg>> \in Seq(Users)
    BY DEF Jobs
  <1>2. "compaction" \in Kinds /\ "plain" \in Kinds
    BY DEF Kinds
  <1>3. CASE job.kind = "compaction"
    <2>1. TurnOf(job) = Turn("compaction", <<>>) /\ Due(job) = <<>>
      BY <1>3 DEF TurnOf, Due
    <2>2. Fresh(Turn("compaction", <<>>)) /\ Turn("compaction", <<>>).hand = <<>>
          /\ Turn("compaction", <<>>).kind = "compaction"
      BY <1>1, <1>2, FreshTurn
    <2> QED
      BY <1>3, <2>1, <2>2
  <1>4. CASE job.kind # "compaction" /\ job.persisted
    <2>1. TurnOf(job) = Turn("plain", <<>>) /\ Due(job) = <<>>
      BY <1>4 DEF TurnOf, Due
    <2>2. Fresh(Turn("plain", <<>>)) /\ Turn("plain", <<>>).hand = <<>>
          /\ Turn("plain", <<>>).kind = "plain"
      BY <1>1, <1>2, FreshTurn
    <2> QED
      BY <1>4, <2>1, <2>2
  <1>5. CASE job.kind # "compaction" /\ ~job.persisted
    <2>1. TurnOf(job) = Turn(job.kind, <<job.msg>>) /\ Due(job) = <<job.msg>>
      BY <1>5 DEF TurnOf, Due
    <2>2. /\ Fresh(Turn(job.kind, <<job.msg>>))
          /\ Turn(job.kind, <<job.msg>>).hand = <<job.msg>>
          /\ Turn(job.kind, <<job.msg>>).kind = job.kind
      BY <1>1, <1>5, FreshTurn
    <2> QED
      BY <1>5, <2>1, <2>2
  <1> QED
    BY <1>1, <1>3, <1>4, <1>5

\* The queue gives up its head or nothing.
LEMMA NextStarts ==
  ASSUME HostInv, NEW model \in BOOLEAN, StartNext(queue, model)
  PROVE  /\ queue' \in Seq(Jobs) /\ turn' \in Turns
         /\ \/ /\ queue # <<>> /\ model
               /\ turn' = TurnOf(Head(queue)) /\ queue' = Tail(queue)
               /\ Head(queue) \in Jobs
               /\ Head(queue).kind # "compaction" => Head(queue).msg \in Users
               /\ Fresh(turn')
               /\ turn'.hand = Due(Head(queue))
            \/ /\ queue = <<>> \/ ~model
               /\ turn' = NoTurn /\ queue' = queue
         /\ turn'.stage \in {"none", "prep"}
         /\ turn'.hand \in Seq(Users) /\ turn'.prompt \in Seq(Users)
         /\ turn'.stage = "none" => turn'.hand = <<>>
         /\ turn'.kind = "compaction" => turn'.hand = <<>>
         /\ turn'.plan = NoPlan
         /\ \A i \in 1..Len(queue') :
               queue'[i].kind # "compaction" => queue'[i].msg \in Users
  <1>0. queue \in Seq(Jobs) /\ <<>> \in Seq(Users)
        /\ \A i \in 1..Len(queue) :
               queue[i].kind # "compaction" => queue[i].msg \in Users
    BY TypeParts DEF HostInv, HostVarsOK, HostShape
  <1>1. CASE queue # <<>> /\ model
    <2>1. /\ turn' = TurnOf(Head(queue)) /\ queue' = Tail(queue)
      BY <1>1 DEF StartNext
    <2>2. /\ Head(queue) \in Jobs /\ Tail(queue) \in Seq(Jobs)
          /\ Head(queue) = queue[1] /\ 1 \in 1..Len(queue)
          /\ \A i \in 1..Len(Tail(queue)) :
               i + 1 \in 1..Len(queue) /\ Tail(queue)[i] = queue[i + 1]
      BY <1>0, <1>1
    <2>3. Head(queue).kind # "compaction" => Head(queue).msg \in Users
      BY <1>0, <2>2
    <2>4. Fresh(turn') /\ turn'.hand = Due(Head(queue))
      BY <2>1, <2>2, <2>3, JobTurn, Zenon
    <2>5. \A i \in 1..Len(queue') :
               queue'[i].kind # "compaction" => queue'[i].msg \in Users
      BY <1>0, <2>1, <2>2
    <2> QED
      BY <1>1, <2>1, <2>2, <2>3, <2>4, <2>5 DEF Fresh
  <1>2. CASE ~(queue # <<>> /\ model)
    <2>1. turn' = NoTurn /\ queue' = queue
      BY <1>2 DEF StartNext
    <2> QED
      BY <1>0, <1>2, <2>1, NoTurnType
  <1> QED
    BY <1>1, <1>2

\* What a step of the run does with messages: it puts the first of its batch
\* into the transcript, it takes a new batch out of the queues, or it leaves
\* them all alone.
Pushes == /\ loop = "pushing" /\ batch # <<>>
          /\ transcript' = Append(transcript, Head(batch))
          /\ batch' = Tail(batch)
          /\ loop' = "pushing"
          /\ UNCHANGED queueVars
Takes  == /\ batch = <<>>
          /\ steering' = Kept(steering)
          /\ \/ /\ followUp' = followUp
                /\ batch' = Drained(steering)
             \/ /\ Drained(steering) = <<>>
                /\ followUp' = Kept(followUp)
                /\ batch' = Drained(followUp)
          /\ batch' # <<>> => loop' = "pushing"
          /\ loop # "pushing"
          /\ UNCHANGED transcript
Waits  == /\ batch = <<>>
          /\ UNCHANGED <<batch, transcript, queueVars>>

\* At a boundary the run takes from one of its two queues.
LEMMA BoundaryTakes ==
  ASSUME LoopTypeOK, batch = <<>>, NEW last \in BOOLEAN, NEW o,
         loop # "pushing", Boundary(last, o)
  PROVE  Takes
  <1>1. /\ Drained(steering) \in Seq(Messages)
        /\ Drained(followUp) \in Seq(Messages)
    BY DrainedKept DEF LoopTypeOK
  <1>2. CASE last /\ Drained(steering) = <<>>
    BY <1>1, <1>2 DEF Boundary, Takes
  <1>3. CASE ~(last /\ Drained(steering) = <<>>)
    BY <1>1, <1>3 DEF Boundary, Takes
  <1> QED
    BY <1>2, <1>3

\* What a step of the run does with the messages it carries.
LEMMA RunMoves ==
  ASSUME LoopTypeOK, batch # <<>> => loop = "pushing", RunStep
  PROVE  Pushes \/ Takes \/ Waits
  <1>1. CASE PushMessage
    BY <1>1 DEF PushMessage, Pushes
  <1>2. CASE LoopHead
    BY <1>2 DEF LoopHead, Waits
  <1>3. CASE CallModel
    BY <1>3 DEF CallModel, Waits
  <1>4. CASE CallAborted \/ CallInterrupted
    BY <1>4 DEF CallAborted, CallInterrupted, Waits
  <1>5. CASE TurnEnds \/ InterruptedTurnEnds
    BY <1>5, BoundaryTakes DEF TurnEnds, InterruptedTurnEnds
  <1>6. CASE EndRun
    BY <1>6 DEF EndRun, Waits
  <1>7. CASE ProviderStep
    BY <1>7 DEF ProviderStep, ModelReplies, ModelFails, CallLive, Waits
  <1>8. CASE ToolsReturn
    BY <1>8, BoundaryTakes DEF ToolsReturn, Waits
  <1> QED
    BY <1>1, <1>2, <1>3, <1>4, <1>5, <1>6, <1>7, <1>8
       DEF RunStep, LoopStep

\* Messages a step of the run moves about stay messages of users.
LEMMA RunKeepsUsers ==
  ASSUME LoopTypeOK, Pushes \/ Takes \/ Waits, batch # <<>> => loop = "pushing",
         NEW S, steering \in Seq(S), followUp \in Seq(S), batch \in Seq(S)
  PROVE  /\ steering' \in Seq(S) /\ followUp' \in Seq(S) /\ batch' \in Seq(S)
         /\ batch' # <<>> => loop' = "pushing"
         /\ Pushes => Head(batch) \in S /\ loop = "pushing"
  <1>1. /\ Drained(steering) \in Seq(S) /\ Kept(steering) \in Seq(S)
        /\ Drained(followUp) \in Seq(S) /\ Kept(followUp) \in Seq(S)
    BY DrainedKept
  <1>5. Pushes => Head(batch) \in S /\ loop = "pushing"
    BY DEF Pushes
  <1>2. CASE Pushes
    BY <1>2, <1>5 DEF Pushes, queueVars
  <1>3. CASE Takes
    BY <1>1, <1>3, <1>5 DEF Takes
  <1>4. CASE Waits
    BY <1>4, <1>5 DEF Waits, queueVars
  <1> QED
    BY <1>2, <1>3, <1>4

\* The turn ends, and the next one in the queue may start.
LEMMA Finished ==
  ASSUME HostInv, Finish
  PROVE  StartNext(queue, hasModel) /\ hasModel \in BOOLEAN
  BY TypeParts DEF Finish, HostInv, HostVarsOK

\* Whatever else a step does, what it leaves alone keeps its type.
LEMMA LoopSame == LoopTypeOK /\ UNCHANGED loopVars => LoopTypeOK'
  BY LoopTypeStutter

\* The log as it was.
LEMMA LogSame ==
  LogTypeOK /\ UNCHANGED logVars => LogTypeOK' /\ Len(log)' = Len(log)
  BY DEF LogTypeOK, logVars

\* The steps that end a turn without a run.
LEMMA EndTurnType ==
  ASSUME HostInv,
         NothingToContinue \/ NothingToCompact \/ HookPasses
  PROVE  HostInv'
  <1>0. LoopTypeOK /\ LogTypeOK /\ HostVarsOK /\ HostShape
    BY TypeParts DEF HostInv
  <1>1. /\ StartNext(queue, hasModel) /\ hasModel \in BOOLEAN
        /\ well' \in BOOLEAN
        /\ turn.stage # "running"
        /\ UNCHANGED <<loopVars, logVars, toLog, host, trig, requests, hasModel,
                       sent, compacts, crashes, forfeit, raced>>
    <2>1. Finish
      BY DEF NothingToContinue, NothingToCompact, HookPasses
    <2>2. turn.stage \in {"prep", "ready", "hook"}
      BY DEF NothingToContinue, NothingToCompact, HookPasses, Polled
    <2> QED
      BY <2>1, <2>2, <1>0, Finished
         DEF NothingToContinue, NothingToCompact, HookPasses, HostVarsOK
  <1>2. LoopTypeOK' /\ LogTypeOK' /\ Len(log)' = Len(log)
    BY <1>0, <1>1, LoopSame, LogSame
  <1>3. HostVarsOK'
    BY <1>0, <1>1, NextStarts DEF HostVarsOK
  <1>4. HostShape'
    BY <1>0, <1>1, <1>2, NextStarts DEF HostShape, loopVars, NoPlan
  <1> QED
    BY <1>2, <1>3, <1>4, TypeParts, PTL DEF HostInv

\* A failed attempt at a user prompt, and what becomes of the turn.
LEMMA AttemptType ==
  ASSUME HostInv, AttemptFails
  PROVE  /\ queue' \in Seq(Jobs) /\ turn' \in Turns
         /\ forfeit' \subseteq Messages
         /\ LogTypeOK' /\ Len(log)' = Len(log) /\ log' = log
         /\ turn'.stage \in {"none", "prep", "backoff", "noting"}
         /\ turn'.hand \in Seq(Users) /\ turn'.prompt \in Seq(Users)
         /\ turn'.stage = "none" => turn'.hand = <<>>
         /\ turn'.kind = "compaction" => turn'.hand = <<>>
         /\ turn'.plan = NoPlan
         /\ \A i \in 1..Len(queue') :
               queue'[i].kind # "compaction" => queue'[i].msg \in Users
  <1>0. LoopTypeOK /\ LogTypeOK /\ HostVarsOK /\ HostShape
    BY TypeParts DEF HostInv
  <1>1. /\ turn.hand \in Seq(Users) /\ turn.prompt \in Seq(Users)
        /\ turn.hand \in Seq(Messages) /\ turn.prompt \in Seq(Messages)
        /\ <<>> \in Seq(Users) /\ <<>> \in Seq(Messages)
        /\ forfeit \subseteq Messages
    BY <1>0, UserSeqs DEF HostShape, HostVarsOK
  <1>2. ASSUME NEW ms \in Seq(Messages), GiveUp(ms) PROVE forfeit' \subseteq Messages
    BY <1>1, <1>2 DEF GiveUp, Elements
  <1>3. CASE Retry
    <2>1. /\ turn' = [turn EXCEPT !.stage = "backoff", !.hand = <<>>,
                                  !.attempt = @ + 1, !.plan = NoPlan]
          /\ turn.kind = "user" /\ turn.attempt < MaxRetries
          /\ GiveUp(turn.hand)
          /\ UNCHANGED <<logVars, queue>>
      BY <1>3 DEF Retry
    <2>a. turn.attempt + 1 \in 0..MaxRetries
      <3>1. turn.attempt \in 0..MaxRetries /\ MaxRetries \in Nat
        BY <1>0, HostAssumption DEF HostVarsOK, Turns
      <3>2. turn.attempt < MaxRetries
        BY <1>3 DEF Retry
      <3> QED
        BY <3>1, <3>2
    <2>b. NoPlan \in [kept : Nat, before : Nat] /\ "backoff" \in Stages
      BY DEF NoPlan, Stages
    <2>2. turn' \in Turns
      BY <2>1, <2>a, <2>b, <1>0, <1>1 DEF HostVarsOK, Turns
    <2>3. /\ turn'.stage = "backoff" /\ turn'.hand = <<>> /\ turn'.kind = "user"
          /\ turn'.prompt = turn.prompt /\ turn'.plan = NoPlan
      BY <2>1, <1>0 DEF HostVarsOK, Turns
    <2>4. LogTypeOK' /\ Len(log)' = Len(log) /\ log' = log
      BY <2>1, <1>0, LogSame DEF logVars
    <2> QED
      BY <1>0, <1>1, <1>2, <2>1, <2>2, <2>3, <2>4 DEF HostShape, HostVarsOK
  <1>4. CASE FallBack
    <2>1. /\ turn' = [turn EXCEPT !.stage = "noting", !.hand = turn.prompt,
                                  !.prompt = <<>>,
                                  !.attempt = 0, !.fellBack = TRUE,
                                  !.plan = NoPlan]
          /\ turn.kind = "user"
          /\ GiveUp(turn.hand \o turn.prompt)
          /\ ReadLeaf("turn")
          /\ UNCHANGED queue
      BY <1>4 DEF FallBack
    <2>a. 0 \in 0..MaxRetries
      BY HostAssumption
    <2>b. NoPlan \in [kept : Nat, before : Nat] /\ "noting" \in Stages
      BY DEF NoPlan, Stages
    <2>2. turn' \in Turns
      BY <2>1, <2>a, <2>b, <1>0, <1>1 DEF HostVarsOK, Turns
    <2>3. /\ turn'.stage = "noting" /\ turn'.hand = turn.prompt
          /\ turn'.kind = "user"
          /\ turn'.prompt = <<>> /\ turn'.plan = NoPlan
      BY <2>1, <1>0 DEF HostVarsOK, Turns
    <2>4. LogTypeOK' /\ Len(log)' = Len(log) /\ log' = log
      <3>1. LogTypeOK' /\ Len(log)' = Len(log)
        BY <2>1, <1>0, LeafRead, WritersKnown
      <3> QED
        BY <2>1, <3>1 DEF ReadLeaf
    <2>5. turn.hand \o turn.prompt \in Seq(Messages)
      BY <1>1
    <2> QED
      BY <1>0, <1>1, <1>2, <2>1, <2>2, <2>3, <2>4, <2>5 DEF HostShape, HostVarsOK
  <1>5. CASE Finish /\ GiveUp(turn.hand) /\ UNCHANGED logVars
    <2>1. LogTypeOK' /\ Len(log)' = Len(log) /\ log' = log
      BY <1>5, <1>0, LogSame DEF logVars
    <2>2. StartNext(queue, hasModel) /\ hasModel \in BOOLEAN
      BY <1>5, Finished
    <2>3. forfeit' \subseteq Messages
      BY <1>1, <1>2, <1>5
    <2> QED
      BY <2>1, <2>2, <2>3, NextStarts
  <1> QED
    BY <1>3, <1>4, <1>5 DEF AttemptFails

\* An attempt fails while the summary is written or in the run.
LEMMA FailedAttemptType ==
  ASSUME HostInv, SummaryFails \/ RunFails
  PROVE  HostInv'
  <1>0. LoopTypeOK /\ LogTypeOK /\ HostVarsOK /\ HostShape
    BY TypeParts DEF HostInv
  <1>1. CASE SummaryFails
    <2>1. /\ AttemptFails /\ turn.stage = "summarizing"
          /\ UNCHANGED <<loopVars, toLog, host, trig, requests, hasModel, sent,
                         compacts, crashes, raced>>
          /\ well' = (well /\ turn.kind = "compaction")
      BY <1>1 DEF SummaryFails, Polled
    <2>2. well' \in BOOLEAN
      BY <2>1
    <2>3. LoopTypeOK' /\ LogTypeOK' /\ Len(log)' = Len(log)
      BY <1>0, <2>1, LoopSame, AttemptType
    <2>4. HostVarsOK'
      BY <1>0, <2>1, <2>2, AttemptType DEF HostVarsOK
    <2>5. HostShape'
      BY <1>0, <2>1, <2>3, AttemptType DEF HostShape, loopVars, NoPlan
    <2> QED
      BY <2>3, <2>4, <2>5, TypeParts, PTL DEF HostInv
  <1>2. CASE RunFails
    <2>1. /\ turn.stage = "running" /\ loop = "idle"
          /\ \/ AttemptFails
             \/ Finish /\ UNCHANGED <<logVars, forfeit>>
          /\ well' = FALSE
          /\ outcome' = "none"
          /\ UNCHANGED <<loop, activeCancel, turnCancel, queueVars, batch,
                         transcript, iterations, unanswered, toLog, host, trig,
                         requests, hasModel, sent, compacts, crashes, raced>>
      BY <1>2 DEF RunFails, Took, Polled
    <2>2. LoopTypeOK'
      BY <1>0, <2>1 DEF LoopTypeOK, queueVars, Outcomes
    <2>3. CASE AttemptFails
      <3>1. LogTypeOK' /\ Len(log)' = Len(log)
        BY <2>3, AttemptType
      <3>2. HostVarsOK'
        BY <1>0, <2>1, <2>3, AttemptType DEF HostVarsOK
      <3>3. HostShape'
        BY <1>0, <2>1, <2>3, <3>1, AttemptType DEF HostShape, NoPlan, queueVars
      <3> QED
        BY <2>2, <3>1, <3>2, <3>3, TypeParts, PTL DEF HostInv
    <2>4. CASE Finish /\ UNCHANGED <<logVars, forfeit>>
      <3>0. StartNext(queue, hasModel) /\ hasModel \in BOOLEAN
        BY <2>4, Finished
      <3>1. LogTypeOK' /\ Len(log)' = Len(log)
        BY <1>0, <2>4, LogSame
      <3>2. HostVarsOK'
        BY <1>0, <2>1, <2>4, <3>0, NextStarts DEF HostVarsOK
      <3>3. HostShape'
        BY <1>0, <2>1, <3>0, <3>1, NextStarts DEF HostShape, NoPlan, queueVars
      <3> QED
        BY <2>2, <3>1, <3>2, <3>3, TypeParts, PTL DEF HostInv
    <2> QED
      BY <2>1, <2>3, <2>4
  <1> QED
    BY <1>1, <1>2

\* Where a compaction may cut, and what it then keeps.
LEMMA PlanType ==
  ASSUME LogTypeOK, NEW k \in CutPoints(Branch)
  PROVE  /\ CompactionPlan(Branch, k) \in [kept : Nat, before : Nat]
         /\ CompactionPlan(Branch, k).kept \in Ids
         /\ k \in 2..Len(Branch)
  <1>1. Branch \in Seq(Ids) /\ k \in 2..Len(Branch) /\ Ids \subseteq Nat
    BY BranchType DEF CutPoints, Ids
  <1>2. Branch[k] \in Ids /\ SubSeq(Branch, 1, k - 1) \in Seq(Ids)
    BY <1>1
  <1>3. MessageRows(SubSeq(Branch, 1, k - 1)) \in Seq(Ids)
    BY <1>2, OnlySeq, Zenon DEF MessageRows
  <1>4. Len(MessageRows(SubSeq(Branch, 1, k - 1))) \in Nat
    BY <1>3
  <1> QED
    BY <1>1, <1>2, <1>4 DEF CompactionPlan

\* The steps of a compaction.
LEMMA CompactionType ==
  ASSUME HostInv, Snapshot \/ Summarized \/ CompactionApplied
  PROVE  HostInv'
  <1>0. LoopTypeOK /\ LogTypeOK /\ HostVarsOK /\ HostShape
    BY TypeParts DEF HostInv
  <1>1. CASE Snapshot
    <2>1. PICK k \in CutPoints(Branch) :
             turn' = [turn EXCEPT !.stage = "summarizing",
                                  !.plan = CompactionPlan(Branch, k)]
      BY <1>1 DEF Snapshot
    <2>2. /\ compacts' = compacts + (IF turn.kind = "compaction" THEN 0 ELSE 1)
          /\ turn.kind # "compaction" => compacts < MaxCompactions
          /\ UNCHANGED <<loopVars, logVars, queue, toLog, host, trig, requests,
                         hasModel, sent, crashes, forfeit, well, raced>>
          /\ turn.stage = "prep"
      BY <1>1 DEF Snapshot, Polled
    <2>3. /\ CompactionPlan(Branch, k) \in [kept : Nat, before : Nat]
          /\ CompactionPlan(Branch, k).kept \in Ids
      BY <1>0, PlanType
    <2>4. /\ turn' \in Turns /\ turn'.stage = "summarizing"
          /\ turn'.hand = turn.hand /\ turn'.prompt = turn.prompt
          /\ turn'.kind = turn.kind /\ turn'.plan.kept \in Ids
      BY <2>1, <2>3, <1>0 DEF HostVarsOK, Turns, Stages
    <2>5. LoopTypeOK' /\ LogTypeOK' /\ Len(log)' = Len(log)
      BY <1>0, <2>2, LoopSame, LogSame
    <2>6. compacts' \in 0..MaxCompactions
      BY <2>2, <1>0, HostAssumption DEF HostVarsOK
    <2>7. HostVarsOK'
      BY <1>0, <2>2, <2>4, <2>6 DEF HostVarsOK
    <2>8. HostShape'
      BY <1>0, <2>2, <2>4, <2>5 DEF HostShape, loopVars, logVars, Ids
    <2> QED
      BY <2>5, <2>7, <2>8, TypeParts, PTL DEF HostInv
  <1>2. CASE Summarized
    <2>1. /\ turn' = [turn EXCEPT !.stage = "compacting"]
          /\ ReadLeaf("turn")
          /\ turn.stage = "summarizing"
          /\ UNCHANGED <<loopVars, queue, toLog, host, trig, requests, hasModel,
                         sent, compacts, crashes, forfeit, well, raced>>
      BY <1>2 DEF Summarized, To, Polled
    <2>2. /\ turn' \in Turns /\ turn'.stage = "compacting"
          /\ turn'.hand = turn.hand /\ turn'.prompt = turn.prompt
          /\ turn'.kind = turn.kind /\ turn'.plan = turn.plan
      BY <2>1, <1>0 DEF HostVarsOK, Turns, Stages
    <2>3. LoopTypeOK' /\ LogTypeOK' /\ Len(log)' = Len(log)
      BY <1>0, <2>1, LoopSame, LeafRead, WritersKnown
    <2>4. HostVarsOK'
      BY <1>0, <2>1, <2>2 DEF HostVarsOK
    <2>5. HostShape'
      BY <1>0, <2>1, <2>2, <2>3 DEF HostShape, loopVars
    <2> QED
      BY <2>3, <2>4, <2>5, TypeParts, PTL DEF HostInv
  <1>3. CASE CompactionApplied
    <2>1. /\ WriteRow("turn", "compaction", Summary, turn.plan.kept)
          /\ transcript' = Replaced(transcript, turn.plan)
          /\ turn' = [turn EXCEPT !.stage = "ready"]
          /\ Races("turn")
          /\ turn.stage = "compacting"
          /\ UNCHANGED <<loop, activeCancel, turnCancel, queueVars, batch,
                         iterations, unanswered, outcome, queue, toLog, host,
                         trig, requests, hasModel, sent, compacts, crashes,
                         forfeit, well>>
      BY <1>3 DEF CompactionApplied, To, Polled
    <2>2. /\ turn' \in Turns /\ turn'.stage = "ready"
          /\ turn'.hand = turn.hand /\ turn'.prompt = turn.prompt
          /\ turn'.kind = turn.kind /\ turn'.plan = turn.plan
      BY <2>1, <1>0 DEF HostVarsOK, Turns, Stages
    <2>3. turn.plan.kept \in 0..Len(log) /\ Len(log) \in Nat
          /\ turn.plan.before \in Nat
      BY <1>0, RowFacts DEF HostVarsOK, HostShape, Turns
    <2>4. LogTypeOK' /\ Len(log)' = Len(log) + 1
      <3>1. "turn" \in Writers /\ "compaction" \in RowTypes /\ Summary \in Nat
        BY WritersKnown DEF RowTypes, Summary
      <3> QED
        BY <1>0, <2>1, <2>3, <3>1, RowWritten
    <2>5. transcript' \in Seq(Messages)
      <3>1. transcript \in Seq(Messages) /\ Summary \in Messages
        BY <1>0, MessageNumbers DEF LoopTypeOK, Summary
      <3>2. SubSeq(transcript, turn.plan.before + 1, Len(transcript)) \in Seq(Messages)
        BY <3>1, <2>3
      <3> QED
        BY <2>1, <3>1, <3>2 DEF Replaced
    <2>6. LoopTypeOK'
      BY <1>0, <2>1, <2>5 DEF LoopTypeOK, queueVars
    <2>7. raced' \in BOOLEAN
      BY <2>1 DEF Races
    <2>8. HostVarsOK'
      BY <1>0, <2>1, <2>2, <2>7 DEF HostVarsOK
    <2>9. HostShape'
      BY <1>0, <2>1, <2>2, <2>3, <2>4 DEF HostShape, queueVars
    <2> QED
      BY <2>4, <2>6, <2>8, <2>9, TypeParts, PTL DEF HostInv
  <1> QED
    BY <1>1, <1>2, <1>3

\* The run of the turn, and the listener that logs its messages.
LEMMA RunType ==
  ASSUME HostInv,
         TurnBegins \/ RunAdvances \/ ListenerReads \/ ListenerWrites \/ RunSucceeds
  PROVE  HostInv'
  <1>0. LoopTypeOK /\ LogTypeOK /\ HostVarsOK /\ HostShape
    BY TypeParts DEF HostInv
  <1>1. CASE TurnBegins
    <2>1. /\ BeginRun(turn.hand)
          /\ turn' = [turn EXCEPT !.stage = "running", !.hand = <<>>, !.plan = NoPlan]
          /\ turn.kind # "compaction"
          /\ turn.stage \in {"prep", "ready"}
          /\ UNCHANGED <<logVars, queue, toLog, host, trig, requests, hasModel,
                         sent, compacts, crashes, forfeit, well, raced>>
      BY <1>1 DEF TurnBegins, Polled
    <2>a. NoPlan \in [kept : Nat, before : Nat] /\ NoPlan.kept = 0
          /\ <<>> \in Seq(Messages) /\ <<>> \in Seq(Users)
          /\ turn.hand \in Seq(Messages)
      BY <1>0, UserSeqs DEF NoPlan, HostShape
    <2>2. /\ turn' \in Turns /\ turn'.stage = "running" /\ turn'.hand = <<>>
          /\ turn'.prompt = turn.prompt /\ turn'.kind = turn.kind
          /\ turn'.plan = NoPlan
      BY <2>1, <2>a, <1>0 DEF HostVarsOK, Turns, Stages
    <2>3. LogTypeOK' /\ Len(log)' = Len(log) /\ Len(log) \in Nat
      BY <1>0, <2>1, LogSame, RowFacts
    <2>4. LoopTypeOK'
      <3>1. iterations' \in 0..(IF MaxIterations = NoCap THEN 0 ELSE MaxIterations)
        BY <2>1, AgentLoopAssumption DEF BeginRun, NoCap
      <3> QED
        BY <1>0, <2>1, <2>a, <3>1
           DEF BeginRun, LoopTypeOK, LoopSteps, Tokens, Outcomes, queueVars
    <2>5. HostVarsOK'
      BY <1>0, <2>1, <2>2 DEF HostVarsOK
    <2>6. HostShape'
      BY <1>0, <2>1, <2>2, <2>3, <2>a DEF HostShape, BeginRun, queueVars
    <2> QED
      BY <2>3, <2>4, <2>5, <2>6, TypeParts, PTL DEF HostInv
  <1>2. CASE RunAdvances
    <2>1. /\ RunStep /\ toLog = 0
          /\ toLog' = IF loop = "pushing" /\ batch # <<>> THEN Head(batch) ELSE 0
          /\ raced' = (raced \/ (toLog' # 0 /\ trig.step = "push"))
          /\ turn.stage = "running"
          /\ UNCHANGED <<logVars, queue, turn, host, trig, requests, hasModel,
                         sent, compacts, crashes, forfeit, well>>
      BY <1>2 DEF RunAdvances, Polled
    <2>2. LogTypeOK' /\ Len(log)' = Len(log)
      BY <1>0, <2>1, LogSame
    <2>3. LoopTypeOK'
      BY <1>0, <2>1, RunStepType
    <2>4. /\ batch # <<>> => loop = "pushing"
          /\ steering \in Seq(Users) /\ followUp \in Seq(Users) /\ batch \in Seq(Users)
      BY <1>0 DEF HostShape
    <2>5. Pushes \/ Takes \/ Waits
      BY <1>0, <2>1, <2>4, RunMoves
    <2>6. /\ steering' \in Seq(Users) /\ followUp' \in Seq(Users)
          /\ batch' \in Seq(Users)
          /\ batch' # <<>> => loop' = "pushing"
          /\ Pushes => Head(batch) \in Users /\ loop = "pushing"
      BY <1>0, <2>4, <2>5, RunKeepsUsers
    <2>7. /\ toLog' # 0 => loop' = "pushing"
          /\ toLog' \in Messages
      BY <2>1, <2>5, <2>6, MessageNumbers DEF Pushes, Takes, Waits
    <2>8. HostVarsOK'
      BY <1>0, <2>1, <2>7 DEF HostVarsOK
    <2>9. HostShape'
      BY <1>0, <2>1, <2>2, <2>6, <2>7 DEF HostShape
    <2> QED
      BY <2>2, <2>3, <2>8, <2>9, TypeParts, PTL DEF HostInv
  <1>3. CASE ListenerReads
    <2>1. ReadLeaf("turn") /\ UNCHANGED <<loopVars, hostVars>>
      BY <1>3 DEF ListenerReads
    <2>2. LoopTypeOK' /\ LogTypeOK' /\ Len(log)' = Len(log)
      BY <1>0, <2>1, LoopSame, LeafRead, WritersKnown
    <2>3. HostVarsOK'
      BY <1>0, <2>1 DEF HostVarsOK, hostVars
    <2>4. HostShape'
      BY <1>0, <2>1, <2>2 DEF HostShape, hostVars, loopVars
    <2> QED
      BY <2>2, <2>3, <2>4, TypeParts, PTL DEF HostInv
  <1>4. CASE ListenerWrites
    <2>1. /\ WriteRow("turn", "message", toLog, 0)
          /\ toLog' = 0
          /\ Races("turn")
          /\ UNCHANGED <<loopVars, queue, turn, host, trig, requests, hasModel,
                         sent, compacts, crashes, forfeit, well>>
      BY <1>4 DEF ListenerWrites
    <2>2. LogTypeOK' /\ Len(log)' = Len(log) + 1 /\ Len(log) \in Nat
      <3>1. "turn" \in Writers /\ "message" \in RowTypes /\ toLog \in Nat
        BY <1>0, WritersKnown, MessageNumbers, HostAssumption DEF RowTypes, HostVarsOK
      <3>2. 0 \in 0..Len(log) /\ Len(log) \in Nat
        BY <1>0, RowFacts
      <3> QED
        BY <1>0, <2>1, <3>1, <3>2, RowWritten
    <2>3. LoopTypeOK'
      BY <1>0, <2>1, LoopSame
    <2>4. HostVarsOK'
      BY <1>0, <2>1, MessageNumbers DEF HostVarsOK, Races
    <2>5. HostShape'
      <3>1. turn.plan.kept \in Nat
        BY <1>0 DEF HostVarsOK, Turns
      <3> QED
        BY <1>0, <2>1, <2>2, <3>1 DEF HostShape, loopVars
    <2> QED
      BY <2>2, <2>3, <2>4, <2>5, TypeParts, PTL DEF HostInv
  <1>5. CASE RunSucceeds
    <2>1. /\ turn' = [turn EXCEPT !.stage = "hook"]
          /\ turn.stage = "running" /\ loop = "idle"
          /\ well' = (outcome = "done")
          /\ outcome' = "none"
          /\ UNCHANGED <<loop, activeCancel, turnCancel, queueVars, batch,
                         transcript, iterations, unanswered, logVars, queue,
                         toLog, host, trig, requests, hasModel, sent, compacts,
                         crashes, forfeit, raced>>
      BY <1>5 DEF RunSucceeds, Took, To, Polled
    <2>2. /\ turn' \in Turns /\ turn'.stage = "hook"
          /\ turn'.hand = turn.hand /\ turn'.prompt = turn.prompt
          /\ turn'.kind = turn.kind /\ turn'.plan = turn.plan
      BY <2>1, <1>0 DEF HostVarsOK, Turns, Stages
    <2>3. LogTypeOK' /\ Len(log)' = Len(log)
      BY <1>0, <2>1, LogSame
    <2>4. LoopTypeOK'
      BY <1>0, <2>1 DEF LoopTypeOK, queueVars, Outcomes
    <2>5. HostVarsOK'
      BY <1>0, <2>1, <2>2 DEF HostVarsOK
    <2>6. HostShape'
      BY <1>0, <2>1, <2>2, <2>3 DEF HostShape, queueVars
    <2> QED
      BY <2>3, <2>4, <2>5, <2>6, TypeParts, PTL DEF HostInv
  <1> QED
    BY <1>1, <1>2, <1>3, <1>4, <1>5

\* The turn-end hook stops the turn, and its decision is recorded.
LEMMA HookStopsType ==
  ASSUME HostInv, HookStops
  PROVE  HostInv'
  <1>0. LoopTypeOK /\ LogTypeOK /\ HostVarsOK /\ HostShape
    BY TypeParts DEF HostInv
  <1>1. /\ turn' = [turn EXCEPT !.stage = "parting"]
        /\ turn.stage = "hook"
        /\ ReadLeaf("turn")
        /\ UNCHANGED <<loopVars, queue, toLog, host, trig, requests, hasModel,
                       sent, compacts, crashes, forfeit, well, raced>>
    BY DEF HookStops, To, Polled
  <1>2. /\ turn' \in Turns /\ turn'.stage = "parting"
        /\ turn'.hand = turn.hand /\ turn'.prompt = turn.prompt
        /\ turn'.kind = turn.kind /\ turn'.plan = turn.plan
    BY <1>0, <1>1 DEF HostVarsOK, Turns, Stages
  <1>3. LoopTypeOK' /\ LogTypeOK' /\ Len(log)' = Len(log)
    BY <1>0, <1>1, LoopSame, LeafRead, WritersKnown
  <1>4. HostVarsOK'
    BY <1>0, <1>1, <1>2 DEF HostVarsOK
  <1>5. HostShape'
    BY <1>0, <1>1, <1>2, <1>3 DEF HostShape, loopVars
  <1> QED
    BY <1>3, <1>4, <1>5, TypeParts, PTL DEF HostInv

LEMMA StopNotedType ==
  ASSUME HostInv, StopNoted
  PROVE  HostInv'
  <1>0. LoopTypeOK /\ LogTypeOK /\ HostVarsOK /\ HostShape
    BY TypeParts DEF HostInv
  <1>1. /\ StartNext(queue, hasModel) /\ hasModel \in BOOLEAN
        /\ turn.stage # "running"
        /\ WriteRow("turn", "custom", 0, 0)
        /\ Races("turn")
        /\ UNCHANGED <<loopVars, toLog, host, trig, requests, hasModel, sent,
                       compacts, crashes, forfeit, well>>
    BY Finished DEF StopNoted, Polled
  <1>2. LogTypeOK' /\ Len(log)' = Len(log) + 1 /\ Len(log) \in Nat
    <2>1. "turn" \in Writers /\ "custom" \in RowTypes
      BY WritersKnown DEF RowTypes
    <2>2. 0 \in 0..Len(log) /\ Len(log) \in Nat /\ 0 \in Nat
      BY <1>0, RowFacts
    <2> QED
      BY <1>0, <1>1, <2>1, <2>2, RowWritten
  <1>3. LoopTypeOK'
    BY <1>0, <1>1, LoopSame
  <1>4. HostVarsOK'
    BY <1>0, <1>1, NextStarts DEF HostVarsOK, Races
  <1>5. HostShape'
    <2>1. turn.plan.kept \in Nat
      BY <1>0 DEF HostVarsOK, Turns
    <2> QED
      BY <1>0, <1>1, <1>2, <2>1, NextStarts DEF HostShape, loopVars, NoPlan
  <1> QED
    BY <1>2, <1>3, <1>4, <1>5, TypeParts, PTL DEF HostInv

\* The turn between its runs.
LEMMA BetweenRunsType ==
  ASSUME HostInv, BackoffEnds \/ HookContinues \/ NoteWrites
  PROVE  HostInv'
  <1>0. LoopTypeOK /\ LogTypeOK /\ HostVarsOK /\ HostShape
    BY TypeParts DEF HostInv
  <1>1. CASE BackoffEnds
    <2>1. /\ turn' = [turn EXCEPT !.stage = "prep"]
          /\ turn.stage = "backoff"
          /\ UNCHANGED <<loopVars, logVars, queue, toLog, host, trig, requests,
                         hasModel, sent, compacts, crashes, forfeit, well, raced>>
      BY <1>1 DEF BackoffEnds, To, Polled
    <2>2. /\ turn' \in Turns /\ turn'.stage = "prep"
          /\ turn'.hand = turn.hand /\ turn'.prompt = turn.prompt
          /\ turn'.kind = turn.kind /\ turn'.plan = turn.plan
      BY <2>1, <1>0 DEF HostVarsOK, Turns, Stages
    <2>3. LoopTypeOK' /\ LogTypeOK' /\ Len(log)' = Len(log)
      BY <1>0, <2>1, LoopSame, LogSame
    <2>4. HostVarsOK'
      BY <1>0, <2>1, <2>2 DEF HostVarsOK
    <2>5. HostShape'
      BY <1>0, <2>1, <2>2, <2>3 DEF HostShape, loopVars
    <2> QED
      BY <2>3, <2>4, <2>5, TypeParts, PTL DEF HostInv
  <1>2. CASE HookContinues
    <2>1. /\ turn' = [turn EXCEPT !.stage = "noting", !.hand = <<sent + 1>>]
          /\ turn.stage = "hook"
          /\ sent < MaxMessages /\ sent' = sent + 1
          /\ ReadLeaf("turn")
          /\ UNCHANGED <<loopVars, queue, toLog, host, trig, requests, hasModel,
                         compacts, crashes, forfeit, well, raced>>
      BY <1>2 DEF HookContinues, Polled
    <2>2. sent' \in Users /\ sent' \in 0..MaxMessages /\ sent < sent'
          /\ sent \in Nat /\ requests \in Nat
      BY <1>0, <2>1, HostAssumption DEF HostVarsOK, Users
    <2>3. <<sent + 1>> \in Seq(Users) /\ <<sent + 1>> \in Seq(Messages)
      BY <2>1, <2>2, MessageNumbers
    <2>4. /\ turn' \in Turns /\ turn'.stage = "noting"
          /\ turn'.hand = <<sent + 1>> /\ turn'.prompt = turn.prompt
          /\ turn'.kind = turn.kind /\ turn'.plan = turn.plan
      BY <2>1, <2>3, <1>0 DEF HostVarsOK, Turns, Stages
    <2>5. LoopTypeOK' /\ LogTypeOK' /\ Len(log)' = Len(log)
      BY <1>0, <2>1, LoopSame, LeafRead, WritersKnown
    <2>6. HostVarsOK'
      BY <1>0, <2>1, <2>2, <2>4 DEF HostVarsOK
    <2>7. HostShape'
      BY <1>0, <2>1, <2>2, <2>3, <2>4, <2>5 DEF HostShape, loopVars
    <2> QED
      BY <2>5, <2>6, <2>7, TypeParts, PTL DEF HostInv
  <1>3. CASE NoteWrites
    <2>1. /\ WriteRow("turn", "custom", 0, 0)
          /\ turn' = [turn EXCEPT !.stage = "prep"]
          /\ turn.stage = "noting"
          /\ Races("turn")
          /\ UNCHANGED <<loopVars, queue, toLog, host, trig, requests, hasModel,
                         sent, compacts, crashes, forfeit, well>>
      BY <1>3 DEF NoteWrites, To, Polled
    <2>2. /\ turn' \in Turns /\ turn'.stage = "prep"
          /\ turn'.hand = turn.hand /\ turn'.prompt = turn.prompt
          /\ turn'.kind = turn.kind /\ turn'.plan = turn.plan
      BY <2>1, <1>0 DEF HostVarsOK, Turns, Stages
    <2>3. LogTypeOK' /\ Len(log)' = Len(log) + 1 /\ Len(log) \in Nat
      <3>1. "turn" \in Writers /\ "custom" \in RowTypes
        BY WritersKnown DEF RowTypes
      <3>2. 0 \in 0..Len(log) /\ Len(log) \in Nat /\ 0 \in Nat
        BY <1>0, RowFacts
      <3> QED
        BY <1>0, <2>1, <3>1, <3>2, RowWritten
    <2>4. LoopTypeOK'
      BY <1>0, <2>1, LoopSame
    <2>5. HostVarsOK'
      BY <1>0, <2>1, <2>2 DEF HostVarsOK, Races
    <2>6. HostShape'
      <3>1. turn.plan.kept \in Nat
        BY <1>0 DEF HostVarsOK, Turns
      <3> QED
        BY <1>0, <2>1, <2>2, <2>3, <3>1 DEF HostShape, loopVars
    <2> QED
      BY <2>3, <2>4, <2>5, <2>6, TypeParts, PTL DEF HostInv
  <1> QED
    BY <1>1, <1>2, <1>3

\* A new message has a number of its own.
LEMMA NewMessage ==
  ASSUME HostInv, sent < MaxMessages
  PROVE  /\ sent + 1 \in Users /\ sent + 1 \in Messages
         /\ sent + 1 \in 0..MaxMessages
         /\ <<sent + 1>> \in Seq(Users)
         /\ sent \in Nat /\ requests \in Nat
         /\ Fresh(Turn("user", <<sent + 1>>))
         /\ Turn("user", <<sent + 1>>).hand = <<sent + 1>>
         /\ Turn("user", <<sent + 1>>).kind = "user"
  <1>1. sent \in 0..MaxMessages /\ requests \in 0..MaxMessages
    BY TypeParts DEF HostInv, HostVarsOK
  <1>2. sent + 1 \in Users /\ sent + 1 \in 0..MaxMessages
    BY <1>1, HostAssumption DEF Users
  <1>3. <<sent + 1>> \in Seq(Users) /\ "user" \in Kinds
    BY <1>2 DEF Kinds
  <1>4. /\ Fresh(Turn("user", <<sent + 1>>))
        /\ Turn("user", <<sent + 1>>).hand = <<sent + 1>>
        /\ Turn("user", <<sent + 1>>).kind = "user"
    BY <1>3, FreshTurn
  <1> QED
    BY <1>1, <1>2, <1>3, <1>4, HostAssumption

\* The handler may go on with the log.
LEMMA AwaitType ==
  ASSUME HostInv, NEW op \in {"prompt", "model"}, NEW m \in Messages,
         op = "prompt" => m \in Users,
         AtOnce \/ Await(op, m)
  PROVE  /\ host' \in [op : {"none", "prompt", "model"}, msg : Messages]
         /\ host'.op = "prompt" => host'.msg \in Users
         /\ LogTypeOK' /\ Len(log)' = Len(log) /\ log' = log
  <1>0. LogTypeOK /\ HostVarsOK /\ HostShape
    BY TypeParts DEF HostInv
  <1>1. CASE AtOnce
    <2>1. UNCHANGED logVars /\ host' = host
      BY <1>1 DEF AtOnce
    <2> QED
      BY <2>1, <1>0, LogSame DEF HostVarsOK, HostShape, logVars
  <1>2. CASE Await(op, m)
    <2>1. host' = [op |-> op, msg |-> m] /\ ReadLeaf("host")
      BY <1>2 DEF Await
    <2>2. LogTypeOK' /\ Len(log)' = Len(log) /\ log' = log
      <3>1. LogTypeOK' /\ Len(log)' = Len(log)
        BY <2>1, <1>0, LeafRead, WritersKnown
      <3> QED
        BY <2>1, <3>1 DEF ReadLeaf
    <2> QED
      BY <2>1, <2>2
  <1> QED
    BY <1>1, <1>2

\* A prompt of the user, with or without interrupting the run.
LEMMA SubmitType ==
  ASSUME HostInv, Submit \/ SubmitInterrupt
  PROVE  HostInv'
  <1>0. LoopTypeOK /\ LogTypeOK /\ HostVarsOK /\ HostShape
    BY TypeParts DEF HostInv
  <1>1. sent < MaxMessages /\ sent' = sent + 1
    BY DEF Submit, SubmitInterrupt
  <1>2. AtOnce \/ Await("prompt", sent + 1)
    BY DEF Submit, SubmitInterrupt
  <1>3. /\ sent' \in Users /\ sent' \in 0..MaxMessages
        /\ sent \in Nat /\ requests \in Nat
        /\ Fresh(Turn("user", <<sent + 1>>))
        /\ sent + 1 \in Messages /\ sent + 1 \in Users
        /\ Turn("user", <<sent + 1>>).kind = "user"
    BY <1>1, NewMessage
  <1>4. /\ host' \in [op : {"none", "prompt", "model"}, msg : Messages]
        /\ host'.op = "prompt" => host'.msg \in Users
        /\ LogTypeOK' /\ Len(log)' = Len(log)
    <2>1. "prompt" \in {"prompt", "model"}
      OBVIOUS
    <2> QED
      BY <1>2, <1>3, <2>1, AwaitType
  <1>5. turn' = turn \/ (turn' = Turn("user", <<sent + 1>>) /\ ~Busy)
    BY DEF Submit, SubmitInterrupt
  <1>6. /\ turn' \in Turns
        /\ turn'.hand \in Seq(Users) /\ turn'.prompt \in Seq(Users)
        /\ turn'.stage \in {"none", "running", "hook", "parting"} =>
             turn'.hand = <<>>
        /\ turn'.kind = "compaction" => turn'.hand = <<>>
        /\ turn'.stage \in {"running", "hook", "parting"} =>
             turn'.kind # "compaction"
        /\ turn'.plan.kept <= Len(log)
        /\ turn.stage = "running" => turn'.stage = "running"
    <2>1. Len(log) \in Nat
      BY <1>0, RowFacts
    <2>2. CASE turn' = turn
      BY <1>0, <2>2 DEF HostVarsOK, HostShape
    <2>3. CASE turn' = Turn("user", <<sent + 1>>) /\ ~Busy
      <3>1. Fresh(turn') /\ turn'.kind = "user" /\ turn.stage = "none"
        BY <1>3, <2>3 DEF Busy
      <3>2. NoPlan.kept <= Len(log)
        BY <2>1 DEF NoPlan
      <3> QED
        BY <3>1, <3>2 DEF Fresh
    <2> QED
      BY <1>5, <2>2, <2>3
  <1>7. CASE Submit
    <2>1. /\ steering' = Append(steering, sent + 1) \/ steering' = steering
          /\ turnCancel' = Cancelled(turnCancel) \/ turnCancel' = turnCancel
          /\ UNCHANGED <<loop, activeCancel, followUp, batch, transcript,
                         iterations, unanswered, outcome, queue, toLog, trig,
                         requests, hasModel, compacts, crashes, forfeit, well,
                         raced>>
      BY <1>7 DEF Submit, EnqueueSteering, InterruptTurn
    <2>2. steering' \in Seq(Users) /\ steering' \in Seq(Messages)
      <3>1. steering \in Seq(Users) /\ sent + 1 \in Users
        BY <1>0, <1>3 DEF HostShape
      <3>2. steering' \in Seq(Users)
        BY <3>1, <2>1
      <3> QED
        BY <3>2, UserSeqs
    <2>3. LoopTypeOK'
      BY <1>0, <2>1, <2>2 DEF LoopTypeOK, Cancelled, Tokens
    <2>4. HostVarsOK'
      BY <1>0, <1>1, <1>3, <1>4, <1>6, <2>1 DEF HostVarsOK
    <2>5. HostShape'
      BY <1>0, <1>1, <1>3, <1>4, <1>6, <2>1, <2>2 DEF HostShape
    <2> QED
      BY <1>4, <2>3, <2>4, <2>5, TypeParts, PTL DEF HostInv
  <1>8. CASE SubmitInterrupt
    <2>1. /\ activeCancel' = Cancelled(activeCancel) \/ activeCancel' = activeCancel
          /\ queue' = <<>>
          /\ forfeit' = forfeit \cup {queue[i].msg : i \in
                   {j \in 1..Len(queue) : /\ queue[j].kind # "compaction"
                                          /\ ~queue[j].persisted}}
          /\ UNCHANGED <<loop, turnCancel, queueVars, batch, transcript,
                         iterations, unanswered, outcome, toLog, trig, requests,
                         hasModel, compacts, crashes, well, raced>>
      BY <1>8 DEF SubmitInterrupt, AbortRun
    <2>2. forfeit' \subseteq Messages
      <3>1. \A i \in 1..Len(queue) : queue[i].msg \in Messages
        <4>1. \A i \in 1..Len(queue) : queue[i] \in Jobs
          BY <1>0 DEF HostVarsOK
        <4> QED
          BY <4>1 DEF Jobs
      <3>2. forfeit \subseteq Messages
        BY <1>0 DEF HostVarsOK
      <3> QED
        BY <2>1, <3>1, <3>2
    <2>3. LoopTypeOK'
      BY <1>0, <2>1 DEF LoopTypeOK, Cancelled, Tokens, queueVars
    <2>4. HostVarsOK'
      BY <1>0, <1>1, <1>3, <1>4, <1>6, <2>1, <2>2 DEF HostVarsOK
    <2>5. HostShape'
      BY <1>0, <1>1, <1>3, <1>4, <1>6, <2>1 DEF HostShape, queueVars
    <2> QED
      BY <1>4, <2>3, <2>4, <2>5, TypeParts, PTL DEF HostInv
  <1> QED
    BY <1>7, <1>8

\* A job at the end of the queue.
LEMMA QueuedType ==
  ASSUME HostInv, NEW job \in Jobs, job.kind # "compaction" => job.msg \in Users
  PROVE  /\ Append(queue, job) \in Seq(Jobs)
         /\ \A i \in 1..Len(Append(queue, job)) :
              Append(queue, job)[i].kind # "compaction"
                => Append(queue, job)[i].msg \in Users
  <1>1. queue \in Seq(Jobs) /\ \A i \in 1..Len(queue) :
               queue[i].kind # "compaction" => queue[i].msg \in Users
    BY TypeParts DEF HostInv, HostVarsOK, HostShape
  <1> QED
    BY <1>1

\* The handler has heard from the log.
LEMMA HandlerType ==
  ASSUME HostInv, PromptPersisted \/ PromptNotPersisted \/ SetModel \/ ModelSet
  PROVE  HostInv'
  <1>0. LoopTypeOK /\ LogTypeOK /\ HostVarsOK /\ HostShape
    BY TypeParts DEF HostInv
  <1>a. /\ "host" \in Writers /\ "message" \in RowTypes /\ "custom" \in RowTypes
        /\ host.msg \in Messages /\ host.msg \in Nat /\ 0 \in Messages
        /\ 0 \in 0..Len(log) /\ Len(log) \in Nat /\ 0 \in Nat
        /\ NoOp \in [op : {"none", "prompt", "model"}, msg : Messages]
        /\ NoOp.op = "none"
    BY <1>0, WritersKnown, MessageNumbers, HostAssumption, RowFacts
       DEF RowTypes, HostVarsOK, NoOp
  <1>b. turn.plan.kept \in Nat
    BY <1>0 DEF HostVarsOK, Turns
  <1>c. ASSUME NEW p \in BOOLEAN, host.op = "prompt"
        PROVE  /\ Append(queue, Job("user", host.msg, p)) \in Seq(Jobs)
               /\ \A i \in 1..Len(Append(queue, Job("user", host.msg, p))) :
                    Append(queue, Job("user", host.msg, p))[i].kind # "compaction"
                      => Append(queue, Job("user", host.msg, p))[i].msg \in Users
    <2>1. Job("user", host.msg, p) \in Jobs /\ Job("user", host.msg, p).msg \in Users
      BY <1>0, <1>a, <1>c DEF Job, Jobs, Kinds, HostShape
    <2> QED
      BY <2>1, QueuedType
  <1>1. CASE PromptPersisted
    <2>1. /\ host.op = "prompt"
          /\ WriteRow("host", "message", host.msg, 0)
          /\ transcript' = Append(transcript, host.msg)
          /\ unanswered' = TRUE
          /\ queue' = Append(queue, Job("user", host.msg, TRUE))
          /\ host' = NoOp
          /\ Races("host")
          /\ UNCHANGED <<loop, activeCancel, turnCancel, queueVars, batch,
                         iterations, outcome, turn, toLog, trig, requests,
                         hasModel, sent, compacts, crashes, forfeit, well>>
      BY <1>1 DEF PromptPersisted
    <2>2. LogTypeOK' /\ Len(log)' = Len(log) + 1
      BY <1>0, <1>a, <2>1, RowWritten
    <2>3. LoopTypeOK'
      <3>1. transcript' \in Seq(Messages)
        BY <1>0, <1>a, <2>1 DEF LoopTypeOK
      <3> QED
        BY <1>0, <2>1, <3>1 DEF LoopTypeOK, queueVars
    <2>4. HostVarsOK'
      BY <1>0, <1>a, <1>c, <2>1 DEF HostVarsOK, Races
    <2>5. HostShape'
      <3>1. \A i \in 1..Len(queue') :
               queue'[i].kind # "compaction" => queue'[i].msg \in Users
        BY <1>c, <2>1
      <3>2. turn'.plan.kept <= Len(log)'
        BY <1>0, <1>a, <1>b, <2>1, <2>2 DEF HostShape
      <3>3. /\ UNCHANGED <<steering, followUp, batch, loop, toLog, turn, trig,
                           requests, sent>>
            /\ host'.op = "none"
        BY <1>a, <2>1 DEF queueVars
      <3> QED
        BY <1>0, <3>1, <3>2, <3>3 DEF HostShape
    <2> QED
      BY <2>2, <2>3, <2>4, <2>5, TypeParts, PTL DEF HostInv
  <1>2. CASE PromptNotPersisted
    <2>1. /\ host.op = "prompt"
          /\ leafRead' = [leafRead EXCEPT !["host"] = Unread]
          /\ queue' = Append(queue, Job("user", host.msg, FALSE))
          /\ host' = NoOp
          /\ UNCHANGED <<loopVars, log, turn, toLog, trig, requests, hasModel,
                         sent, compacts, crashes, forfeit, well, raced>>
      BY <1>2 DEF PromptNotPersisted
    <2>2. LogTypeOK' /\ Len(log)' = Len(log)
      BY <1>0, <1>a, <2>1 DEF LogTypeOK, Unread
    <2>3. LoopTypeOK'
      BY <1>0, <2>1, LoopSame
    <2>4. HostVarsOK'
      BY <1>0, <1>a, <1>c, <2>1 DEF HostVarsOK
    <2>5. HostShape'
      BY <1>0, <1>a, <1>b, <1>c, <2>1, <2>2 DEF HostShape, loopVars
    <2> QED
      BY <2>2, <2>3, <2>4, <2>5, TypeParts, PTL DEF HostInv
  <1>3. CASE SetModel
    <2>1. /\ Await("model", 0)
          /\ UNCHANGED <<loopVars, queue, turn, toLog, trig, requests, hasModel,
                         sent, compacts, crashes, forfeit, well, raced>>
      BY <1>3 DEF SetModel
    <2>2. /\ host' \in [op : {"none", "prompt", "model"}, msg : Messages]
          /\ host'.op = "prompt" => host'.msg \in Users
          /\ LogTypeOK' /\ Len(log)' = Len(log)
      <3>1. "model" \in {"prompt", "model"} /\ "model" # "prompt"
        OBVIOUS
      <3> QED
        BY <1>a, <2>1, <3>1, AwaitType
    <2>3. LoopTypeOK'
      BY <1>0, <2>1, LoopSame
    <2>4. HostVarsOK'
      BY <1>0, <2>1, <2>2 DEF HostVarsOK
    <2>5. HostShape'
      BY <1>0, <2>1, <2>2 DEF HostShape, loopVars
    <2> QED
      BY <2>2, <2>3, <2>4, <2>5, TypeParts, PTL DEF HostInv
  <1>4. CASE ModelSet
    <2>1. /\ WriteRow("host", "custom", 0, 0)
          /\ hasModel' = TRUE
          /\ \/ Busy /\ UNCHANGED <<queue, turn>>
             \/ ~Busy /\ StartNext(queue, TRUE)
          /\ host' = NoOp
          /\ Races("host")
          /\ UNCHANGED <<loopVars, toLog, trig, requests, sent, compacts,
                         crashes, forfeit, well>>
      BY <1>4 DEF ModelSet
    <2>2. LogTypeOK' /\ Len(log)' = Len(log) + 1
      BY <1>0, <1>a, <2>1, RowWritten
    <2>3. LoopTypeOK'
      BY <1>0, <2>1, LoopSame
    <2>4. CASE Busy /\ UNCHANGED <<queue, turn>>
      <3>1. HostVarsOK'
        BY <1>0, <1>a, <2>1, <2>4 DEF HostVarsOK, Races
      <3>2. HostShape'
        BY <1>0, <1>a, <1>b, <2>1, <2>2, <2>4 DEF HostShape, loopVars
      <3> QED
        BY <2>2, <2>3, <3>1, <3>2, TypeParts, PTL DEF HostInv
    <2>5. CASE ~Busy /\ StartNext(queue, TRUE)
      <3>1. HostVarsOK'
        BY <1>0, <1>a, <2>1, <2>5, NextStarts DEF HostVarsOK, Races
      <3>2. HostShape'
        <4>1. /\ turn'.stage \in {"none", "prep"}
              /\ turn'.hand \in Seq(Users) /\ turn'.prompt \in Seq(Users)
              /\ turn'.stage = "none" => turn'.hand = <<>>
              /\ turn'.kind = "compaction" => turn'.hand = <<>>
              /\ turn'.plan.kept = 0
              /\ \A i \in 1..Len(queue') :
                     queue'[i].kind # "compaction" => queue'[i].msg \in Users
          <5>1. StartNext(queue, TRUE) /\ TRUE \in BOOLEAN
            BY <2>5
          <5>2. NoPlan.kept = 0
            BY DEF NoPlan
          <5> QED
            BY <5>1, <5>2, NextStarts
        <4>2. turn.stage = "none"
          BY <2>5 DEF Busy
        <4> QED
          BY <1>0, <1>a, <2>1, <2>2, <4>1, <4>2 DEF HostShape, loopVars
      <3> QED
        BY <2>2, <2>3, <3>1, <3>2, TypeParts, PTL DEF HostInv
    <2> QED
      BY <2>1, <2>4, <2>5
  <1> QED
    BY <1>1, <1>2, <1>3, <1>4

\* Slash commands and abort.
LEMMA SlashType ==
  ASSUME HostInv, AgentPrompt \/ Compact \/ Abort
  PROVE  HostInv'
  <1>0. LoopTypeOK /\ LogTypeOK /\ HostVarsOK /\ HostShape
    BY TypeParts DEF HostInv
  <1>a. Len(log) \in Nat
    BY <1>0, RowFacts
  <1>b. ASSUME NEW job \in Jobs, job.kind # "compaction" => job.msg \in Users,
               StartOrQueue(job)
        PROVE  /\ queue' \in Seq(Jobs) /\ turn' \in Turns
               /\ \A i \in 1..Len(queue') :
                    queue'[i].kind # "compaction" => queue'[i].msg \in Users
               /\ turn'.hand \in Seq(Users) /\ turn'.prompt \in Seq(Users)
               /\ turn'.stage \in {"none", "running", "hook", "parting"} =>
                    turn'.hand = <<>>
               /\ turn'.kind = "compaction" => turn'.hand = <<>>
               /\ turn'.stage \in {"running", "hook", "parting"} =>
                    turn'.kind # "compaction"
               /\ turn'.plan.kept <= Len(log)
               /\ turn.stage = "running" => turn'.stage = "running"
    <2>1. CASE Busy
      <3>1. queue' = Append(queue, job) /\ turn' = turn
        BY <1>b, <2>1 DEF StartOrQueue
      <3> QED
        BY <1>0, <1>b, <3>1, QueuedType DEF HostVarsOK, HostShape
    <2>2. CASE ~Busy
      <3>1. turn' = TurnOf(job) /\ queue' = queue /\ turn.stage = "none"
        BY <1>b, <2>2 DEF StartOrQueue, Busy
      <3>2. Fresh(TurnOf(job))
        BY <1>b, JobTurn
      <3>3. NoPlan.kept <= Len(log)
        BY <1>a DEF NoPlan
      <3> QED
        BY <1>0, <3>1, <3>2, <3>3 DEF Fresh, HostVarsOK, HostShape
    <2> QED
      BY <2>1, <2>2
  <1>1. CASE AgentPrompt
    <2>1. /\ sent < MaxMessages /\ sent' = sent + 1
          /\ StartOrQueue(Job("plain", sent + 1, FALSE))
          /\ UNCHANGED <<loopVars, logVars, toLog, host, trig, requests,
                         hasModel, compacts, crashes, forfeit, well, raced>>
      BY <1>1 DEF AgentPrompt
    <2>2. /\ sent' \in 0..MaxMessages /\ sent + 1 \in Users
          /\ sent + 1 \in Messages /\ sent \in Nat /\ requests \in Nat
      BY <2>1, NewMessage
    <2>3. Job("plain", sent + 1, FALSE) \in Jobs
          /\ Job("plain", sent + 1, FALSE).msg \in Users
      BY <2>2 DEF Job, Jobs, Kinds
    <2>4. LoopTypeOK' /\ LogTypeOK' /\ Len(log)' = Len(log)
      BY <1>0, <2>1, LoopSame, LogSame
    <2>5. HostVarsOK'
      BY <1>0, <1>b, <2>1, <2>2, <2>3 DEF HostVarsOK
    <2>6. HostShape'
      <3>1. /\ \A i \in 1..Len(queue') :
                        queue'[i].kind # "compaction" => queue'[i].msg \in Users
            /\ turn'.hand \in Seq(Users) /\ turn'.prompt \in Seq(Users)
            /\ turn'.stage \in {"none", "running", "hook", "parting"} =>
                 turn'.hand = <<>>
            /\ turn'.kind = "compaction" => turn'.hand = <<>>
            /\ turn'.stage \in {"running", "hook", "parting"} =>
                 turn'.kind # "compaction"
            /\ turn'.plan.kept <= Len(log)
            /\ turn.stage = "running" => turn'.stage = "running"
        BY <1>b, <2>1, <2>3
      <3> QED
        BY <1>0, <2>1, <2>2, <2>4, <3>1 DEF HostShape, loopVars
    <2> QED
      BY <2>4, <2>5, <2>6, TypeParts, PTL DEF HostInv
  <1>2. CASE Compact
    <2>1. /\ compacts < MaxCompactions /\ compacts' = compacts + 1
          /\ StartOrQueue(Job("compaction", 0, FALSE))
          /\ UNCHANGED <<loopVars, logVars, toLog, host, trig, requests,
                         hasModel, sent, crashes, forfeit, well, raced>>
      BY <1>2 DEF Compact
    <2>2. compacts' \in 0..MaxCompactions
      BY <1>0, <2>1, HostAssumption DEF HostVarsOK
    <2>3. Job("compaction", 0, FALSE) \in Jobs
          /\ Job("compaction", 0, FALSE).kind = "compaction"
      BY MessageNumbers DEF Job, Jobs, Kinds
    <2>4. LoopTypeOK' /\ LogTypeOK' /\ Len(log)' = Len(log)
      BY <1>0, <2>1, LoopSame, LogSame
    <2>5. HostVarsOK'
      BY <1>0, <1>b, <2>1, <2>2, <2>3 DEF HostVarsOK
    <2>6. HostShape'
      BY <1>0, <1>b, <2>1, <2>3, <2>4 DEF HostShape, loopVars
    <2> QED
      BY <2>4, <2>5, <2>6, TypeParts, PTL DEF HostInv
  <1>3. CASE Abort
    <2>1. /\ activeCancel' = Cancelled(activeCancel)
          /\ UNCHANGED <<loop, turnCancel, queueVars, batch, transcript,
                         iterations, unanswered, outcome, logVars, hostVars>>
      BY <1>3 DEF Abort, AbortRun
    <2>2. LogTypeOK' /\ Len(log)' = Len(log)
      BY <1>0, <2>1, LogSame
    <2>3. LoopTypeOK'
      BY <1>0, <2>1 DEF LoopTypeOK, Cancelled, Tokens, queueVars
    <2>4. HostVarsOK'
      BY <1>0, <2>1 DEF HostVarsOK, hostVars
    <2>5. HostShape'
      BY <1>0, <2>1, <2>2 DEF HostShape, hostVars, queueVars
    <2> QED
      BY <2>2, <2>3, <2>4, <2>5, TypeParts, PTL DEF HostInv
  <1> QED
    BY <1>1, <1>2, <1>3

\* The steps of a trigger.
LEMMA TriggerType ==
  ASSUME HostInv, TriggerStep
  PROVE  HostInv'
  <1>0. LoopTypeOK /\ LogTypeOK /\ HostVarsOK /\ HostShape
    BY TypeParts DEF HostInv
  <1>a. /\ "trigger" \in Writers /\ "message" \in RowTypes /\ "custom" \in RowTypes
        /\ trig.msg \in Messages /\ trig.msg \in Nat
        /\ 0 \in 0..Len(log) /\ Len(log) \in Nat /\ 0 \in Nat
        /\ NoTask \in [step : {"none", "inject", "push", "audit"}, msg : Messages,
                       followUp : BOOLEAN]
        /\ NoTask.step = "none"
        /\ requests \in Nat /\ sent \in Nat
    BY <1>0, WritersKnown, MessageNumbers, HostAssumption, RowFacts
       DEF RowTypes, HostVarsOK, NoTask
  <1>b. turn.plan.kept \in Nat
    BY <1>0 DEF HostVarsOK, Turns
  <1>1. CASE TriggerFires
    <2>1. /\ trig = NoTask
          /\ sent < MaxMessages /\ sent' = sent + 1
          /\ trig' = [step |-> IF loop # "idle" THEN "audit" ELSE "inject",
                      msg |-> sent + 1, followUp |-> loop # "idle"]
          /\ followUp' = Append(followUp, sent + 1) \/ followUp' = followUp
          /\ UNCHANGED <<loop, activeCancel, turnCancel, steering, batch,
                         transcript, iterations, unanswered, outcome, logVars,
                         queue, turn, toLog, host, requests, hasModel, compacts,
                         crashes, forfeit, well, raced>>
      BY <1>1 DEF TriggerFires, EnqueueFollowUp
    <2>2. /\ sent' \in 0..MaxMessages /\ sent + 1 \in Users /\ sent + 1 \in Messages
      BY <2>1, NewMessage
    <2>3. followUp' \in Seq(Users)
      <3>1. followUp \in Seq(Users)
        BY <1>0 DEF HostShape
      <3> QED
        BY <2>1, <2>2, <3>1
    <2>4. LoopTypeOK'
      BY <1>0, <2>1, <2>3, UserSeqs DEF LoopTypeOK
    <2>5. LogTypeOK' /\ Len(log)' = Len(log)
      BY <1>0, <2>1, LogSame
    <2>6. /\ trig' \in [step : {"none", "inject", "push", "audit"}, msg : Messages,
                        followUp : BOOLEAN]
          /\ trig'.msg = sent + 1
      BY <2>1, <2>2
    <2>7. HostVarsOK'
      BY <1>0, <2>1, <2>2, <2>6 DEF HostVarsOK
    <2>8. HostShape'
      BY <1>0, <1>a, <2>1, <2>2, <2>3, <2>5, <2>6 DEF HostShape
    <2> QED
      BY <2>4, <2>5, <2>7, <2>8, TypeParts, PTL DEF HostInv
  <1>2. CASE TriggerReads
    <2>1. ReadLeaf("trigger") /\ UNCHANGED <<loopVars, hostVars>>
      BY <1>2 DEF TriggerReads
    <2>2. LoopTypeOK' /\ LogTypeOK' /\ Len(log)' = Len(log)
      BY <1>0, <1>a, <2>1, LoopSame, LeafRead
    <2>3. HostVarsOK'
      BY <1>0, <2>1 DEF HostVarsOK, hostVars
    <2>4. HostShape'
      BY <1>0, <2>1, <2>2 DEF HostShape, hostVars, loopVars
    <2> QED
      BY <2>2, <2>3, <2>4, TypeParts, PTL DEF HostInv
  <1>3. CASE TriggerWrites
    <2>1. /\ trig.step = "inject"
          /\ WriteRow("trigger", "message", trig.msg, 0)
          /\ trig' = [trig EXCEPT !.step = "push"]
          /\ Races("trigger")
          /\ UNCHANGED <<loopVars, queue, turn, toLog, host, requests, hasModel,
                         sent, compacts, crashes, forfeit, well>>
      BY <1>3 DEF TriggerWrites
    <2>2. LoopTypeOK' /\ LogTypeOK' /\ Len(log)' = Len(log) + 1
      BY <1>0, <1>a, <2>1, RowWritten, LoopSame
    <2>3. /\ trig' \in [step : {"none", "inject", "push", "audit"}, msg : Messages,
                        followUp : BOOLEAN]
          /\ trig'.msg = trig.msg /\ trig'.step = "push"
      BY <1>0, <2>1 DEF HostVarsOK
    <2>4. HostVarsOK'
      BY <1>0, <2>1, <2>3 DEF HostVarsOK, Races
    <2>5. HostShape'
      BY <1>0, <1>a, <1>b, <2>1, <2>2, <2>3 DEF HostShape, loopVars
    <2> QED
      BY <2>2, <2>4, <2>5, TypeParts, PTL DEF HostInv
  <1>4. CASE TriggerPushes
    <2>1. /\ trig.step = "push"
          /\ transcript' = Append(transcript, trig.msg)
          /\ unanswered' = TRUE
          /\ trig' = [trig EXCEPT !.step = "audit"]
          /\ UNCHANGED <<loop, activeCancel, turnCancel, queueVars, batch,
                         iterations, outcome, logVars, queue, turn, toLog, host,
                         requests, hasModel, sent, compacts, crashes, forfeit,
                         well, raced>>
      BY <1>4 DEF TriggerPushes
    <2>2. LoopTypeOK'
      <3>1. transcript' \in Seq(Messages)
        BY <1>0, <1>a, <2>1 DEF LoopTypeOK
      <3> QED
        BY <1>0, <2>1, <3>1 DEF LoopTypeOK, queueVars
    <2>3. LogTypeOK' /\ Len(log)' = Len(log)
      BY <1>0, <2>1, LogSame
    <2>4. /\ trig' \in [step : {"none", "inject", "push", "audit"}, msg : Messages,
                        followUp : BOOLEAN]
          /\ trig'.msg = trig.msg /\ trig'.step = "audit"
      BY <1>0, <2>1 DEF HostVarsOK
    <2>5. HostVarsOK'
      BY <1>0, <2>1, <2>4 DEF HostVarsOK
    <2>6. HostShape'
      BY <1>0, <2>1, <2>3, <2>4 DEF HostShape, queueVars
    <2> QED
      BY <2>2, <2>3, <2>5, <2>6, TypeParts, PTL DEF HostInv
  <1>5. CASE TriggerAudits
    <2>1. /\ trig.step = "audit"
          /\ WriteRow("trigger", "custom", 0, 0)
          /\ requests' = requests + (IF trig.followUp THEN 0 ELSE 1)
          /\ trig' = NoTask
          /\ Races("trigger")
          /\ UNCHANGED <<loopVars, queue, turn, toLog, host, hasModel, sent,
                         compacts, crashes, forfeit, well>>
      BY <1>5 DEF TriggerAudits
    <2>2. LoopTypeOK' /\ LogTypeOK' /\ Len(log)' = Len(log) + 1
      BY <1>0, <1>a, <2>1, RowWritten, LoopSame
    <2>3. requests' \in 0..MaxMessages /\ requests' <= sent
      <3>1. requests + 1 <= sent /\ sent <= MaxMessages
        BY <1>0, <1>a, <2>1 DEF HostShape, HostVarsOK
      <3> QED
        BY <1>a, <2>1, <3>1, HostAssumption
    <2>4. HostVarsOK'
      BY <1>0, <1>a, <2>1, <2>3 DEF HostVarsOK, Races
    <2>5. HostShape'
      BY <1>0, <1>a, <1>b, <2>1, <2>2, <2>3 DEF HostShape, loopVars
    <2> QED
      BY <2>2, <2>4, <2>5, TypeParts, PTL DEF HostInv
  <1>6. CASE TriggeredTurn
    <2>1. /\ turn.stage = "none"
          /\ requests > 0 /\ requests' = requests - 1
          /\ turn' = Turn("plain", <<>>) \/ turn' = NoTurn
          /\ UNCHANGED <<loopVars, logVars, queue, toLog, host, trig, hasModel,
                         sent, compacts, crashes, forfeit, well, raced>>
      BY <1>6 DEF TriggeredTurn, Busy
    <2>2. LoopTypeOK' /\ LogTypeOK' /\ Len(log)' = Len(log)
      BY <1>0, <2>1, LoopSame, LogSame
    <2>3. /\ Fresh(Turn("plain", <<>>)) /\ Turn("plain", <<>>).hand = <<>>
          /\ Turn("plain", <<>>).kind = "plain"
          /\ <<>> \in Seq(Users)
      <3>1. "plain" \in Kinds /\ <<>> \in Seq(Users) /\ "plain" # "compaction"
        BY DEF Kinds
      <3> QED
        BY <3>1, FreshTurn
    <2>4. /\ turn' \in Turns
          /\ turn'.hand = <<>> /\ turn'.prompt \in Seq(Users)
          /\ turn'.kind = "plain" /\ turn'.plan.kept = 0
          /\ turn'.stage \in {"none", "prep"}
      BY <2>1, <2>3, NoTurnType DEF Fresh, NoPlan
    <2>5. requests' \in 0..MaxMessages
      BY <1>0, <1>a, <2>1, HostAssumption DEF HostVarsOK
    <2>6. HostVarsOK'
      BY <1>0, <2>1, <2>4, <2>5 DEF HostVarsOK
    <2>7. HostShape'
      BY <1>0, <1>a, <2>1, <2>2, <2>3, <2>4 DEF HostShape, loopVars
    <2> QED
      BY <2>2, <2>6, <2>7, TypeParts, PTL DEF HostInv
  <1> QED
    BY <1>1, <1>2, <1>3, <1>4, <1>5, <1>6 DEF TriggerStep

\* What a session loads is a sequence of messages.
LEMMA MessageRowsType ==
  ASSUME LogTypeOK, NEW rows \in Seq(Ids)
  PROVE  /\ MessageRows(rows) \in Seq(Ids)
         /\ \A k \in 1..Len(MessageRows(rows)) :
              log[MessageRows(rows)[k]].type = "message"
  <1> DEFINE A == {i \in 1..Len(log) : log[i].type = "message"}
             ms == Only(rows, A)
  <1>1. ms \in Seq(Ids) /\ ms \in Seq(Ids \cap A)
    <2> HIDE DEF A
    <2> QED
      BY OnlySeq, OnlyType, Zenon
  <1>2. \A k \in 1..Len(ms) : ms[k] \in A
    <2> HIDE DEF ms, A
    <2> QED
      BY <1>1
  <1> QED
    BY <1>1, <1>2 DEF MessageRows

\* What a step may do to the log.
LogMoves ==
  \/ log' = log
  \/ \E w \in Writers :
       \/ WriteRow(w, "custom", 0, 0)
       \/ \E m \in Users : WriteRow(w, "message", m, 0)
       \/ /\ turn.stage = "compacting"
          /\ WriteRow(w, "compaction", Summary, turn.plan.kept)

\* No other step writes, and a compaction writes what was planned.
LEMMA LogStep ==
  ASSUME HostInv, [Next]_vars
  PROVE  LogMoves
  <1>0. HostVarsOK /\ HostShape
    BY TypeParts DEF HostInv
  <1>a. {"turn", "host", "trigger"} \subseteq Writers
    BY WritersKnown
  <1>1. CASE UNCHANGED vars
    BY <1>1 DEF vars, logVars, LogMoves
  <1>2. CASE TurnStep
    <2>1. CASE TurnBegins \/ NothingToContinue \/ NothingToCompact \/ Snapshot
               \/ RunAdvances \/ RunSucceeds \/ BackoffEnds \/ HookPasses
      BY <2>1 DEF TurnBegins, NothingToContinue, NothingToCompact, Snapshot,
                  RunAdvances, RunSucceeds, BackoffEnds, HookPasses, logVars, LogMoves
    <2>2. CASE Summarized \/ ListenerReads \/ HookStops \/ HookContinues
      BY <2>2 DEF Summarized, ListenerReads, HookStops, HookContinues, ReadLeaf,
                  LogMoves
    <2>3. CASE SummaryFails \/ RunFails
      <3>1. AttemptFails => log' = log
        BY AttemptType
      <3> QED
        BY <2>3, <3>1 DEF SummaryFails, RunFails, logVars, LogMoves
    <2>4. CASE CompactionApplied
      BY <2>4, <1>a DEF CompactionApplied, Polled, LogMoves
    <2>5. CASE ListenerWrites
      <3>1. toLog \in Users
        BY <2>5, <1>0, MessageNumbers DEF ListenerWrites, HostVarsOK
      <3> QED
        BY <2>5, <3>1, <1>a DEF ListenerWrites, LogMoves
    <2>6. CASE StopNoted \/ NoteWrites
      BY <2>6, <1>a DEF StopNoted, NoteWrites, LogMoves
    <2> QED
      BY <1>2, <2>1, <2>2, <2>3, <2>4, <2>5, <2>6 DEF TurnStep
  <1>3. CASE Command
    <2>1. CASE Submit \/ SubmitInterrupt
      <3>1. AtOnce \/ Await("prompt", sent + 1)
        BY <2>1 DEF Submit, SubmitInterrupt
      <3> QED
        BY <3>1 DEF AtOnce, Await, ReadLeaf, logVars, LogMoves
    <2>2. CASE PromptPersisted
      <3>1. host.msg \in Users
        BY <2>2, <1>0 DEF PromptPersisted, HostShape
      <3> QED
        BY <2>2, <3>1, <1>a DEF PromptPersisted, LogMoves
    <2>3. CASE PromptNotPersisted \/ AgentPrompt \/ Compact \/ Abort
      BY <2>3 DEF PromptNotPersisted, AgentPrompt, Compact, Abort, logVars, LogMoves
    <2>4. CASE SetModel
      BY <2>4 DEF SetModel, Await, ReadLeaf, LogMoves
    <2>5. CASE ModelSet
      BY <2>5, <1>a DEF ModelSet, LogMoves
    <2> QED
      BY <1>3, <2>1, <2>2, <2>3, <2>4, <2>5 DEF Command
  <1>4. CASE TriggerStep
    <2>1. CASE TriggerFires \/ TriggerPushes \/ TriggeredTurn
      BY <2>1 DEF TriggerFires, TriggerPushes, TriggeredTurn, logVars, LogMoves
    <2>2. CASE TriggerReads
      BY <2>2 DEF TriggerReads, ReadLeaf, LogMoves
    <2>3. CASE TriggerWrites
      <3>1. trig.msg \in Users
        BY <2>3, <1>0 DEF TriggerWrites, HostShape
      <3> QED
        BY <2>3, <3>1, <1>a DEF TriggerWrites, LogMoves
    <2>4. CASE TriggerAudits
      BY <2>4, <1>a DEF TriggerAudits, LogMoves
    <2> QED
      BY <1>4, <2>1, <2>2, <2>3, <2>4 DEF TriggerStep
  <1>5. CASE Crash
    BY <1>5 DEF Crash, LogMoves
  <1> QED
    BY <1>1, <1>2, <1>3, <1>4, <1>5 DEF Next

\* The row written stands at the end and hangs on the leaf its writer read.
LEMMA RowStands ==
  ASSUME HostInv, [Next]_vars, NEW w \in Writers, NEW t \in RowTypes,
         NEW m \in Nat, NEW kept \in 0..Len(log), WriteRow(w, t, m, kept)
  PROVE  /\ Len(log)' = Len(log) + 1
         /\ \A i \in 1..Len(log) : log'[i] = log[i]
         /\ log'[Len(log) + 1].type = t
         /\ log'[Len(log) + 1].msg = m
         /\ log'[Len(log) + 1].kept = kept
         /\ log'[Len(log) + 1].parent = leafRead[w]
  <1>1. LogTypeOK
    BY TypeParts DEF HostInv
  <1>2. Row(t, m, kept, leafRead[w]) \in Rows /\ Len(log) \in Nat
        /\ log \in Seq(Rows)
    BY <1>1, RowWritten, RowFacts DEF LogTypeOK
  <1>3. log' = Append(log, Row(t, m, kept, leafRead[w]))
    BY DEF WriteRow
  <1>4. /\ Len(log') = Len(log) + 1
        /\ log'[Len(log) + 1] = Row(t, m, kept, leafRead[w])
        /\ \A i \in 1..Len(log) : log'[i] = log[i]
    BY <1>2, <1>3
  <1> QED
    BY <1>4 DEF Row

\* Rows carry messages of users.
RowsKnown == \A i \in 1..Len(log) : /\ log[i].msg \in Messages
                                    /\ log[i].type = "message" => log[i].msg \in Users

\* Every row written carries a known message.
LEMMA RowsStayKnown ==
  ASSUME HostInv, RowsKnown, [Next]_vars
  PROVE  RowsKnown'
  <1>0. /\ {"custom", "message", "compaction"} \subseteq RowTypes
        /\ Summary \in Messages /\ 0 \in Messages
        /\ 0 \in 0..Len(log) /\ turn.plan.kept \in 0..Len(log)
        /\ Messages \subseteq Nat /\ Len(log) \in Nat
    <2>1. LogTypeOK /\ HostVarsOK /\ HostShape
      BY TypeParts DEF HostInv
    <2>2. turn.plan.kept \in Nat /\ turn.plan.kept <= Len(log)
      BY <2>1 DEF HostShape, HostVarsOK, Turns
    <2>3. 0 \in Messages /\ Messages \subseteq Nat
      BY MessageNumbers DEF Users
    <2> QED
      BY <2>1, <2>2, <2>3, RowFacts DEF RowTypes, Summary
  <1>1. CASE log' = log
    BY <1>1 DEF RowsKnown
  <1>2. ASSUME NEW w \in Writers, NEW t \in RowTypes, NEW m \in Messages,
               NEW kept \in 0..Len(log), WriteRow(w, t, m, kept),
               t = "message" => m \in Users
        PROVE  RowsKnown'
    <2>1. /\ Len(log)' = Len(log) + 1
          /\ \A i \in 1..Len(log) : log'[i] = log[i]
          /\ log'[Len(log) + 1].type = t
          /\ log'[Len(log) + 1].msg = m
      BY <1>0, <1>2, RowStands
    <2>2. ASSUME NEW i \in 1..(Len(log) + 1)
          PROVE  /\ log'[i].msg \in Messages
                 /\ log'[i].type = "message" => log'[i].msg \in Users
      <3>1. CASE i \in 1..Len(log)
        BY <2>1, <3>1 DEF RowsKnown
      <3>2. CASE i = Len(log) + 1
        BY <1>2, <2>1, <3>2
      <3> QED
        BY <3>1, <3>2, <1>0
    <2> QED
      BY <2>1, <2>2 DEF RowsKnown
  <1>3. ASSUME NEW w \in Writers, WriteRow(w, "custom", 0, 0) PROVE RowsKnown'
    BY <1>0, <1>2, <1>3
  <1>4. ASSUME NEW w \in Writers, NEW m \in Users, WriteRow(w, "message", m, 0)
        PROVE  RowsKnown'
    BY <1>0, <1>2, <1>4, MessageNumbers
  <1>5. ASSUME NEW w \in Writers, WriteRow(w, "compaction", Summary, turn.plan.kept)
        PROVE  RowsKnown'
    BY <1>0, <1>2, <1>5
  <1> QED
    BY <1>1, <1>3, <1>4, <1>5, LogStep DEF LogMoves

\* The parts of a context.
LastOf(rows) == CHOOSE k \in Compactions(rows) : \A l \in Compactions(rows) : l <= k
Firsts(rows) == {k \in 1..(LastOf(rows) - 1) :
                   rows[k] = log[rows[LastOf(rows)]].kept}
KeptOf(rows) == IF Firsts(rows) = {} THEN <<>>
                ELSE SubSeq(rows, CHOOSE k \in Firsts(rows) : TRUE,
                            LastOf(rows) - 1)
After(rows)  == SubSeq(rows, LastOf(rows) + 1, Len(rows))

\* The parts of a context.
LEMMA ContextParts ==
  ASSUME NEW rows
  PROVE  /\ Compactions(rows) = {} => Context(rows) = MessagesOf(rows)
         /\ Compactions(rows) # {} =>
              Context(rows) = <<Summary>> \o MessagesOf(KeptOf(rows))
                                          \o MessagesOf(After(rows))
  BY Zenon DEF Context, KeptOf, After, Firsts, LastOf

\* The last compaction of some rows is one of them.
LEMMA LastIsLast ==
  ASSUME NEW rows \in Seq(Ids), Compactions(rows) # {}
  PROVE  /\ LastOf(rows) \in Compactions(rows)
         /\ LastOf(rows) \in 1..Len(rows)
         /\ \A l \in Compactions(rows) : l <= LastOf(rows)
  <1>1. Len(rows) \in Nat /\ Compactions(rows) \subseteq 1..Len(rows)
    BY DEF Compactions
  <1>2. IsFiniteSet(Compactions(rows)) /\ Compactions(rows) \in SUBSET Nat
    <2>1. IsFiniteSet(1..Len(rows))
      BY <1>1, FS_Interval
    <2> QED
      BY <1>1, <2>1, FS_Subset
  <1>3. \E k \in Compactions(rows) : \A l \in Compactions(rows) : k >= l
    BY <1>2, FiniteNatMax
  <1>4. \E k \in Compactions(rows) : \A l \in Compactions(rows) : l <= k
    BY <1>2, <1>3
  <1>5. /\ LastOf(rows) \in Compactions(rows)
        /\ \A l \in Compactions(rows) : l <= LastOf(rows)
    BY <1>4, Zenon DEF LastOf
  <1> QED
    BY <1>1, <1>5

\* The parts are made of rows.
LEMMA PartsType ==
  ASSUME NEW rows \in Seq(Ids), Compactions(rows) # {}
  PROVE  KeptOf(rows) \in Seq(Ids) /\ After(rows) \in Seq(Ids)
  <1>1. LastOf(rows) \in 1..Len(rows) /\ Len(rows) \in Nat
    BY LastIsLast
  <1>2. After(rows) \in Seq(Ids)
    BY <1>1 DEF After
  <1>3. CASE Firsts(rows) = {}
    BY <1>2, <1>3 DEF KeptOf
  <1>4. CASE Firsts(rows) # {}
    <2>1. PICK k \in Firsts(rows) : KeptOf(rows) = SubSeq(rows, k, LastOf(rows) - 1)
      BY <1>4 DEF KeptOf
    <2>2. k \in 1..(LastOf(rows) - 1)
      BY <2>1 DEF Firsts
    <2> QED
      BY <1>1, <1>2, <2>1, <2>2
  <1> QED
    BY <1>3, <1>4

\* The messages of some rows are of users, one to a row that has one.
LEMMA MessagesOfType ==
  ASSUME LogTypeOK, RowsKnown, NEW rows \in Seq(Ids)
  PROVE  /\ MessagesOf(rows) \in Seq(Users)
         /\ Len(MessagesOf(rows)) = Len(MessageRows(rows))
         /\ \A k \in 1..Len(MessageRows(rows)) :
              MessagesOf(rows)[k] = log[MessageRows(rows)[k]].msg
  <1> DEFINE ms == MessageRows(rows)
  <1>1. /\ ms \in Seq(Ids) /\ Len(ms) \in Nat
        /\ \A k \in 1..Len(ms) : log[ms[k]].type = "message" /\ ms[k] \in Ids
    BY MessageRowsType
  <1> HIDE DEF ms
  <1>2. \A k \in 1..Len(ms) : log[ms[k]].msg \in Users
    BY <1>1 DEF RowsKnown, Ids
  <1>3. MessagesOf(rows) = [k \in 1..Len(ms) |-> log[ms[k]].msg]
    BY DEF MessagesOf, ms
  <1>4. MessagesOf(rows) \in [1..Len(ms) -> Users]
    BY <1>2, <1>3
  <1>5. MessagesOf(rows) \in Seq(Users) /\ Len(MessagesOf(rows)) = Len(ms)
    BY <1>1, <1>4
  <1> QED
    BY <1>3, <1>5 DEF ms

\* What a restart loads are messages.
LEMMA ContextType ==
  ASSUME LogTypeOK, RowsKnown
  PROVE  Context(Branch) \in Seq(Messages)
  <1>1. Branch \in Seq(Ids)
    BY BranchType
  <1>2. \A rows \in Seq(Ids) : MessagesOf(rows) \in Seq(Messages)
    BY MessagesOfType, UserSeqs
  <1>3. CASE Compactions(Branch) = {}
    BY <1>1, <1>2, <1>3, ContextParts
  <1>4. CASE Compactions(Branch) # {}
    <2>1. /\ MessagesOf(KeptOf(Branch)) \in Seq(Messages)
          /\ MessagesOf(After(Branch)) \in Seq(Messages)
      BY <1>1, <1>2, <1>4, PartsType
    <2>2. <<Summary>> \in Seq(Messages)
      BY MessageNumbers DEF Summary
    <2>3. \A a, b, c \in Seq(Messages) : a \o b \o c \in Seq(Messages)
      OBVIOUS
    <2>4. <<Summary>> \o MessagesOf(KeptOf(Branch)) \o MessagesOf(After(Branch))
            \in Seq(Messages)
      BY <2>1, <2>2, <2>3
    <2> QED
      BY <1>4, <2>4, ContextParts
  <1> QED
    BY <1>3, <1>4

\* A host at rest.
LEMMA RestTypes ==
  /\ NoOp \in [op : {"none", "prompt", "model"}, msg : Messages]
  /\ NoTask \in [step : {"none", "inject", "push", "audit"}, msg : Messages,
                 followUp : BOOLEAN]
  /\ <<>> \in Seq(Jobs)
  /\ 0 \in Messages /\ 0 \in 0..MaxMessages /\ 0 \in 0..MaxCompactions
  /\ 0 \in 0..MaxCrashes /\ {} \subseteq Messages
  /\ FALSE \in BOOLEAN
  BY MessageNumbers, HostAssumption DEF NoOp, NoTask

\* A restart.
LEMMA CrashType ==
  ASSUME HostInv, RowsKnown, Crash
  PROVE  HostInv'
  <1>0. LoopTypeOK /\ LogTypeOK /\ HostVarsOK /\ HostShape
    BY TypeParts DEF HostInv
  <1>1. /\ crashes < MaxCrashes /\ crashes' = crashes + 1
        /\ transcript' = Context(Branch)
        /\ loop' = "idle" /\ activeCancel' = "none" /\ turnCancel' = "none"
        /\ steering' = <<>> /\ followUp' = <<>> /\ batch' = <<>>
        /\ iterations' = 0 /\ unanswered' = FALSE /\ outcome' = "none"
        /\ leafRead' = [w \in Writers |-> Unread]
        /\ queue' = <<>> /\ turn' = NoTurn /\ toLog' = 0 /\ host' = NoOp
        /\ trig' = NoTask /\ requests' = 0
        /\ forfeit' = forfeit \cup {m \in 1..sent : ~Logged(m)}
        /\ well' = FALSE /\ raced' = FALSE
        /\ UNCHANGED <<log, hasModel, sent, compacts>>
    BY DEF Crash
  <1>2. LoopTypeOK'
    <2>1. transcript' \in Seq(Messages)
      BY <1>0, <1>1, ContextType
    <2>2. iterations' \in 0..(IF MaxIterations = NoCap THEN 0 ELSE MaxIterations)
      BY <1>1, AgentLoopAssumption DEF NoCap
    <2> QED
      <3>1. <<>> \in Seq(Messages)
        OBVIOUS
      <3> QED
        BY <1>1, <2>1, <2>2, <3>1 DEF LoopTypeOK, LoopSteps, Tokens, Outcomes
  <1>3. LogTypeOK' /\ Len(log)' = Len(log) /\ Len(log) \in Nat
    <2>1. Len(log) \in Nat
      BY <1>0, RowFacts
    <2> QED
      BY <1>0, <1>1, <2>1 DEF LogTypeOK, Unread
  <1>4. HostVarsOK'
    <2>1. forfeit' \subseteq Messages
      <3>1. 1..sent \subseteq Messages
        BY <1>0, HostAssumption DEF HostVarsOK
      <3> QED
        BY <1>0, <1>1, <3>1 DEF HostVarsOK
    <2>2. crashes' \in 0..MaxCrashes
      BY <1>0, <1>1, HostAssumption DEF HostVarsOK
    <2> QED
      BY <1>0, <1>1, <2>1, <2>2, NoTurnType, RestTypes DEF HostVarsOK
  <1>5. HostShape'
    <2>1. <<>> \in Seq(Users) /\ sent \in Nat /\ 0 <= Len(log)
      BY <1>0, <1>3, HostAssumption DEF HostVarsOK
    <2> QED
      BY <1>1, <1>3, <2>1, NoTurnType DEF HostShape, NoOp, NoTask, NoPlan
  <1> QED
    BY <1>2, <1>3, <1>4, <1>5, TypeParts, PTL DEF HostInv

\* Every step keeps the types.
LEMMA HostNext ==
  ASSUME HostInv, RowsKnown, [Next]_vars
  PROVE  HostInv' /\ RowsKnown'
  <1>1. CASE UNCHANGED vars
    <2>1. LoopTypeOK /\ LogTypeOK /\ HostVarsOK /\ HostShape
      BY TypeParts DEF HostInv
    <2>2. LoopTypeOK' /\ LogTypeOK'
      BY <1>1, <2>1, LoopSame, LogSame DEF vars
    <2>3. HostVarsOK' /\ HostShape'
      BY <1>1, <2>1 DEF vars, hostVars, loopVars, logVars, HostVarsOK, HostShape
    <2> QED
      BY <2>2, <2>3, RowsStayKnown, TypeParts, PTL DEF HostInv
  <1>2. CASE TurnStep
    <2>1. HostInv'
      BY <1>2, EndTurnType, FailedAttemptType, CompactionType, RunType,
         HookStopsType, StopNotedType, BetweenRunsType DEF TurnStep
    <2> QED
      BY <2>1, RowsStayKnown
  <1>3. CASE Command
    <2>1. HostInv'
      BY <1>3, SubmitType, HandlerType, SlashType DEF Command
    <2> QED
      BY <2>1, RowsStayKnown
  <1>4. CASE TriggerStep \/ Crash
    BY <1>4, TriggerType, CrashType, RowsStayKnown
  <1> QED
    BY <1>1, <1>2, <1>3, <1>4 DEF Next

\* The first state has the types.
LEMMA HostStarts == Init => HostInv /\ RowsKnown
  <1> SUFFICES ASSUME Init PROVE HostInv /\ RowsKnown
    OBVIOUS
  <1>1. LoopTypeOK
    BY LoopTypeInit DEF Init
  <1>2. LogTypeOK /\ RowsKnown /\ Len(log) = 0
    BY WritersKnown DEF Init, LogInit, LogTypeOK, RowsKnown, Unread
  <1>3. HostVarsOK
    BY NoTurnType, RestTypes DEF Init, HostVarsOK
  <1>4. HostShape
    <2>1. <<>> \in Seq(Users)
      OBVIOUS
    <2> QED
      BY <1>2, <2>1, NoTurnType DEF Init, LoopInit, HostShape, NoOp, NoTask, NoPlan
  <1> QED
    BY <1>1, <1>2, <1>3, <1>4, TypeParts DEF HostInv

\* The types, the shape and the rows hold throughout.
LEMMA HostAlways == Spec => [](HostInv /\ RowsKnown)
  BY HostStarts, HostNext, PTL DEF Spec

\* However turns, retries, handlers, triggers and restarts interleave, the
\* host keeps its types; that no prompt is tried more than max_retries times,
\* and that no more runs are asked for than messages came in, are among them.
THEOREM HostTypeCorrect == Spec => []TypeOK
  <1>1. HostInv => TypeOK
    BY DEF HostInv
  <1> QED
    BY <1>1, HostAlways, PTL

-----------------------------------------------------------------------------
(***************************************************************************)
(* The queue is served.  A prompt the handler is still logging for a host  *)
(* that has a model waits for a turn that runs: that turn is not polled    *)
(* until the handler is done, so it cannot end in between and leave the    *)
(* prompt to a queue nobody looks at.                                      *)
(***************************************************************************)
ServedInv == /\ QueueIsServed
             /\ host.op = "prompt" /\ hasModel => Busy

\* What the end of a turn leaves is no turn only if nothing can be started.
LEMMA StartServes ==
  ASSUME HostInv, NEW model \in BOOLEAN, StartNext(queue, model)
  PROVE  queue' # <<>> /\ model => Busy'
  BY NextStarts DEF Fresh, Busy

\* Every step leaves the queue served.
LEMMA ServedNext ==
  ASSUME HostInv, ServedInv, [Next]_vars
  PROVE  ServedInv'
  <1>0. hasModel \in BOOLEAN /\ turn \in Turns
    BY TypeParts DEF HostInv, HostVarsOK
  <1>a. ASSUME Finish, UNCHANGED <<hasModel, host>>, host = NoOp PROVE ServedInv'
    <2>1. queue' # <<>> /\ hasModel => Busy'
      BY <1>a, <1>0, Finished, StartServes
    <2> QED
      BY <1>a, <2>1 DEF ServedInv, QueueIsServed, NoOp
  <1>b. ASSUME Busy', UNCHANGED hasModel PROVE ServedInv'
    BY <1>b DEF ServedInv, QueueIsServed
  <1>c. ASSUME UNCHANGED <<queue, host, hasModel>>, turn' = turn PROVE ServedInv'
    BY <1>c DEF ServedInv, QueueIsServed, Busy
  <1>1. CASE UNCHANGED vars
    BY <1>1, <1>c DEF vars, hostVars
  <1>2. CASE TurnStep
    <2>0. host = NoOp /\ UNCHANGED <<hasModel, host>>
      BY <1>2 DEF TurnStep, TurnBegins, NothingToContinue, NothingToCompact,
         Snapshot, Summarized, SummaryFails, CompactionApplied, RunAdvances,
         ListenerReads, ListenerWrites, RunSucceeds, RunFails, BackoffEnds,
         HookPasses, HookStops, StopNoted, HookContinues, NoteWrites, Polled,
         hostVars
    <2>1. CASE NothingToContinue \/ NothingToCompact \/ HookPasses \/ StopNoted
      BY <2>0, <2>1, <1>a
         DEF NothingToContinue, NothingToCompact, HookPasses, StopNoted
    <2>2. CASE TurnBegins
      <3>1. turn'.stage = "running"
        BY <2>2, <1>0 DEF TurnBegins, Turns
      <3> QED
        BY <2>0, <3>1, <1>b DEF Busy
    <2>3. CASE Snapshot
      <3>1. turn'.stage = "summarizing"
        BY <2>3, <1>0 DEF Snapshot, Turns
      <3> QED
        BY <2>0, <3>1, <1>b DEF Busy
    <2>4. CASE Summarized \/ CompactionApplied \/ RunSucceeds \/ BackoffEnds
               \/ HookStops \/ NoteWrites
      <3>1. turn'.stage \in {"compacting", "ready", "hook", "parting", "prep"}
        BY <2>4, <1>0 DEF Summarized, CompactionApplied, RunSucceeds,
                          BackoffEnds, HookStops, NoteWrites, To, Turns
      <3> QED
        BY <2>0, <3>1, <1>b DEF Busy
    <2>5. CASE HookContinues
      <3>1. turn'.stage = "noting"
        BY <2>5, <1>0 DEF HookContinues, Turns
      <3> QED
        BY <2>0, <3>1, <1>b DEF Busy
    <2>6. CASE SummaryFails \/ RunFails
      <3>1. Retry \/ FallBack \/ Finish
        BY <2>6 DEF SummaryFails, RunFails, AttemptFails
      <3>2. CASE Retry \/ FallBack
        <4>1. turn'.stage \in {"backoff", "noting"}
          BY <3>2, <1>0 DEF Retry, FallBack, Turns
        <4> QED
          BY <2>0, <4>1, <1>b DEF Busy
      <3> QED
        BY <2>0, <3>1, <3>2, <1>a
    <2>7. CASE RunAdvances \/ ListenerReads \/ ListenerWrites
      BY <2>0, <2>7, <1>c DEF RunAdvances, ListenerReads, ListenerWrites, hostVars
    <2> QED
      BY <1>2, <2>1, <2>2, <2>3, <2>4, <2>5, <2>6, <2>7 DEF TurnStep
  <1>3. CASE Command
    <2>1. CASE Submit
      <3>1. CASE ~hasModel
        BY <2>1, <3>1 DEF Submit, ServedInv, QueueIsServed
      <3>2. CASE hasModel /\ Busy
        BY <2>1, <3>2, <1>b DEF Submit, Busy
      <3>3. CASE hasModel /\ ~Busy
        <4>1. turn'.stage = "prep"
          BY <2>1, <3>3 DEF Submit, Turn
        <4> QED
          BY <2>1, <4>1, <1>b DEF Submit, Busy
      <3> QED
        BY <3>1, <3>2, <3>3
    <2>2. CASE SubmitInterrupt
      <3>1. CASE hasModel /\ ~Busy
        <4>1. turn'.stage = "prep"
          BY <2>2, <3>1 DEF SubmitInterrupt, Turn
        <4> QED
          BY <2>2, <4>1, <1>b DEF SubmitInterrupt, Busy
      <3>2. CASE hasModel /\ Busy
        BY <2>2, <3>2, <1>b DEF SubmitInterrupt, Busy
      <3>3. CASE ~hasModel
        BY <2>2, <3>3 DEF SubmitInterrupt, ServedInv, QueueIsServed
      <3> QED
        BY <3>1, <3>2, <3>3
    <2>3. CASE PromptPersisted \/ PromptNotPersisted
      <3>1. host.op = "prompt" /\ host' = NoOp /\ UNCHANGED <<hasModel, turn>>
        BY <2>3 DEF PromptPersisted, PromptNotPersisted
      <3> QED
        BY <3>1 DEF ServedInv, QueueIsServed, Busy, NoOp
    <2>4. CASE SetModel
      BY <2>4 DEF SetModel, ServedInv, QueueIsServed
    <2>5. CASE ModelSet
      <3>1. CASE Busy
        BY <2>5, <3>1 DEF ModelSet, ServedInv, QueueIsServed, Busy
      <3>2. CASE ~Busy
        <4>1. StartNext(queue, TRUE) /\ TRUE \in BOOLEAN /\ host' = NoOp
          BY <2>5, <3>2 DEF ModelSet
        <4>2. queue' # <<>> => Busy'
          BY <4>1, StartServes
        <4> QED
          BY <4>1, <4>2 DEF ServedInv, QueueIsServed, NoOp
      <3> QED
        BY <3>1, <3>2
    <2>6. CASE AgentPrompt \/ Compact
      <3>1. PICK job : StartOrQueue(job) /\ UNCHANGED <<hasModel, host>> /\ host = NoOp
        BY <2>6 DEF AgentPrompt, Compact
      <3>2. CASE Busy
        BY <3>1, <3>2, <1>b DEF StartOrQueue, Busy
      <3>3. CASE ~Busy
        <4>1. turn'.stage = "prep"
          BY <3>1, <3>3 DEF StartOrQueue, TurnOf, Turn
        <4> QED
          BY <3>1, <4>1, <1>b DEF Busy
      <3> QED
        BY <3>2, <3>3
    <2>7. CASE Abort
      BY <2>7, <1>c DEF Abort, hostVars
    <2> QED
      BY <1>3, <2>1, <2>2, <2>3, <2>4, <2>5, <2>6, <2>7 DEF Command
  <1>4. CASE TriggerStep
    <2>1. CASE TriggeredTurn
      <3>1. CASE hasModel
        <4>1. turn'.stage = "prep"
          BY <2>1, <3>1 DEF TriggeredTurn, Turn
        <4> QED
          BY <2>1, <4>1, <1>b DEF TriggeredTurn, Busy
      <3>2. CASE ~hasModel
        BY <2>1, <3>2 DEF TriggeredTurn, ServedInv, QueueIsServed
      <3> QED
        BY <3>1, <3>2
    <2>2. CASE ~TriggeredTurn
      BY <1>4, <2>2, <1>c DEF TriggerStep, TriggerFires, TriggerReads,
         TriggerWrites, TriggerPushes, TriggerAudits, hostVars
    <2> QED
      BY <2>1, <2>2
  <1>5. CASE Crash
    BY <1>5 DEF Crash, ServedInv, QueueIsServed, NoOp
  <1> QED
    BY <1>1, <1>2, <1>3, <1>4, <1>5 DEF Next

\* Whatever ends a turn or sets the model, a queue with something in it and a
\* host with a model have a turn that runs.
THEOREM QueuedTurnsRun == Spec => []QueueIsServed
  <1>1. Init => ServedInv
    BY DEF Init, ServedInv, QueueIsServed, NoOp
  <1>2. HostInv /\ ServedInv /\ [Next]_vars => ServedInv'
    BY ServedNext
  <1>3. ServedInv => QueueIsServed
    BY DEF ServedInv
  <1> QED
    BY <1>1, <1>2, <1>3, HostAlways, PTL DEF Spec

-----------------------------------------------------------------------------
(***************************************************************************)
(* Nothing is left unanswered.  A message in memory that no request has    *)
(* carried is behind something that makes the host call the model again:   *)
(* a trigger's request for a run, a prompt in the queue or in the hands of *)
(* its handler, or the turn itself, short of a last reply.                 *)
(***************************************************************************)
Waiting == \E i \in 1..Len(queue) : queue[i].kind # "compaction"

Carried == \/ trig.step = "audit" /\ ~trig.followUp
           \/ requests > 0
           \/ Waiting
           \/ host.op = "prompt"

\* The turn has a call of the model before it, or a way to end that is not well.
WillCall ==
  /\ turn.kind # "compaction"
  /\ \/ turn.stage \in {"prep", "summarizing", "compacting", "ready", "noting",
                        "backoff"}
     \/ turn.stage = "running" /\ loop \in {"pushing", "turn", "partial"}
     \/ /\ turn.stage = "running"
        /\ loop \in {"ending", "idle"}
        /\ outcome # "done"

ToAnswer == unanswered /\ (well \/ turn.stage = "running")

AnswerInv ==
  /\ ToAnswer => Carried \/ WillCall
  /\ trig.step \in {"inject", "push"} => ~trig.followUp
  /\ well => hasModel
  /\ loop \in {"tools", "last"} => hasModel
  /\ outcome = "done" => hasModel

\* A job that leaves the queue is the next turn.
LEMMA WaitingMoves ==
  ASSUME HostInv, NEW model \in BOOLEAN, StartNext(queue, model), Waiting
  PROVE  Waiting' \/ (turn'.kind # "compaction" /\ turn'.stage = "prep")
  <1>1. queue \in Seq(Jobs)
    BY TypeParts DEF HostInv, HostVarsOK
  <1>2. CASE queue # <<>> /\ model
    <2>1. turn' = TurnOf(Head(queue)) /\ queue' = Tail(queue)
      BY <1>2 DEF StartNext
    <2>2. PICK i \in 1..Len(queue) : queue[i].kind # "compaction"
      BY DEF Waiting
    <2>3. CASE i = 1
      <3>1. Head(queue).kind # "compaction"
        BY <2>2, <2>3, <1>1, <1>2
      <3>2. turn'.kind # "compaction" /\ turn'.stage = "prep"
        BY <2>1, <3>1 DEF TurnOf, Turn
      <3> QED
        BY <3>2
    <2>4. CASE i # 1
      <3>1. i - 1 \in 1..Len(queue') /\ queue'[i - 1] = queue[i]
        BY <2>1, <2>4, <1>1, <1>2
      <3> QED
        BY <2>2, <3>1 DEF Waiting
    <2> QED
      BY <2>3, <2>4
  <1>3. CASE ~(queue # <<>> /\ model)
    <2>1. queue' = queue
      BY <1>3 DEF StartNext
    <2> QED
      BY <2>1 DEF Waiting
  <1> QED
    BY <1>2, <1>3

\* A job joins the others.
LEMMA WaitingJoined ==
  ASSUME queue \in Seq(Jobs), NEW job \in Jobs, queue' = Append(queue, job)
  PROVE  (Waiting \/ job.kind # "compaction") => Waiting'
  <1>1. /\ Len(queue') = Len(queue) + 1 /\ queue'[Len(queue) + 1] = job
        /\ \A i \in 1..Len(queue) : queue'[i] = queue[i]
        /\ Len(queue) \in Nat
    OBVIOUS
  <1>2. ASSUME job.kind # "compaction" PROVE Waiting'
    <2>1. Len(queue) + 1 \in 1..Len(queue')
      BY <1>1
    <2> QED
      BY <2>1, <1>1, <1>2 DEF Waiting
  <1>3. ASSUME Waiting PROVE Waiting'
    <2>1. PICK i \in 1..Len(queue) : queue[i].kind # "compaction"
      BY <1>3 DEF Waiting
    <2>2. i \in 1..Len(queue') /\ queue'[i] = queue[i]
      BY <1>1
    <2> QED
      BY <2>1, <2>2 DEF Waiting
  <1> QED
    BY <1>2, <1>3

\* What the messages wait for is where it was.
LEMMA StillCarried ==
  UNCHANGED <<queue, host, trig, requests>> => (Carried' <=> Carried)
  BY DEF Carried, Waiting

\* The end of a turn that was not about to call.
LEMMA FinishAnswers ==
  ASSUME HostInv, AnswerInv, Finish, host = NoOp, ToAnswer, ~WillCall,
         UNCHANGED <<host, trig, requests>>
  PROVE  Carried' \/ WillCall'
  <1>1. hasModel \in BOOLEAN /\ StartNext(queue, hasModel)
    BY Finished, TypeParts DEF HostInv, HostVarsOK
  <1>2. Carried
    BY DEF AnswerInv
  <1>3. CASE Waiting
    <2>1. Waiting' \/ (turn'.kind # "compaction" /\ turn'.stage = "prep")
      BY <1>1, <1>3, WaitingMoves
    <2> QED
      BY <2>1 DEF Carried, WillCall
  <1>4. CASE ~Waiting
    BY <1>2, <1>4 DEF Carried, NoOp
  <1> QED
    BY <1>3, <1>4

\* The stages a turn of a run goes through before it runs.
LEMMA StepOn ==
  ASSUME HostInv,
         NEW s \in {"prep", "summarizing", "compacting", "ready", "noting",
                    "backoff"},
         turn'.stage = s, turn'.kind = turn.kind, turn.stage # "none",
         UNCHANGED <<queue, host, trig, requests, unanswered, well>>,
         AnswerInv
  PROVE  ToAnswer' => Carried' \/ WillCall'
  <1> SUFFICES ASSUME ToAnswer' PROVE Carried' \/ WillCall'
    OBVIOUS
  <1>1. CASE turn.kind # "compaction"
    BY <1>1 DEF WillCall
  <1>2. CASE turn.kind = "compaction"
    <2>1. ToAnswer
      BY DEF ToAnswer
    <2>2. Carried
      BY <2>1, <1>2 DEF AnswerInv, WillCall
    <2> QED
      BY <2>2, StillCarried
  <1> QED
    BY <1>1, <1>2

\* What turns do when they end, or go on to their next stage.
LEMMA AnswerTurn ==
  ASSUME HostInv, AnswerInv,
         \/ NothingToContinue \/ NothingToCompact \/ HookPasses \/ TurnBegins
         \/ Snapshot \/ Summarized \/ CompactionApplied \/ BackoffEnds
         \/ HookStops \/ StopNoted \/ HookContinues \/ NoteWrites \/ RunSucceeds
  PROVE  AnswerInv'
  <1>0. /\ turn \in Turns
        /\ turn.stage \in {"running", "hook", "parting"} => turn.kind # "compaction"
        /\ loop # "idle" => turn.stage = "running"
        /\ well \in BOOLEAN
    BY TypeParts DEF HostInv, HostVarsOK, HostShape
  <1>1. CASE NothingToContinue
    <2>1. turn'.stage \in {"none", "prep"}
      BY <1>1, Finished, NextStarts DEF NothingToContinue
    <2> QED
      BY <1>1, <2>1 DEF NothingToContinue, AnswerInv, ToAnswer, loopVars
  <1>2. CASE NothingToCompact \/ HookPasses \/ StopNoted
    <2>1. /\ Finish /\ host = NoOp /\ turn.stage # "running" /\ ~WillCall
          /\ UNCHANGED <<host, trig, requests, unanswered, well, hasModel, loop,
                        outcome>>
      BY <1>2, <1>0 DEF NothingToCompact, HookPasses, StopNoted, Polled, WillCall,
                        loopVars
    <2>2. turn'.stage \in {"none", "prep"}
      BY <2>1, Finished, NextStarts
    <2>3. ToAnswer' => ToAnswer
      BY <2>1, <2>2 DEF ToAnswer
    <2>4. ToAnswer' => Carried' \/ WillCall'
      BY <2>1, <2>3, FinishAnswers
    <2> QED
      BY <2>1, <2>4 DEF AnswerInv
  <1>3. CASE TurnBegins
    <2>1. turn'.stage = "running" /\ turn'.kind = turn.kind
      BY <1>3, <1>0 DEF TurnBegins, Turns
    <2>2. /\ loop' = "pushing" /\ turn.kind # "compaction" /\ outcome' = "none"
          /\ UNCHANGED <<trig, well, hasModel>>
      BY <1>3 DEF TurnBegins, BeginRun
    <2>3. WillCall'
      BY <2>1, <2>2 DEF WillCall
    <2> QED
      BY <2>2, <2>3 DEF AnswerInv
  <1>4. CASE Snapshot \/ Summarized \/ CompactionApplied \/ BackoffEnds \/ NoteWrites
    <2>1. /\ turn'.kind = turn.kind /\ turn.stage # "none"
          /\ turn'.stage \in {"prep", "summarizing", "compacting", "ready",
                              "noting", "backoff"}
          /\ UNCHANGED <<queue, host, trig, requests, unanswered, well, hasModel,
                        loop, outcome>>
      BY <1>4, <1>0 DEF Snapshot, Summarized, CompactionApplied, BackoffEnds,
                        NoteWrites, Polled, To, Turns, loopVars
    <2>2. ToAnswer' => Carried' \/ WillCall'
      BY <2>1, StepOn
    <2> QED
      BY <2>1, <2>2 DEF AnswerInv
  <1>5. CASE HookContinues
    <2>1. /\ turn'.kind = turn.kind /\ turn.stage = "hook"
          /\ turn'.stage = "noting"
          /\ UNCHANGED <<trig, well, hasModel, loop, outcome>>
      BY <1>5, <1>0 DEF HookContinues, Polled, Turns, loopVars
    <2>2. WillCall'
      BY <1>0, <2>1 DEF WillCall
    <2> QED
      BY <2>1, <2>2 DEF AnswerInv
  <1>6. CASE RunSucceeds
    <2>1. /\ turn.stage = "running" /\ loop = "idle" /\ turn'.stage = "hook"
          /\ well' = (outcome = "done") /\ outcome' = "none"
          /\ UNCHANGED <<queue, host, trig, requests, unanswered, hasModel, loop>>
      BY <1>6, <1>0 DEF RunSucceeds, Polled, Took, To, Turns
    <2>2. ToAnswer' => ToAnswer /\ outcome = "done"
      BY <2>1 DEF ToAnswer
    <2>3. ToAnswer' => Carried
      BY <2>1, <2>2 DEF AnswerInv, WillCall
    <2>4. ToAnswer' => Carried'
      BY <2>1, <2>3, StillCarried
    <2> QED
      BY <2>1, <2>4 DEF AnswerInv
  <1>7. CASE HookStops
    <2>1. /\ turn.stage = "hook" /\ turn'.stage = "parting"
          /\ UNCHANGED <<queue, host, trig, requests, unanswered, well, hasModel,
                         loop, outcome>>
      BY <1>7, <1>0 DEF HookStops, Polled, To, Turns, loopVars
    <2>2. ToAnswer' => ToAnswer /\ ~WillCall
      BY <2>1 DEF ToAnswer, WillCall
    <2>3. ToAnswer' => Carried'
      BY <2>1, <2>2, StillCarried DEF AnswerInv
    <2> QED
      BY <2>1, <2>3 DEF AnswerInv
  <1> QED
    BY <1>1, <1>2, <1>3, <1>4, <1>5, <1>6, <1>7

\* A failed attempt is not well, save that a compaction fails without a run.
LEMMA AnswerFailure ==
  ASSUME HostInv, AnswerInv, SummaryFails \/ RunFails
  PROVE  AnswerInv'
  <1>0. turn \in Turns /\ well \in BOOLEAN
    BY TypeParts DEF HostInv, HostVarsOK
  <1>1. Retry \/ FallBack \/ Finish
    BY DEF SummaryFails, RunFails, AttemptFails
  <1>2. turn'.stage \in {"none", "prep", "backoff", "noting"}
    <2>1. CASE Retry \/ FallBack
      BY <1>0, <2>1 DEF Retry, FallBack, Turns
    <2>2. CASE Finish
      BY <2>2, Finished, NextStarts
    <2> QED
      BY <1>1, <2>1, <2>2
  <1>3. CASE RunFails
    BY <1>2, <1>3 DEF RunFails, Took, AnswerInv, ToAnswer
  <1>4. CASE SummaryFails
    <2>1. /\ well' = (well /\ turn.kind = "compaction") /\ host = NoOp
          /\ UNCHANGED <<host, trig, requests, unanswered, hasModel, loop, outcome>>
      BY <1>4 DEF SummaryFails, Polled, loopVars
    <2>2. CASE turn.kind = "compaction"
      <3>1. Finish
        BY <1>1, <2>2 DEF Retry, FallBack
      <3>2. ToAnswer' => ToAnswer /\ ~WillCall
        BY <1>2, <2>1, <2>2 DEF ToAnswer, WillCall
      <3>3. ToAnswer' => Carried' \/ WillCall'
        BY <2>1, <3>1, <3>2, FinishAnswers
      <3> QED
        BY <2>1, <2>2, <3>3 DEF AnswerInv
    <2>3. CASE turn.kind # "compaction"
      BY <1>2, <2>1, <2>3 DEF AnswerInv, ToAnswer
    <2> QED
      BY <2>2, <2>3
  <1> QED
    BY <1>3, <1>4

\* The run itself: what a call leaves unanswered is met by another call, or the
\* run does not end well.
LEMMA AnswerRun ==
  ASSUME HostInv, AnswerInv, RunAdvances \/ ListenerReads \/ ListenerWrites
  PROVE  AnswerInv'
  <1>0. /\ turn.stage = "running"
        /\ turn.kind # "compaction"
        /\ UNCHANGED <<queue, host, trig, requests, well, hasModel, turn>>
    BY DEF RunAdvances, ListenerReads, ListenerWrites, Polled, HostInv,
           HostShape, hostVars
  <1>a. ToAnswer <=> unanswered
    BY <1>0, TypeParts DEF ToAnswer, HostInv, LoopTypeOK
  <1>b. ToAnswer' => unanswered'
    BY DEF ToAnswer
  <1>c. Carried' <=> Carried
    BY <1>0, StillCarried
  <1>d. WillCall' <=> \/ loop' \in {"pushing", "turn", "partial"}
                      \/ loop' \in {"ending", "idle"} /\ outcome' # "done"
    BY <1>0 DEF WillCall
  <1>e. WillCall <=> \/ loop \in {"pushing", "turn", "partial"}
                     \/ loop \in {"ending", "idle"} /\ outcome # "done"
    BY <1>0 DEF WillCall
  <1>f. /\ unanswered => Carried \/ WillCall
        /\ trig'.step \in {"inject", "push"} => ~trig'.followUp
        /\ well' => hasModel'
        /\ loop \in {"tools", "last"} => hasModel
        /\ outcome = "done" => hasModel
    BY <1>0, <1>a DEF AnswerInv
  <1>g. ASSUME loop' \in {"tools", "last"} => hasModel,
               outcome' = "done" => hasModel,
               unanswered' => Carried \/ WillCall'
        PROVE  AnswerInv'
    BY <1>0, <1>b, <1>c, <1>f, <1>g DEF AnswerInv
  <1>1. CASE ListenerReads \/ ListenerWrites
    <2>1. UNCHANGED <<loop, outcome, unanswered>>
      BY <1>1 DEF ListenerReads, ListenerWrites, loopVars
    <2> QED
      BY <2>1, <1>d, <1>e, <1>f, <1>g
  <1>2. CASE RunAdvances
    <2>0. /\ RunStep
          /\ (loop = "call" /\ loop' \in {"tools", "last"}) => hasModel
      BY <1>2 DEF RunAdvances
    <2>1. CASE PushMessage
      BY <2>1, <1>d, <1>f, <1>g DEF PushMessage
    <2>2. CASE LoopHead
      BY <2>2, <1>d, <1>f, <1>g DEF LoopHead, End
    <2>3. CASE CallModel
      BY <2>3, <1>f, <1>g DEF CallModel
    <2>4. CASE CallAborted
      BY <2>4, <1>d, <1>f, <1>g DEF CallAborted, End
    <2>5. CASE CallInterrupted
      BY <2>5, <1>d, <1>f, <1>g DEF CallInterrupted
    <2>6. CASE TurnEnds
      <3>1. /\ loop = "last" /\ unanswered' = unanswered
            /\ loop' = "pushing" \/ loop' = "ending"
            /\ outcome' \in {outcome, "done"}
        BY <2>6 DEF TurnEnds, Boundary, End
      <3> QED
        BY <3>1, <1>e, <1>f, <1>g
    <2>7. CASE InterruptedTurnEnds
      <3>1. /\ unanswered' = unanswered
            /\ \/ loop' = "pushing" /\ outcome' = outcome
               \/ loop' = "ending" /\ outcome' = "interrupted"
        BY <2>7 DEF InterruptedTurnEnds, Boundary, End
      <3> QED
        BY <3>1, <1>d, <1>f, <1>g
    <2>8. CASE EndRun
      BY <2>8, <1>d, <1>e, <1>f, <1>g DEF EndRun, Release
    <2>9. CASE ModelReplies
      <3>1. loop = "call" /\ loop' \in {"tools", "last"}
            /\ UNCHANGED <<unanswered, outcome>>
        BY <2>9 DEF ModelReplies, CallLive
      <3> QED
        BY <3>1, <2>0, <1>e, <1>f, <1>g
    <2>10. CASE ModelFails
      BY <2>10, <1>d, <1>f, <1>g DEF ModelFails, End
    <2>11. CASE ToolsReturn
      <3>1. /\ loop = "tools" /\ unanswered' = unanswered
            /\ \/ loop' = "pushing" /\ outcome' = outcome
               \/ loop' = "ending" /\ outcome' = "done"
        BY <2>11 DEF ToolsReturn, Boundary, End
      <3> QED
        BY <3>1, <1>d, <1>e, <1>f, <1>g
    <2> QED
      BY <2>0, <2>1, <2>2, <2>3, <2>4, <2>5, <2>6, <2>7, <2>8, <2>9, <2>10,
         <2>11 DEF RunStep, LoopStep, ProviderStep
  <1> QED
    BY <1>1, <1>2

\* Commands put their prompt into a turn, into a queue, or into the hands of the
\* handler that logs it.
LEMMA AnswerCommand ==
  ASSUME HostInv, AnswerInv, Command
  PROVE  AnswerInv'
  <1>0. /\ queue \in Seq(Jobs) /\ hasModel \in BOOLEAN /\ well \in BOOLEAN
        /\ turn \in Turns
        /\ loop # "idle" => turn.stage = "running"
        /\ turn.stage \in {"running", "hook", "parting"} => turn.kind # "compaction"
    BY TypeParts DEF HostInv, HostVarsOK, HostShape
  <1>a. ASSUME Carried' \/ WillCall',
               UNCHANGED <<trig, hasModel, loop, outcome, well>>
        PROVE  AnswerInv'
    BY <1>a DEF AnswerInv
  <1>b. ASSUME UNCHANGED <<turn, loop, outcome, unanswered, well, hasModel, trig>>,
               Carried => Carried'
        PROVE  AnswerInv'
    BY <1>b DEF AnswerInv, ToAnswer, WillCall
  <1>c. ASSUME NEW kind \in {"user", "plain"}, NEW p, turn' = Turn(kind, p)
        PROVE  WillCall'
    BY <1>c DEF WillCall, Turn
  <1>1. CASE Submit
    <2>1. UNCHANGED <<trig, hasModel, loop, outcome, well, unanswered, queue, requests>>
          /\ host = NoOp
      BY <1>1 DEF Submit
    <2>2. CASE ~hasModel
      <3>1. host'.op = "prompt"
        BY <1>1, <2>2 DEF Submit, Await
      <3> QED
        BY <2>1, <3>1, <1>a DEF Carried
    <2>3. CASE hasModel /\ ~Busy
      <3>1. turn' = Turn("user", <<sent + 1>>)
        BY <1>1, <2>3 DEF Submit
      <3> QED
        BY <2>1, <3>1, <1>a, <1>c
    <2>4. CASE hasModel /\ Busy
      <3>1. turn' = turn /\ host' = host
        BY <1>1, <2>4 DEF Submit, AtOnce
      <3>2. Carried => Carried'
        BY <2>1, <3>1, StillCarried
      <3> QED
        BY <2>1, <3>1, <3>2, <1>b
    <2> QED
      BY <2>2, <2>3, <2>4
  <1>2. CASE SubmitInterrupt
    <2>1. UNCHANGED <<trig, hasModel, loop, outcome, well, unanswered>>
      BY <1>2 DEF SubmitInterrupt
    <2>2. CASE hasModel /\ ~Busy
      <3>1. turn' = Turn("user", <<sent + 1>>)
        BY <1>2, <2>2 DEF SubmitInterrupt
      <3> QED
        BY <2>1, <3>1, <1>a, <1>c
    <2>3. CASE ~(hasModel /\ ~Busy)
      <3>1. host'.op = "prompt"
        BY <1>2, <2>3 DEF SubmitInterrupt, Await
      <3> QED
        BY <2>1, <3>1, <1>a DEF Carried
    <2> QED
      BY <2>2, <2>3
  <1>3. CASE PromptPersisted \/ PromptNotPersisted
    <2>1. PICK b \in BOOLEAN : queue' = Append(queue, Job("user", host.msg, b))
      BY <1>3 DEF PromptPersisted, PromptNotPersisted
    <2>2. Job("user", host.msg, b) \in Jobs /\ Job("user", host.msg, b).kind = "user"
      BY <1>3, TypeParts
         DEF PromptPersisted, PromptNotPersisted, HostInv, HostVarsOK, Job, Jobs,
             Kinds
    <2>3. Waiting'
      BY <1>0, <2>1, <2>2, WaitingJoined
    <2>4. UNCHANGED <<trig, hasModel, loop, outcome, well>>
      BY <1>3 DEF PromptPersisted, PromptNotPersisted, loopVars
    <2> QED
      BY <2>3, <2>4, <1>a DEF Carried
  <1>4. CASE SetModel
    <2>1. host = NoOp
          /\ UNCHANGED <<turn, loop, outcome, unanswered, well, hasModel, trig,
                        queue, requests>>
      BY <1>4 DEF SetModel, loopVars
    <2>2. Carried => Carried'
      BY <2>1 DEF Carried, Waiting, NoOp
    <2> QED
      BY <2>1, <2>2, <1>b
  <1>5. CASE ModelSet
    <2>1. /\ host.op = "model" /\ hasModel' = TRUE
          /\ UNCHANGED <<trig, requests, loop, outcome, unanswered, well>>
      BY <1>5 DEF ModelSet, loopVars
    <2>2. CASE Busy
      <3>1. UNCHANGED <<queue, turn>>
        BY <1>5, <2>2 DEF ModelSet
      <3>2. (Carried => Carried') /\ (WillCall' <=> WillCall) /\ (ToAnswer' <=> ToAnswer)
        BY <2>1, <3>1 DEF Carried, Waiting, WillCall, ToAnswer
      <3> QED
        BY <2>1, <3>2 DEF AnswerInv
    <2>3. CASE ~Busy
      <3>1. StartNext(queue, TRUE) /\ TRUE \in BOOLEAN
        BY <1>5, <2>3 DEF ModelSet
      <3>2. turn'.stage \in {"none", "prep"}
        BY <3>1, NextStarts
      <3>3. ToAnswer' => ToAnswer /\ ~WillCall
        BY <2>1, <2>3, <3>2 DEF ToAnswer, WillCall, Busy
      <3>4. ToAnswer' => Carried
        BY <3>3 DEF AnswerInv
      <3>5. Waiting => Waiting' \/ WillCall'
        BY <3>1, WaitingMoves DEF WillCall
      <3>6. Carried => Carried' \/ WillCall'
        BY <2>1, <3>5 DEF Carried
      <3> QED
        BY <2>1, <3>4, <3>6 DEF AnswerInv
    <2> QED
      BY <2>2, <2>3
  <1>6. CASE AgentPrompt \/ Compact
    <2>1. PICK job \in Jobs : /\ StartOrQueue(job)
                              /\ ~job.persisted
                              /\ job.kind \in {"plain", "compaction"}
      <3>1. /\ AgentPrompt => Job("plain", sent + 1, FALSE) \in Jobs
            /\ Compact => Job("compaction", 0, FALSE) \in Jobs
        BY HostAssumption, TypeParts
           DEF AgentPrompt, Compact, HostInv, HostVarsOK, Job, Jobs, Kinds
      <3>2. CASE AgentPrompt
        BY <3>1, <3>2 DEF AgentPrompt, Job
      <3>3. CASE Compact
        BY <3>1, <3>3 DEF Compact, Job
      <3> QED
        BY <1>6, <3>2, <3>3
    <2>2. UNCHANGED <<trig, requests, hasModel, loop, outcome, well, unanswered,
                      host>>
      BY <1>6 DEF AgentPrompt, Compact, loopVars
    <2>3. CASE Busy
      <3>1. queue' = Append(queue, job) /\ turn' = turn
        BY <2>1, <2>3 DEF StartOrQueue
      <3>2. Carried => Carried'
        BY <1>0, <2>1, <2>2, <3>1, WaitingJoined DEF Carried
      <3> QED
        BY <2>2, <3>1, <3>2, <1>b
    <2>4. CASE ~Busy /\ job.kind = "plain"
      <3>1. turn' = Turn("plain", <<job.msg>>)
        BY <2>1, <2>4 DEF StartOrQueue, TurnOf
      <3> QED
        BY <2>2, <3>1, <1>a, <1>c
    <2>5. CASE ~Busy /\ job.kind = "compaction"
      <3>1. turn' = Turn("compaction", <<>>) /\ queue' = queue
        BY <2>1, <2>5 DEF StartOrQueue, TurnOf
      <3>2. ToAnswer' => ToAnswer /\ ~WillCall
        BY <2>2, <2>5, <3>1 DEF ToAnswer, WillCall, Busy, Turn
      <3>3. ToAnswer' => Carried'
        BY <2>2, <3>1, <3>2, StillCarried DEF AnswerInv
      <3> QED
        BY <2>2, <3>3 DEF AnswerInv
    <2> QED
      BY <2>1, <2>3, <2>4, <2>5
  <1>7. CASE Abort
    <2>1. UNCHANGED <<turn, loop, outcome, unanswered, well, hasModel, trig,
                      queue, requests, host>>
      BY <1>7 DEF Abort, hostVars
    <2>2. Carried => Carried'
      BY <2>1, StillCarried
    <2> QED
      BY <2>1, <2>2, <1>b
  <1> QED
    BY <1>1, <1>2, <1>3, <1>4, <1>5, <1>6, <1>7 DEF Command

\* What a trigger puts into memory it asks a run for.
LEMMA AnswerTrigger ==
  ASSUME HostInv, AnswerInv, TriggerStep
  PROVE  AnswerInv'
  <1>0. /\ hasModel \in BOOLEAN /\ well \in BOOLEAN /\ turn \in Turns
        /\ requests \in Nat /\ trig.followUp \in BOOLEAN
        /\ loop # "idle" => turn.stage = "running"
    BY TypeParts DEF HostInv, HostVarsOK, HostShape
  <1>b. ASSUME UNCHANGED <<turn, loop, outcome, unanswered, well, hasModel>>,
               trig'.step \in {"inject", "push"} => ~trig'.followUp,
               Carried => Carried'
        PROVE  AnswerInv'
    BY <1>b DEF AnswerInv, ToAnswer, WillCall
  <1>1. CASE TriggerFires
    <2>1. /\ trig = NoTask
          /\ UNCHANGED <<turn, loop, outcome, unanswered, well, hasModel, queue,
                        requests, host>>
      BY <1>1 DEF TriggerFires
    <2>2. trig'.step \in {"inject", "push"} => ~trig'.followUp
      BY <1>1 DEF TriggerFires
    <2>3. Carried => Carried'
      BY <2>1 DEF Carried, Waiting, NoTask
    <2> QED
      BY <2>1, <2>2, <2>3, <1>b
  <1>2. CASE TriggerReads
    <2>1. UNCHANGED <<turn, loop, outcome, unanswered, well, hasModel, trig,
                      queue, requests, host>>
      BY <1>2 DEF TriggerReads, hostVars, loopVars
    <2> QED
      BY <2>1, <1>b, StillCarried DEF AnswerInv
  <1>3. CASE TriggerWrites
    <2>1. /\ trig.step = "inject" /\ trig'.step = "push"
          /\ trig'.followUp = trig.followUp
          /\ UNCHANGED <<turn, loop, outcome, unanswered, well, hasModel, queue,
                        requests, host>>
      BY <1>3, TypeParts DEF TriggerWrites, loopVars, HostInv, HostVarsOK
    <2>2. Carried => Carried'
      BY <2>1 DEF Carried, Waiting
    <2> QED
      BY <2>1, <2>2, <1>b DEF AnswerInv
  <1>4. CASE TriggerPushes
    <2>1. /\ trig.step = "push" /\ trig'.step = "audit"
          /\ trig'.followUp = trig.followUp
          /\ UNCHANGED <<loop, outcome, well, hasModel>>
      BY <1>4, TypeParts DEF TriggerPushes, HostInv, HostVarsOK
    <2>2. Carried'
      BY <2>1 DEF Carried, AnswerInv
    <2> QED
      BY <2>1, <2>2 DEF AnswerInv
  <1>5. CASE TriggerAudits
    <2>1. /\ trig.step = "audit" /\ trig' = NoTask
          /\ requests' = requests + (IF trig.followUp THEN 0 ELSE 1)
          /\ UNCHANGED <<turn, loop, outcome, unanswered, well, hasModel, queue,
                        host>>
      BY <1>5 DEF TriggerAudits, loopVars
    <2>2. Carried => Carried'
      BY <1>0, <2>1 DEF Carried, Waiting
    <2> QED
      BY <2>1, <2>2, <1>b DEF NoTask
  <1>6. CASE TriggeredTurn
    <2>1. /\ ~Busy
          /\ turn' = IF hasModel THEN Turn("plain", <<>>) ELSE NoTurn
          /\ UNCHANGED <<loop, outcome, unanswered, well, hasModel, trig>>
      BY <1>6 DEF TriggeredTurn, loopVars
    <2>2. CASE hasModel
      <3>1. WillCall'
        BY <2>1, <2>2 DEF WillCall, Turn
      <3> QED
        BY <2>1, <3>1 DEF AnswerInv
    <2>3. CASE ~hasModel
      <3>1. ~ToAnswer'
        BY <2>1, <2>3, NoTurnType DEF ToAnswer, AnswerInv
      <3> QED
        BY <2>1, <3>1 DEF AnswerInv
    <2> QED
      BY <2>2, <2>3
  <1> QED
    BY <1>1, <1>2, <1>3, <1>4, <1>5, <1>6 DEF TriggerStep

\* Whoever put a message into the conversation, and however late, a host at rest
\* after a run that ended well has had a reply to all it remembers.
THEOREM NothingLeftUnanswered == Spec => []ConversationAnswered
  <1>1. Init => AnswerInv
    BY DEF Init, LoopInit, NoTask, AnswerInv, ToAnswer
  <1>2. HostInv /\ AnswerInv /\ [Next]_vars => AnswerInv'
    <2> SUFFICES ASSUME HostInv, AnswerInv, [Next]_vars PROVE AnswerInv'
      OBVIOUS
    <2>1. CASE UNCHANGED vars
      BY <2>1 DEF vars, hostVars, loopVars, AnswerInv, ToAnswer, Carried, Waiting,
                  WillCall
    <2>2. CASE TurnStep
      BY <2>2, AnswerTurn, AnswerFailure, AnswerRun DEF TurnStep
    <2>3. CASE Crash
      BY <2>3 DEF Crash, AnswerInv, ToAnswer, NoTask
    <2> QED
      BY <2>1, <2>2, <2>3, AnswerCommand, AnswerTrigger DEF Next
  <1>3. HostInv /\ AnswerInv => ConversationAnswered
    <2> SUFFICES ASSUME AnswerInv, ~Busy, queue = <<>>, requests = 0,
                        host = NoOp, trig = NoTask, well, unanswered
                 PROVE  FALSE
      BY DEF ConversationAnswered, Rests
    <2>1. ~Carried
      BY DEF Carried, Waiting, NoOp, NoTask
    <2>2. ~WillCall
      BY DEF WillCall, Busy
    <2> QED
      BY <2>1, <2>2 DEF AnswerInv, ToAnswer
  <1> QED
    BY <1>1, <1>2, <1>3, HostAlways, PTL DEF Spec

-----------------------------------------------------------------------------
(***************************************************************************)
(* Exactly once.                                                           *)
(***************************************************************************)
\* How many places of s hold an element of A.
Count(s, A) == Cardinality({i \in 1..Len(s) : s[i] \in A})

\* Counting is the length of the subsequence, whose laws are known.
LEMMA CountOnly ==
  ASSUME NEW S, NEW s \in Seq(S), NEW A
  PROVE  Count(s, A) = Len(Only(s, A)) /\ Count(s, A) \in Nat
  <1>1. Len(Only(s, A)) = Cardinality({i \in 1..Len(s) : s[i] \in A})
    BY OnlyLen
  <1>2. Only(s, A) \in Seq(S)
    BY OnlySeq
  <1> QED
    BY <1>1, <1>2 DEF Count

\* Nothing is in no sequence.
LEMMA CountEmpty == \A A : Count(<<>>, A) = 0
  <1> SUFFICES ASSUME NEW A PROVE Count(<<>>, A) = 0
    OBVIOUS
  <1>1. <<>> \in Seq({}) /\ Len(<<>>) = 0
    OBVIOUS
  <1>2. Count(<<>>, A) = Len(Only(<<>>, A))
    BY <1>1, CountOnly, Zenon
  <1> QED
    BY <1>1, <1>2, OnlyEmpty

\* One element more.
LEMMA CountAppend ==
  ASSUME NEW S, NEW s \in Seq(S), NEW e \in S, NEW A
  PROVE  Count(Append(s, e), A) = Count(s, A) + (IF e \in A THEN 1 ELSE 0)
  <1>1. Append(s, e) \in Seq(S)
    OBVIOUS
  <1>2. Only(s, A) \in Seq(S)
    BY OnlySeq
  <1>3. /\ Count(s, A) = Len(Only(s, A))
        /\ Count(Append(s, e), A) = Len(Only(Append(s, e), A))
    BY <1>1, CountOnly
  <1>4. CASE e \in A
    <2>1. Only(Append(s, e), A) = Append(Only(s, A), e)
      BY <1>4, OnlyAppend
    <2> QED
      BY <1>2, <1>3, <1>4, <2>1
  <1>5. CASE e \notin A
    <2>1. Only(Append(s, e), A) = Only(s, A)
      BY <1>5, OnlyAppend
    <2> QED
      BY <1>2, <1>3, <1>5, <2>1
  <1> QED
    BY <1>4, <1>5

\* The head and the rest.
LEMMA CountHead ==
  ASSUME NEW S, NEW s \in Seq(S), s # <<>>, NEW A
  PROVE  Count(s, A) = Count(Tail(s), A) + (IF Head(s) \in A THEN 1 ELSE 0)
  <1>1. Tail(s) \in Seq(S) /\ Head(s) \in S
    OBVIOUS
  <1>2. Only(Tail(s), A) \in Seq(S)
    BY <1>1, OnlySeq
  <1>3. /\ Count(s, A) = Len(Only(s, A))
        /\ Count(Tail(s), A) = Len(Only(Tail(s), A))
    BY <1>1, CountOnly
  <1>4. CASE Head(s) \in A
    <2>1. Only(s, A) = <<Head(s)>> \o Only(Tail(s), A)
      BY <1>4, OnlyHeadTail
    <2> QED
      BY <1>1, <1>2, <1>3, <1>4, <2>1
  <1>5. CASE Head(s) \notin A
    <2>1. Only(s, A) = Only(Tail(s), A)
      BY <1>5, OnlyHeadTail
    <2> QED
      BY <1>2, <1>3, <1>5, <2>1
  <1> QED
    BY <1>4, <1>5

\* One element is there once.
LEMMA CountOne ==
  ASSUME NEW S, NEW e \in S, NEW A
  PROVE  Count(<<e>>, A) = IF e \in A THEN 1 ELSE 0
  <1>1. <<>> \in Seq(S) /\ Append(<<>>, e) = <<e>>
    OBVIOUS
  <1>2. Count(Append(<<>>, e), A) = Count(<<>>, A) + (IF e \in A THEN 1 ELSE 0)
    BY <1>1, CountAppend
  <1> QED
    BY <1>1, <1>2, CountEmpty

\* What is there is counted.
LEMMA CountSome ==
  ASSUME NEW S, NEW s \in Seq(S), NEW A, NEW i \in 1..Len(s), s[i] \in A
  PROVE  Count(s, A) >= 1
  <1>1. s[i] \in Elements(s) \cap A
    BY DEF Elements
  <1>2. Elements(Only(s, A)) = Elements(s) \cap A
    BY OnlyRange
  <1>3. Only(s, A) \in Seq(S) /\ Count(s, A) = Len(Only(s, A))
    BY CountOnly, OnlySeq
  <1>4. 1..Len(Only(s, A)) # {}
    BY <1>1, <1>2 DEF Elements
  <1> QED
    BY <1>3, <1>4

\* What is not there is not.
LEMMA CountNone ==
  ASSUME NEW s, NEW A, \A i \in 1..Len(s) : s[i] \notin A
  PROVE  Count(s, A) = 0
  <1>1. {i \in 1..Len(s) : s[i] \in A} = {}
    OBVIOUS
  <1> QED
    BY <1>1, FS_EmptySet DEF Count

\* A queue is counted in what is drained and what is kept.
LEMMA CountDrained ==
  ASSUME NEW S, NEW q \in Seq(S), NEW A
  PROVE  Count(q, A) = Count(Drained(q), A) + Count(Kept(q), A)
  <1>1. Count(q, A) \in Nat
    BY CountOnly
  <1>2. CASE QueueMode = "All" \/ q = <<>>
    BY <1>1, <1>2, CountEmpty DEF Drained, Kept
  <1>3. CASE ~(QueueMode = "All" \/ q = <<>>)
    <2>1. Head(q) \in S /\ Tail(q) \in Seq(S)
      BY <1>3
    <2>2. Count(Tail(q), A) \in Nat
      BY <2>1, CountOnly
    <2>3. Count(q, A) = Count(Tail(q), A) + (IF Head(q) \in A THEN 1 ELSE 0)
      BY <1>3, CountHead
    <2>4. Count(<<Head(q)>>, A) = IF Head(q) \in A THEN 1 ELSE 0
      BY <2>1, CountOne
    <2>5. Drained(q) = <<Head(q)>> /\ Kept(q) = Tail(q)
      BY <1>3 DEF Drained, Kept
    <2> QED
      BY <2>2, <2>3, <2>4, <2>5
  <1> QED
    BY <1>2, <1>3

\* The places a message may be in.
RowsOf(m) == {r \in Rows : r.type = "message" /\ r.msg = m}
JobsOf(m) == {j \in Jobs : j.msg = m /\ ~j.persisted}

InLog(m)      == Count(log, RowsOf(m))
InHand(m)     == Count(turn.hand, {m})
InSteering(m) == Count(steering, {m})
InFollowUp(m) == Count(followUp, {m})
InBatch(m)    == Count(batch, {m})
InQueue(m)    == Count(queue, JobsOf(m))
AtListener(m) == IF toLog = m THEN 1 ELSE 0
AtHandler(m)  == IF host.op = "prompt" /\ host.msg = m THEN 1 ELSE 0
AtTrigger(m)  == IF trig.step = "inject" /\ trig.msg = m THEN 1 ELSE 0

Places(m) ==
  /\ InLog(m) \in Nat /\ InHand(m) \in Nat /\ InSteering(m) \in Nat
  /\ InFollowUp(m) \in Nat /\ InBatch(m) \in Nat /\ InQueue(m) \in Nat
  /\ AtListener(m) \in Nat /\ AtHandler(m) \in Nat /\ AtTrigger(m) \in Nat
  /\ Copies(m) = InLog(m) + InHand(m) + InSteering(m) + InFollowUp(m)
                 + InBatch(m) + InQueue(m) + AtListener(m) + AtHandler(m)
                 + AtTrigger(m)

AllPlaces == \A m \in Users : Places(m)

\* Copies counts the places one by one.
LEMMA CopiesCounted == HostInv => AllPlaces
  <1> SUFFICES ASSUME HostInv, NEW m \in Users PROVE Places(m)
    BY DEF AllPlaces
  <1>0. /\ log \in Seq(Rows) /\ queue \in Seq(Jobs) /\ turn.hand \in Seq(Users)
        /\ steering \in Seq(Users) /\ followUp \in Seq(Users)
        /\ batch \in Seq(Users)
    BY TypeParts DEF HostInv, HostVarsOK, HostShape, LogTypeOK
  <1>1. \A i \in 1..Len(log) : log[i] \in Rows
    BY <1>0
  <1>2. \A i \in 1..Len(queue) : queue[i] \in Jobs
    BY <1>0
  <1>3. InLog(m) = Cardinality({i \in 1..Len(log) : log[i].type = "message"
                                                    /\ log[i].msg = m})
    <2>1. {i \in 1..Len(log) : log[i] \in RowsOf(m)}
            = {i \in 1..Len(log) : log[i].type = "message" /\ log[i].msg = m}
      BY <1>1 DEF RowsOf
    <2> QED
      BY <2>1 DEF InLog, Count
  <1>4. InQueue(m) = Queued(m)
    <2>1. {i \in 1..Len(queue) : queue[i] \in JobsOf(m)}
            = {i \in 1..Len(queue) : queue[i].msg = m /\ ~queue[i].persisted}
      BY <1>2 DEF JobsOf
    <2> QED
      BY <2>1 DEF InQueue, Count, Queued
  <1>5. \A s : Occurs(m, s) = Count(s, {m})
    <2> SUFFICES ASSUME NEW s PROVE Occurs(m, s) = Count(s, {m})
      OBVIOUS
    <2>1. {i \in 1..Len(s) : s[i] = m} = {i \in 1..Len(s) : s[i] \in {m}}
      OBVIOUS
    <2> QED
      BY <2>1 DEF Occurs, Count
  <1>6. /\ InLog(m) \in Nat /\ InQueue(m) \in Nat
        /\ InHand(m) \in Nat /\ InSteering(m) \in Nat
        /\ InFollowUp(m) \in Nat /\ InBatch(m) \in Nat
    BY <1>0, CountOnly, Zenon
       DEF InLog, InQueue, InHand, InSteering, InFollowUp, InBatch
  <1>7. /\ AtListener(m) \in Nat /\ AtHandler(m) \in Nat /\ AtTrigger(m) \in Nat
    BY DEF AtListener, AtHandler, AtTrigger
  <1>8. Copies(m) = InLog(m) + InHand(m) + InSteering(m) + InFollowUp(m)
                    + InBatch(m) + InQueue(m) + AtListener(m) + AtHandler(m)
                    + AtTrigger(m)
    <2>1. /\ Occurs(m, turn.hand) = InHand(m)
          /\ Occurs(m, steering) = InSteering(m)
          /\ Occurs(m, followUp) = InFollowUp(m)
          /\ Occurs(m, batch) = InBatch(m)
      BY <1>5 DEF InHand, InSteering, InFollowUp, InBatch
    <2>2. Copies(m) = Cardinality({i \in 1..Len(log) : log[i].type = "message"
                                                       /\ log[i].msg = m})
                      + Occurs(m, turn.hand) + Occurs(m, steering)
                      + Occurs(m, followUp) + Occurs(m, batch) + Queued(m)
                      + AtListener(m) + AtHandler(m) + AtTrigger(m)
      BY Zenon DEF Copies, AtListener, AtHandler, AtTrigger
    <2> QED
      BY <2>1, <2>2, <1>3, <1>4, Zenon
  <1> QED
    BY <1>6, <1>7, <1>8 DEF Places

\* Each message that has come is given up or in one place; none has a place
\* before it comes.  What a fallback would send again has come, and the jobs of
\* the queue that stand for no message name none.
OnePlace ==
  \A m \in Users : IF m <= sent THEN m \in forfeit \/ Copies(m) = 1
                   ELSE Copies(m) = 0
PromptKnown == \A i \in 1..Len(turn.prompt) : turn.prompt[i] <= sent
BlankJobs   == \A i \in 1..Len(queue) :
                 queue[i].kind = "compaction" => queue[i].msg = 0

OnceInv == OnePlace /\ PromptKnown /\ BlankJobs

\* Copies of a message are neither made nor lost, save those given up; a new
\* message gets its first place.
LEMMA OnePlaceStep ==
  ASSUME HostInv, OnceInv, HostInv', forfeit \subseteq forfeit',
         sent' \in {sent, sent + 1},
         \A m \in Users :
           \/ Copies(m)' = Copies(m)
                           + (IF sent' # sent /\ m = sent + 1 THEN 1 ELSE 0)
           \/ m \in forfeit' /\ m <= sent
  PROVE  OnePlace'
  <1> SUFFICES ASSUME NEW m \in Users
               PROVE  IF m <= sent' THEN m \in forfeit' \/ Copies(m)' = 1
                      ELSE Copies(m)' = 0
    BY DEF OnePlace
  <1>1. sent \in Nat /\ m \in Nat
    BY TypeParts DEF HostInv, HostVarsOK, Users
  <1>2. IF m <= sent THEN m \in forfeit \/ Copies(m) = 1 ELSE Copies(m) = 0
    BY DEF OnceInv, OnePlace
  <1>3. \/ Copies(m)' = Copies(m)
                        + (IF sent' # sent /\ m = sent + 1 THEN 1 ELSE 0)
        \/ m \in forfeit' /\ m <= sent
    OBVIOUS
  <1>4. CASE m <= sent
    BY <1>1, <1>2, <1>3, <1>4
  <1>5. CASE m = sent + 1
    BY <1>1, <1>2, <1>3, <1>5
  <1>6. CASE m > sent + 1
    BY <1>1, <1>2, <1>3, <1>6
  <1> QED
    BY <1>1, <1>4, <1>5, <1>6

\* The same without a new message.
LEMMA OnePlaceKept ==
  ASSUME HostInv, OnceInv, HostInv', forfeit \subseteq forfeit', sent' = sent,
         \A m \in Users : Copies(m)' = Copies(m) \/ (m \in forfeit' /\ m <= sent)
  PROVE  OnePlace'
  <1>1. \A m \in Users : Copies(m) \in Nat
    BY CopiesCounted DEF AllPlaces, Places
  <1>2. \A m \in Users :
           \/ Copies(m)' = Copies(m)
                           + (IF sent' # sent /\ m = sent + 1 THEN 1 ELSE 0)
           \/ m \in forfeit' /\ m <= sent
    BY <1>1
  <1> QED
    BY <1>2, OnePlaceStep

\* What has a place has come.
LEMMA PlacedCame ==
  ASSUME HostInv, OnceInv, NEW m \in Users, InHand(m) >= 1 \/ InQueue(m) >= 1
  PROVE  m <= sent
  <1>1. Places(m)
    BY CopiesCounted DEF AllPlaces
  <1>2. Copies(m) >= 1
    BY <1>1 DEF Places
  <1> QED
    BY <1>2 DEF OnceInv, OnePlace

\* What is in hand and not given up is nowhere in the hand.
LEMMA HandCame ==
  ASSUME HostInv, OnceInv, NEW m \in Users
  PROVE  \/ InHand(m) = 0
         \/ m \in Elements(turn.hand) /\ m <= sent
  <1>1. turn.hand \in Seq(Users)
    BY DEF HostInv, HostShape
  <1>2. CASE m \in Elements(turn.hand)
    <2>1. PICK i \in 1..Len(turn.hand) : turn.hand[i] \in {m}
      BY <1>2 DEF Elements
    <2>2. InHand(m) >= 1
      BY <1>1, <2>1, CountSome, Zenon DEF InHand
    <2> QED
      BY <1>2, <2>2, PlacedCame
  <1>3. CASE m \notin Elements(turn.hand)
    <2>1. \A i \in 1..Len(turn.hand) : turn.hand[i] \notin {m}
      BY <1>3 DEF Elements
    <2> QED
      BY <2>1, CountNone DEF InHand
  <1> QED
    BY <1>2, <1>3

\* The job that leaves the queue has its message in hand.
LEMMA StartMoves ==
  ASSUME HostInv, OnceInv, NEW model \in BOOLEAN, StartNext(queue, model)
  PROVE  /\ \A m \in Users : InHand(m)' + InQueue(m)' = InQueue(m)
         /\ \A i \in 1..Len(turn'.prompt) : turn'.prompt[i] <= sent
         /\ BlankJobs'
  <1>0. queue \in Seq(Jobs)
    BY TypeParts DEF HostInv, HostVarsOK
  <1>1. CASE queue = <<>> \/ ~model
    <2>1. turn' = NoTurn /\ queue' = queue
      BY <1>1 DEF StartNext
    <2>2. turn'.hand = <<>> /\ turn'.prompt = <<>>
      BY <2>1, NoTurnType
    <2>3. \A m \in Users : InHand(m)' = 0 /\ InQueue(m)' = InQueue(m)
      BY <2>1, <2>2, CountEmpty DEF InHand, InQueue
    <2>4. \A m \in Users : InQueue(m) \in Nat
      BY CopiesCounted DEF AllPlaces, Places
    <2>5. \A i \in 1..Len(turn'.prompt) : turn'.prompt[i] <= sent
      BY <2>2
    <2> QED
      BY <2>1, <2>3, <2>4, <2>5 DEF OnceInv, BlankJobs
  <1>2. CASE queue # <<>> /\ model
    <2> DEFINE job == Head(queue)
    <2>1. /\ turn' = TurnOf(job) /\ queue' = Tail(queue)
          /\ job \in Jobs /\ turn'.hand = Due(job)
          /\ job.kind # "compaction" => job.msg \in Users
      BY <1>2, NextStarts
    <2>2. /\ 1 \in 1..Len(queue) /\ queue[1] = job
          /\ \A i \in 1..Len(Tail(queue)) :
               i + 1 \in 1..Len(queue) /\ Tail(queue)[i] = queue[i + 1]
      BY <1>0, <1>2
    <2>3. job.kind = "compaction" => job.msg = 0
      BY <2>2 DEF OnceInv, BlankJobs
    <2>4. ASSUME NEW m \in Users PROVE InHand(m)' + InQueue(m)' = InQueue(m)
      <3>1. InQueue(m)
              = Count(Tail(queue), JobsOf(m)) + (IF job \in JobsOf(m) THEN 1 ELSE 0)
        BY <1>0, <1>2, CountHead, Zenon DEF InQueue
      <3>2. Count(Tail(queue), JobsOf(m)) \in Nat
        <4>1. Tail(queue) \in Seq(Jobs)
          BY <1>0, <1>2
        <4> QED
          BY <4>1, CountOnly, Zenon
      <3>3. InQueue(m)' = Count(Tail(queue), JobsOf(m))
        BY <2>1 DEF InQueue
      <3>4. InHand(m)' = IF job \in JobsOf(m) THEN 1 ELSE 0
        <4>1. CASE job.kind # "compaction" /\ ~job.persisted
          <5>1. turn'.hand = <<job.msg>>
            BY <2>1, <4>1 DEF Due
          <5>2. Count(<<job.msg>>, {m}) = IF job.msg \in {m} THEN 1 ELSE 0
            BY <2>1, <4>1, CountOne
          <5> QED
            BY <2>1, <4>1, <5>1, <5>2 DEF InHand, JobsOf
        <4>2. CASE ~(job.kind # "compaction" /\ ~job.persisted)
          <5>1. turn'.hand = <<>>
            BY <2>1, <4>2 DEF Due
          <5>2. job \notin JobsOf(m)
            BY <4>2, <2>3, MessageNumbers DEF JobsOf
          <5> QED
            BY <5>1, <5>2, CountEmpty DEF InHand
        <4> QED
          BY <4>1, <4>2
      <3> QED
        BY <3>1, <3>2, <3>3, <3>4
    <2>5. \A i \in 1..Len(turn'.prompt) : turn'.prompt[i] <= sent
      <3>1. turn'.prompt = <<>> \/ (turn'.prompt = <<job.msg>> /\ job \in JobsOf(job.msg)
                                    /\ job.msg \in Users)
        BY <2>1 DEF TurnOf, Turn, JobsOf
      <3>2. CASE turn'.prompt = <<>>
        BY <3>2
      <3>3. CASE turn'.prompt = <<job.msg>> /\ job \in JobsOf(job.msg) /\ job.msg \in Users
        <4>1. InQueue(job.msg) >= 1
          BY <1>0, <2>2, <3>3, CountSome, Zenon DEF InQueue
        <4>2. job.msg <= sent
          BY <3>3, <4>1, PlacedCame
        <4> QED
          BY <3>3, <4>2
      <3> QED
        BY <3>1, <3>2, <3>3
    <2>6. BlankJobs'
      BY <2>1, <2>2 DEF OnceInv, BlankJobs
    <2> QED
      BY <2>4, <2>5, <2>6
  <1> QED
    BY <1>1, <1>2

\* A row counts for its message.
LEMMA RowCounts ==
  ASSUME LogTypeOK, NEW w \in Writers, NEW t \in RowTypes, NEW n \in Nat,
         NEW kept \in 0..Len(log), WriteRow(w, t, n, kept), NEW m
  PROVE  InLog(m)' = InLog(m) + (IF t = "message" /\ n = m THEN 1 ELSE 0)
  <1> DEFINE r == Row(t, n, kept, leafRead[w])
  <1>1. log \in Seq(Rows) /\ r \in Rows
    BY RowWritten DEF LogTypeOK
  <1>2. log' = Append(log, r)
    BY DEF WriteRow
  <1>3. r \in RowsOf(m) <=> t = "message" /\ n = m
    BY <1>1 DEF RowsOf, Row
  <1> HIDE DEF r
  <1>4. Count(Append(log, r), RowsOf(m))
          = Count(log, RowsOf(m)) + (IF r \in RowsOf(m) THEN 1 ELSE 0)
    BY <1>1, CountAppend, Zenon
  <1> QED
    BY <1>2, <1>3, <1>4 DEF InLog

\* What does not change keeps its messages.
LEMMA SamePlaces ==
  ASSUME NEW m
  PROVE  /\ log' = log           => InLog(m)' = InLog(m)
         /\ turn'.hand = turn.hand => InHand(m)' = InHand(m)
         /\ steering' = steering => InSteering(m)' = InSteering(m)
         /\ followUp' = followUp => InFollowUp(m)' = InFollowUp(m)
         /\ batch' = batch       => InBatch(m)' = InBatch(m)
         /\ queue' = queue       => InQueue(m)' = InQueue(m)
         /\ toLog' = toLog       => AtListener(m)' = AtListener(m)
         /\ host' = host         => AtHandler(m)' = AtHandler(m)
         /\ trig' = trig         => AtTrigger(m)' = AtTrigger(m)
  BY DEF InLog, InHand, InSteering, InFollowUp, InBatch, InQueue, AtListener,
         AtHandler, AtTrigger

\* Turns that end with nothing in hand.
LEMMA OnceEnd ==
  ASSUME HostInv, OnceInv, HostInv',
         NothingToContinue \/ NothingToCompact \/ HookPasses
  PROVE  OnceInv'
  <1>0. AllPlaces /\ AllPlaces'
    BY CopiesCounted, PTL
  <1>1. /\ turn.hand = <<>>
        /\ Finish
        /\ UNCHANGED <<loopVars, logVars, toLog, host, trig, sent, forfeit>>
    BY DEF NothingToContinue, NothingToCompact, HookPasses, Polled, HostInv,
           HostShape
  <1>2. StartNext(queue, hasModel) /\ hasModel \in BOOLEAN
    BY <1>1, Finished
  <1>3. /\ \A m \in Users : InHand(m)' + InQueue(m)' = InQueue(m)
        /\ PromptKnown' /\ BlankJobs'
    BY <1>1, <1>2, StartMoves DEF PromptKnown
  <1>4. ASSUME NEW m \in Users PROVE Copies(m)' = Copies(m)
    <2>1. Places(m) /\ Places(m)'
      BY <1>0 DEF AllPlaces
    <2>2. InHand(m) = 0
      BY <1>1, CountEmpty DEF InHand
    <2>3. /\ InLog(m)' = InLog(m) /\ InSteering(m)' = InSteering(m)
          /\ InFollowUp(m)' = InFollowUp(m) /\ InBatch(m)' = InBatch(m)
          /\ AtListener(m)' = AtListener(m) /\ AtHandler(m)' = AtHandler(m)
          /\ AtTrigger(m)' = AtTrigger(m)
      BY <1>1, SamePlaces DEF loopVars, logVars, queueVars
    <2>4. InHand(m)' + InQueue(m)' = InQueue(m)
      BY <1>3
    <2> QED
      BY <2>1, <2>2, <2>3, <2>4 DEF Places
  <1>6. OnePlace'
    BY <1>1, <1>4, OnePlaceKept
  <1> QED
    BY <1>3, <1>6 DEF OnceInv

\* The row of the hook's last decision is no message.
LEMMA OnceStopNoted ==
  ASSUME HostInv, OnceInv, HostInv', StopNoted
  PROVE  OnceInv'
  <1>0. AllPlaces /\ AllPlaces'
    BY CopiesCounted, PTL
  <1>1. /\ turn.hand = <<>>
        /\ Finish
        /\ WriteRow("turn", "custom", 0, 0)
        /\ UNCHANGED <<loopVars, toLog, host, trig, sent, forfeit>>
    BY DEF StopNoted, Polled, HostInv, HostShape
  <1>2. StartNext(queue, hasModel) /\ hasModel \in BOOLEAN
    BY <1>1, Finished
  <1>3. /\ \A m \in Users : InHand(m)' + InQueue(m)' = InQueue(m)
        /\ PromptKnown' /\ BlankJobs'
    BY <1>1, <1>2, StartMoves DEF PromptKnown
  <1>4. LogTypeOK /\ 0 \in 0..Len(log) /\ "turn" \in Writers
        /\ "custom" \in RowTypes
    BY TypeParts, RowFacts, WritersKnown DEF HostInv, RowTypes
  <1>5. ASSUME NEW m \in Users PROVE Copies(m)' = Copies(m)
    <2>1. Places(m) /\ Places(m)'
      BY <1>0 DEF AllPlaces
    <2>2. InHand(m) = 0
      BY <1>1, CountEmpty DEF InHand
    <2>3. InLog(m)' = InLog(m)
      <3>1. InLog(m)' = InLog(m) + (IF "custom" = "message" /\ 0 = m THEN 1 ELSE 0)
        BY <1>1, <1>4, RowCounts
      <3>2. InLog(m) \in Nat
        BY <2>1 DEF Places
      <3> QED
        BY <3>1, <3>2
    <2>4. /\ InSteering(m)' = InSteering(m)
          /\ InFollowUp(m)' = InFollowUp(m) /\ InBatch(m)' = InBatch(m)
          /\ AtListener(m)' = AtListener(m) /\ AtHandler(m)' = AtHandler(m)
          /\ AtTrigger(m)' = AtTrigger(m)
      BY <1>1, SamePlaces DEF loopVars, queueVars
    <2>5. InHand(m)' + InQueue(m)' = InQueue(m)
      BY <1>3
    <2> QED
      BY <2>1, <2>2, <2>3, <2>4, <2>5 DEF Places
  <1>6. OnePlace'
    BY <1>1, <1>5, OnePlaceKept
  <1> QED
    BY <1>3, <1>6 DEF OnceInv

\* Stages of a turn that move no message, or only from its hand to the run.
LEMMA OnceStages ==
  ASSUME HostInv, OnceInv, HostInv',
         \/ TurnBegins \/ Snapshot \/ Summarized \/ CompactionApplied
         \/ BackoffEnds \/ HookStops \/ NoteWrites \/ RunSucceeds \/ ListenerReads
  PROVE  OnceInv'
  <1>0. AllPlaces /\ AllPlaces'
    BY CopiesCounted, PTL
  <1>1. /\ LogTypeOK /\ turn \in Turns /\ turn.plan.kept \in 0..Len(log)
        /\ {"turn"} \subseteq Writers
        /\ \A m \in Users : m # 0
    <2>1. /\ LogTypeOK /\ turn \in Turns
      BY TypeParts DEF HostInv, HostVarsOK
    <2>2. turn.plan.kept \in Nat /\ Len(log) \in Nat
      BY <2>1 DEF Turns, LogTypeOK
    <2>3. turn.plan.kept <= Len(log)
      BY DEF HostInv, HostShape
    <2> QED
      BY <2>1, <2>2, <2>3, WritersKnown, MessageNumbers
  <1>2. /\ UNCHANGED <<steering, followUp, queue, toLog, host, trig, sent, forfeit>>
        /\ turn'.prompt = turn.prompt
    BY <1>1 DEF TurnBegins, BeginRun, Snapshot, Summarized, CompactionApplied,
       BackoffEnds, HookStops, NoteWrites, RunSucceeds, ListenerReads, To, Took,
       Turns, loopVars, hostVars, queueVars
  <1>3. PromptKnown' /\ BlankJobs'
    BY <1>2 DEF OnceInv, PromptKnown, BlankJobs
  <1>4. ASSUME NEW m \in Users PROVE InLog(m)' = InLog(m)
    <2>1. CASE CompactionApplied
      <3>1. /\ WriteRow("turn", "compaction", 0, turn.plan.kept)
            /\ "compaction" \in RowTypes /\ 0 \in Nat
        BY <2>1 DEF CompactionApplied, Summary, RowTypes
      <3>2. InLog(m)' = InLog(m) + (IF "compaction" = "message" /\ 0 = m THEN 1 ELSE 0)
        BY <1>1, <3>1, RowCounts
      <3>3. InLog(m) \in Nat
        BY <1>0 DEF AllPlaces, Places
      <3> QED
        BY <3>2, <3>3
    <2>2. CASE NoteWrites
      <3>1. /\ WriteRow("turn", "custom", 0, 0)
            /\ "custom" \in RowTypes /\ 0 \in Nat /\ 0 \in 0..Len(log)
        BY <2>2, <1>1 DEF NoteWrites, RowTypes, LogTypeOK
      <3>2. InLog(m)' = InLog(m) + (IF "custom" = "message" /\ 0 = m THEN 1 ELSE 0)
        BY <1>1, <3>1, RowCounts
      <3>3. InLog(m) \in Nat
        BY <1>0 DEF AllPlaces, Places
      <3> QED
        BY <3>2, <3>3
    <2>3. CASE ~CompactionApplied /\ ~NoteWrites
      <3>1. log' = log
        BY <2>3 DEF TurnBegins, Snapshot, Summarized, BackoffEnds, HookStops,
                    RunSucceeds, ListenerReads, ReadLeaf, logVars
      <3> QED
        BY <3>1, SamePlaces
    <2> QED
      BY <2>1, <2>2, <2>3
  <1>5. ASSUME NEW m \in Users
        PROVE  InHand(m)' + InBatch(m)' = InHand(m) + InBatch(m)
    <2>1. CASE TurnBegins
      <3>1. batch' = turn.hand /\ turn'.hand = <<>> /\ loop = "idle"
        BY <2>1, <1>1 DEF TurnBegins, BeginRun, Turns
      <3>2. batch = <<>>
        BY <3>1 DEF HostInv, HostShape
      <3>3. InHand(m)' = 0 /\ InBatch(m) = 0 /\ InBatch(m)' = InHand(m)
        BY <3>1, <3>2, CountEmpty DEF InHand, InBatch
      <3>4. InHand(m) \in Nat
        BY <1>0 DEF AllPlaces, Places
      <3> QED
        BY <3>3, <3>4
    <2>2. CASE ~TurnBegins
      <3>1. turn'.hand = turn.hand /\ batch' = batch
        BY <2>2, <1>1 DEF Snapshot, Summarized, CompactionApplied,
           BackoffEnds, HookStops, NoteWrites, RunSucceeds, ListenerReads, To,
           Took, Turns, loopVars, hostVars
      <3> QED
        BY <3>1, SamePlaces
    <2> QED
      BY <2>1, <2>2
  <1>6. ASSUME NEW m \in Users PROVE Copies(m)' = Copies(m)
    <2>1. Places(m) /\ Places(m)'
      BY <1>0 DEF AllPlaces
    <2>2. /\ InSteering(m)' = InSteering(m) /\ InFollowUp(m)' = InFollowUp(m)
          /\ InQueue(m)' = InQueue(m) /\ AtListener(m)' = AtListener(m)
          /\ AtHandler(m)' = AtHandler(m) /\ AtTrigger(m)' = AtTrigger(m)
      BY <1>2, SamePlaces
    <2>3. /\ InLog(m)' = InLog(m)
          /\ InHand(m)' + InBatch(m)' = InHand(m) + InBatch(m)
      BY <1>4, <1>5
    <2> QED
      BY <2>1, <2>2, <2>3 DEF Places
  <1>7. OnePlace'
    BY <1>2, <1>6, OnePlaceKept
  <1> QED
    BY <1>3, <1>7 DEF OnceInv

\* A failed attempt gives up what was still in hand, and a fallback what it
\* sends again.
LEMMA OnceFails ==
  ASSUME HostInv, OnceInv, HostInv', SummaryFails \/ RunFails
  PROVE  OnceInv'
  <1>0. AllPlaces /\ AllPlaces'
    BY CopiesCounted, PTL
  <1>1. /\ UNCHANGED <<steering, followUp, batch, toLog, host, trig, sent>>
        /\ \/ AttemptFails
           \/ Finish /\ turn.stage = "running" /\ UNCHANGED <<logVars, forfeit>>
    BY DEF SummaryFails, RunFails, Polled, Took, loopVars, queueVars
  <1>2. /\ turn \in Turns
        /\ turn.hand \in Seq(Users) /\ turn.prompt \in Seq(Users)
        /\ turn.stage = "running" => turn.hand = <<>>
    BY TypeParts DEF HostInv, HostVarsOK, HostShape
  <1>3. log' = log /\ forfeit \subseteq forfeit'
    BY <1>1 DEF AttemptFails, Retry, FallBack, GiveUp, ReadLeaf, logVars
  <1>a. ASSUME PromptKnown', BlankJobs',
               \A m \in Users : \/ InHand(m)' + InQueue(m)' = InHand(m) + InQueue(m)
                                \/ m \in forfeit' /\ m <= sent
        PROVE  OnceInv'
    <2>1. ASSUME NEW m \in Users
          PROVE  Copies(m)' = Copies(m) \/ (m \in forfeit' /\ m <= sent)
      <3>1. Places(m) /\ Places(m)'
        BY <1>0 DEF AllPlaces
      <3>2. /\ InLog(m)' = InLog(m)
            /\ InSteering(m)' = InSteering(m) /\ InFollowUp(m)' = InFollowUp(m)
            /\ InBatch(m)' = InBatch(m) /\ AtListener(m)' = AtListener(m)
            /\ AtHandler(m)' = AtHandler(m) /\ AtTrigger(m)' = AtTrigger(m)
        BY <1>1, <1>3, SamePlaces
      <3>3. \/ InHand(m)' + InQueue(m)' = InHand(m) + InQueue(m)
            \/ m \in forfeit' /\ m <= sent
        BY <1>a
      <3> QED
        BY <3>1, <3>2, <3>3 DEF Places
    <2>2. OnePlace'
      BY <1>1, <1>3, <2>1, OnePlaceKept
    <2> QED
      BY <1>a, <2>2 DEF OnceInv
  <1>b. ASSUME GiveUp(turn.hand), NEW m \in Users
        PROVE  InHand(m) = 0 \/ (m \in forfeit' /\ m <= sent)
    BY <1>b, HandCame DEF GiveUp
  <1>4. CASE Retry
    <2>1. /\ turn'.hand = <<>> /\ turn'.prompt = turn.prompt /\ queue' = queue
          /\ GiveUp(turn.hand)
      BY <1>2, <1>4 DEF Retry, Turns
    <2>2. PromptKnown' /\ BlankJobs'
      BY <1>1, <2>1 DEF OnceInv, PromptKnown, BlankJobs
    <2>3. ASSUME NEW m \in Users
          PROVE  \/ InHand(m)' + InQueue(m)' = InHand(m) + InQueue(m)
                 \/ m \in forfeit' /\ m <= sent
      <3>1. InHand(m)' = 0 /\ InQueue(m)' = InQueue(m)
        BY <2>1, CountEmpty DEF InHand, InQueue
      <3>2. InHand(m) = 0 \/ (m \in forfeit' /\ m <= sent)
        BY <1>b, <2>1
      <3> QED
        BY <3>1, <3>2
    <2> QED
      BY <1>a, <2>2, <2>3
  <1>5. CASE FallBack
    <2>1. /\ turn'.hand = turn.prompt /\ turn'.prompt = <<>> /\ queue' = queue
          /\ GiveUp(turn.hand \o turn.prompt)
      BY <1>2, <1>5 DEF FallBack, Turns
    <2>2. PromptKnown' /\ BlankJobs'
      BY <1>1, <2>1 DEF OnceInv, PromptKnown, BlankJobs
    <2>3. forfeit' = forfeit \cup Elements(turn.hand) \cup Elements(turn.prompt)
      <3>1. Elements(turn.hand \o turn.prompt)
              = Elements(turn.hand) \cup Elements(turn.prompt)
        <4> DEFINE h == turn.hand  p == turn.prompt
        <4>1. h \in Seq(Users) /\ p \in Seq(Users)
          BY <1>2
        <4> HIDE DEF h, p
        <4>2. Elements(h \o p) = Elements(h) \cup Elements(p)
          BY <4>1, ElementsConcat
        <4> QED
          BY <4>2 DEF h, p
      <3> QED
        BY <2>1, <3>1 DEF GiveUp
    <2>4. ASSUME NEW m \in Users
          PROVE  \/ InHand(m)' + InQueue(m)' = InHand(m) + InQueue(m)
                 \/ m \in forfeit' /\ m <= sent
      <3>1. InHand(m) = 0 \/ (m \in forfeit' /\ m <= sent)
        BY <2>3, HandCame
      <3>2. CASE m \in Elements(turn.prompt)
        <4>1. m <= sent
          BY <3>2 DEF Elements, OnceInv, PromptKnown
        <4> QED
          BY <2>3, <3>2, <4>1
      <3>3. CASE m \notin Elements(turn.prompt)
        <4>1. \A i \in 1..Len(turn.prompt) : turn.prompt[i] \notin {m}
          BY <3>3 DEF Elements
        <4>2. InHand(m)' = 0 /\ InQueue(m)' = InQueue(m)
          BY <2>1, <4>1, CountNone DEF InHand, InQueue
        <4> QED
          BY <3>1, <4>2
      <3> QED
        BY <3>2, <3>3
    <2> QED
      BY <1>a, <2>2, <2>4
  <1>6. CASE Finish /\ (GiveUp(turn.hand) \/ turn.stage = "running")
    <2>1. StartNext(queue, hasModel) /\ hasModel \in BOOLEAN
      BY <1>6, Finished
    <2>2. /\ \A m \in Users : InHand(m)' + InQueue(m)' = InQueue(m)
          /\ PromptKnown' /\ BlankJobs'
      BY <1>1, <2>1, StartMoves DEF PromptKnown
    <2>3. ASSUME NEW m \in Users
          PROVE  \/ InHand(m)' + InQueue(m)' = InHand(m) + InQueue(m)
                 \/ m \in forfeit' /\ m <= sent
      <3>1. InHand(m) = 0 \/ (m \in forfeit' /\ m <= sent)
        <4>1. CASE GiveUp(turn.hand)
          BY <1>b, <4>1
        <4>2. CASE turn.stage = "running"
          BY <1>2, <4>2, CountEmpty DEF InHand
        <4> QED
          BY <1>6, <4>1, <4>2
      <3>2. InQueue(m) \in Nat /\ InHand(m)' + InQueue(m)' = InQueue(m)
        BY <1>0, <2>2 DEF AllPlaces, Places
      <3> QED
        BY <3>1, <3>2
    <2> QED
      BY <1>a, <2>2, <2>3
  <1> QED
    BY <1>1, <1>4, <1>5, <1>6 DEF AttemptFails

\* A step of the run moves a message from its queues into the batch, from there
\* into memory, and its listener from memory into the log.
LEMMA OnceRun ==
  ASSUME HostInv, OnceInv, HostInv', RunAdvances \/ ListenerWrites
  PROVE  OnceInv'
  <1>0. AllPlaces /\ AllPlaces'
    BY CopiesCounted, PTL
  <1>1. /\ UNCHANGED <<queue, turn, host, trig, sent, forfeit>>
    BY DEF RunAdvances, ListenerWrites
  <1>2. /\ LoopTypeOK /\ LogTypeOK /\ toLog \in Messages
        /\ steering \in Seq(Users) /\ followUp \in Seq(Users)
        /\ batch \in Seq(Users)
        /\ batch # <<>> => loop = "pushing"
    BY TypeParts DEF HostInv, HostVarsOK, HostShape
  <1>3. PromptKnown' /\ BlankJobs'
    BY <1>1 DEF OnceInv, PromptKnown, BlankJobs
  <1>a. ASSUME \A m \in Users :
                 InLog(m)' + InSteering(m)' + InFollowUp(m)' + InBatch(m)'
                   + AtListener(m)'
                 = InLog(m) + InSteering(m) + InFollowUp(m) + InBatch(m)
                   + AtListener(m)
        PROVE  OnceInv'
    <2>1. ASSUME NEW m \in Users PROVE Copies(m)' = Copies(m)
      <3>1. Places(m) /\ Places(m)'
        BY <1>0 DEF AllPlaces
      <3>2. /\ InHand(m)' = InHand(m) /\ InQueue(m)' = InQueue(m)
            /\ AtHandler(m)' = AtHandler(m) /\ AtTrigger(m)' = AtTrigger(m)
        BY <1>1, SamePlaces
      <3>3. InLog(m)' + InSteering(m)' + InFollowUp(m)' + InBatch(m)'
                   + AtListener(m)'
                 = InLog(m) + InSteering(m) + InFollowUp(m) + InBatch(m)
                   + AtListener(m)
        BY <1>a
      <3> QED
        BY <3>1, <3>2, <3>3 DEF Places
    <2>2. OnePlace'
      BY <1>1, <2>1, OnePlaceKept
    <2> QED
      BY <1>3, <2>2 DEF OnceInv
  <1>4. CASE ListenerWrites
    <2>1. /\ WriteRow("turn", "message", toLog, 0) /\ toLog' = 0
          /\ UNCHANGED <<steering, followUp, batch>>
      BY <1>4 DEF ListenerWrites, loopVars, queueVars
    <2>2. "turn" \in Writers /\ "message" \in RowTypes /\ toLog \in Nat
          /\ 0 \in 0..Len(log)
      BY <1>2, WritersKnown, MessageNumbers DEF RowTypes, LogTypeOK
    <2>3. ASSUME NEW m \in Users
          PROVE  InLog(m)' + InSteering(m)' + InFollowUp(m)' + InBatch(m)'
                   + AtListener(m)'
                 = InLog(m) + InSteering(m) + InFollowUp(m) + InBatch(m)
                   + AtListener(m)
      <3>1. InLog(m)' = InLog(m) + (IF "message" = "message" /\ toLog = m THEN 1 ELSE 0)
        BY <1>2, <2>1, <2>2, RowCounts
      <3>2. /\ InSteering(m)' = InSteering(m) /\ InFollowUp(m)' = InFollowUp(m)
            /\ InBatch(m)' = InBatch(m)
        BY <2>1, SamePlaces
      <3>3. AtListener(m)' = 0 /\ AtListener(m) = IF toLog = m THEN 1 ELSE 0
        BY <2>1, MessageNumbers DEF AtListener
      <3> QED
        BY <3>1, <3>2, <3>3, <1>0 DEF AllPlaces, Places
    <2> QED
      BY <1>a, <2>3
  <1>5. CASE RunAdvances
    <2>1. /\ toLog = 0 /\ log' = log
          /\ toLog' = IF loop = "pushing" /\ batch # <<>> THEN Head(batch) ELSE 0
          /\ Pushes \/ Takes \/ Waits
      BY <1>2, <1>5, RunMoves DEF RunAdvances, logVars
    <2>2. ASSUME NEW m \in Users
          PROVE  InLog(m)' + InSteering(m)' + InFollowUp(m)' + InBatch(m)'
                   + AtListener(m)'
                 = InLog(m) + InSteering(m) + InFollowUp(m) + InBatch(m)
                   + AtListener(m)
      <3>0. /\ InLog(m) \in Nat /\ InSteering(m) \in Nat /\ InFollowUp(m) \in Nat
            /\ InBatch(m) \in Nat /\ InLog(m)' = InLog(m)
            /\ AtListener(m) = 0
        BY <1>0, <2>1, SamePlaces, MessageNumbers
           DEF AllPlaces, Places, AtListener
      <3>1. CASE Pushes
        <4>1. /\ batch # <<>> /\ batch' = Tail(batch) /\ toLog' = Head(batch)
              /\ UNCHANGED <<steering, followUp>>
          BY <2>1, <3>1 DEF Pushes, queueVars
        <4>2. InBatch(m) = Count(Tail(batch), {m}) + (IF Head(batch) \in {m} THEN 1 ELSE 0)
          BY <1>2, <4>1, CountHead, Zenon DEF InBatch
        <4>3. InBatch(m)' = Count(Tail(batch), {m})
          BY <4>1 DEF InBatch
        <4>4. AtListener(m)' = IF Head(batch) \in {m} THEN 1 ELSE 0
          BY <4>1 DEF AtListener
        <4>5. Count(Tail(batch), {m}) \in Nat
          <5>1. Tail(batch) \in Seq(Users)
            BY <1>2, <4>1
          <5> QED
            BY <5>1, CountOnly, Zenon
        <4>6. InSteering(m)' = InSteering(m) /\ InFollowUp(m)' = InFollowUp(m)
          BY <4>1, SamePlaces
        <4> QED
          BY <3>0, <4>2, <4>3, <4>4, <4>5, <4>6
      <3>2. CASE Takes
        <4>1. batch = <<>> /\ toLog' = 0 /\ steering' = Kept(steering)
          BY <2>1, <3>2 DEF Takes
        <4>2. InBatch(m) = 0 /\ AtListener(m)' = 0
          BY <4>1, CountEmpty, MessageNumbers DEF InBatch, AtListener
        <4>3. InSteering(m) = Count(Drained(steering), {m}) + InSteering(m)'
          BY <1>2, <4>1, CountDrained, Zenon DEF InSteering
        <4>4. InFollowUp(m) = Count(Drained(followUp), {m}) + Count(Kept(followUp), {m})
          BY <1>2, CountDrained, Zenon DEF InFollowUp
        <4>5. /\ Count(Drained(steering), {m}) \in Nat
              /\ Count(Drained(followUp), {m}) \in Nat
              /\ Count(Kept(followUp), {m}) \in Nat
              /\ InSteering(m)' \in Nat
          <5>1. /\ Drained(steering) \in Seq(Users)
                /\ Drained(followUp) \in Seq(Users) /\ Kept(followUp) \in Seq(Users)
            BY <1>2, DrainedKept
          <5>2. InSteering(m)' \in Nat
            BY <1>0 DEF AllPlaces, Places
          <5> QED
            BY <5>1, <5>2, CountOnly, Zenon
        <4>6. CASE followUp' = followUp /\ batch' = Drained(steering)
          <5>1. InFollowUp(m)' = InFollowUp(m)
            BY <4>6, SamePlaces
          <5>2. InBatch(m)' = Count(Drained(steering), {m})
            BY <4>6 DEF InBatch
          <5> QED
            BY <3>0, <4>2, <4>3, <4>5, <5>1, <5>2
        <4>7. CASE /\ Drained(steering) = <<>> /\ followUp' = Kept(followUp)
                   /\ batch' = Drained(followUp)
          <5>1. InFollowUp(m)' = Count(Kept(followUp), {m})
            BY <4>7 DEF InFollowUp
          <5>2. InBatch(m)' = Count(Drained(followUp), {m})
            BY <4>7 DEF InBatch
          <5>3. Count(Drained(steering), {m}) = 0
            BY <4>7, CountEmpty
          <5> QED
            BY <3>0, <4>2, <4>3, <4>4, <4>5, <5>1, <5>2, <5>3
        <4> QED
          BY <3>2, <4>6, <4>7 DEF Takes
      <3>3. CASE Waits
        <4>1. toLog' = 0 /\ UNCHANGED <<steering, followUp, batch>>
          BY <2>1, <3>3 DEF Waits, queueVars
        <4>2. /\ InSteering(m)' = InSteering(m) /\ InFollowUp(m)' = InFollowUp(m)
              /\ InBatch(m)' = InBatch(m) /\ AtListener(m)' = 0
          BY <4>1, SamePlaces, MessageNumbers DEF AtListener
        <4> QED
          BY <3>0, <4>2
      <3> QED
        BY <2>1, <3>1, <3>2, <3>3
    <2> QED
      BY <1>a, <2>2
  <1> QED
    BY <1>4, <1>5

\* Where a new message may go, and the places it moves to from there: the sum of
\* the places below is all a command or a trigger changes.
Outside(m) == InLog(m) + InHand(m) + InSteering(m) + InFollowUp(m) + InQueue(m)
              + AtHandler(m) + AtTrigger(m)

New(m) == IF sent' # sent /\ m = sent + 1 THEN 1 ELSE 0

\* A step that leaves the run alone keeps the copies if it keeps them outside.
LEMMA OutsideSteps ==
  ASSUME HostInv, OnceInv, HostInv', forfeit \subseteq forfeit',
         UNCHANGED <<batch, toLog>>, sent' \in {sent, sent + 1},
         PromptKnown', BlankJobs',
         \A m \in Users : \/ Outside(m)' = Outside(m) + New(m)
                          \/ m \in forfeit' /\ m <= sent
  PROVE  OnceInv'
  <1>0. AllPlaces /\ AllPlaces'
    BY CopiesCounted, PTL
  <1>1. ASSUME NEW m \in Users
        PROVE  \/ Copies(m)' = Copies(m)
                               + (IF sent' # sent /\ m = sent + 1 THEN 1 ELSE 0)
               \/ m \in forfeit' /\ m <= sent
    <2>1. Places(m) /\ Places(m)'
      BY <1>0 DEF AllPlaces
    <2>2. InBatch(m)' = InBatch(m) /\ AtListener(m)' = AtListener(m)
      BY SamePlaces
    <2>3. \/ Outside(m)' = Outside(m) + New(m)
          \/ m \in forfeit' /\ m <= sent
      OBVIOUS
    <2> QED
      BY <2>1, <2>2, <2>3 DEF Places, Outside, New
  <1>2. OnePlace'
    BY <1>1, OnePlaceStep
  <1> QED
    BY <1>2 DEF OnceInv

\* A turn that starts from nothing has in hand what it was given.
LEMMA GivenHand ==
  ASSUME NEW kind \in Kinds, NEW s, turn' = Turn(kind, s), NEW m
  PROVE  /\ InHand(m)' = Count(s, {m})
         /\ turn'.prompt \in {s, <<>>}
         /\ turn'.hand = s
  BY DEF InHand, Turn

\* The next message as one more of those that came.
LEMMA NextNumber ==
  ASSUME HostInv, sent < MaxMessages, sent' = sent + 1
  PROVE  /\ sent \in Nat /\ sent + 1 \in Users
         /\ PromptKnown /\ turn'.prompt \in {turn.prompt, <<sent + 1>>, <<>>}
              => PromptKnown'
         /\ \A m : New(m) = Count(<<sent + 1>>, {m})
  <1>1. sent \in Nat /\ sent + 1 \in Users /\ turn.prompt \in Seq(Users)
    <2>1. sent \in 0..MaxMessages /\ turn.prompt \in Seq(Users)
      BY TypeParts DEF HostInv, HostVarsOK, HostShape
    <2> QED
      BY <2>1, HostAssumption DEF Users
  <1>2. ASSUME PromptKnown, turn'.prompt \in {turn.prompt, <<sent + 1>>, <<>>}
        PROVE  PromptKnown'
    <2>1. CASE turn'.prompt = turn.prompt
      <3>1. \A i \in 1..Len(turn.prompt) : turn.prompt[i] \in Nat
        BY <1>1, MessageNumbers
      <3>2. \A i \in 1..Len(turn.prompt) : turn.prompt[i] <= sent
        BY <1>2 DEF PromptKnown
      <3> QED
        BY <1>1, <2>1, <3>1, <3>2 DEF PromptKnown
    <2>2. CASE turn'.prompt \in {<<sent + 1>>, <<>>}
      BY <1>1, <2>2 DEF PromptKnown
    <2> QED
      BY <1>2, <2>1, <2>2
  <1>3. ASSUME NEW m PROVE New(m) = Count(<<sent + 1>>, {m})
    <2>1. Count(<<sent + 1>>, {m}) = IF sent + 1 \in {m} THEN 1 ELSE 0
      BY <1>1, CountOne
    <2> QED
      BY <1>1, <2>1 DEF New
  <1> QED
    BY <1>1, <1>2, <1>3

\* The hook's continuation and a user's text are a new message in one place.
LEMMA OnceArrives ==
  ASSUME HostInv, OnceInv, HostInv',
         HookContinues \/ Submit \/ AgentPrompt \/ TriggerFires
  PROVE  OnceInv'
  <1>0. AllPlaces
    BY CopiesCounted
  <1>1. /\ sent < MaxMessages /\ sent' = sent + 1
        /\ UNCHANGED <<batch, toLog, forfeit, log>>
    BY DEF HookContinues, Submit, AgentPrompt, TriggerFires, loopVars, logVars,
           AtOnce, Await, ReadLeaf
  <1>2. /\ sent \in Nat /\ sent + 1 \in Users /\ sent + 1 \in Nat
        /\ \A m : New(m) = Count(<<sent + 1>>, {m})
    <2>1. sent \in Nat /\ sent + 1 \in Users
      BY <1>1, NextNumber
    <2>2. \A m : New(m) = Count(<<sent + 1>>, {m})
      BY <1>1, NextNumber
    <2> QED
      BY <2>1, <2>2
  <1>3. /\ turn \in Turns /\ queue \in Seq(Jobs)
        /\ steering \in Seq(Users) /\ followUp \in Seq(Users)
        /\ turn.stage \in {"none", "running", "hook", "parting"} => turn.hand = <<>>
        /\ PromptKnown /\ BlankJobs
    BY TypeParts DEF HostInv, HostVarsOK, HostShape, OnceInv
  <1>4. \A m : New(m) = IF sent + 1 = m THEN 1 ELSE 0
    BY <1>1, <1>2 DEF New
  <1>a. ASSUME turn'.prompt \in {turn.prompt, <<sent + 1>>, <<>>}, BlankJobs',
               \A m \in Users : Outside(m)' = Outside(m) + New(m)
        PROVE  OnceInv'
    <2>1. PromptKnown'
      BY <1>1, <1>3, <1>a, NextNumber
    <2> QED
      BY <1>1, <1>a, <2>1, OutsideSteps
  <1>5. CASE HookContinues
    <2>1. /\ turn'.hand = <<sent + 1>> /\ turn'.prompt = turn.prompt
          /\ turn.hand = <<>>
          /\ UNCHANGED <<steering, followUp, queue, host, trig>>
      BY <1>3, <1>5 DEF HookContinues, Polled, Turns, loopVars, queueVars
    <2>2. ASSUME NEW m \in Users PROVE Outside(m)' = Outside(m) + New(m)
      <3>1. InHand(m) = 0 /\ InHand(m)' = New(m)
        BY <1>2, <2>1, CountEmpty DEF InHand
      <3>2. /\ InLog(m)' = InLog(m) /\ InSteering(m)' = InSteering(m)
            /\ InFollowUp(m)' = InFollowUp(m) /\ InQueue(m)' = InQueue(m)
            /\ AtHandler(m)' = AtHandler(m) /\ AtTrigger(m)' = AtTrigger(m)
        BY <1>1, <2>1, SamePlaces
      <3> QED
        BY <3>1, <3>2, <1>0, <1>4 DEF Outside, AllPlaces, Places
    <2> QED
      BY <1>a, <1>3, <2>1, <2>2 DEF BlankJobs
  <1>6. CASE Submit
    <2>1. /\ UNCHANGED <<followUp, queue, trig>> /\ host = NoOp
      BY <1>6 DEF Submit
    <2>2. BlankJobs'
      BY <1>3, <2>1 DEF BlankJobs
    <2>a. ASSUME NEW m \in Users
          PROVE  /\ InLog(m)' = InLog(m) /\ InFollowUp(m)' = InFollowUp(m)
                 /\ InQueue(m)' = InQueue(m) /\ AtTrigger(m)' = AtTrigger(m)
                 /\ AtHandler(m) = 0
                 /\ InLog(m) \in Nat /\ InHand(m) \in Nat /\ InSteering(m) \in Nat
                 /\ InFollowUp(m) \in Nat /\ InQueue(m) \in Nat
                 /\ AtTrigger(m) \in Nat /\ New(m) \in Nat
      <3>1. AtHandler(m) = 0
        BY <2>1 DEF AtHandler, NoOp
      <3> QED
        BY <1>0, <1>1, <1>4, <2>1, <3>1, SamePlaces DEF AllPlaces, Places
    <2>3. CASE ~hasModel
      <3>1. /\ host' = [op |-> "prompt", msg |-> sent + 1]
            /\ turn' = turn /\ steering' = steering
        BY <1>6, <2>3 DEF Submit, Await
      <3>2. ASSUME NEW m \in Users PROVE Outside(m)' = Outside(m) + New(m)
        <4>1. /\ AtHandler(m)' = New(m)
              /\ InHand(m)' = InHand(m) /\ InSteering(m)' = InSteering(m)
          BY <1>4, <3>1, SamePlaces DEF AtHandler
        <4> QED
          BY <4>1, <2>a DEF Outside
      <3> QED
        BY <1>a, <2>2, <3>1, <3>2
    <2>4. CASE hasModel /\ ~Busy
      <3>1. /\ host' = host /\ steering' = steering
            /\ turn' = Turn("user", <<sent + 1>>) /\ turn.hand = <<>>
            /\ "user" \in Kinds
        BY <1>3, <1>6, <2>4 DEF Submit, AtOnce, Busy, Kinds
      <3>2. ASSUME NEW m \in Users PROVE Outside(m)' = Outside(m) + New(m)
        <4>1. InHand(m)' = New(m) /\ InHand(m) = 0
          BY <1>2, <3>1, GivenHand, CountEmpty DEF InHand
        <4>2. AtHandler(m)' = AtHandler(m) /\ InSteering(m)' = InSteering(m)
          BY <3>1, SamePlaces
        <4> QED
          BY <4>1, <4>2, <2>a DEF Outside
      <3>3. turn'.prompt \in {<<sent + 1>>, <<>>}
        BY <3>1, GivenHand
      <3> QED
        BY <1>a, <2>2, <3>2, <3>3
    <2>5. CASE hasModel /\ Busy
      <3>1. /\ host' = host /\ steering' = Append(steering, sent + 1)
            /\ turn' = turn
        BY <1>6, <2>5 DEF Submit, AtOnce, EnqueueSteering
      <3>2. ASSUME NEW m \in Users PROVE Outside(m)' = Outside(m) + New(m)
        <4>1. InSteering(m)' = InSteering(m) + (IF sent + 1 \in {m} THEN 1 ELSE 0)
          BY <1>2, <1>3, <3>1, CountAppend DEF InSteering
        <4>2. AtHandler(m)' = AtHandler(m) /\ InHand(m)' = InHand(m)
          BY <3>1, SamePlaces
        <4>3. InSteering(m)' = InSteering(m) + New(m)
          BY <4>1, <1>4
        <4> QED
          BY <4>2, <4>3, <2>a DEF Outside
      <3> QED
        BY <1>a, <2>2, <3>1, <3>2
    <2> QED
      BY <2>3, <2>4, <2>5
  <1>7. CASE AgentPrompt
    <2> DEFINE job == Job("plain", sent + 1, FALSE)
    <2>1. /\ UNCHANGED <<steering, followUp, host, trig>>
          /\ StartOrQueue(job)
      BY <1>7 DEF AgentPrompt, loopVars, queueVars
    <2>2. /\ job \in Jobs /\ job.kind = "plain" /\ job.msg = sent + 1
          /\ ~job.persisted
          /\ \A m : job \in JobsOf(m) <=> sent + 1 = m
      BY <1>2, MessageNumbers DEF Job, Jobs, Kinds, JobsOf
    <2> HIDE DEF job
    <2>a. ASSUME NEW m \in Users
          PROVE  /\ InLog(m)' = InLog(m) /\ InFollowUp(m)' = InFollowUp(m)
                 /\ InSteering(m)' = InSteering(m)
                 /\ AtHandler(m)' = AtHandler(m) /\ AtTrigger(m)' = AtTrigger(m)
                 /\ InLog(m) \in Nat /\ InHand(m) \in Nat /\ InSteering(m) \in Nat
                 /\ InFollowUp(m) \in Nat /\ InQueue(m) \in Nat
                 /\ AtTrigger(m) \in Nat /\ AtHandler(m) \in Nat /\ New(m) \in Nat
      BY <1>0, <1>1, <1>4, <2>1, SamePlaces DEF AllPlaces, Places
    <2>3. CASE Busy
      <3>1. queue' = Append(queue, job) /\ turn' = turn
        BY <2>1, <2>3 DEF StartOrQueue
      <3>2. ASSUME NEW m \in Users PROVE Outside(m)' = Outside(m) + New(m)
        <4>1. InQueue(m)' = InQueue(m) + (IF job \in JobsOf(m) THEN 1 ELSE 0)
          BY <1>3, <2>2, <3>1, CountAppend, Zenon DEF InQueue
        <4>2. InQueue(m)' = InQueue(m) + New(m)
          BY <1>4, <2>2, <4>1
        <4>3. InHand(m)' = InHand(m)
          BY <3>1, SamePlaces
        <4> QED
          BY <4>2, <4>3, <2>a DEF Outside
      <3>3. BlankJobs'
        BY <1>3, <2>2, <3>1 DEF BlankJobs
      <3> QED
        BY <1>a, <3>1, <3>2, <3>3
    <2>4. CASE ~Busy
      <3>1. /\ turn' = Turn("plain", <<sent + 1>>) /\ queue' = queue
            /\ turn.hand = <<>> /\ "plain" \in Kinds
        BY <1>3, <2>1, <2>2, <2>4 DEF StartOrQueue, TurnOf, Busy, Kinds
      <3>2. ASSUME NEW m \in Users PROVE Outside(m)' = Outside(m) + New(m)
        <4>1. InHand(m)' = New(m) /\ InHand(m) = 0
          BY <1>2, <3>1, GivenHand, CountEmpty DEF InHand
        <4>2. InQueue(m)' = InQueue(m)
          BY <3>1, SamePlaces
        <4> QED
          BY <4>1, <4>2, <2>a DEF Outside
      <3>3. turn'.prompt \in {<<sent + 1>>, <<>>}
        BY <3>1, GivenHand
      <3> QED
        BY <1>a, <1>3, <3>1, <3>2, <3>3 DEF BlankJobs
    <2> QED
      BY <2>3, <2>4
  <1>8. CASE TriggerFires
    <2>1. /\ UNCHANGED <<steering, queue, turn, host>> /\ trig = NoTask
          /\ trig' = [step |-> IF loop # "idle" THEN "audit" ELSE "inject",
                      msg |-> sent + 1, followUp |-> loop # "idle"]
      BY <1>8 DEF TriggerFires
    <2>2. ASSUME NEW m \in Users PROVE Outside(m)' = Outside(m) + New(m)
      <3>1. /\ InLog(m)' = InLog(m) /\ InHand(m)' = InHand(m)
            /\ InSteering(m)' = InSteering(m) /\ InQueue(m)' = InQueue(m)
            /\ AtHandler(m)' = AtHandler(m) /\ AtTrigger(m) = 0
        BY <1>1, <2>1, SamePlaces DEF AtTrigger, NoTask
      <3>2. CASE loop # "idle"
        <4>1. followUp' = Append(followUp, sent + 1)
          BY <1>8, <3>2 DEF TriggerFires, EnqueueFollowUp
        <4>2. InFollowUp(m)' = InFollowUp(m) + (IF sent + 1 \in {m} THEN 1 ELSE 0)
          BY <1>2, <1>3, <4>1, CountAppend DEF InFollowUp
        <4>3. AtTrigger(m)' = 0
          BY <2>1, <3>2 DEF AtTrigger
        <4> QED
          BY <3>1, <4>2, <4>3, <1>0, <1>4 DEF Outside, AllPlaces, Places
      <3>3. CASE loop = "idle"
        <4>1. followUp' = followUp
          BY <1>8, <3>3 DEF TriggerFires
        <4>2. InFollowUp(m)' = InFollowUp(m)
          BY <4>1, SamePlaces
        <4>3. AtTrigger(m)' = New(m)
          BY <1>4, <2>1, <3>3 DEF AtTrigger
        <4> QED
          BY <3>1, <4>2, <4>3, <1>0, <1>4 DEF Outside, AllPlaces, Places
      <3> QED
        BY <3>2, <3>3
    <2>3. BlankJobs'
      BY <1>3, <2>1 DEF BlankJobs
    <2> QED
      BY <1>a, <2>1, <2>2, <2>3
  <1> QED
    BY <1>5, <1>6, <1>7, <1>8

\* The text that interrupts: what the queue held and no log has is given up.
LEMMA OnceInterrupt ==
  ASSUME HostInv, OnceInv, HostInv', SubmitInterrupt
  PROVE  OnceInv'
  <1>0. AllPlaces
    BY CopiesCounted
  <1>1. /\ sent < MaxMessages /\ sent' = sent + 1 /\ host = NoOp
        /\ queue' = <<>>
        /\ UNCHANGED <<batch, toLog, log, steering, followUp, trig>>
        /\ forfeit' = forfeit \cup {queue[i].msg : i \in
                   {j \in 1..Len(queue) : /\ queue[j].kind # "compaction"
                                          /\ ~queue[j].persisted}}
    BY DEF SubmitInterrupt, logVars, queueVars, AtOnce, Await, ReadLeaf
  <1>2. sent \in Nat /\ sent + 1 \in Users
    BY <1>1, NextNumber
  <1>b. \A m : New(m) = Count(<<sent + 1>>, {m})
    BY <1>1, NextNumber
  <1>3. \A m : New(m) = IF sent + 1 = m THEN 1 ELSE 0
    BY <1>1, <1>2 DEF New
  <1>4. /\ queue \in Seq(Jobs) /\ PromptKnown /\ BlankJobs
        /\ turn.stage = "none" => turn.hand = <<>>
    BY TypeParts DEF HostInv, HostVarsOK, HostShape, OnceInv
  <1>5. ASSUME NEW m \in Users
        PROVE  \/ InQueue(m) = 0
               \/ m \in forfeit' /\ m <= sent
    <2>1. CASE \A i \in 1..Len(queue) : queue[i] \notin JobsOf(m)
      BY <2>1, CountNone DEF InQueue
    <2>2. CASE \E i \in 1..Len(queue) : queue[i] \in JobsOf(m)
      <3>1. PICK i \in 1..Len(queue) : queue[i] \in JobsOf(m)
        BY <2>2
      <3>2. InQueue(m) >= 1
        BY <1>4, <3>1, CountSome, Zenon DEF InQueue
      <3>3. m <= sent
        BY <3>2, PlacedCame
      <3>4. queue[i].msg = m /\ ~queue[i].persisted /\ queue[i].kind # "compaction"
        BY <1>4, <3>1, MessageNumbers DEF JobsOf, BlankJobs
      <3>5. m \in forfeit'
        BY <1>1, <3>4
      <3> QED
        BY <3>3, <3>5
    <2> QED
      BY <2>1, <2>2
  <1>6. ASSUME NEW m \in Users
        PROVE  /\ InHand(m)' + AtHandler(m)' = InHand(m) + AtHandler(m) + New(m)
               /\ turn'.prompt \in {turn.prompt, <<sent + 1>>, <<>>}
    <2>1. AtHandler(m) = 0 /\ InHand(m) \in Nat /\ New(m) \in Nat
      BY <1>0, <1>1, <1>3 DEF AtHandler, NoOp, AllPlaces, Places
    <2>2. CASE hasModel /\ ~Busy
      <3>1. /\ turn' = Turn("user", <<sent + 1>>) /\ host' = host
            /\ "user" \in Kinds /\ turn.hand = <<>>
        BY <1>4, <2>2 DEF SubmitInterrupt, AtOnce, Kinds, Busy
      <3>2. InHand(m) = 0 /\ InHand(m)' = New(m)
        BY <1>b, <3>1, GivenHand, CountEmpty DEF InHand
      <3>3. AtHandler(m)' = 0
        BY <2>1, <3>1, SamePlaces
      <3>4. turn'.prompt \in {<<sent + 1>>, <<>>}
        BY <3>1, GivenHand
      <3> QED
        BY <2>1, <3>2, <3>3, <3>4
    <2>3. CASE ~(hasModel /\ ~Busy)
      <3>1. host' = [op |-> "prompt", msg |-> sent + 1] /\ turn' = turn
        BY <2>3 DEF SubmitInterrupt, Await
      <3>2. AtHandler(m)' = New(m) /\ InHand(m)' = InHand(m)
        BY <1>3, <3>1, SamePlaces DEF AtHandler
      <3> QED
        BY <2>1, <3>1, <3>2
    <2> QED
      BY <2>2, <2>3
  <1>7. \A m \in Users : \/ Outside(m)' = Outside(m) + New(m)
                         \/ m \in forfeit' /\ m <= sent
    <2> SUFFICES ASSUME NEW m \in Users
                 PROVE  \/ Outside(m)' = Outside(m) + New(m)
                        \/ m \in forfeit' /\ m <= sent
      OBVIOUS
    <2>1. /\ InLog(m)' = InLog(m) /\ InSteering(m)' = InSteering(m)
          /\ InFollowUp(m)' = InFollowUp(m) /\ AtTrigger(m)' = AtTrigger(m)
      BY <1>1, SamePlaces
    <2>2. InQueue(m)' = 0
      BY <1>1, CountEmpty DEF InQueue
    <2>3. InHand(m)' + AtHandler(m)' = InHand(m) + AtHandler(m) + New(m)
      BY <1>6
    <2>4. InQueue(m) = 0 \/ (m \in forfeit' /\ m <= sent)
      BY <1>5
    <2>5. InHand(m)' \in Nat /\ AtHandler(m)' \in Nat
      <3>1. AllPlaces'
        BY CopiesCounted, PTL
      <3> QED
        BY <3>1 DEF AllPlaces, Places
    <2> QED
      BY <2>1, <2>2, <2>3, <2>4, <2>5, <1>0, <1>3 DEF Outside, AllPlaces, Places
  <1>8. PromptKnown'
    BY <1>1, <1>2, <1>4, <1>6, NextNumber
  <1>9. BlankJobs' /\ forfeit \subseteq forfeit'
    BY <1>1 DEF BlankJobs
  <1> QED
    BY <1>1, <1>7, <1>8, <1>9, OutsideSteps

\* The other steps of handlers and triggers bring no message.
LEMMA OnceHandlers ==
  ASSUME HostInv, OnceInv, HostInv',
         \/ PromptPersisted \/ PromptNotPersisted \/ SetModel \/ ModelSet
         \/ Compact \/ Abort
  PROVE  OnceInv'
  <1>0. AllPlaces
    BY CopiesCounted
  <1>1. /\ UNCHANGED <<batch, toLog, sent, forfeit, steering, followUp, trig>>
    BY DEF PromptPersisted, PromptNotPersisted, SetModel, ModelSet, Compact,
           Abort, loopVars, queueVars, hostVars
  <1>2. /\ queue \in Seq(Jobs) /\ PromptKnown /\ BlankJobs /\ LogTypeOK
        /\ sent \in Nat
        /\ turn.stage = "none" => turn.hand = <<>>
    BY TypeParts DEF HostInv, HostVarsOK, HostShape, OnceInv
  <1>3. "host" \in Writers /\ 0 \in 0..Len(log) /\ 0 \in Nat
        /\ {"message", "custom"} \subseteq RowTypes
    BY <1>2, WritersKnown DEF LogTypeOK, RowTypes
  <1>a. ASSUME PromptKnown', BlankJobs',
               \A m \in Users : InLog(m)' + InHand(m)' + InQueue(m)' + AtHandler(m)'
                                = InLog(m) + InHand(m) + InQueue(m) + AtHandler(m)
        PROVE  OnceInv'
    <2>1. ASSUME NEW m \in Users PROVE Outside(m)' = Outside(m) + New(m)
      <3>1. /\ InSteering(m)' = InSteering(m) /\ InFollowUp(m)' = InFollowUp(m)
            /\ AtTrigger(m)' = AtTrigger(m) /\ New(m) = 0
        BY <1>1, SamePlaces DEF New
      <3>2. InLog(m)' + InHand(m)' + InQueue(m)' + AtHandler(m)'
                = InLog(m) + InHand(m) + InQueue(m) + AtHandler(m)
        BY <1>a
      <3>3. AllPlaces'
        BY CopiesCounted, PTL
      <3> QED
        BY <3>1, <3>2, <3>3, <1>0 DEF Outside, AllPlaces, Places
    <2> QED
      BY <1>1, <1>a, <2>1, OutsideSteps
  <1>b. ASSUME turn' = turn PROVE PromptKnown'
    BY <1>1, <1>2, <1>b DEF PromptKnown
  <1>c. ASSUME NEW m \in Users
        PROVE  /\ InLog(m) \in Nat /\ InHand(m) \in Nat /\ InQueue(m) \in Nat
               /\ AtHandler(m) \in Nat
    BY <1>0 DEF AllPlaces, Places
  <1>4. CASE PromptPersisted \/ PromptNotPersisted
    <2>1. /\ host.op = "prompt" /\ host' = NoOp /\ turn' = turn
          /\ host.msg \in Users /\ host.msg \in Messages /\ host.msg \in Nat
      BY <1>4, MessageNumbers
         DEF PromptPersisted, PromptNotPersisted, HostInv, HostShape
    <2>2. PICK b \in BOOLEAN :
            /\ queue' = Append(queue, Job("user", host.msg, b))
            /\ IF b THEN WriteRow("host", "message", host.msg, 0) ELSE log' = log
      BY <1>4 DEF PromptPersisted, PromptNotPersisted
    <2>3. Job("user", host.msg, b) \in Jobs /\ Job("user", host.msg, b).kind = "user"
      BY <2>1 DEF Job, Jobs, Kinds
    <2>4. BlankJobs'
      BY <1>2, <2>2, <2>3 DEF BlankJobs
    <2>5. ASSUME NEW m \in Users
          PROVE  InLog(m)' + InHand(m)' + InQueue(m)' + AtHandler(m)'
                   = InLog(m) + InHand(m) + InQueue(m) + AtHandler(m)
      <3>1. /\ AtHandler(m)' = 0 /\ InHand(m)' = InHand(m)
            /\ AtHandler(m) = IF host.msg = m THEN 1 ELSE 0
        BY <2>1, SamePlaces DEF AtHandler, NoOp
      <3>2. InQueue(m)' = InQueue(m)
                          + (IF Job("user", host.msg, b) \in JobsOf(m) THEN 1 ELSE 0)
        <4> DEFINE job == Job("user", host.msg, b)
        <4>1. job \in Jobs /\ queue' = Append(queue, job)
          BY <2>2, <2>3
        <4> HIDE DEF job
        <4>2. InQueue(m)' = InQueue(m) + (IF job \in JobsOf(m) THEN 1 ELSE 0)
          BY <1>2, <4>1, CountAppend, Zenon DEF InQueue
        <4> QED
          BY <4>2 DEF job
      <3>3. Job("user", host.msg, b) \in JobsOf(m) <=> host.msg = m /\ ~b
        BY <2>3 DEF JobsOf, Job
      <3>4. CASE b
        <4>1. InLog(m)' = InLog(m)
                          + (IF "message" = "message" /\ host.msg = m THEN 1 ELSE 0)
          BY <1>2, <1>3, <2>1, <2>2, <3>4, RowCounts
        <4> QED
          BY <1>c, <3>1, <3>2, <3>3, <3>4, <4>1
      <3>5. CASE ~b
        <4>1. InLog(m)' = InLog(m)
          BY <2>2, <3>5, SamePlaces
        <4> QED
          BY <1>c, <3>1, <3>2, <3>3, <3>5, <4>1
      <3> QED
        BY <3>4, <3>5
    <2> QED
      BY <1>a, <1>b, <2>1, <2>4, <2>5
  <1>5. CASE SetModel \/ Abort
    <2>1. /\ UNCHANGED <<queue, turn, log>>
          /\ \A m : AtHandler(m)' = AtHandler(m)
      BY <1>5 DEF SetModel, Abort, Await, ReadLeaf, hostVars, logVars,
                  AtHandler, NoOp
    <2>2. ASSUME NEW m \in Users
          PROVE  InLog(m)' + InHand(m)' + InQueue(m)' + AtHandler(m)'
                   = InLog(m) + InHand(m) + InQueue(m) + AtHandler(m)
      <3>1. /\ InLog(m)' = InLog(m) /\ InHand(m)' = InHand(m)
            /\ InQueue(m)' = InQueue(m) /\ AtHandler(m)' = AtHandler(m)
        BY <2>1, SamePlaces
      <3> QED
        BY <3>1
    <2> QED
      BY <1>a, <1>b, <1>2, <2>1, <2>2 DEF BlankJobs
  <1>6. CASE ModelSet
    <2>1. /\ host.op = "model" /\ host' = NoOp
          /\ WriteRow("host", "custom", 0, 0)
      BY <1>6 DEF ModelSet
    <2>2. ASSUME NEW m \in Users
          PROVE  /\ AtHandler(m)' = 0 /\ AtHandler(m) = 0
                 /\ InLog(m)' = InLog(m)
      <3>1. InLog(m)' = InLog(m) + (IF "custom" = "message" /\ 0 = m THEN 1 ELSE 0)
        BY <1>2, <1>3, <2>1, RowCounts
      <3> QED
        BY <1>c, <2>1, <3>1 DEF AtHandler, NoOp
    <2>3. CASE Busy
      <3>1. queue' = queue /\ turn' = turn
        BY <1>6, <2>3 DEF ModelSet
      <3>2. ASSUME NEW m \in Users
            PROVE  InLog(m)' + InHand(m)' + InQueue(m)' + AtHandler(m)'
                   = InLog(m) + InHand(m) + InQueue(m) + AtHandler(m)
        BY <2>2, <3>1, SamePlaces
      <3> QED
        BY <1>a, <1>b, <1>2, <3>1, <3>2 DEF BlankJobs
    <2>4. CASE ~Busy
      <3>1. StartNext(queue, TRUE) /\ TRUE \in BOOLEAN /\ turn.hand = <<>>
        BY <1>2, <1>6, <2>4 DEF ModelSet, Busy
      <3>2. /\ \A m \in Users : InHand(m)' + InQueue(m)' = InQueue(m)
            /\ \A i \in 1..Len(turn'.prompt) : turn'.prompt[i] <= sent
            /\ BlankJobs'
        BY <3>1, StartMoves
      <3>3. PromptKnown'
        BY <1>1, <3>2 DEF PromptKnown
      <3>4. ASSUME NEW m \in Users
            PROVE  InLog(m)' + InHand(m)' + InQueue(m)' + AtHandler(m)'
                   = InLog(m) + InHand(m) + InQueue(m) + AtHandler(m)
        <4>1. InHand(m) = 0
          BY <3>1, CountEmpty DEF InHand
        <4>2. InHand(m)' + InQueue(m)' = InQueue(m)
          BY <3>2
        <4>3. AllPlaces'
          BY CopiesCounted, PTL
        <4> QED
          BY <2>2, <4>1, <4>2, <4>3, <1>c DEF AllPlaces, Places
      <3> QED
        BY <1>a, <3>2, <3>3, <3>4
    <2> QED
      BY <2>3, <2>4
  <1>7. CASE Compact
    <2> DEFINE job == Job("compaction", 0, FALSE)
    <2>1. StartOrQueue(job) /\ UNCHANGED <<host, log>>
      BY <1>7 DEF Compact, logVars
    <2>2. /\ job \in Jobs /\ job.kind = "compaction" /\ job.msg = 0
          /\ \A m \in Users : job \notin JobsOf(m)
      BY MessageNumbers DEF Job, Jobs, Kinds, JobsOf
    <2> HIDE DEF job
    <2>3. CASE Busy
      <3>1. queue' = Append(queue, job) /\ turn' = turn
        BY <2>1, <2>3 DEF StartOrQueue
      <3>2. BlankJobs'
        BY <1>2, <2>2, <3>1 DEF BlankJobs
      <3>3. ASSUME NEW m \in Users
            PROVE  InLog(m)' + InHand(m)' + InQueue(m)' + AtHandler(m)'
                   = InLog(m) + InHand(m) + InQueue(m) + AtHandler(m)
        <4>1. InQueue(m)' = InQueue(m) + (IF job \in JobsOf(m) THEN 1 ELSE 0)
          BY <1>2, <2>2, <3>1, CountAppend, ZenonT(40) DEF InQueue
        <4>2. InQueue(m)' = InQueue(m)
          BY <1>c, <2>2, <4>1
        <4> QED
          BY <2>1, <3>1, <4>2, SamePlaces
      <3> QED
        BY <1>a, <1>b, <3>1, <3>2, <3>3
    <2>4. CASE ~Busy
      <3>1. /\ turn' = Turn("compaction", <<>>) /\ queue' = queue
            /\ turn.hand = <<>> /\ "compaction" \in Kinds
        BY <1>2, <2>1, <2>2, <2>4 DEF StartOrQueue, TurnOf, Busy, Kinds
      <3>2. turn'.prompt = <<>>
        BY <3>1 DEF Turn
      <3>3. PromptKnown' /\ BlankJobs'
        BY <1>2, <3>1, <3>2 DEF PromptKnown, BlankJobs
      <3>4. ASSUME NEW m \in Users
            PROVE  InLog(m)' + InHand(m)' + InQueue(m)' + AtHandler(m)'
                   = InLog(m) + InHand(m) + InQueue(m) + AtHandler(m)
        <4>1. InHand(m)' = 0 /\ InHand(m) = 0
          BY <3>1, GivenHand, CountEmpty DEF InHand
        <4> QED
          BY <2>1, <3>1, <4>1, SamePlaces
      <3> QED
        BY <1>a, <3>3, <3>4
    <2> QED
      BY <2>3, <2>4
  <1> QED
    BY <1>4, <1>5, <1>6, <1>7

\* The steps of a trigger move its message.
LEMMA OnceTriggers ==
  ASSUME HostInv, OnceInv, HostInv',
         \/ TriggerReads \/ TriggerWrites \/ TriggerPushes \/ TriggerAudits
         \/ TriggeredTurn
  PROVE  OnceInv'
  <1>0. AllPlaces
    BY CopiesCounted
  <1>1. /\ UNCHANGED <<batch, toLog, sent, forfeit, steering, followUp, queue, host>>
        /\ turn'.prompt \in {turn.prompt, <<>>}
        /\ turn'.hand = turn.hand
    <2>1. CASE TriggeredTurn
      <3>1. turn' \in {Turn("plain", <<>>), NoTurn} /\ turn.hand = <<>>
        BY <2>1 DEF TriggeredTurn, Busy, HostInv, HostShape
      <3>2. turn'.prompt = <<>> /\ turn'.hand = <<>>
        BY <3>1, NoTurnType DEF Turn
      <3> QED
        BY <2>1, <3>1, <3>2 DEF TriggeredTurn, loopVars, queueVars
    <2>2. CASE ~TriggeredTurn
      BY <2>2 DEF TriggerReads, TriggerWrites, TriggerPushes, TriggerAudits,
                  loopVars, queueVars, hostVars
    <2> QED
      BY <2>1, <2>2
  <1>2. PromptKnown' /\ BlankJobs'
    BY <1>1 DEF OnceInv, PromptKnown, BlankJobs
  <1>3. ASSUME NEW m \in Users
        PROVE  /\ InLog(m)' + AtTrigger(m)' = InLog(m) + AtTrigger(m)
               /\ InLog(m) \in Nat
    <2>0. InLog(m) \in Nat /\ LogTypeOK
      BY <1>0, TypeParts DEF AllPlaces, Places, HostInv
    <2>1. CASE TriggerWrites
      <3>1. /\ trig.step = "inject" /\ trig'.step = "push"
            /\ WriteRow("trigger", "message", trig.msg, 0)
            /\ trig.msg \in Nat
        BY <2>1, TypeParts, MessageNumbers
           DEF TriggerWrites, HostInv, HostVarsOK, HostShape
      <3>2. "trigger" \in Writers /\ "message" \in RowTypes /\ 0 \in 0..Len(log)
        BY <2>0, WritersKnown DEF RowTypes, LogTypeOK
      <3>3. InLog(m)' = InLog(m)
                        + (IF "message" = "message" /\ trig.msg = m THEN 1 ELSE 0)
        BY <2>0, <3>1, <3>2, RowCounts
      <3>4. AtTrigger(m)' = 0 /\ AtTrigger(m) = IF trig.msg = m THEN 1 ELSE 0
        BY <3>1 DEF AtTrigger
      <3> QED
        BY <2>0, <3>3, <3>4
    <2>2. CASE TriggerAudits
      <3>1. /\ trig.step = "audit" /\ trig' = NoTask
            /\ WriteRow("trigger", "custom", 0, 0)
        BY <2>2 DEF TriggerAudits
      <3>2. "trigger" \in Writers /\ "custom" \in RowTypes /\ 0 \in 0..Len(log)
            /\ 0 \in Nat
        BY <2>0, WritersKnown DEF RowTypes, LogTypeOK
      <3>3. InLog(m)' = InLog(m) + (IF "custom" = "message" /\ 0 = m THEN 1 ELSE 0)
        BY <2>0, <3>1, <3>2, RowCounts
      <3>4. AtTrigger(m)' = 0 /\ AtTrigger(m) = 0
        BY <3>1 DEF AtTrigger, NoTask
      <3> QED
        BY <2>0, <3>3, <3>4
    <2>3. CASE TriggerReads \/ TriggerPushes \/ TriggeredTurn
      <3>1. log' = log /\ AtTrigger(m)' = AtTrigger(m)
        BY <2>3, TypeParts DEF TriggerReads, TriggerPushes, TriggeredTurn, ReadLeaf,
           logVars, hostVars, AtTrigger, HostInv, HostVarsOK
      <3> QED
        BY <2>0, <3>1, SamePlaces
    <2> QED
      BY <2>1, <2>2, <2>3
  <1>4. ASSUME NEW m \in Users PROVE Outside(m)' = Outside(m) + New(m)
    <2>1. /\ InHand(m)' = InHand(m) /\ InSteering(m)' = InSteering(m)
          /\ InFollowUp(m)' = InFollowUp(m) /\ InQueue(m)' = InQueue(m)
          /\ AtHandler(m)' = AtHandler(m) /\ New(m) = 0
      BY <1>1, SamePlaces DEF New
    <2>2. InLog(m)' + AtTrigger(m)' = InLog(m) + AtTrigger(m)
      BY <1>3
    <2>3. AllPlaces'
      BY CopiesCounted, PTL
    <2> QED
      BY <2>1, <2>2, <2>3, <1>0 DEF Outside, AllPlaces, Places
  <1> QED
    BY <1>1, <1>2, <1>4, OutsideSteps

\* A restart keeps what is in the log.
LEMMA OnceCrash ==
  ASSUME HostInv, OnceInv, HostInv', Crash
  PROVE  OnceInv'
  <1>0. AllPlaces /\ AllPlaces'
    BY CopiesCounted, PTL
  <1>1. /\ steering' = <<>> /\ followUp' = <<>> /\ batch' = <<>>
        /\ queue' = <<>> /\ turn' = NoTurn /\ toLog' = 0 /\ host' = NoOp
        /\ trig' = NoTask /\ log' = log /\ sent' = sent
        /\ forfeit' = forfeit \cup {m \in 1..sent : ~Logged(m)}
    BY DEF Crash
  <1>2. ASSUME NEW m \in Users
        PROVE  Copies(m)' = Copies(m) \/ (m \in forfeit' /\ m <= sent)
    <2>1. Places(m) /\ Places(m)'
      BY <1>0 DEF AllPlaces
    <2>2. /\ InSteering(m)' = 0 /\ InFollowUp(m)' = 0 /\ InBatch(m)' = 0
          /\ InQueue(m)' = 0 /\ InHand(m)' = 0
      BY <1>1, CountEmpty, NoTurnType
         DEF InSteering, InFollowUp, InBatch, InQueue, InHand
    <2>3. AtListener(m)' = 0 /\ AtHandler(m)' = 0 /\ AtTrigger(m)' = 0
      BY <1>1, MessageNumbers DEF AtListener, AtHandler, AtTrigger, NoOp, NoTask
    <2>4. InLog(m)' = InLog(m)
      BY <1>1, SamePlaces
    <2>5. Copies(m)' = InLog(m) /\ InLog(m) <= Copies(m)
      BY <2>1, <2>2, <2>3, <2>4 DEF Places
    <2>6. CASE m > sent
      <3>1. Copies(m) = 0
        BY <2>6, MessageNumbers, TypeParts
           DEF OnceInv, OnePlace, HostInv, HostVarsOK
      <3> QED
        BY <2>1, <2>5, <3>1 DEF Places
    <2>7. CASE m <= sent /\ m \in forfeit
      BY <1>1, <2>7
    <2>8. CASE m <= sent /\ m \notin forfeit /\ ~Logged(m)
      <3>1. m \in 1..sent
        BY <2>8 DEF Users
      <3> QED
        BY <1>1, <2>8, <3>1
    <2>9. CASE m <= sent /\ m \notin forfeit /\ Logged(m)
      <3>1. Copies(m) = 1
        BY <2>9 DEF OnceInv, OnePlace
      <3>2. log \in Seq(Rows)
        BY TypeParts DEF HostInv, LogTypeOK
      <3>3. PICK i \in 1..Len(log) : log[i].type = "message" /\ log[i].msg = m
        BY <2>9 DEF Logged
      <3>4. log[i] \in RowsOf(m)
        BY <3>2, <3>3 DEF RowsOf
      <3>5. InLog(m) >= 1
        BY <3>2, <3>4, CountSome, Zenon DEF InLog
      <3>6. InLog(m) \in Nat
        BY <2>1 DEF Places
      <3> QED
        BY <2>5, <3>1, <3>5, <3>6
    <2> QED
      BY <2>6, <2>7, <2>8, <2>9, MessageNumbers, TypeParts DEF HostInv, HostVarsOK
  <1>3. OnePlace'
    BY <1>1, <1>2, OnePlaceKept
  <1>4. PromptKnown' /\ BlankJobs'
    BY <1>1, NoTurnType DEF PromptKnown, BlankJobs
  <1> QED
    BY <1>3, <1>4 DEF OnceInv

\* Nobody has a message yet.
LEMMA OnceStarts == Init => OnceInv
  <1> SUFFICES ASSUME Init PROVE OnceInv
    OBVIOUS
  <1>1. AllPlaces
    BY HostStarts, CopiesCounted
  <1>2. ASSUME NEW m \in Users PROVE Copies(m) = 0
    <2>1. /\ InSteering(m) = 0 /\ InFollowUp(m) = 0 /\ InBatch(m) = 0
          /\ InQueue(m) = 0 /\ InHand(m) = 0 /\ InLog(m) = 0
      BY CountEmpty, NoTurnType
         DEF Init, LoopInit, LogInit, InSteering, InFollowUp, InBatch, InQueue,
             InHand, InLog
    <2>2. AtListener(m) = 0 /\ AtHandler(m) = 0 /\ AtTrigger(m) = 0
      BY MessageNumbers DEF Init, AtListener, AtHandler, AtTrigger, NoOp, NoTask
    <2> QED
      BY <1>1, <2>1, <2>2 DEF AllPlaces, Places
  <1>3. OnePlace
    BY <1>2, MessageNumbers DEF Init, OnePlace
  <1> QED
    BY <1>3, NoTurnType DEF Init, OnceInv, PromptKnown, BlankJobs

\* Every step keeps each message in one place.
LEMMA OnceNext ==
  ASSUME HostInv, OnceInv, HostInv', [Next]_vars
  PROVE  OnceInv'
  <1>1. CASE UNCHANGED vars
    <2>1. UNCHANGED <<log, turn, steering, followUp, batch, queue, toLog, host,
                      trig, sent, forfeit>>
      BY <1>1 DEF vars, loopVars, logVars, hostVars
    <2>2. ASSUME NEW m \in Users PROVE Copies(m)' = Copies(m)
      BY <2>1 DEF Copies, Occurs, Queued
    <2>3. OnePlace'
      BY <2>1, <2>2, OnePlaceKept
    <2> QED
      BY <2>1, <2>3 DEF OnceInv, PromptKnown, BlankJobs
  <1>2. CASE TurnStep
    BY <1>2, OnceEnd, OnceStopNoted, OnceStages, OnceFails, OnceRun, OnceArrives
       DEF TurnStep
  <1>3. CASE Command
    BY <1>3, OnceArrives, OnceInterrupt, OnceHandlers DEF Command
  <1>4. CASE TriggerStep
    BY <1>4, OnceArrives, OnceTriggers DEF TriggerStep
  <1>5. CASE Crash
    BY <1>5, OnceCrash
  <1> QED
    BY <1>1, <1>2, <1>3, <1>4, <1>5 DEF Next

\* Through retries, fallbacks, interrupts, handlers, triggers and restarts, each
\* message that was not given up is in the log once, or in one place from which
\* it gets there.
THEOREM MessagesLandOnce == Spec => []ExactlyOnce
  <1>1. HostInv /\ OnceInv => ExactlyOnce
    <2> SUFFICES ASSUME HostInv, OnceInv, NEW m \in 1..sent
                 PROVE  m \in forfeit \/ Copies(m) = 1
      BY DEF ExactlyOnce
    <2>1. sent \in 0..MaxMessages
      BY TypeParts DEF HostInv, HostVarsOK
    <2>2. m \in Users /\ m <= sent
      BY <2>1, HostAssumption DEF Users
    <2> QED
      BY <2>2 DEF OnceInv, OnePlace
  <1>2. HostInv /\ OnceInv /\ HostInv' /\ [Next]_vars => OnceInv'
    BY OnceNext
  <1> QED
    BY <1>1, <1>2, OnceStarts, HostAlways, PTL DEF Spec

-----------------------------------------------------------------------------
(***************************************************************************)
(* A restart forgets nothing.  While no append forked the log its branch   *)
(* is all of it, so that a message is before the first row the last        *)
(* compaction kept, or among the rows Context takes.  That first row is    *)
(* on the branch because a compaction keeps from a row that was there.     *)
(***************************************************************************)
KeptKnown ==
  /\ \A i \in 1..Len(log) :
       log[i].type = "compaction" => log[i].kept \in 1..(i - 1)
  /\ turn.stage \in {"summarizing", "compacting"} => turn.plan.kept \in 1..Len(log)

\* The branch of a log that nobody forked is the whole of it.
LEMMA LinearBranch ==
  ASSUME LogTypeOK, Linear
  PROVE  /\ Branch \in Seq(Ids) /\ Len(Branch) = Len(log)
         /\ \A i \in 1..Len(log) : Branch[i] = i
  <1> DEFINE n == Len(log)
  <1>0. n \in Nat /\ \A i \in 1..n : log[i].parent = i - 1
    BY RowFacts DEF Linear
  <1>1. PICK g \in [0..n -> Seq(Ids)] : Leads(g, n, log) /\ Branch = g[n]
    BY BranchPath, Zenon DEF BranchIsPath
  <1> DEFINE T == {m \in 0..n : Len(g[m]) = m /\ \A j \in 1..m : g[m][j] = j}
  <1>2. 0 \in T
    <2>1. g[0] = <<>>
      BY <1>1, Zenon DEF Leads
    <2> QED
      BY <2>1, <1>0
  <1>3. ASSUME NEW m \in 1..n, m - 1 \in T PROVE m \in T
    <2>1. g[m] = Append(g[log[m].parent], m)
      BY <1>1, Zenon DEF Leads
    <2>2. log[m].parent = m - 1
      BY <1>0
    <2>3. m \in 0..n /\ m - 1 \in 0..n /\ g[m - 1] \in Seq(Ids) /\ m \in Ids
      BY <1>0 DEF Ids
    <2>4. Len(g[m - 1]) = m - 1 /\ \A j \in 1..(m - 1) : g[m - 1][j] = j
      BY <1>3
    <2>5. g[m] = Append(g[m - 1], m)
      BY <2>1, <2>2
    <2> DEFINE p == g[m - 1]  q == g[m]
    <2>6. /\ p \in Seq(Ids) /\ Len(p) = m - 1 /\ q = Append(p, m)
          /\ \A j \in 1..(m - 1) : p[j] = j
      BY <2>3, <2>4, <2>5
    <2> HIDE DEF p, q
    <2>7. Len(q) = m /\ \A j \in 1..m : q[j] = j
      BY <2>6, <1>0
    <2> QED
      BY <2>3, <2>7 DEF q
  <1>4. n \in T
    <2> HIDE DEF T, n
    <2> QED
      BY <1>0, <1>2, <1>3, UpTo
  <1> QED
    BY <1>0, <1>1, <1>4

\* The messages of some rows are there.
LEMMA MessageThere ==
  ASSUME LogTypeOK, RowsKnown, NEW rows \in Seq(Ids), NEW k \in 1..Len(rows),
         log[rows[k]].type = "message"
  PROVE  log[rows[k]].msg \in Elements(MessagesOf(rows))
  <1> DEFINE A == {i \in 1..Len(log) : log[i].type = "message"}
  <1>1. rows[k] \in Ids /\ rows[k] \in Elements(rows)
    BY DEF Elements
  <1>2. rows[k] \in A
    BY <1>1 DEF Ids
  <1>3. Elements(MessageRows(rows)) = Elements(rows) \cap A
    <2> HIDE DEF A
    <2>1. Elements(Only(rows, A)) = Elements(rows) \cap A
      BY OnlyRange, Zenon
    <2> QED
      BY <2>1 DEF MessageRows, A
  <1>4. PICK j \in 1..Len(MessageRows(rows)) : MessageRows(rows)[j] = rows[k]
    BY <1>1, <1>2, <1>3 DEF Elements
  <1>5. MessagesOf(rows)[j] = log[rows[k]].msg
    BY <1>4, MessagesOfType
  <1>6. Len(MessagesOf(rows)) = Len(MessageRows(rows))
    BY MessagesOfType
  <1> QED
    BY <1>4, <1>5, <1>6 DEF Elements

\* Elements of what is put together from parts.
LEMMA ConcatElements ==
  ASSUME NEW S, NEW a \in S, NEW s \in Seq(S), NEW t \in Seq(S), NEW e,
         e \in Elements(s) \/ e \in Elements(t)
  PROVE  e \in Elements(<<a>> \o s \o t)
  <1>1. <<a>> \in Seq(S) /\ <<a>> \o s \in Seq(S)
    OBVIOUS
  <1>2. Elements(<<a>> \o s) = Elements(<<a>>) \cup Elements(s)
    BY <1>1, ElementsConcat
  <1> DEFINE u == <<a>> \o s
  <1>3. u \in Seq(S)
    BY <1>1
  <1> HIDE DEF u
  <1>4. Elements(u \o t) = Elements(u) \cup Elements(t)
    BY <1>3, ElementsConcat
  <1> QED
    BY <1>2, <1>4 DEF u

\* What a restart loads from a log like that.
LEMMA LinearContext ==
  ASSUME LogTypeOK, RowsKnown, KeptKnown, Linear,
         NEW i \in 1..Len(log), log[i].type = "message"
  PROVE  \/ log[i].msg \in Elements(Context(Branch))
         \/ \E c \in 1..Len(log) : /\ log[c].type = "compaction"
                                   /\ i < log[c].kept
                                   /\ \A d \in (c + 1)..Len(log) :
                                        log[d].type # "compaction"
  <1> DEFINE n == Len(log)
  <1>0. n \in Nat
    BY RowFacts
  <1>1. Branch \in Seq(Ids) /\ Len(Branch) = n /\ \A j \in 1..n : Branch[j] = j
    BY LinearBranch
  <1>2. CASE Compactions(Branch) = {}
    <2>1. log[Branch[i]].msg \in Elements(MessagesOf(Branch))
      BY <1>1, MessageThere
    <2> QED
      BY <1>1, <1>2, <2>1, ContextParts
  <1>3. CASE Compactions(Branch) # {}
    <2> DEFINE c == LastOf(Branch)  first == log[c].kept
    <2>1. c \in Compactions(Branch) /\ c \in 1..n
          /\ \A l \in Compactions(Branch) : l <= c
      BY <1>1, <1>3, LastIsLast
    <2>2. log[c].type = "compaction" /\ first \in 1..(c - 1)
      BY <1>1, <2>1 DEF Compactions, KeptKnown
    <2>3. \A d \in (c + 1)..n : log[d].type # "compaction"
      <3> SUFFICES ASSUME NEW d \in (c + 1)..n, log[d].type = "compaction"
                   PROVE  FALSE
        OBVIOUS
      <3>1. d \in 1..n /\ d > c
        BY <1>0, <2>1
      <3>2. d \in Compactions(Branch)
        BY <1>1, <3>1 DEF Compactions
      <3> QED
        BY <1>0, <2>1, <3>1, <3>2
    <2>4. i # c
      BY <2>2
    <2>5. KeptOf(Branch) = SubSeq(Branch, first, c - 1)
      <3>1. Firsts(Branch) = {first}
        <4>1. Firsts(Branch) = {k \in 1..(c - 1) : Branch[k] = log[Branch[c]].kept}
          BY DEF Firsts
        <4>2. Branch[c] = c /\ \A k \in 1..(c - 1) : Branch[k] = k
          BY <1>0, <1>1, <2>1
        <4> HIDE DEF c
        <4> QED
          BY <2>2, <4>1, <4>2
      <3> HIDE DEF first
      <3>2. (CHOOSE k \in Firsts(Branch) : TRUE) = first
        BY <3>1
      <3> QED
        BY <3>1, <3>2 DEF KeptOf
    <2>6. /\ KeptOf(Branch) \in Seq(Ids) /\ After(Branch) \in Seq(Ids)
          /\ MessagesOf(KeptOf(Branch)) \in Seq(Messages)
          /\ MessagesOf(After(Branch)) \in Seq(Messages)
      BY <1>1, <1>3, PartsType, MessagesOfType, UserSeqs
    <2>7. Context(Branch) = <<Summary>> \o MessagesOf(KeptOf(Branch))
                                        \o MessagesOf(After(Branch))
      BY <1>3, ContextParts
    <2>a. /\ c \in Nat /\ first \in Nat /\ 1 <= first /\ first <= c - 1 /\ c <= n
      BY <1>0, <2>1, <2>2
    <2>8. CASE i < first
      BY <2>1, <2>2, <2>3, <2>8
    <2>9. CASE first <= i /\ i < c
      <3> DEFINE k == i - first + 1  rows == SubSeq(Branch, first, c - 1)
      <3> HIDE DEF c, first
      <3>1. k \in 1..Len(rows) /\ rows[k] = Branch[i]
        BY <1>0, <1>1, <2>a, <2>9
      <3>2. rows \in Seq(Ids) /\ rows = KeptOf(Branch)
        BY <2>5, <2>6
      <3> HIDE DEF rows, k
      <3>3. log[rows[k]].msg \in Elements(MessagesOf(rows))
        BY <1>1, <3>1, <3>2, MessageThere
      <3>4. log[i].msg \in Elements(MessagesOf(KeptOf(Branch)))
        BY <1>1, <3>1, <3>2, <3>3
      <3> QED
        BY <2>6, <2>7, <3>4, ConcatElements, MessageNumbers DEF Summary
    <2>10. CASE c < i
      <3> DEFINE k == i - c  rows == After(Branch)
      <3>0. rows = SubSeq(Branch, c + 1, n)
        BY <1>1 DEF After
      <3> HIDE DEF c, first
      <3>1. k \in 1..Len(rows) /\ rows[k] = Branch[i]
        BY <1>0, <1>1, <2>a, <2>10, <3>0
      <3>2. rows \in Seq(Ids)
        BY <2>6
      <3> HIDE DEF rows, k
      <3>3. log[rows[k]].msg \in Elements(MessagesOf(rows))
        BY <1>1, <3>1, <3>2, MessageThere
      <3>4. log[i].msg \in Elements(MessagesOf(After(Branch)))
        BY <1>1, <3>1, <3>3 DEF rows
      <3> QED
        BY <2>6, <2>7, <3>4, ConcatElements, MessageNumbers DEF Summary
    <2> QED
      BY <1>0, <2>4, <2>8, <2>9, <2>10, <2>a
  <1> QED
    BY <1>2, <1>3

\* A turn that has a plan either chose it in this step or had it before.
LEMMA PlanStays ==
  ASSUME HostInv, [Next]_vars, turn'.stage \in {"summarizing", "compacting"}
  PROVE  \/ Snapshot
         \/ turn.stage \in {"summarizing", "compacting"} /\ turn'.plan = turn.plan
  <1>0. turn \in Turns /\ turn \in Turns
    BY TypeParts DEF HostInv, HostVarsOK
  <1>a. ASSUME turn' = turn PROVE turn.stage \in {"summarizing", "compacting"}
                                  /\ turn'.plan = turn.plan
    BY <1>a
  <1>b. ASSUME turn'.stage \in {"none", "prep", "ready", "running", "hook",
                                "noting", "parting", "backoff"}
        PROVE  FALSE
    BY <1>b
  <1>c. ASSUME Finish PROVE FALSE
    <2>1. turn'.stage \in {"none", "prep"}
      BY <1>c, Finished, NextStarts
    <2> QED
      BY <2>1
  <1>1. CASE UNCHANGED vars
    BY <1>1, <1>a DEF vars, hostVars
  <1>2. CASE TurnStep /\ ~Snapshot
    <2>1. CASE NothingToContinue \/ NothingToCompact \/ HookPasses \/ StopNoted
      BY <2>1, <1>c DEF NothingToContinue, NothingToCompact, HookPasses, StopNoted
    <2>2. CASE TurnBegins \/ CompactionApplied \/ BackoffEnds \/ NoteWrites
               \/ RunSucceeds \/ HookStops \/ HookContinues
      BY <2>2, <1>0, <1>b DEF TurnBegins, CompactionApplied, BackoffEnds,
         NoteWrites, RunSucceeds, HookStops, HookContinues, To, Turns
    <2>3. CASE SummaryFails \/ RunFails
      <3>1. Retry \/ FallBack
        BY <2>3, <1>c DEF SummaryFails, RunFails, AttemptFails
      <3> QED
        BY <3>1, <1>0, <1>b DEF Retry, FallBack, Turns
    <2>4. CASE Summarized
      <3>1. turn.stage = "summarizing" /\ turn'.plan = turn.plan
        BY <2>4, <1>0 DEF Summarized, Polled, To, Turns
      <3> QED
        BY <3>1
    <2>5. CASE RunAdvances \/ ListenerReads \/ ListenerWrites
      BY <2>5, <1>a DEF RunAdvances, ListenerReads, ListenerWrites, hostVars
    <2> QED
      BY <1>2, <2>1, <2>2, <2>3, <2>4, <2>5 DEF TurnStep
  <1>3. CASE Command
    <2>1. CASE turn' = turn
      BY <2>1, <1>a
    <2>2. CASE turn' # turn
      <3>1. \/ \E k, s : turn' = Turn(k, s)
            \/ \E q, m : StartNext(q, m) /\ q = queue /\ m \in BOOLEAN
        BY <1>3, <2>2 DEF Command, Submit, SubmitInterrupt, PromptPersisted,
           PromptNotPersisted, SetModel, ModelSet, AgentPrompt, Compact, Abort,
           StartOrQueue, TurnOf, hostVars
      <3>2. CASE \E k, s : turn' = Turn(k, s)
        BY <3>2, <1>b DEF Turn
      <3>3. CASE \E q, m : StartNext(q, m) /\ q = queue /\ m \in BOOLEAN
        <4>1. turn'.stage \in {"none", "prep"}
          BY <3>3, NextStarts
        <4> QED
          BY <4>1
      <3> QED
        BY <3>1, <3>2, <3>3
    <2> QED
      BY <2>1, <2>2
  <1>4. CASE TriggerStep
    <2>1. CASE TriggeredTurn
      <3>1. turn' \in {Turn("plain", <<>>), NoTurn}
        BY <2>1 DEF TriggeredTurn
      <3>2. turn'.stage \in {"prep", "none"}
        BY <3>1, NoTurnType DEF Turn
      <3> QED
        BY <3>2, <1>b
    <2>2. CASE ~TriggeredTurn
      BY <1>4, <2>2, <1>a DEF TriggerStep, TriggerFires, TriggerReads,
         TriggerWrites, TriggerPushes, TriggerAudits, hostVars
    <2> QED
      BY <2>1, <2>2
  <1>5. CASE Crash
    BY <1>5, <1>b, NoTurnType DEF Crash
  <1> QED
    BY <1>1, <1>2, <1>3, <1>4, <1>5 DEF Next

\* The log only grows.
LEMMA LogGrows ==
  ASSUME HostInv, [Next]_vars
  PROVE  /\ Len(log)' \in Nat /\ Len(log)' >= Len(log)
         /\ \A i \in 1..Len(log) : log'[i] = log[i]
         /\ \A i \in 1..Len(log)' :
              \/ i \in 1..Len(log)
              \/ log'[i].type # "compaction"
              \/ turn.stage = "compacting" /\ log'[i].kept = turn.plan.kept
  <1>0. /\ Len(log) \in Nat
        /\ {"custom", "message", "compaction"} \subseteq RowTypes
        /\ Summary \in Nat /\ 0 \in Nat /\ 0 \in 0..Len(log)
        /\ turn.plan.kept \in 0..Len(log)
        /\ Users \subseteq Nat
    <2>1. LogTypeOK /\ turn \in Turns
      BY TypeParts DEF HostInv, HostVarsOK
    <2>2. turn.plan.kept \in Nat
      BY <2>1 DEF Turns
    <2>3. turn.plan.kept <= Len(log)
      BY DEF HostInv, HostShape
    <2>4. Len(log) \in Nat
      BY <2>1, RowFacts
    <2> QED
      BY <2>2, <2>3, <2>4, MessageNumbers DEF RowTypes, Summary
  <1>1. CASE log' = log
    BY <1>0, <1>1
  <1>2. ASSUME NEW w \in Writers, NEW t \in RowTypes, NEW m \in Nat,
               NEW kept \in 0..Len(log), WriteRow(w, t, m, kept)
        PROVE  /\ Len(log)' = Len(log) + 1
               /\ \A i \in 1..Len(log) : log'[i] = log[i]
               /\ log'[Len(log) + 1].type = t
               /\ log'[Len(log) + 1].kept = kept
    BY <1>2, RowStands
  <1>3. ASSUME NEW w \in Writers, WriteRow(w, "custom", 0, 0)
        PROVE  /\ Len(log)' = Len(log) + 1
               /\ \A i \in 1..Len(log) : log'[i] = log[i]
               /\ log'[Len(log) + 1].type = "custom"
    BY <1>0, <1>2, <1>3
  <1>4. ASSUME NEW w \in Writers, NEW m \in Users, WriteRow(w, "message", m, 0)
        PROVE  /\ Len(log)' = Len(log) + 1
               /\ \A i \in 1..Len(log) : log'[i] = log[i]
               /\ log'[Len(log) + 1].type = "message"
    BY <1>0, <1>2, <1>4
  <1>5. ASSUME NEW w \in Writers, WriteRow(w, "compaction", Summary, turn.plan.kept)
        PROVE  /\ Len(log)' = Len(log) + 1
               /\ \A i \in 1..Len(log) : log'[i] = log[i]
               /\ log'[Len(log) + 1].kept = turn.plan.kept
    BY <1>0, <1>2, <1>5
  <1>6. LogMoves
    BY LogStep
  <1>7. CASE log' # log
    <2>1. /\ Len(log)' = Len(log) + 1
          /\ \A i \in 1..Len(log) : log'[i] = log[i]
          /\ \/ log'[Len(log) + 1].type \in {"custom", "message"}
             \/ /\ turn.stage = "compacting"
                /\ log'[Len(log) + 1].kept = turn.plan.kept
      BY <1>3, <1>4, <1>5, <1>6, <1>7 DEF LogMoves
    <2> QED
      BY <1>0, <2>1
  <1> QED
    BY <1>1, <1>7

\* Every step keeps the rows that compactions name known.
LEMMA KeptNext ==
  ASSUME HostInv, KeptKnown, [Next]_vars
  PROVE  KeptKnown'
  <1>0. LogTypeOK /\ Len(log) \in Nat
    BY TypeParts, RowFacts DEF HostInv
  <1>1. /\ Len(log)' \in Nat /\ Len(log)' >= Len(log)
        /\ \A i \in 1..Len(log) : log'[i] = log[i]
        /\ \A i \in 1..Len(log)' :
              \/ i \in 1..Len(log)
              \/ log'[i].type # "compaction"
              \/ turn.stage = "compacting" /\ log'[i].kept = turn.plan.kept
    BY LogGrows
  <1>2. /\ \A i \in 1..Len(log) :
             log[i].type = "compaction" => log[i].kept \in 1..(i - 1)
        /\ turn.stage \in {"summarizing", "compacting"}
             => turn.plan.kept \in 1..Len(log)
    BY DEF KeptKnown
  <1>3. ASSUME NEW i \in 1..Len(log)', log'[i].type = "compaction"
        PROVE  log'[i].kept \in 1..(i - 1)
    BY <1>0, <1>1, <1>2, <1>3
  <1>4. ASSUME turn'.stage \in {"summarizing", "compacting"}
        PROVE  turn'.plan.kept \in 1..Len(log)'
    <2>1. CASE Snapshot
      <3>1. PICK k \in CutPoints(Branch) :
              turn' = [turn EXCEPT !.stage = "summarizing",
                                   !.plan = CompactionPlan(Branch, k)]
        BY <2>1 DEF Snapshot
      <3>2. turn'.plan = CompactionPlan(Branch, k)
        BY <3>1, TypeParts DEF HostInv, HostVarsOK, Turns
      <3>3. CompactionPlan(Branch, k).kept \in Ids
        BY <1>0, PlanType
      <3> QED
        BY <1>0, <1>1, <3>2, <3>3 DEF Ids
    <2>2. CASE turn.stage \in {"summarizing", "compacting"} /\ turn'.plan = turn.plan
      BY <1>0, <1>1, <1>2, <2>2
    <2> QED
      BY <1>4, <2>1, <2>2, PlanStays
  <1> QED
    BY <1>3, <1>4 DEF KeptKnown

\* While no append forked the log, a restart has each message of the log in the
\* context it loads, or in the summary of the last compaction.
THEOREM RestartKeepsMessages == Spec => []RestartLosesNothing
  <1>1. Init => KeptKnown
    BY NoTurnType DEF Init, LogInit, KeptKnown
  <1>2. HostInv /\ KeptKnown /\ [Next]_vars => KeptKnown'
    BY KeptNext
  <1>3. HostInv /\ RowsKnown /\ KeptKnown => RestartLosesNothing
    <2> SUFFICES ASSUME HostInv, RowsKnown, KeptKnown, Linear,
                        NEW i \in 1..Len(log), log[i].type = "message"
                 PROVE  \/ log[i].msg \in Elements(Context(Branch))
                        \/ \E c \in 1..Len(log) :
                             /\ log[c].type = "compaction"
                             /\ i < log[c].kept
                             /\ \A d \in (c + 1)..Len(log) :
                                  log[d].type # "compaction"
      BY DEF RestartLosesNothing
    <2>1. LogTypeOK
      BY TypeParts DEF HostInv
    <2> QED
      BY <2>1, LinearContext
  <1> QED
    BY <1>1, <1>2, <1>3, HostAlways, PTL DEF Spec

-----------------------------------------------------------------------------
(***************************************************************************)
(* Memory mirrors the log.  The log and its rows are arguments of what     *)
(* follows, so that the context of a log with one row more can be told     *)
(* from the one before.                                                    *)
(***************************************************************************)
Texted(l) == {i \in 1..Len(l) : l[i].type = "message"}

Texts(l, rows) == LET ms == Only(rows, Texted(l))
                  IN  [k \in 1..Len(ms) |-> l[ms[k]].msg]

Cuts(l, rows) == {k \in 1..Len(rows) : l[rows[k]].type = "compaction"}

LastCut(l, rows) == CHOOSE k \in Cuts(l, rows) : \A j \in Cuts(l, rows) : j <= k

Cutting(l, rows) == {k \in 1..(LastCut(l, rows) - 1) :
                       rows[k] = l[rows[LastCut(l, rows)]].kept}

Tailed(l, rows) == IF Cutting(l, rows) = {} THEN <<>>
                   ELSE SubSeq(rows, CHOOSE k \in Cutting(l, rows) : TRUE,
                               LastCut(l, rows) - 1)

Load(l, rows) ==
  IF Cuts(l, rows) = {} THEN Texts(l, rows)
  ELSE <<Summary>> \o Texts(l, Tailed(l, rows))
                   \o Texts(l, SubSeq(rows, LastCut(l, rows) + 1, Len(rows)))

Plan(l, rows, k) == [kept |-> rows[k],
                     before |-> Len(Only(SubSeq(rows, 1, k - 1), Texted(l)))]

\* The context is what they load from the log, the plan what they cut of it.
Loading == /\ Context(Branch) = Load(log, Branch)
           /\ \A k : CompactionPlan(Branch, k) = Plan(log, Branch, k)

\* The context and the plans are computed from the log and the branch alone.
LEMMA ContextLoads == Loading
  <1>1. \A rows : MessagesOf(rows) = Texts(log, rows)
    BY Zenon DEF MessagesOf, MessageRows, Texts, Texted
  <1>2. \A rows : Compactions(rows) = Cuts(log, rows)
    BY Zenon DEF Compactions, Cuts
  <1>3. LastOf(Branch) = LastCut(log, Branch)
    BY <1>2, Zenon DEF LastOf, LastCut
  <1>4. Firsts(Branch) = Cutting(log, Branch)
    BY <1>3, Zenon DEF Firsts, Cutting
  <1>5. KeptOf(Branch) = Tailed(log, Branch)
    <2>1. KeptOf(Branch)
            = IF Cutting(log, Branch) = {} THEN <<>>
              ELSE SubSeq(Branch, CHOOSE k \in Cutting(log, Branch) : TRUE,
                          LastCut(log, Branch) - 1)
      BY <1>3, <1>4, SMT DEF KeptOf
    <2> QED
      BY <2>1, SMT DEF Tailed
  <1>6. Context(Branch) = Load(log, Branch)
    <2>1. CASE Compactions(Branch) = {}
      BY <2>1, <1>1, <1>2, ContextParts, Zenon DEF Load
    <2>2. CASE Compactions(Branch) # {}
      BY <2>2, <1>1, <1>2, <1>3, <1>5, ContextParts, Zenon DEF Load, After
    <2> QED
      BY <2>1, <2>2
  <1>7. \A k : CompactionPlan(Branch, k) = Plan(log, Branch, k)
    BY Zenon DEF CompactionPlan, Plan, MessageRows, Texted
  <1> QED
    BY <1>6, <1>7 DEF Loading

\* A log with one row more.
LEMMA LogLonger ==
  ASSUME NEW l \in Seq(Rows), NEW r \in Rows
  PROVE  /\ Append(l, r) \in Seq(Rows) /\ Len(Append(l, r)) = Len(l) + 1
         /\ Append(l, r)[Len(l) + 1] = r /\ Len(l) \in Nat
         /\ \A i \in 1..Len(l) : Append(l, r)[i] = l[i]
         /\ \A i \in 1..Len(l) : i \in Texted(Append(l, r)) <=> i \in Texted(l)
         /\ Len(l) + 1 \in Texted(Append(l, r)) <=> r.type = "message"
         /\ \A rows \in Seq(1..Len(l)) :
              rows \in Seq(1..Len(Append(l, r)))
  <1> DEFINE l2 == Append(l, r)  n == Len(l)
  <1>1. /\ l2 \in Seq(Rows) /\ Len(l2) = n + 1 /\ l2[n + 1] = r /\ n \in Nat
        /\ \A i \in 1..n : l2[i] = l[i]
    OBVIOUS
  <1> HIDE DEF l2
  <1>2. 1..n \subseteq 1..(n + 1) /\ n + 1 \in 1..(n + 1)
    BY <1>1
  <1>3. /\ \A i \in 1..n : i \in Texted(l2) <=> i \in Texted(l)
        /\ n + 1 \in Texted(l2) <=> r.type = "message"
    BY <1>1, <1>2 DEF Texted
  <1>4. \A rows \in Seq(1..n) : rows \in Seq(1..Len(l2))
    BY <1>1, <1>2, SeqMonotonic
  <1> QED
    BY <1>1, <1>3, <1>4 DEF l2

\* The messages of some rows, one for each of those that carry one.
LEMMA TextsType ==
  ASSUME NEW l \in Seq(Rows), NEW rows \in Seq(1..Len(l))
  PROVE  /\ Only(rows, Texted(l)) \in Seq(1..Len(l))
         /\ Texts(l, rows) \in Seq(Nat)
         /\ Len(Texts(l, rows)) = Len(Only(rows, Texted(l)))
         /\ \A k \in 1..Len(Only(rows, Texted(l))) :
              Texts(l, rows)[k] = l[Only(rows, Texted(l))[k]].msg
  <1> DEFINE ms == Only(rows, Texted(l))
  <1>1. ms \in Seq(1..Len(l))
    BY OnlySeq, Zenon
  <1>2. Texts(l, rows) = [k \in 1..Len(ms) |-> l[ms[k]].msg]
    BY Zenon DEF Texts
  <1> HIDE DEF ms
  <1>3. \A k \in 1..Len(ms) : l[ms[k]].msg \in Nat
    <2> SUFFICES ASSUME NEW k \in 1..Len(ms) PROVE l[ms[k]].msg \in Nat
      OBVIOUS
    <2>1. ms[k] \in 1..Len(l)
      BY <1>1
    <2>2. l[ms[k]] \in Rows
      BY <2>1
    <2> QED
      BY <2>2 DEF Rows
  <1>4. Len(ms) \in Nat
    BY <1>1
  <1>5. Texts(l, rows) \in Seq(Nat) /\ Len(Texts(l, rows)) = Len(ms)
    BY <1>2, <1>3, <1>4
  <1> QED
    BY <1>1, <1>2, <1>5 DEF ms

\* The new row changes nothing for the others.
LEMMA TextsStay ==
  ASSUME NEW l \in Seq(Rows), NEW r \in Rows, NEW rows \in Seq(1..Len(l))
  PROVE  /\ Only(rows, Texted(Append(l, r))) = Only(rows, Texted(l))
         /\ Texts(Append(l, r), rows) = Texts(l, rows)
  <1> DEFINE l2 == Append(l, r)  ms == Only(rows, Texted(l))
  <1>1. /\ \A i \in 1..Len(l) : i \in Texted(l2) <=> i \in Texted(l)
        /\ \A i \in 1..Len(l) : l2[i] = l[i]
    BY LogLonger
  <1> HIDE DEF l2
  <1>2. Only(rows, Texted(l2)) = ms
    <2> HIDE DEF ms
    <2>1. \A S, s, A, B : (s \in Seq(S) /\ \A e \in S : e \in A <=> e \in B)
                            => Only(s, A) = Only(s, B)
      BY OnlySame
    <2>2. Only(rows, Texted(l2)) = Only(rows, Texted(l))
      BY <1>1, <2>1, SMT
    <2> QED
      BY <2>2 DEF ms
  <1>3. ms \in Seq(1..Len(l))
    BY TextsType
  <1> HIDE DEF ms
  <1>4. \A k \in 1..Len(ms) : l2[ms[k]].msg = l[ms[k]].msg
    BY <1>1, <1>3
  <1>5. /\ Texts(l, rows) = [k \in 1..Len(ms) |-> l[ms[k]].msg]
        /\ Texts(l2, rows) = [k \in 1..Len(ms) |-> l2[ms[k]].msg]
    BY <1>2, Zenon DEF Texts, ms
  <1>6. Texts(l2, rows) = Texts(l, rows)
    BY <1>4, <1>5
  <1> QED
    BY <1>2, <1>6 DEF l2, ms

\* On a branch it comes last, and adds its message if it has one.
LEMMA TextsGrow ==
  ASSUME NEW l \in Seq(Rows), NEW r \in Rows, NEW rows \in Seq(1..Len(l))
  PROVE  Texts(Append(l, r), Append(rows, Len(l) + 1))
           = IF r.type = "message" THEN Append(Texts(l, rows), r.msg)
             ELSE Texts(l, rows)
  <1> DEFINE l2 == Append(l, r)  e == Len(l) + 1  rows2 == Append(rows, e)
             ms == Only(rows, Texted(l2))
  <1>1. /\ l2 \in Seq(Rows) /\ Len(l2) = e /\ l2[e] = r /\ e \in Nat
        /\ e \in Texted(l2) <=> r.type = "message"
        /\ rows \in Seq(1..Len(l2)) /\ e \in 1..Len(l2)
    BY LogLonger
  <1>2. Texts(l2, rows) = Texts(l, rows)
    BY TextsStay
  <1> HIDE DEF l2, e
  <1>3. /\ ms \in Seq(1..Len(l2)) /\ Texts(l2, rows) \in Seq(Nat)
        /\ Len(Texts(l2, rows)) = Len(ms)
        /\ \A k \in 1..Len(ms) : Texts(l2, rows)[k] = l2[ms[k]].msg
    BY <1>1, TextsType
  <1>4. CASE e \in Texted(l2)
    <2>1. Only(rows2, Texted(l2)) = Append(ms, e)
      BY <1>1, <1>4, OnlyAppend, Zenon
    <2> DEFINE ms2 == Append(ms, e)  t == Texts(l2, rows)  t2 == Texts(l2, rows2)
    <2> HIDE DEF ms, rows2
    <2>2. t2 = [k \in 1..Len(ms2) |-> l2[ms2[k]].msg]
      BY <2>1, Zenon DEF Texts
    <2>3. /\ Len(ms2) = Len(ms) + 1 /\ ms2[Len(ms) + 1] = e /\ Len(ms) \in Nat
          /\ \A k \in 1..Len(ms) : ms2[k] = ms[k]
      BY <1>1, <1>3
    <2>4. r.msg \in Nat
      BY DEF Rows
    <2> HIDE DEF ms2, t, t2
    <2>5. t2 = [k \in 1..(Len(ms) + 1) |-> l2[ms2[k]].msg]
      BY <2>2, <2>3
    <2>6. /\ t \in Seq(Nat) /\ Len(t) = Len(ms)
          /\ \A k \in 1..Len(ms) : t[k] = l2[ms[k]].msg
      BY <1>3 DEF t
    <2>7. /\ \A k \in 1..Len(ms) : t2[k] = t[k]
          /\ t2[Len(ms) + 1] = r.msg
      BY <2>3, <2>5, <2>6, <1>1
    <2>8. t2 = Append(t, r.msg)
      <3> DEFINE a == Append(t, r.msg)
      <3>1. /\ a \in Seq(Nat) /\ Len(a) = Len(ms) + 1
            /\ \A k \in 1..Len(ms) : a[k] = t[k]
            /\ a[Len(ms) + 1] = r.msg
        BY <2>4, <2>6
      <3> HIDE DEF a
      <3>2. \A k \in 1..(Len(ms) + 1) : a[k] = t2[k]
        BY <2>3, <2>7, <3>1
      <3>3. a = [k \in 1..(Len(ms) + 1) |-> a[k]]
        BY <3>1
      <3>4. a = [k \in 1..(Len(ms) + 1) |-> t2[k]]
        BY <3>2, <3>3
      <3>5. t2 = [k \in 1..(Len(ms) + 1) |-> t2[k]]
        BY <2>5
      <3> QED
        BY <3>4, <3>5 DEF a
    <2> QED
      BY <1>1, <1>2, <1>4, <2>8 DEF t, t2, rows2, e, l2
  <1>5. CASE e \notin Texted(l2)
    <2>1. Only(rows2, Texted(l2)) = ms
      BY <1>1, <1>5, OnlyAppend, Zenon
    <2>2. Texts(l2, rows2) = Texts(l2, rows)
      BY <2>1, Zenon DEF Texts
    <2> QED
      BY <1>1, <1>2, <1>5, <2>2 DEF rows2, e, l2
  <1> QED
    BY <1>4, <1>5

\* The rows of a branch are in the order they were written.
Rising(s) == \A i, j \in 1..Len(s) : i < j => s[i] < s[j]

\* A later row at the end keeps the order.
LEMMA RisingAppend ==
  ASSUME NEW s \in Seq(Nat), Rising(s), NEW n \in Nat,
         \A i \in 1..Len(s) : s[i] < n
  PROVE  /\ Rising(Append(s, n))
         /\ \A i \in 1..Len(Append(s, n)) : Append(s, n)[i] <= n
  <1> DEFINE t == Append(s, n)
  <1>1. /\ Len(t) = Len(s) + 1 /\ t[Len(s) + 1] = n /\ Len(s) \in Nat
        /\ \A i \in 1..Len(s) : t[i] = s[i] /\ s[i] \in Nat
    OBVIOUS
  <1> HIDE DEF t
  <1>2. \A i \in 1..Len(t) : i \in 1..Len(s) \/ i = Len(s) + 1
    BY <1>1
  <1>3. Rising(t)
    BY <1>1, <1>2 DEF Rising
  <1>4. \A i \in 1..Len(t) : t[i] <= n
    BY <1>1, <1>2
  <1> QED
    BY <1>3, <1>4 DEF t

\* A branch goes from earlier rows to later ones, as parents come first.
LEMMA BranchRises ==
  ASSUME LogTypeOK
  PROVE  Rising(Branch)
  <1> DEFINE n == Len(log)
             Good(i, s) == Rising(s) /\ \A j \in 1..Len(s) : s[j] <= i
  <1>0. n \in Nat /\ \A i \in 1..n : log[i].parent \in 0..(i - 1)
    BY RowFacts
  <1>1. PICK g \in [0..n -> Seq(Ids)] : Leads(g, n, log) /\ Branch = g[n]
    BY BranchPath, Zenon DEF BranchIsPath
  <1>2. \A i \in 0..n : g[i] \in Seq(Nat)
    <2>1. Ids \subseteq Nat
      BY <1>0 DEF Ids
    <2> QED
      BY <2>1, <1>1, SeqMonotonic
  <1> DEFINE T == {m \in 0..n : \A i \in 0..m : Good(i, g[i])}
  <1>3. 0 \in T
    <2>1. g[0] = <<>>
      BY <1>1, Zenon DEF Leads
    <2>2. Good(0, <<>>)
      BY DEF Rising
    <2>3. 0 \in 0..n /\ \A i \in 0..0 : i = 0
      BY <1>0
    <2> QED
      BY <2>1, <2>2, <2>3
  <1>4. ASSUME NEW m \in 1..n, m - 1 \in T PROVE m \in T
    <2>1. /\ m \in 0..n /\ log[m].parent \in 0..(m - 1)
          /\ \A j \in 0..m : j = m \/ j \in 0..(m - 1)
          /\ log[m].parent \in 0..n /\ m \in Nat
      BY <1>0
    <2>2. g[m] = Append(g[log[m].parent], m)
      BY <1>1, Zenon DEF Leads
    <2> DEFINE p == log[m].parent  s == g[p]
    <2>3. Good(p, s)
      BY <1>4, <2>1
    <2>4. s \in Seq(Nat) /\ p \in Nat /\ p < m
      BY <1>2, <2>1
    <2> HIDE DEF p, s
    <2>5. \A i \in 1..Len(s) : s[i] < m
      <3>1. \A i \in 1..Len(s) : s[i] \in Nat /\ s[i] <= p
        BY <2>3, <2>4
      <3> QED
        BY <3>1, <2>1, <2>4
    <2>6. Good(m, Append(s, m))
      BY <2>1, <2>3, <2>4, <2>5, RisingAppend
    <2>7. Good(m, g[m])
      BY <2>2, <2>6 DEF s, p
    <2> HIDE DEF Good
    <2> QED
      BY <1>4, <2>1, <2>7
  <1>5. n \in T
    <2> HIDE DEF T, n
    <2> QED
      BY <1>0, <1>3, <1>4, UpTo
  <1>6. n \in 0..n
    BY <1>0
  <1> QED
    BY <1>1, <1>5, <1>6

\* The last compaction among some rows.
LEMMA LastCutThere ==
  ASSUME NEW l, NEW rows, Len(rows) \in Nat, Cuts(l, rows) # {}
  PROVE  /\ LastCut(l, rows) \in Cuts(l, rows)
         /\ LastCut(l, rows) \in 1..Len(rows)
  <1>1. Cuts(l, rows) \subseteq 1..Len(rows)
    BY DEF Cuts
  <1>2. IsFiniteSet(Cuts(l, rows)) /\ Cuts(l, rows) \in SUBSET Nat
    <2>1. IsFiniteSet(1..Len(rows))
      BY FS_Interval
    <2> QED
      BY <1>1, <2>1, FS_Subset
  <1>3. \E k \in Cuts(l, rows) : \A j \in Cuts(l, rows) : k >= j
    BY <1>2, FiniteNatMax
  <1>4. \E k \in Cuts(l, rows) : \A j \in Cuts(l, rows) : j <= k
    BY <1>2, <1>3
  <1>5. LastCut(l, rows) \in Cuts(l, rows)
    BY <1>4, Zenon DEF LastCut
  <1> QED
    BY <1>1, <1>5

\* What is loaded of the last compaction.
LEMMA TailedType ==
  ASSUME NEW l \in Seq(Rows), NEW rows \in Seq(1..Len(l)), Cuts(l, rows) # {}
  PROVE  /\ Tailed(l, rows) \in Seq(1..Len(l))
         /\ SubSeq(rows, LastCut(l, rows) + 1, Len(rows)) \in Seq(1..Len(l))
  <1> DEFINE c == LastCut(l, rows)  S == 1..Len(l)
  <1>1. c \in 1..Len(rows) /\ Len(rows) \in Nat
    BY LastCutThere
  <1> HIDE DEF c, S
  <1>2. rows \in Seq(S)
    BY DEF S
  <1>3. SubSeq(rows, c + 1, Len(rows)) \in Seq(S)
    BY <1>1, <1>2
  <1>4. CASE Cutting(l, rows) = {}
    <2>1. Tailed(l, rows) = <<>>
      BY <1>4 DEF Tailed
    <2> QED
      BY <2>1, <1>3 DEF c, S
  <1>5. CASE Cutting(l, rows) # {}
    <2>1. PICK k \in Cutting(l, rows) : Tailed(l, rows) = SubSeq(rows, k, c - 1)
      BY <1>5 DEF Tailed, c
    <2>2. k \in 1..(c - 1)
      BY <2>1 DEF Cutting, c
    <2>3. SubSeq(rows, k, c - 1) \in Seq(S)
      BY <1>1, <1>2, <2>2
    <2> QED
      BY <1>3, <2>1, <2>3 DEF c, S
  <1> QED
    BY <1>4, <1>5

\* What is loaded are messages or the summary.
LEMMA LoadType ==
  ASSUME NEW l \in Seq(Rows), NEW rows \in Seq(1..Len(l))
  PROVE  Load(l, rows) \in Seq(Nat)
  <1>1. CASE Cuts(l, rows) = {}
    BY <1>1, TextsType DEF Load
  <1>2. CASE Cuts(l, rows) # {}
    <2> DEFINE a == Texts(l, Tailed(l, rows))
               b == Texts(l, SubSeq(rows, LastCut(l, rows) + 1, Len(rows)))
    <2>1. a \in Seq(Nat) /\ b \in Seq(Nat)
      BY <1>2, TailedType, TextsType, Zenon
    <2>2. Load(l, rows) = <<Summary>> \o a \o b
      BY <1>2, Zenon DEF Load
    <2> HIDE DEF a, b
    <2>3. <<Summary>> \in Seq(Nat)
      BY DEF Summary
    <2>4. <<Summary>> \o a \in Seq(Nat)
      BY <2>1, <2>3
    <2>5. <<Summary>> \o a \o b \in Seq(Nat)
      BY <2>1, <2>4
    <2> QED
      BY <2>2, <2>5
  <1> QED
    BY <1>1, <1>2

\* A row that is no compaction leaves the last one where it was.
LEMMA CutsStay ==
  ASSUME NEW l \in Seq(Rows), NEW r \in Rows, r.type # "compaction",
         NEW rows \in Seq(1..Len(l))
  PROVE  /\ Cuts(Append(l, r), Append(rows, Len(l) + 1)) = Cuts(l, rows)
         /\ LastCut(Append(l, r), Append(rows, Len(l) + 1)) = LastCut(l, rows)
  <1> DEFINE l2 == Append(l, r)  rows2 == Append(rows, Len(l) + 1)
  <1>1. /\ Len(rows2) = Len(rows) + 1 /\ Len(rows) \in Nat
        /\ rows2[Len(rows) + 1] = Len(l) + 1
        /\ \A k \in 1..Len(rows) : rows2[k] = rows[k] /\ rows[k] \in 1..Len(l)
    OBVIOUS
  <1>2. l2[Len(l) + 1] = r /\ \A i \in 1..Len(l) : l2[i] = l[i]
    BY LogLonger
  <1> HIDE DEF l2, rows2
  <1>3. Cuts(l2, rows2) = Cuts(l, rows)
    <2>1. \A k \in 1..Len(rows2) : k \in 1..Len(rows) \/ k = Len(rows) + 1
      BY <1>1
    <2>2. \A k \in 1..Len(rows) : k \in 1..Len(rows2)
      BY <1>1
    <2> QED
      BY <1>1, <1>2, <2>1, <2>2 DEF Cuts
  <1>4. LastCut(l2, rows2) = LastCut(l, rows)
    BY <1>3, SMT DEF LastCut
  <1> QED
    BY <1>3, <1>4 DEF l2, rows2

\* The rows kept by the last compaction stay the same.
LEMMA TailedStays ==
  ASSUME NEW l \in Seq(Rows), NEW r \in Rows, r.type # "compaction",
         NEW rows \in Seq(1..Len(l)), Cuts(l, rows) # {}
  PROVE  Tailed(Append(l, r), Append(rows, Len(l) + 1)) = Tailed(l, rows)
  <1> DEFINE l2 == Append(l, r)  rows2 == Append(rows, Len(l) + 1)
             c == LastCut(l, rows)
  <1>1. /\ Len(rows2) = Len(rows) + 1 /\ Len(rows) \in Nat
        /\ \A k \in 1..Len(rows) : rows2[k] = rows[k] /\ rows[k] \in 1..Len(l)
    OBVIOUS
  <1>2. \A i \in 1..Len(l) : l2[i] = l[i]
    BY LogLonger
  <1>3. LastCut(l2, rows2) = c
    BY CutsStay
  <1>4. c \in 1..Len(rows)
    BY <1>1, LastCutThere
  <1> HIDE DEF l2, rows2
  <1>5. Cutting(l2, rows2) = Cutting(l, rows)
    <2> HIDE DEF c
    <2>1. /\ rows2[c] = rows[c] /\ l2[rows[c]] = l[rows[c]]
          /\ \A k \in 1..(c - 1) : rows2[k] = rows[k]
      BY <1>1, <1>2, <1>4
    <2>2. Cutting(l2, rows2) = {k \in 1..(c - 1) : rows2[k] = l2[rows2[c]].kept}
      BY <1>3 DEF Cutting
    <2>3. Cutting(l, rows) = {k \in 1..(c - 1) : rows[k] = l[rows[c]].kept}
      BY DEF Cutting, c
    <2> QED
      BY <2>1, <2>2, <2>3
  <1>6. \A k \in Cutting(l, rows) : SubSeq(rows2, k, c - 1) = SubSeq(rows, k, c - 1)
    <2>1. Cutting(l, rows) \subseteq 1..(c - 1)
      BY DEF Cutting
    <2> HIDE DEF c
    <2> SUFFICES ASSUME NEW k \in 1..(c - 1)
                 PROVE  SubSeq(rows2, k, c - 1) = SubSeq(rows, k, c - 1)
      BY <2>1
    <2>2. k \in 1..(Len(rows) + 1) /\ c - 1 \in 0..Len(rows)
      BY <1>1, <1>4
    <2>3. rows \in Seq(1..(Len(l) + 1)) /\ Len(l) + 1 \in 1..(Len(l) + 1)
      <3>1. Len(l) \in Nat
        OBVIOUS
      <3> QED
        BY <3>1
    <2> QED
      BY <2>2, <2>3, SubSeqAppend, Zenon DEF rows2
  <1> DEFINE d == CHOOSE k \in Cutting(l, rows) : TRUE
  <1>7. Tailed(l2, rows2) = IF Cutting(l, rows) = {} THEN <<>>
                            ELSE SubSeq(rows2, d, c - 1)
    BY <1>3, <1>5, SMT DEF Tailed
  <1>8. Tailed(l, rows) = IF Cutting(l, rows) = {} THEN <<>>
                          ELSE SubSeq(rows, d, c - 1)
    BY SMT DEF Tailed
  <1>9. Cutting(l, rows) # {} => d \in Cutting(l, rows)
    OBVIOUS
  <1> HIDE DEF d, c
  <1>10. Tailed(l2, rows2) = Tailed(l, rows)
    <2>1. CASE Cutting(l, rows) = {}
      BY <1>7, <1>8, <2>1
    <2>2. CASE Cutting(l, rows) # {}
      BY <1>6, <1>7, <1>8, <1>9, <2>2, Zenon
    <2> QED
      BY <2>1, <2>2
  <1> QED
    BY <1>10 DEF l2, rows2

\* Such a row adds its message to what is loaded, if it has one.
LEMMA LoadGrows ==
  ASSUME NEW l \in Seq(Rows), NEW r \in Rows, r.type # "compaction",
         NEW rows \in Seq(1..Len(l))
  PROVE  Load(Append(l, r), Append(rows, Len(l) + 1))
           = IF r.type = "message" THEN Append(Load(l, rows), r.msg)
             ELSE Load(l, rows)
  <1> DEFINE l2 == Append(l, r)  e == Len(l) + 1  rows2 == Append(rows, e)
             c == LastCut(l, rows)
  <1>1. Cuts(l2, rows2) = Cuts(l, rows) /\ LastCut(l2, rows2) = c
    BY CutsStay, Zenon
  <1>2. CASE Cuts(l, rows) = {}
    <2>1. Load(l2, rows2) = Texts(l2, rows2) /\ Load(l, rows) = Texts(l, rows)
      BY <1>1, <1>2 DEF Load
    <2>2. Texts(l2, rows2) = IF r.type = "message" THEN Append(Texts(l, rows), r.msg)
                             ELSE Texts(l, rows)
      BY TextsGrow
    <2> QED
      BY <2>1, <2>2
  <1>3. CASE Cuts(l, rows) # {}
    <2> DEFINE t == Tailed(l, rows)
               after  == SubSeq(rows, c + 1, Len(rows))
               after2 == SubSeq(rows2, c + 1, Len(rows2))
    <2>1. t \in Seq(1..Len(l)) /\ after \in Seq(1..Len(l))
      BY <1>3, TailedType, Zenon
    <2>2. Tailed(l2, rows2) = t /\ Texts(l2, t) = Texts(l, t)
      BY <1>3, <2>1, TailedStays, TextsStay, Zenon
    <2>3. c \in 1..Len(rows) /\ Len(rows) \in Nat /\ Len(l) \in Nat
      BY <1>3, LastCutThere
    <2>4. after2 = Append(after, e)
      <3>1. /\ c + 1 \in 1..(Len(rows) + 1) /\ e \in 1..e
            /\ Len(rows2) = Len(rows) + 1
        <4> HIDE DEF c
        <4> QED
          BY <2>3
      <3>2. rows \in Seq(1..e)
        BY <2>3
      <3> DEFINE S == 1..e
      <3> HIDE DEF c, e, rows2, S
      <3>3. SubSeq(Append(rows, e), c + 1, Len(rows) + 1)
              = Append(SubSeq(rows, c + 1, Len(rows)), e)
        <4> DEFINE p == c + 1
        <4>1. p \in 1..(Len(rows) + 1) /\ e \in S /\ rows \in Seq(S)
          BY <3>1, <3>2 DEF S
        <4> HIDE DEF p
        <4>2. SubSeq(Append(rows, e), p, Len(rows) + 1)
                = Append(SubSeq(rows, p, Len(rows)), e)
          BY <4>1, SubSeqAppend, Zenon
        <4> QED
          BY <4>2 DEF p
      <3> QED
        BY <3>1, <3>3 DEF rows2
    <2> DEFINE x == Texts(l, t)  y == Texts(l, after)  y2 == Texts(l2, after2)
    <2>5. y2 = IF r.type = "message" THEN Append(y, r.msg) ELSE y
      <3>1. Texts(l2, Append(after, e))
              = IF r.type = "message" THEN Append(y, r.msg) ELSE y
        <4> HIDE DEF after
        <4> QED
          BY <2>1, TextsGrow
      <3> HIDE DEF after, after2
      <3> QED
        BY <2>4, <3>1
    <2>6. /\ Load(l2, rows2) = <<Summary>> \o x \o y2
          /\ Load(l, rows) = <<Summary>> \o x \o y
      <3>1. Load(l2, rows2) = <<Summary>> \o Texts(l2, t) \o y2
        BY <1>1, <1>3, <2>2, Zenon DEF Load
      <3>2. Load(l, rows) = <<Summary>> \o x \o y
        BY <1>3, Zenon DEF Load
      <3> QED
        BY <2>2, <3>1, <3>2, Zenon
    <2>7. x \in Seq(Nat) /\ y \in Seq(Nat)
      <3> HIDE DEF t, after
      <3> QED
        BY <2>1, TextsType
    <2>8. <<Summary>> \o x \in Seq(Nat)
      <3>1. <<Summary>> \in Seq(Nat)
        BY DEF Summary
      <3> HIDE DEF x
      <3> QED
        BY <2>7, <3>1
    <2> DEFINE h == <<Summary>> \o x
    <2>9. r.msg \in Nat
      BY DEF Rows
    <2> HIDE DEF h, y
    <2>10. h \o Append(y, r.msg) = Append(h \o y, r.msg)
      <3>1. h \in Seq(Nat) /\ y \in Seq(Nat)
        BY <2>7, <2>8 DEF h, y
      <3>2. AppendsRight(Nat)
        BY AppendConcat
      <3> QED
        BY <2>9, <3>1, <3>2, Zenon DEF AppendsRight
    <2> HIDE DEF y2, x, l2, rows2
    <2>11. /\ Load(l2, rows2) = h \o y2 /\ Load(l, rows) = h \o y
      BY <2>6 DEF h
    <2>12. Load(l2, rows2) = IF r.type = "message" THEN Append(Load(l, rows), r.msg)
                             ELSE Load(l, rows)
      BY <2>5, <2>10, <2>11
    <2> QED
      BY <2>12 DEF l2, rows2, e
  <1> QED
    BY <1>2, <1>3

\* A compaction of a branch that has none loads what it makes of the memory:
\* the summary, and the messages from the first row it kept.
LEMMA LoadCut ==
  ASSUME NEW l \in Seq(Rows), NEW r \in Rows, NEW rows \in Seq(1..Len(l)),
         Rising(rows), Cuts(l, rows) = {}, NEW k \in 2..Len(rows),
         r.type = "compaction", r.kept = rows[k]
  PROVE  Load(Append(l, r), Append(rows, Len(l) + 1))
           = Replaced(Load(l, rows), Plan(l, rows, k))
  <1> DEFINE n == Len(rows)  l2 == Append(l, r)  e == Len(l) + 1
             rows2 == Append(rows, e)  S == 1..Len(l)
             a == SubSeq(rows, 1, k - 1)  b == SubSeq(rows, k, n)
  <1>1. /\ Len(rows2) = n + 1 /\ n \in Nat /\ rows2[n + 1] = e
        /\ \A j \in 1..n : rows2[j] = rows[j] /\ rows[j] \in S /\ rows[j] \in Nat
        /\ k \in 1..n
    OBVIOUS
  <1>2. l2[e] = r /\ \A i \in S : l2[i] = l[i]
    BY LogLonger
  <1>3. /\ a \in Seq(S) /\ b \in Seq(S) /\ rows = a \o b
    <2> HIDE DEF S, a, b
    <2>1. rows \in Seq(S) /\ k \in 1..Len(rows)
      BY <1>1 DEF S
    <2> QED
      BY <2>1, SubSeqParts, Zenon DEF a, b, n
  <1>4. SubSeq(rows2, k, n) = b
    <2> DEFINE U == 1..e
    <2>1. /\ rows \in Seq(U) /\ e \in U /\ k \in 1..(Len(rows) + 1)
          /\ n \in 0..Len(rows)
      <3>1. Len(l) \in Nat
        OBVIOUS
      <3> QED
        BY <1>1, <3>1
    <2> HIDE DEF U
    <2> QED
      BY <2>1, SubSeqAppend, Zenon
  <1> HIDE DEF l2, rows2, S, a, b, n
  <1>5. Cuts(l2, rows2) = {n + 1}
    <2>1. \A j \in 1..n : l[rows[j]].type # "compaction"
      BY DEF Cuts, n
    <2>2. \A j \in 1..n : l2[rows2[j]] = l[rows[j]]
      BY <1>1, <1>2
    <2>3. \A j \in 1..(n + 1) : j \in 1..n \/ j = n + 1
      BY <1>1
    <2>4. n + 1 \in 1..(n + 1)
      BY <1>1
    <2>5. l2[rows2[n + 1]].type = "compaction"
      BY <1>1, <1>2
    <2>6. \A j \in 1..n : l2[rows2[j]].type # "compaction"
      BY <2>1, <2>2
    <2>7. Cuts(l2, rows2) = {j \in 1..(n + 1) : l2[rows2[j]].type = "compaction"}
      BY <1>1 DEF Cuts
    <2> QED
      BY <2>3, <2>4, <2>5, <2>6, <2>7
  <1>6. LastCut(l2, rows2) = n + 1
    <2>1. Cuts(l2, rows2) # {} /\ Len(rows2) \in Nat
      BY <1>1, <1>5
    <2>2. LastCut(l2, rows2) \in Cuts(l2, rows2)
      BY <2>1, LastCutThere
    <2> QED
      BY <1>5, <2>2
  <1>7. Cutting(l2, rows2) = {k}
    <2>1. l2[rows2[n + 1]].kept = rows[k]
      BY <1>1, <1>2
    <2>2. \A j \in 1..n : rows[j] = rows[k] => j = k
      <3> SUFFICES ASSUME NEW j \in 1..n, j # k PROVE rows[j] # rows[k]
        OBVIOUS
      <3>1. CASE j < k
        BY <1>1, <3>1 DEF Rising, n
      <3>2. CASE k < j
        BY <1>1, <3>2 DEF Rising, n
      <3> QED
        BY <1>1, <3>1, <3>2
    <2>3. Cutting(l2, rows2) = {j \in 1..n : rows2[j] = rows[k]}
      BY <1>1, <1>6, <2>1 DEF Cutting
    <2> QED
      BY <1>1, <2>2, <2>3
  <1>8. Tailed(l2, rows2) = b
    <2> DEFINE d == CHOOSE j \in Cutting(l2, rows2) : TRUE
    <2>1. d = k
      BY <1>7
    <2>2. Tailed(l2, rows2) = SubSeq(rows2, d, LastCut(l2, rows2) - 1)
      <3>1. Cutting(l2, rows2) # {}
        BY <1>7
      <3> QED
        BY <3>1, Zenon DEF Tailed
    <2> HIDE DEF d
    <2>3. LastCut(l2, rows2) - 1 = n
      BY <1>1, <1>6
    <2> QED
      BY <1>4, <2>1, <2>2, <2>3
  <1>9. SubSeq(rows2, LastCut(l2, rows2) + 1, Len(rows2)) = <<>>
    <2>1. rows2 \in Seq(1..e)
      <3>1. Len(l) \in Nat
        OBVIOUS
      <3> QED
        BY <3>1 DEF rows2
    <2>2. SubSeq(rows2, n + 1 + 1, n + 1) = <<>>
      BY <1>1, <2>1
    <2> QED
      BY <1>1, <1>6, <2>2
  <1> DEFINE x == Texts(l, a)  y == Texts(l, b)
  <1>10. x \in Seq(Nat) /\ y \in Seq(Nat) /\ Len(x) = Len(Only(a, Texted(l)))
    BY <1>3, TextsType DEF S
  <1>11. Texts(l2, b) = y
    BY <1>3, TextsStay DEF S, l2
  <1>12. Texts(l2, <<>>) = <<>>
    <2>1. Only(<<>>, Texted(l2)) = <<>>
      BY OnlyEmpty
    <2>2. Texts(l2, <<>>) = [j \in 1..Len(<<>>) |-> l2[<<>>[j]].msg]
      BY <2>1 DEF Texts
    <2> QED
      BY <2>2
  <1>13. Load(l2, rows2) = <<Summary>> \o y
    <2>1. Load(l2, rows2) = <<Summary>> \o y \o <<>>
      <3>1. Cuts(l2, rows2) # {}
        BY <1>5
      <3>2. Load(l2, rows2)
              = <<Summary>> \o Texts(l2, Tailed(l2, rows2))
                 \o Texts(l2, SubSeq(rows2, LastCut(l2, rows2) + 1, Len(rows2)))
        BY <3>1, Zenon DEF Load
      <3> HIDE DEF y
      <3> QED
        BY <1>8, <1>9, <1>11, <1>12, <3>2
    <2> DEFINE w == <<Summary>> \o y
    <2>2. w \in Seq(Nat)
      <3>1. <<Summary>> \in Seq(Nat)
        BY DEF Summary
      <3> HIDE DEF y
      <3> QED
        BY <1>10, <3>1
    <2> HIDE DEF w
    <2>3. w \o <<>> = w
      BY <2>2
    <2> QED
      BY <2>1, <2>3 DEF w
  <1>14. Texts(l, rows) = x \o y
    <2> DEFINE A == Only(a, Texted(l))  B == Only(b, Texted(l))
               R == Only(rows, Texted(l))
    <2>1. R = A \o B
      <3>1. Only(a \o b, Texted(l)) = Only(a, Texted(l)) \o Only(b, Texted(l))
        <4>1. a \in Seq(S) /\ b \in Seq(S)
          BY <1>3
        <4>2. \A q, p \in Seq(S) : \A Z : Only(q \o p, Z) = Only(q, Z) \o Only(p, Z)
          BY OnlyConcat
        <4> HIDE DEF A, B, R
        <4> QED
          BY <4>1, <4>2, SMT
      <3> QED
        BY <1>3, <3>1, Zenon
    <2>2. /\ A \in Seq(S) /\ B \in Seq(S)
          /\ Texts(l, rows) \in Seq(Nat) /\ Len(Texts(l, rows)) = Len(R)
          /\ \A j \in 1..Len(R) : Texts(l, rows)[j] = l[R[j]].msg
          /\ Len(x) = Len(A) /\ \A j \in 1..Len(A) : x[j] = l[A[j]].msg
          /\ Len(y) = Len(B) /\ \A j \in 1..Len(B) : y[j] = l[B[j]].msg
      BY <1>3, TextsType DEF S
    <2> DEFINE t == Texts(l, rows)  z == x \o y
    <2> HIDE DEF A, B, R, x, y, t
    <2>3. /\ z \in Seq(Nat) /\ Len(z) = Len(A) + Len(B)
          /\ \A j \in 1..Len(z) : z[j] = IF j <= Len(A) THEN x[j] ELSE y[j - Len(A)]
          /\ Len(A) \in Nat /\ Len(B) \in Nat
      <3>1. /\ x \in Seq(Nat) /\ y \in Seq(Nat)
            /\ Len(x) = Len(A) /\ Len(y) = Len(B)
        BY <1>10, <2>2
      <3>2. /\ z \in Seq(Nat) /\ Len(z) = Len(x) + Len(y)
            /\ Len(x) \in Nat /\ Len(y) \in Nat
            /\ \A j \in 1..Len(z) :
                 z[j] = IF j <= Len(x) THEN x[j] ELSE y[j - Len(x)]
        <4>1. x \in Seq(Nat) /\ y \in Seq(Nat)
          BY <1>10
        <4>2. /\ x \o y \in Seq(Nat) /\ Len(x \o y) = Len(x) + Len(y)
              /\ Len(x) \in Nat /\ Len(y) \in Nat
              /\ \A j \in 1..Len(x \o y) :
                   (x \o y)[j] = IF j <= Len(x) THEN x[j] ELSE y[j - Len(x)]
          BY <4>1, ConcatParts, ZenonT(40)
        <4> QED
          BY <4>2, Zenon DEF z
      <3> HIDE DEF z
      <3> QED
        BY <3>1, <3>2
    <2>4. /\ Len(R) = Len(A) + Len(B)
          /\ \A j \in 1..Len(R) : R[j] = IF j <= Len(A) THEN A[j] ELSE B[j - Len(A)]
      BY <2>1, <2>2
    <2> HIDE DEF z
    <2>5. \A j \in 1..Len(R) : t[j] = z[j]
      <3> SUFFICES ASSUME NEW j \in 1..Len(R) PROVE t[j] = z[j]
        OBVIOUS
      <3>0. j \in 1..(Len(A) + Len(B)) /\ t[j] = l[R[j]].msg
        BY <2>2, <2>4 DEF t
      <3>1. CASE j <= Len(A)
        <4>1. j \in 1..Len(A) /\ R[j] = A[j] /\ z[j] = x[j]
          BY <2>3, <2>4, <3>0, <3>1
        <4> QED
          BY <2>2, <3>0, <4>1
      <3>2. CASE ~(j <= Len(A))
        <4>1. j - Len(A) \in 1..Len(B)
          BY <2>3, <3>0, <3>2
        <4>2. R[j] = B[j - Len(A)]
          BY <2>4, <3>2
        <4>3. z[j] = y[j - Len(A)]
          <5>1. j \in 1..Len(z)
            BY <2>3, <3>0
          <5> QED
            BY <2>3, <3>2, <5>1
        <4> QED
          BY <2>2, <3>0, <4>1, <4>2, <4>3
      <3> QED
        BY <3>1, <3>2
    <2>6. t = z
      BY <2>2, <2>3, <2>4, <2>5, SameSeq DEF t
    <2> QED
      BY <2>6 DEF t, z
  <1>15. Load(l, rows) = x \o y
    BY <1>14 DEF Load
  <1>16. Plan(l, rows, k).before = Len(x)
    BY <1>10 DEF Plan, a
  <1>17. SubSeq(x \o y, Len(x) + 1, Len(x \o y)) = y
    <2>1. x \in Seq(Nat) /\ y \in Seq(Nat)
      BY <1>10
    <2> HIDE DEF x, y
    <2> QED
      BY <2>1, ConcatTail, Zenon
  <1> HIDE DEF x, y
  <1>18. Replaced(Load(l, rows), Plan(l, rows, k)) = <<Summary>> \o y
    BY <1>15, <1>16, <1>17 DEF Replaced
  <1> QED
    BY <1>13, <1>18 DEF l2, rows2

\* What a compaction was planned to cut stays where it was.
LEMMA PlanStands ==
  ASSUME NEW l \in Seq(Rows), NEW r \in Rows, NEW rows \in Seq(1..Len(l)),
         NEW k \in 2..Len(rows)
  PROVE  Plan(Append(l, r), Append(rows, Len(l) + 1), k) = Plan(l, rows, k)
  <1> DEFINE l2 == Append(l, r)  e == Len(l) + 1  rows2 == Append(rows, e)
             a == SubSeq(rows, 1, k - 1)
  <1>1. rows2[k] = rows[k] /\ k \in 1..Len(rows) /\ k - 1 \in 0..Len(rows)
    OBVIOUS
  <1>2. SubSeq(rows2, 1, k - 1) = a /\ a \in Seq(1..Len(l))
    <2> DEFINE U == 1..e  j == k - 1
    <2>1. /\ rows \in Seq(U) /\ e \in U /\ 1 \in 1..(Len(rows) + 1)
          /\ j \in 0..Len(rows)
      <3>1. Len(l) \in Nat
        OBVIOUS
      <3> QED
        BY <1>1, <3>1
    <2>2. a \in Seq(1..Len(l))
      BY <1>1
    <2> HIDE DEF U, j, e
    <2>3. SubSeq(Append(rows, e), 1, j) = SubSeq(rows, 1, j)
      BY <2>1, SubSeqAppend, Zenon
    <2> QED
      BY <2>2, <2>3 DEF j, e
  <1>3. Only(a, Texted(l2)) = Only(a, Texted(l))
    <2> HIDE DEF a
    <2> QED
      BY <1>2, TextsStay
  <1> HIDE DEF l2, rows2, a, e
  <1>4. Plan(l2, rows2, k) = [kept |-> rows[k], before |-> Len(Only(a, Texted(l)))]
    BY <1>1, <1>2, <1>3 DEF Plan
  <1>5. Plan(l, rows, k) = [kept |-> rows[k], before |-> Len(Only(a, Texted(l)))]
    BY Zenon DEF Plan, a
  <1> QED
    BY <1>4, <1>5 DEF l2, rows2, e

\* How many compactions a log holds.
NumCuts(l) == Cardinality({i \in 1..Len(l) : l[i].type = "compaction"})

\* A row counts when it is a compaction, and without one no branch has a cut.
LEMMA NumCutsGrow ==
  ASSUME NEW l \in Seq(Rows), NEW r \in Rows
  PROVE  /\ NumCuts(l) \in Nat
         /\ NumCuts(Append(l, r)) = NumCuts(l) + (IF r.type = "compaction" THEN 1 ELSE 0)
         /\ NumCuts(l) = 0 => \A rows \in Seq(1..Len(l)) : Cuts(l, rows) = {}
  <1> DEFINE l2 == Append(l, r)  n == Len(l)
             C == {i \in 1..n : l[i].type = "compaction"}
             C2 == {i \in 1..(n + 1) : l2[i].type = "compaction"}
  <1>1. /\ n \in Nat /\ Len(l2) = n + 1 /\ l2[n + 1] = r
        /\ \A i \in 1..n : l2[i] = l[i]
    BY LogLonger
  <1> HIDE DEF l2
  <1>2. IsFiniteSet(1..n)
    BY <1>1, FS_Interval
  <1>3. IsFiniteSet(C) /\ n + 1 \notin C
    BY <1>1, <1>2, FS_Subset
  <1>4. C2 = IF r.type = "compaction" THEN C \cup {n + 1} ELSE C
    <2>1. \A i \in 1..(n + 1) : i \in 1..n \/ i = n + 1
      BY <1>1
    <2>2. 1..n \subseteq 1..(n + 1) /\ n + 1 \in 1..(n + 1)
      BY <1>1
    <2> QED
      BY <1>1, <2>1, <2>2
  <1>5. NumCuts(l) = Cardinality(C) /\ NumCuts(l2) = Cardinality(C2)
    BY <1>1 DEF NumCuts
  <1> HIDE DEF C, C2
  <1>6. Cardinality(C) \in Nat
    BY <1>3, FS_CardinalityType
  <1>7. Cardinality(C \cup {n + 1}) = Cardinality(C) + 1
    BY <1>3, FS_AddElement
  <1>8. NumCuts(l) = 0 => \A rows \in Seq(1..n) : Cuts(l, rows) = {}
    <2> SUFFICES ASSUME NumCuts(l) = 0, NEW rows \in Seq(1..n)
                 PROVE  Cuts(l, rows) = {}
      OBVIOUS
    <2>1. C = {}
      BY <1>3, <1>5, FS_EmptySet
    <2>2. \A i \in 1..n : l[i].type # "compaction"
      BY <2>1 DEF C
    <2> QED
      BY <2>2 DEF Cuts
  <1> QED
    BY <1>4, <1>5, <1>6, <1>7, <1>8 DEF l2, n

\* What a writer that is alone adds to the log is what is loaded.
Counting == Compacted = NumCuts(log)

\* Compacted counts the compactions of the log.
LEMMA CompactedCounts == LogTypeOK => Counting
  <1> SUFFICES ASSUME LogTypeOK PROVE Counting
    OBVIOUS
  <1> DEFINE rows == [i \in 1..Len(log) |-> i]
  <1>1. Len(log) \in Nat
    BY RowFacts
  <1>2. Len(rows) = Len(log) /\ \A k \in 1..Len(log) : rows[k] = k
    BY <1>1
  <1>3. Compactions(rows) = {k \in 1..Len(log) : log[k].type = "compaction"}
    BY <1>2 DEF Compactions
  <1> QED
    BY <1>3, Zenon DEF Counting, Compacted, NumCuts

\* What a writer that read the last row adds to what is loaded.
LEMMA RowLoads ==
  ASSUME HostInv, HostInv', NEW w \in Writers, NEW t \in RowTypes, NEW m \in Nat,
         NEW kept \in 0..Len(log), WriteRow(w, t, m, kept), leafRead[w] = Len(log)
  PROVE  /\ Branch' = Append(Branch, Len(log) + 1)
         /\ Len(Branch)' = Len(Branch) + 1 /\ Len(Branch) \in Nat
         /\ t # "compaction" =>
              /\ Context(Branch)' = IF t = "message" THEN Append(Context(Branch), m)
                                    ELSE Context(Branch)
              /\ Compacted' = Compacted
         /\ \A k \in 2..Len(Branch) :
              CompactionPlan(Branch, k)' = CompactionPlan(Branch, k)
         /\ t = "compaction" =>
              /\ Compacted \in Nat /\ Compacted' = Compacted + 1
              /\ Compacted = 0 => \A k \in 2..Len(Branch) : kept = Branch[k] =>
                   Context(Branch)' = Replaced(Context(Branch), CompactionPlan(Branch, k))
  <1> DEFINE r == Row(t, m, kept, leafRead[w])
  <1>1. LogTypeOK /\ LogTypeOK' /\ log \in Seq(Rows)
    BY DEF HostInv, TypeOK, LogTypeOK
  <1>2. log' = Append(log, r) /\ Len(log)' = Len(log) + 1 /\ r \in Rows
    BY <1>1, RowWritten DEF WriteRow
  <1>3. r.type = t /\ r.msg = m /\ r.kept = kept /\ r.parent = Len(log)
    BY DEF Row
  <1> HIDE DEF r
  <1>4. /\ \A i \in 1..Len(log) : log'[i] = log[i]
        /\ log'[Len(log) + 1] = r
    BY <1>1, <1>2, LogLonger
  <1>5. Branch' = Append(Branch, Len(log) + 1)
    BY <1>1, <1>2, <1>3, <1>4, BranchGrows
  <1>6. Branch \in Seq(1..Len(log)) /\ Rising(Branch)
    BY <1>1, BranchType, BranchRises DEF Ids
  <1>7. PICK b : b = Branch
    OBVIOUS
  <1>8. PICK l : l = log
    OBVIOUS
  <1>9. b \in Seq(1..Len(l)) /\ Rising(b) /\ l \in Seq(Rows) /\ r \in Rows
    BY <1>1, <1>2, <1>6, <1>7, <1>8
  <1> DEFINE l2 == Append(l, r)  b2 == Append(b, Len(l) + 1)
  <1>10. /\ Context(Branch) = Load(l, b) /\ Context(Branch)' = Load(l2, b2)
         /\ \A k : CompactionPlan(Branch, k) = Plan(l, b, k)
         /\ \A k : CompactionPlan(Branch, k)' = Plan(l2, b2, k)
    <2>1. Loading'
      BY ContextLoads, PTL
    <2>2. log' = l2 /\ Branch' = b2
      BY <1>2, <1>5, <1>7, <1>8
    <2>3. Context(Branch)' = Load(log', Branch')
      BY <2>1 DEF Loading
    <2>4. \A k : CompactionPlan(Branch, k)' = Plan(log', Branch', k)
      BY <2>1 DEF Loading
    <2>5. Context(Branch) = Load(l, b) /\ \A k : CompactionPlan(Branch, k) = Plan(l, b, k)
      BY <1>7, <1>8, ContextLoads DEF Loading
    <2> HIDE DEF l2, b2
    <2> QED
      BY <2>2, <2>3, <2>4, <2>5
  <1>11. Compacted = NumCuts(l) /\ Compacted' = NumCuts(l2)
    <2>1. Counting /\ Counting'
      <3>1. LogTypeOK => Counting
        BY CompactedCounts
      <3>2. LogTypeOK' => Counting'
        BY CompactedCounts, PTL
      <3> QED
        BY <1>1, <3>1, <3>2
    <2>2. Compacted' = NumCuts(log')
      BY <2>1 DEF Counting
    <2> QED
      BY <1>2, <1>8, <2>1, <2>2 DEF Counting
  <1>12. Len(b) \in Nat /\ Len(b2) = Len(b) + 1
    <2> HIDE DEF l2
    <2> QED
      BY <1>9
  <1>13. \A k \in 2..Len(b) : Plan(l2, b2, k) = Plan(l, b, k)
    BY <1>9, PlanStands
  <1>14. /\ NumCuts(l) \in Nat
         /\ NumCuts(l2) = NumCuts(l) + (IF t = "compaction" THEN 1 ELSE 0)
         /\ NumCuts(l) = 0 => Cuts(l, b) = {}
    BY <1>3, <1>9, NumCutsGrow
  <1>15. t # "compaction" =>
           Load(l2, b2) = IF t = "message" THEN Append(Load(l, b), m) ELSE Load(l, b)
    BY <1>3, <1>9, LoadGrows
  <1>16. t = "compaction" /\ Cuts(l, b) = {} =>
           \A k \in 2..Len(b) : kept = b[k] =>
              Load(l2, b2) = Replaced(Load(l, b), Plan(l, b, k))
    <2> SUFFICES ASSUME t = "compaction", Cuts(l, b) = {},
                        NEW k \in 2..Len(b), kept = b[k]
                 PROVE  Load(l2, b2) = Replaced(Load(l, b), Plan(l, b, k))
      OBVIOUS
    <2> QED
      BY <1>3, <1>9, LoadCut, Zenon
  <1>17. Branch' = b2 /\ Len(Branch)' = Len(b2)
    BY <1>5, <1>7, <1>8
  <1> HIDE DEF l2, b2
  <1>18. t # "compaction" =>
           /\ Context(Branch)' = IF t = "message" THEN Append(Context(Branch), m)
                                 ELSE Context(Branch)
           /\ Compacted' = Compacted
    BY <1>10, <1>11, <1>14, <1>15
  <1>19. \A k \in 2..Len(Branch) :
           CompactionPlan(Branch, k)' = CompactionPlan(Branch, k)
    BY <1>7, <1>10, <1>13
  <1>20. t = "compaction" =>
           /\ Compacted \in Nat /\ Compacted' = Compacted + 1
           /\ Compacted = 0 => \A k \in 2..Len(Branch) : kept = Branch[k] =>
                Context(Branch)' = Replaced(Context(Branch), CompactionPlan(Branch, k))
    BY <1>7, <1>10, <1>11, <1>14, <1>16
  <1> QED
    BY <1>5, <1>7, <1>12, <1>17, <1>18, <1>19, <1>20

\* Between the memory and what the log loads stand the message whose listener
\* has still to write and the trigger's that is not yet pushed.
Reflects ==
  IF toLog # 0 THEN transcript = Append(Context(Branch), toLog)
  ELSE IF trig.step = "push" THEN Context(Branch) = Append(transcript, trig.msg)
  ELSE transcript = Context(Branch)

\* Until writers overlap, a leaf that was read is still the last row, and a
\* compaction that was planned fits the branch it will be written to.
Mirror ==
  /\ ~raced => \A w \in Writers : leafRead[w] \in {Unread, Len(log)}
  /\ toLog # 0 /\ trig.step = "push" => raced
  /\ ~raced /\ turn.stage \in {"summarizing", "compacting"} =>
       \E k \in 2..Len(Branch) : turn.plan = CompactionPlan(Branch, k)
  /\ ~raced /\ Compacted < 2 => Reflects

\* A log that stays is loaded as before.
LEMMA LogStays ==
  ASSUME log' = log
  PROVE  /\ Branch' = Branch /\ Context(Branch)' = Context(Branch)
         /\ Compacted' = Compacted /\ Len(log)' = Len(log)
         /\ \A k : CompactionPlan(Branch, k)' = CompactionPlan(Branch, k)
  <1>1. Branch' = Branch
    BY Zenon DEF Branch
  <1>2. Loading /\ Loading'
    <2>1. Loading
      BY ContextLoads
    <2>2. Loading'
      BY ContextLoads, PTL
    <2> QED
      BY <2>1, <2>2
  <1>3. /\ Context(Branch)' = Load(log', Branch')
        /\ \A k : CompactionPlan(Branch, k)' = Plan(log', Branch', k)
    BY <1>2 DEF Loading
  <1>4. Compacted' = Compacted
    BY SMT DEF Compacted, Compactions
  <1> QED
    BY <1>1, <1>2, <1>3, <1>4 DEF Loading

\* Steps that touch neither the log nor the memory.
LEMMA MirrorStill ==
  ASSUME HostInv, Mirror, [Next]_vars,
         UNCHANGED <<log, transcript, toLog, raced>>,
         trig' = trig \/ (trig.step # "push" /\ trig'.step # "push"),
         \A w \in Writers : leafRead'[w] \in {leafRead[w], Unread, Len(log)}
  PROVE  Mirror'
  <1>1. /\ Branch' = Branch /\ Context(Branch)' = Context(Branch)
        /\ Compacted' = Compacted /\ Len(log)' = Len(log)
        /\ \A k : CompactionPlan(Branch, k)' = CompactionPlan(Branch, k)
    BY LogStays
  <1>2. (~raced => \A w \in Writers : leafRead[w] \in {Unread, Len(log)})'
    BY <1>1 DEF Mirror
  <1>3. (toLog # 0 /\ trig.step = "push" => raced)'
    BY DEF Mirror
  <1>4. (~raced /\ turn.stage \in {"summarizing", "compacting"} =>
           \E k \in 2..Len(Branch) : turn.plan = CompactionPlan(Branch, k))'
    <2> SUFFICES ASSUME ~raced, turn'.stage \in {"summarizing", "compacting"}
                 PROVE  \E k \in 2..Len(Branch) : turn'.plan = CompactionPlan(Branch, k)
      BY <1>1
    <2>1. CASE Snapshot
      <3>1. PICK k \in CutPoints(Branch) :
              turn' = [turn EXCEPT !.stage = "summarizing",
                                   !.plan = CompactionPlan(Branch, k)]
        BY <2>1, Zenon DEF Snapshot
      <3>2. turn \in Turns
        BY DEF HostInv, TypeOK
      <3>3. turn'.plan = CompactionPlan(Branch, k)
        BY <3>1, <3>2 DEF Turns
      <3>4. k \in 2..Len(Branch)
        BY DEF CutPoints
      <3> QED
        BY <3>3, <3>4
    <2>2. CASE turn.stage \in {"summarizing", "compacting"} /\ turn'.plan = turn.plan
      BY <2>2 DEF Mirror
    <2> QED
      BY <2>1, <2>2, PlanStays
  <1>5. (~raced /\ Compacted < 2 => Reflects)'
    <2>1. Reflects => Reflects'
      BY <1>1 DEF Reflects
    <2> QED
      BY <1>1, <2>1 DEF Mirror
  <1> QED
    BY <1>2, <1>3, <1>4, <1>5 DEF Mirror

\* A write that overlaps with no other.
LEMMA WriteAlone ==
  ASSUME HostInv, HostInv', Mirror, [Next]_vars, ~raced',
         NEW w \in Writers, NEW t \in RowTypes, NEW m \in Nat,
         NEW kept \in 0..Len(log), WriteRow(w, t, m, kept), Races(w),
         t = "compaction" => turn'.stage \notin {"summarizing", "compacting"}
  PROVE  /\ ~raced
         /\ w # "turn" => toLog = 0
         /\ w # "trigger" => trig.step # "push"
         /\ leafRead[w] = Len(log)
         /\ (\A v \in Writers : leafRead[v] \in {Unread, Len(log)})'
         /\ (turn.stage \in {"summarizing", "compacting"} =>
               \E k \in 2..Len(Branch) : turn.plan = CompactionPlan(Branch, k))'
  <1>1. ~raced /\ \A v \in Writers \ {w} : ~InFlight(v)
    BY DEF Races
  <1>2. /\ w # "turn" => toLog = 0
        /\ w # "trigger" => trig.step # "push"
    BY <1>1, WritersKnown DEF InFlight
  <1>3. leafRead[w] = Len(log)
    BY <1>1 DEF Mirror, WriteRow
  <1>4. (\A v \in Writers : leafRead[v] \in {Unread, Len(log)})'
    <2>1. leafRead \in [Writers -> Unread..Len(log)]
      BY DEF HostInv, TypeOK, LogTypeOK
    <2>2. \A v \in Writers : leafRead'[v] = Unread
      BY <1>1, <2>1 DEF WriteRow, InFlight
    <2> QED
      BY <2>2
  <1>5. (turn.stage \in {"summarizing", "compacting"} =>
           \E k \in 2..Len(Branch) : turn.plan = CompactionPlan(Branch, k))'
    <2> SUFFICES ASSUME turn'.stage \in {"summarizing", "compacting"}
                 PROVE  \E k \in 2..Len(Branch') : turn'.plan = CompactionPlan(Branch, k)'
      OBVIOUS
    <2>1. /\ Len(Branch)' = Len(Branch) + 1 /\ Len(Branch) \in Nat
          /\ \A k \in 2..Len(Branch) :
               CompactionPlan(Branch, k)' = CompactionPlan(Branch, k)
      BY <1>3, RowLoads
    <2>2. ~Snapshot
      <3>1. Len(log)' = Len(log) + 1 /\ Len(log) \in Nat
        <4>1. LogTypeOK
          BY DEF HostInv, TypeOK
        <4> QED
          BY <4>1, RowWritten, RowFacts
      <3>2. Snapshot => log' = log
        BY DEF Snapshot, logVars
      <3>3. log' # log
        BY <3>1
      <3> QED
        BY <3>2, <3>3
    <2>3. turn.stage \in {"summarizing", "compacting"} /\ turn'.plan = turn.plan
      BY <2>2, PlanStays
    <2>4. PICK k \in 2..Len(Branch) : turn.plan = CompactionPlan(Branch, k)
      BY <1>1, <2>3 DEF Mirror
    <2>5. k \in 2..Len(Branch')
      BY <2>1
    <2> QED
      BY <2>1, <2>3, <2>4, <2>5
  <1> QED
    BY <1>1, <1>2, <1>3, <1>4, <1>5

\* Steps of the turn that write nothing.
LEMMA MirrorTurn ==
  ASSUME HostInv, Mirror, [Next]_vars,
         \/ TurnBegins \/ NothingToContinue \/ NothingToCompact
         \/ Snapshot \/ Summarized \/ SummaryFails \/ ListenerReads
         \/ RunSucceeds \/ RunFails \/ BackoffEnds \/ HookPasses \/ HookStops
         \/ HookContinues
  PROVE  Mirror'
  <1> DEFINE Quiet == /\ UNCHANGED <<log, transcript, toLog, raced>>
                      /\ trig' = trig
                      /\ \A w \in Writers :
                           leafRead'[w] \in {leafRead[w], Unread, Len(log)}
  <1>1. leafRead \in [Writers -> Unread..Len(log)]
    BY DEF HostInv, TypeOK, LogTypeOK
  <1>2. \A v \in Writers : ReadLeaf(v) =>
          /\ log' = log
          /\ \A w \in Writers : leafRead'[w] \in {leafRead[w], Unread, Len(log)}
    BY <1>1 DEF ReadLeaf
  <1>3. "turn" \in Writers
    BY WritersKnown
  <1>4. UNCHANGED logVars =>
          /\ log' = log
          /\ \A w \in Writers : leafRead'[w] \in {leafRead[w], Unread, Len(log)}
    BY DEF logVars
  <1>5. UNCHANGED loopVars => UNCHANGED transcript
    BY DEF loopVars
  <1>6. AttemptFails => UNCHANGED logVars \/ ReadLeaf("turn")
    BY DEF AttemptFails, Retry, FallBack
  <1>7. CASE TurnBegins
    <2>1. Quiet
      BY <1>4, <1>7 DEF TurnBegins, BeginRun
    <2> QED
      BY <2>1, MirrorStill
  <1>8. CASE NothingToContinue
    <2>1. Quiet
      BY <1>4, <1>5, <1>8 DEF NothingToContinue
    <2> QED
      BY <2>1, MirrorStill
  <1>9. CASE NothingToCompact
    <2>1. Quiet
      BY <1>4, <1>5, <1>9 DEF NothingToCompact
    <2> QED
      BY <2>1, MirrorStill
  <1>10. CASE Snapshot
    <2>1. Quiet
      BY <1>4, <1>5, <1>10 DEF Snapshot
    <2> QED
      BY <2>1, MirrorStill
  <1>11. CASE Summarized
    <2>1. Quiet
      BY <1>2, <1>3, <1>5, <1>11 DEF Summarized
    <2> QED
      BY <2>1, MirrorStill
  <1>12. CASE SummaryFails
    <2>1. UNCHANGED <<transcript, toLog, raced, trig>>
      BY <1>5, <1>12 DEF SummaryFails
    <2>2. AttemptFails
      BY <1>12 DEF SummaryFails
    <2>3. Quiet
      BY <1>2, <1>3, <1>4, <1>6, <2>1, <2>2
    <2> QED
      BY <2>3, MirrorStill
  <1>13. CASE ListenerReads
    <2>1. UNCHANGED <<transcript, toLog, raced, trig>> /\ ReadLeaf("turn")
      BY <1>5, <1>13 DEF ListenerReads, hostVars
    <2>2. Quiet
      BY <1>2, <1>3, <2>1
    <2> QED
      BY <2>2, MirrorStill
  <1>14. CASE RunSucceeds
    <2>1. Quiet
      BY <1>4, <1>14 DEF RunSucceeds, Took
    <2> QED
      BY <2>1, MirrorStill
  <1>15. CASE RunFails
    <2>1. UNCHANGED <<transcript, toLog, raced, trig>>
      BY <1>15 DEF RunFails, Took
    <2>2. AttemptFails \/ UNCHANGED logVars
      BY <1>15 DEF RunFails
    <2>3. Quiet
      BY <1>2, <1>3, <1>4, <1>6, <2>1, <2>2
    <2> QED
      BY <2>3, MirrorStill
  <1>16. CASE BackoffEnds
    <2>1. Quiet
      BY <1>4, <1>5, <1>16 DEF BackoffEnds
    <2> QED
      BY <2>1, MirrorStill
  <1>17. CASE HookPasses
    <2>1. Quiet
      BY <1>4, <1>5, <1>17 DEF HookPasses
    <2> QED
      BY <2>1, MirrorStill
  <1>18. CASE HookStops \/ HookContinues
    <2>1. UNCHANGED <<transcript, toLog, raced, trig>> /\ ReadLeaf("turn")
      BY <1>5, <1>18 DEF HookStops, HookContinues
    <2>2. Quiet
      BY <1>2, <1>3, <2>1
    <2> QED
      BY <2>2, MirrorStill
  <1> QED
    BY <1>7, <1>8, <1>9, <1>10, <1>11, <1>12, <1>13, <1>14, <1>15, <1>16,
       <1>17, <1>18

\* Commands and triggers that write nothing.
LEMMA MirrorOthers ==
  ASSUME HostInv, Mirror, [Next]_vars,
         \/ Submit \/ SubmitInterrupt \/ PromptNotPersisted \/ SetModel
         \/ AgentPrompt \/ Compact \/ Abort
         \/ TriggerFires \/ TriggerReads \/ TriggeredTurn \/ UNCHANGED vars
  PROVE  Mirror'
  <1> DEFINE Leaves == \A w \in Writers :
                         leafRead'[w] \in {leafRead[w], Unread, Len(log)}
             Still == UNCHANGED <<log, transcript, toLog, raced>>
             Quiet == Still /\ trig' = trig /\ Leaves
  <1>1. leafRead \in [Writers -> Unread..Len(log)]
    BY DEF HostInv, TypeOK, LogTypeOK
  <1>2. \A v \in Writers : ReadLeaf(v) => log' = log /\ Leaves
    BY <1>1 DEF ReadLeaf
  <1>3. "host" \in Writers /\ "trigger" \in Writers
    BY WritersKnown
  <1>4. UNCHANGED logVars => log' = log /\ Leaves
    BY DEF logVars
  <1>5. UNCHANGED loopVars => UNCHANGED transcript
    BY DEF loopVars
  <1>6. \A op, m : Await(op, m) => log' = log /\ Leaves
    BY <1>2, <1>3, Zenon DEF Await
  <1>7. AtOnce => log' = log /\ Leaves
    BY <1>4 DEF AtOnce
  <1> HIDE DEF Leaves
  <1>8. CASE Submit
    <2>1. UNCHANGED <<transcript, toLog, raced, trig>>
      BY <1>8 DEF Submit
    <2>2. AtOnce \/ Await("prompt", sent + 1)
      BY <1>8 DEF Submit
    <2> QED
      BY <1>6, <1>7, <2>1, <2>2, MirrorStill DEF Leaves
  <1>9. CASE SubmitInterrupt
    <2>1. UNCHANGED <<transcript, toLog, raced, trig>>
      BY <1>9 DEF SubmitInterrupt
    <2>2. AtOnce \/ Await("prompt", sent + 1)
      BY <1>9 DEF SubmitInterrupt
    <2> QED
      BY <1>6, <1>7, <2>1, <2>2, MirrorStill DEF Leaves
  <1>10. CASE PromptNotPersisted
    <2>1. Still /\ trig' = trig
      BY <1>5, <1>10 DEF PromptNotPersisted
    <2>2. Leaves
      BY <1>1, <1>10 DEF PromptNotPersisted, Leaves
    <2> QED
      BY <2>1, <2>2, MirrorStill DEF Leaves
  <1>11. CASE SetModel
    <2>1. UNCHANGED <<transcript, toLog, raced, trig>> /\ Await("model", 0)
      BY <1>5, <1>11 DEF SetModel
    <2> QED
      BY <1>6, <2>1, MirrorStill DEF Leaves
  <1>12. CASE AgentPrompt
    <2>1. Quiet
      BY <1>4, <1>5, <1>12 DEF AgentPrompt
    <2> QED
      BY <2>1, MirrorStill DEF Leaves
  <1>13. CASE Compact
    <2>1. Quiet
      BY <1>4, <1>5, <1>13 DEF Compact
    <2> QED
      BY <2>1, MirrorStill DEF Leaves
  <1>14. CASE Abort
    <2>1. Quiet
      BY <1>4, <1>14 DEF Abort, hostVars
    <2> QED
      BY <2>1, MirrorStill DEF Leaves
  <1>15. CASE TriggerFires
    <2>1. Still /\ Leaves
      BY <1>4, <1>15 DEF TriggerFires
    <2>2. trig.step # "push" /\ trig'.step # "push"
      BY <1>15 DEF TriggerFires, NoTask
    <2> QED
      BY <2>1, <2>2, MirrorStill DEF Leaves
  <1>16. CASE TriggerReads
    <2>1. UNCHANGED <<transcript, toLog, raced, trig>> /\ ReadLeaf("trigger")
      BY <1>5, <1>16 DEF TriggerReads, hostVars
    <2> QED
      BY <1>2, <1>3, <2>1, MirrorStill DEF Leaves
  <1>17. CASE TriggeredTurn
    <2>1. Quiet
      BY <1>4, <1>5, <1>17 DEF TriggeredTurn
    <2> QED
      BY <2>1, MirrorStill DEF Leaves
  <1>18. CASE UNCHANGED vars
    <2>1. Quiet
      BY <1>4, <1>5, <1>18 DEF vars, hostVars
    <2> QED
      BY <2>1, MirrorStill DEF Leaves
  <1> QED
    BY <1>8, <1>9, <1>10, <1>11, <1>12, <1>13, <1>14, <1>15, <1>16, <1>17, <1>18

\* A message that the run puts into memory.
LEMMA MirrorRun ==
  ASSUME HostInv, Mirror, [Next]_vars, RunAdvances
  PROVE  Mirror'
  <1>1. /\ toLog = 0 /\ RunStep /\ UNCHANGED <<logVars, turn, trig>>
        /\ turn.stage = "running"
        /\ toLog' = IF loop = "pushing" /\ batch # <<>> THEN Head(batch) ELSE 0
        /\ raced' = (raced \/ (toLog' # 0 /\ trig.step = "push"))
    BY DEF RunAdvances, Polled
  <1>2. /\ LoopTypeOK /\ (batch # <<>> => loop = "pushing")
        /\ raced \in BOOLEAN /\ batch \in Seq(Users)
    BY TypeParts DEF HostInv, HostShape, HostVarsOK
  <1>3. Pushes \/ Takes \/ Waits
    BY <1>1, <1>2, RunMoves
  <1>4. CASE Pushes
    <2>1. /\ loop = "pushing" /\ batch # <<>>
          /\ transcript' = Append(transcript, Head(batch))
      BY <1>4 DEF Pushes
    <2>2. toLog' = Head(batch) /\ toLog' # 0
      <3>1. Head(batch) \in Users
        BY <1>2, <2>1
      <3> QED
        BY <1>1, <2>1, <3>1, MessageNumbers
    <2>3. log' = log /\ leafRead' = leafRead
      BY <1>1 DEF logVars
    <2>4. /\ Branch' = Branch /\ Context(Branch)' = Context(Branch)
          /\ Compacted' = Compacted /\ Len(log)' = Len(log)
      BY <2>3, LogStays
    <2>5. (~raced => \A w \in Writers : leafRead[w] \in {Unread, Len(log)})'
      BY <1>1, <2>3, <2>4 DEF Mirror
    <2>6. (toLog # 0 /\ trig.step = "push" => raced)'
      BY <1>1, <2>2
    <2>7. (~raced /\ Compacted < 2 => Reflects)'
      <3> SUFFICES ASSUME ~raced', Compacted' < 2 PROVE Reflects'
        OBVIOUS
      <3>1. ~raced /\ trig.step # "push"
        BY <1>1, <2>2
      <3>2. transcript = Context(Branch)
        BY <1>1, <2>4, <3>1 DEF Mirror, Reflects
      <3> QED
        BY <2>1, <2>2, <2>4, <3>2 DEF Reflects
    <2> QED
      BY <1>1, <2>5, <2>6, <2>7 DEF Mirror
  <1>5. CASE Takes \/ Waits
    <2>1. batch = <<>> /\ UNCHANGED transcript
      BY <1>5 DEF Takes, Waits
    <2>2. UNCHANGED <<log, transcript, toLog, raced>> /\ trig' = trig
          /\ leafRead' = leafRead
      BY <1>1, <1>2, <2>1 DEF logVars
    <2> QED
      BY <2>2, MirrorStill
  <1> QED
    BY <1>3, <1>4, <1>5

\* What the turn writes.
LEMMA MirrorTurnWrites ==
  ASSUME HostInv, HostInv', Mirror, [Next]_vars,
         CompactionApplied \/ ListenerWrites \/ StopNoted \/ NoteWrites
  PROVE  Mirror'
  <1>1. /\ "turn" \in Writers /\ "trigger" \in Writers
        /\ {"message", "custom", "compaction"} \subseteq RowTypes
        /\ Summary \in Nat /\ 0 \in Nat
    BY WritersKnown DEF RowTypes, Summary
  <1>2. /\ toLog \in Nat /\ Len(log) \in Nat /\ 0 \in 0..Len(log)
        /\ turn.plan.kept \in 0..Len(log)
        /\ toLog # 0 => turn.stage = "running"
    <2>1. LogTypeOK /\ turn \in Turns /\ toLog \in Messages
      BY DEF HostInv, TypeOK
    <2>2. turn.plan.kept \in Nat
      BY <2>1 DEF Turns
    <2>3. turn.plan.kept <= Len(log)
      BY DEF HostInv, HostShape
    <2>4. toLog # 0 => turn.stage = "running"
      BY DEF HostInv, HostShape
    <2> QED
      BY <2>1, <2>2, <2>3, <2>4, RowFacts, MessageNumbers
  <1>3. CASE CompactionApplied
    <2>1. /\ WriteRow("turn", "compaction", Summary, turn.plan.kept) /\ Races("turn")
          /\ turn.stage = "compacting" /\ UNCHANGED <<toLog, trig>>
          /\ transcript' = Replaced(transcript, turn.plan) /\ To("ready")
      BY <1>3 DEF CompactionApplied, Polled
    <2>2. toLog = 0
      BY <1>2, <2>1
    <2>3. turn'.stage = "ready"
      <3>1. turn \in Turns
        BY DEF HostInv, TypeOK
      <3> QED
        BY <2>1, <3>1 DEF To, Turns
    <2>4. CASE ~raced'
      <3>1. /\ ~raced /\ trig.step # "push" /\ leafRead["turn"] = Len(log)
            /\ (\A v \in Writers : leafRead[v] \in {Unread, Len(log)})'
        BY <1>1, <1>2, <2>1, <2>3, <2>4, WriteAlone
      <3>2. /\ Compacted \in Nat /\ Compacted' = Compacted + 1
            /\ Compacted = 0 => \A k \in 2..Len(Branch) : turn.plan.kept = Branch[k] =>
                 Context(Branch)' = Replaced(Context(Branch), CompactionPlan(Branch, k))
        BY <1>1, <1>2, <2>1, <3>1, RowLoads
      <3>3. PICK k \in 2..Len(Branch) : turn.plan = CompactionPlan(Branch, k)
        BY <2>1, <3>1 DEF Mirror
      <3>4. turn.plan.kept = Branch[k]
        BY <3>3 DEF CompactionPlan
      <3>5. Compacted' < 2 => Reflects'
        <4> SUFFICES ASSUME Compacted' < 2 PROVE Reflects'
          OBVIOUS
        <4>1. Compacted = 0
          BY <3>2
        <4>2. transcript = Context(Branch)
          BY <2>2, <3>1, <4>1 DEF Mirror, Reflects
        <4>3. transcript' = Context(Branch)'
          BY <2>1, <3>2, <3>3, <3>4, <4>1, <4>2
        <4> QED
          BY <2>1, <2>2, <3>1, <4>3 DEF Reflects
      <3> QED
        BY <2>1, <2>2, <2>3, <3>1, <3>5 DEF Mirror
    <2>5. CASE raced'
      BY <2>5 DEF Mirror
    <2> QED
      BY <2>4, <2>5
  <1>4. CASE ListenerWrites
    <2>1. /\ WriteRow("turn", "message", toLog, 0) /\ Races("turn")
          /\ toLog # 0 /\ toLog' = 0 /\ UNCHANGED <<transcript, trig>>
      BY <1>4 DEF ListenerWrites, loopVars
    <2>2. CASE ~raced'
      <3>1. /\ ~raced /\ trig.step # "push" /\ leafRead["turn"] = Len(log)
            /\ (\A v \in Writers : leafRead[v] \in {Unread, Len(log)})'
            /\ (turn.stage \in {"summarizing", "compacting"} =>
                  \E k \in 2..Len(Branch) : turn.plan = CompactionPlan(Branch, k))'
        BY <1>1, <1>2, <2>1, <2>2, WriteAlone
      <3>2. /\ Context(Branch)' = Append(Context(Branch), toLog)
            /\ Compacted' = Compacted
        BY <1>1, <1>2, <2>1, <3>1, RowLoads
      <3>3. (Compacted < 2 => Reflects)'
        BY <2>1, <3>1, <3>2 DEF Mirror, Reflects
      <3> QED
        BY <2>1, <3>1, <3>3 DEF Mirror
    <2>3. CASE raced'
      BY <2>3 DEF Mirror
    <2> QED
      BY <2>2, <2>3
  <1>5. CASE StopNoted \/ NoteWrites
    <2>1. /\ WriteRow("turn", "custom", 0, 0) /\ Races("turn")
          /\ turn.stage \in {"parting", "noting"}
          /\ UNCHANGED <<toLog, transcript, trig>>
      BY <1>5 DEF StopNoted, NoteWrites, loopVars, Polled
    <2>2. CASE ~raced'
      <3>1. /\ ~raced /\ trig.step # "push" /\ leafRead["turn"] = Len(log)
            /\ (\A v \in Writers : leafRead[v] \in {Unread, Len(log)})'
            /\ (turn.stage \in {"summarizing", "compacting"} =>
                  \E k \in 2..Len(Branch) : turn.plan = CompactionPlan(Branch, k))'
        BY <1>1, <1>2, <2>1, <2>2, WriteAlone
      <3>2. Context(Branch)' = Context(Branch) /\ Compacted' = Compacted
        BY <1>1, <1>2, <2>1, <3>1, RowLoads
      <3>3. (Compacted < 2 => Reflects)'
        BY <1>2, <2>1, <3>1, <3>2 DEF Mirror, Reflects
      <3> QED
        BY <1>2, <2>1, <3>1, <3>3 DEF Mirror
    <2>3. CASE raced'
      BY <2>3 DEF Mirror
    <2> QED
      BY <2>2, <2>3
  <1> QED
    BY <1>3, <1>4, <1>5

\* What handlers and triggers write, and the push of a trigger.
LEMMA MirrorWrites ==
  ASSUME HostInv, HostInv', Mirror, [Next]_vars,
         PromptPersisted \/ ModelSet \/ TriggerWrites \/ TriggerPushes \/ TriggerAudits
  PROVE  Mirror'
  <1>1. /\ "host" \in Writers /\ "trigger" \in Writers
        /\ {"message", "custom"} \subseteq RowTypes
        /\ 0 \in Nat /\ 0 \in 0..Len(log)
        /\ host.msg \in Nat /\ trig.msg \in Nat
    <2>1. LogTypeOK /\ host.msg \in Messages /\ trig.msg \in Messages
      BY DEF HostInv, TypeOK
    <2> QED
      BY <2>1, RowFacts, MessageNumbers, WritersKnown DEF RowTypes
  <1>2. trig' = [trig EXCEPT !.step = "push"] => trig'.step = "push" /\ trig'.msg = trig.msg
    BY DEF HostInv, TypeOK
  <1>3. trig' = [trig EXCEPT !.step = "audit"] => trig'.step = "audit"
    BY DEF HostInv, TypeOK
  <1>4. CASE PromptPersisted
    <2>1. /\ WriteRow("host", "message", host.msg, 0) /\ Races("host")
          /\ transcript' = Append(transcript, host.msg) /\ UNCHANGED <<toLog, trig>>
      BY <1>4 DEF PromptPersisted
    <2>2. CASE ~raced'
      <3>1. /\ ~raced /\ toLog = 0 /\ trig.step # "push"
            /\ leafRead["host"] = Len(log)
            /\ (\A v \in Writers : leafRead[v] \in {Unread, Len(log)})'
            /\ (turn.stage \in {"summarizing", "compacting"} =>
                  \E k \in 2..Len(Branch) : turn.plan = CompactionPlan(Branch, k))'
        BY <1>1, <2>1, <2>2, WriteAlone
      <3>2. /\ Context(Branch)' = Append(Context(Branch), host.msg)
            /\ Compacted' = Compacted
        BY <1>1, <2>1, <3>1, RowLoads
      <3>3. (Compacted < 2 => Reflects)'
        BY <2>1, <3>1, <3>2 DEF Mirror, Reflects
      <3> QED
        BY <2>1, <3>1, <3>3 DEF Mirror
    <2>3. CASE raced'
      BY <2>3 DEF Mirror
    <2> QED
      BY <2>2, <2>3
  <1>5. CASE ModelSet
    <2>1. /\ WriteRow("host", "custom", 0, 0) /\ Races("host")
          /\ UNCHANGED <<transcript, toLog, trig>>
      BY <1>5 DEF ModelSet, loopVars
    <2>2. CASE ~raced'
      <3>1. /\ ~raced /\ toLog = 0 /\ trig.step # "push"
            /\ leafRead["host"] = Len(log)
            /\ (\A v \in Writers : leafRead[v] \in {Unread, Len(log)})'
            /\ (turn.stage \in {"summarizing", "compacting"} =>
                  \E k \in 2..Len(Branch) : turn.plan = CompactionPlan(Branch, k))'
        BY <1>1, <2>1, <2>2, WriteAlone
      <3>2. Context(Branch)' = Context(Branch) /\ Compacted' = Compacted
        BY <1>1, <2>1, <3>1, RowLoads
      <3>3. (Compacted < 2 => Reflects)'
        BY <2>1, <3>1, <3>2 DEF Mirror, Reflects
      <3> QED
        BY <2>1, <3>1, <3>3 DEF Mirror
    <2>3. CASE raced'
      BY <2>3 DEF Mirror
    <2> QED
      BY <2>2, <2>3
  <1>6. CASE TriggerWrites
    <2>1. /\ WriteRow("trigger", "message", trig.msg, 0) /\ Races("trigger")
          /\ trig.step = "inject" /\ UNCHANGED <<transcript, toLog>>
          /\ trig' = [trig EXCEPT !.step = "push"]
      BY <1>6 DEF TriggerWrites, loopVars
    <2>2. CASE ~raced'
      <3>1. /\ ~raced /\ toLog = 0 /\ leafRead["trigger"] = Len(log)
            /\ (\A v \in Writers : leafRead[v] \in {Unread, Len(log)})'
            /\ (turn.stage \in {"summarizing", "compacting"} =>
                  \E k \in 2..Len(Branch) : turn.plan = CompactionPlan(Branch, k))'
        BY <1>1, <2>1, <2>2, WriteAlone
      <3>2. /\ Context(Branch)' = Append(Context(Branch), trig.msg)
            /\ Compacted' = Compacted
        BY <1>1, <2>1, <3>1, RowLoads
      <3>3. (Compacted < 2 => Reflects)'
        BY <1>2, <2>1, <3>1, <3>2 DEF Mirror, Reflects
      <3> QED
        BY <2>1, <3>1, <3>3 DEF Mirror
    <2>3. CASE raced'
      BY <2>3 DEF Mirror
    <2> QED
      BY <2>2, <2>3
  <1>7. CASE TriggerAudits
    <2>1. /\ WriteRow("trigger", "custom", 0, 0) /\ Races("trigger")
          /\ trig.step = "audit" /\ trig'.step = "none"
          /\ UNCHANGED <<transcript, toLog>>
      BY <1>7 DEF TriggerAudits, loopVars, NoTask
    <2>2. CASE ~raced'
      <3>1. /\ ~raced /\ toLog = 0 /\ leafRead["trigger"] = Len(log)
            /\ (\A v \in Writers : leafRead[v] \in {Unread, Len(log)})'
            /\ (turn.stage \in {"summarizing", "compacting"} =>
                  \E k \in 2..Len(Branch) : turn.plan = CompactionPlan(Branch, k))'
        BY <1>1, <2>1, <2>2, WriteAlone
      <3>2. Context(Branch)' = Context(Branch) /\ Compacted' = Compacted
        BY <1>1, <2>1, <3>1, RowLoads
      <3>3. (Compacted < 2 => Reflects)'
        BY <2>1, <3>1, <3>2 DEF Mirror, Reflects
      <3> QED
        BY <2>1, <3>1, <3>3 DEF Mirror
    <2>3. CASE raced'
      BY <2>3 DEF Mirror
    <2> QED
      BY <2>2, <2>3
  <1>8. CASE TriggerPushes
    <2>1. /\ trig.step = "push" /\ transcript' = Append(transcript, trig.msg)
          /\ trig' = [trig EXCEPT !.step = "audit"]
          /\ log' = log /\ leafRead' = leafRead
          /\ UNCHANGED <<toLog, turn, raced>>
      BY <1>8 DEF TriggerPushes, logVars
    <2>2. /\ Branch' = Branch /\ Context(Branch)' = Context(Branch)
          /\ Compacted' = Compacted /\ Len(log)' = Len(log)
          /\ \A k : CompactionPlan(Branch, k)' = CompactionPlan(Branch, k)
      BY <2>1, LogStays
    <2>3. (~raced /\ turn.stage \in {"summarizing", "compacting"} =>
             \E k \in 2..Len(Branch) : turn.plan = CompactionPlan(Branch, k))'
      BY <2>1, <2>2 DEF Mirror
    <2>4. (~raced => \A w \in Writers : leafRead[w] \in {Unread, Len(log)})'
      BY <2>1, <2>2 DEF Mirror
    <2>5. (~raced /\ Compacted < 2 => Reflects)'
      BY <1>3, <2>1, <2>2 DEF Mirror, Reflects
    <2> QED
      BY <1>3, <2>1, <2>3, <2>4, <2>5 DEF Mirror
  <1> QED
    BY <1>4, <1>5, <1>6, <1>7, <1>8

\* A restart loads the memory from the log.
LEMMA MirrorCrash ==
  ASSUME Mirror, Crash
  PROVE  Mirror'
  <1>1. /\ log' = log /\ transcript' = Context(Branch)
        /\ leafRead' = [w \in Writers |-> Unread]
        /\ turn' = NoTurn /\ toLog' = 0 /\ trig' = NoTask
    BY DEF Crash
  <1>2. Context(Branch)' = Context(Branch) /\ Compacted' = Compacted
    BY <1>1, LogStays
  <1>3. turn'.stage = "none" /\ trig'.step = "none"
    BY <1>1, NoTurnType DEF NoTask
  <1> QED
    BY <1>1, <1>2, <1>3 DEF Mirror, Reflects

\* Both are empty at first.
LEMMA MirrorStarts == Init => Mirror
  <1> SUFFICES ASSUME Init PROVE Mirror
    OBVIOUS
  <1>1. /\ log = <<>> /\ leafRead = [w \in Writers |-> Unread] /\ transcript = <<>>
        /\ turn = NoTurn /\ toLog = 0 /\ trig = NoTask
    BY DEF Init, LoopInit, LogInit
  <1>2. turn.stage = "none" /\ trig.step = "none"
    BY <1>1, NoTurnType DEF NoTask
  <1>3. Branch = <<>>
    <2>1. LogTypeOK
      BY HostStarts DEF HostInv, TypeOK
    <2>2. Branch \in Seq(Ids) /\ Ids = {}
      BY <1>1, <2>1, BranchType DEF Ids
    <2> QED
      BY <2>2
  <1>4. Context(Branch) = <<>>
    <2>1. Compactions(<<>>) = {}
      BY DEF Compactions
    <2>2. MessageRows(<<>>) = <<>>
      BY OnlyEmpty DEF MessageRows
    <2>3. MessagesOf(<<>>) = <<>>
      BY <2>2 DEF MessagesOf
    <2> QED
      BY <1>3, <2>1, <2>3, ContextParts
  <1> QED
    BY <1>1, <1>2, <1>4 DEF Mirror, Reflects

\* Every step keeps memory and log together.
LEMMA MirrorNext ==
  ASSUME HostInv, HostInv', Mirror, [Next]_vars
  PROVE  Mirror'
  <1>1. CASE TurnStep
    BY <1>1, MirrorTurn, MirrorRun, MirrorTurnWrites DEF TurnStep
  <1>2. CASE Command
    BY <1>2, MirrorOthers, MirrorWrites DEF Command
  <1>3. CASE TriggerStep
    BY <1>3, MirrorOthers, MirrorWrites DEF TriggerStep
  <1>4. CASE Crash
    BY <1>4, MirrorCrash
  <1>5. CASE UNCHANGED vars
    BY <1>5, MirrorOthers
  <1> QED
    BY <1>1, <1>2, <1>3, <1>4, <1>5 DEF Next

\* When nobody is in the middle of a write, the agent remembers what a restart
\* would load (triggers.rs: "state.messages is the in-memory mirror of session
\* Message entries"), as long as no two writers overlapped since the memory was
\* loaded and the branch had at most one compaction.
THEOREM MemoryFollowsLog == Spec => []MemoryMirrorsLog
  <1>1. Init => Mirror
    BY MirrorStarts
  <1>2. HostInv /\ HostInv' /\ Mirror /\ [Next]_vars => Mirror'
    BY MirrorNext
  <1>3. Mirror => MemoryMirrorsLog
    <2>1. "turn" \in Writers /\ "trigger" \in Writers
      BY WritersKnown
    <2> QED
      BY <2>1 DEF Mirror, Reflects, MemoryMirrorsLog, InFlight
  <1> QED
    BY <1>1, <1>2, <1>3, HostAlways, PTL DEF Spec
=============================================================================
