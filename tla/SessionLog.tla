----------------------------- MODULE SessionLog -----------------------------
(***************************************************************************)
(* The log of one session (theway-core agent/session/session.rs over       *)
(* theway-storage sqlite_storage.rs): rows of a tree, the last row being   *)
(* its leaf.  An append reads the leaf and writes its row in two awaits    *)
(* with no lock across them, so two tasks may append to the same parent.   *)
(*                                                                         *)
(* A row is a user message, a compaction, or one of the custom rows that   *)
(* are no part of the conversation.  Replies are left out, and so is       *)
(* moving the leaf: rewinding a failed reply, branches and forks.          *)
(***************************************************************************)
EXTENDS Integers, FiniteSets, SeqFilter

CONSTANT Writers   \* tasks that append to the log

VARIABLES
  log,        \* rows, in the order they were written
  leafRead    \* the leaf each writer has read for the append it is in

logVars == <<log, leafRead>>

\* No append under way, and no message.
Unread  == -1
Summary == 0

RowTypes == {"message", "compaction", "custom"}

Rows == [type : RowTypes, msg : Nat, kept : Nat, parent : Nat]

LogTypeOK ==
  /\ log \in Seq(Rows)
  /\ \A i \in 1..Len(log) : log[i].parent < i /\ log[i].kept < i
  /\ leafRead \in [Writers -> Unread..Len(log)]

LogInit == log = <<>> /\ leafRead = [w \in Writers |-> Unread]

(***************************************************************************)
(* Appending.  Rows are named by their place, 0 is no row.                 *)
(***************************************************************************)
Row(t, m, kept, parent) == [type |-> t, msg |-> m, kept |-> kept,
                            parent |-> parent]

ReadLeaf(w) == /\ leafRead[w] = Unread
               /\ leafRead' = [leafRead EXCEPT ![w] = Len(log)]
               /\ UNCHANGED log

WriteRow(w, t, m, kept) ==
  /\ leafRead[w] # Unread
  /\ log' = Append(log, Row(t, m, kept, leafRead[w]))
  /\ leafRead' = [leafRead EXCEPT ![w] = Unread]

(***************************************************************************)
(* Reading.                                                                *)
(***************************************************************************)
\* branch(None): the rows from the root to the leaf.
Branch ==
  LET path[i \in 0..Len(log)] ==
        IF i = 0 THEN <<>> ELSE Append(path[log[i].parent], i)
  IN  path[Len(log)]

MessageRows(rows) == Only(rows, {i \in 1..Len(log) : log[i].type = "message"})

MessagesOf(rows) == LET ms == MessageRows(rows)
                    IN  [k \in 1..Len(ms) |-> log[ms[k]].msg]

Compactions(rows) == {k \in 1..Len(rows) : log[rows[k]].type = "compaction"}

\* Slip: the first row kept is skipped.
ContextAfterKept(rows) ==
  IF Compactions(rows) = {} THEN MessagesOf(rows)
  ELSE LET c == CHOOSE k \in Compactions(rows) :
                  \A l \in Compactions(rows) : l <= k
       IN  <<Summary>> \o MessagesOf(Only(rows, {i \in 1..Len(log) :
                                              i > log[rows[c]].kept}))

\* build_session_context: of the last compaction the summary, the rows from the
\* first one it kept, and what came after it.
Context(rows) ==
  IF Compactions(rows) = {} THEN MessagesOf(rows)
  ELSE LET c     == CHOOSE k \in Compactions(rows) :
                      \A l \in Compactions(rows) : l <= k
           first == log[rows[c]].kept
           from  == {k \in 1..(c - 1) : rows[k] = first}
           tail  == IF from = {} THEN <<>>
                    ELSE SubSeq(rows, CHOOSE k \in from : TRUE, c - 1)
       IN  <<Summary>> \o MessagesOf(tail)
                       \o MessagesOf(SubSeq(rows, c + 1, Len(rows)))

(***************************************************************************)
(* Compacting.                                                             *)
(***************************************************************************)
\* The rows find_cut_point may keep from: a user message with something before
\* it to summarise.
CutPoints(rows) == {k \in 2..Len(rows) : log[rows[k]].type = "message"}

\* Slip: rows that are no messages are counted as well.
PlanAllRows(rows, k) == [kept |-> rows[k], before |-> k - 1]

\* What do_compact writes and what it will do to the agent's memory: the first
\* row kept, and the number of messages before it on the branch.
CompactionPlan(rows, k) == [kept |-> rows[k],
                            before |-> Len(MessageRows(SubSeq(rows, 1, k - 1)))]

\* The agent's messages after the compaction.  An index out of range keeps the
\* summary only.
Replaced(messages, plan) ==
  <<Summary>> \o SubSeq(messages, plan.before + 1, Len(messages))

\* Every row hangs on the row written before it.
Linear == \A i \in 1..Len(log) : log[i].parent = i - 1

Compacted == Cardinality(Compactions([i \in 1..Len(log) |-> i]))
=============================================================================
