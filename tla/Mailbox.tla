------------------------------ MODULE Mailbox ------------------------------
(***************************************************************************)
(* What an agent's steering queue promises its senders, with no loop,      *)
(* turns or tokens: messages reach the conversation in the order they were *)
(* accepted, none twice, and none is lost before the agent is gone.        *)
(***************************************************************************)
EXTENDS Naturals, Sequences

CONSTANT Messages

VARIABLES pending,    \* accepted and not delivered
          delivered,  \* in the conversation
          gone        \* the agent's run was killed

mailVars == <<pending, delivered, gone>>

MailInit == pending = <<>> /\ delivered = <<>> /\ gone = FALSE

Accept(m) == /\ pending' = Append(pending, m)
             /\ UNCHANGED <<delivered, gone>>

Deliver == /\ ~gone
           /\ pending # <<>>
           /\ delivered' = Append(delivered, Head(pending))
           /\ pending' = Tail(pending)
           /\ UNCHANGED gone

\* The run is killed: what it had taken and not delivered is lost.
Kill == /\ ~gone
        /\ gone' = TRUE
        /\ \E n \in 0..Len(pending) :
             pending' = SubSeq(pending, n + 1, Len(pending))
        /\ UNCHANGED delivered

MailNext == Deliver \/ Kill \/ \E m \in Messages : Accept(m)

MailSpec == MailInit /\ [][MailNext]_mailVars
=============================================================================
