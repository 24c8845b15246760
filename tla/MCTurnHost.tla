----------------------------- MODULE MCTurnHost -----------------------------
(***************************************************************************)
(* TurnHost as TLC explores it.                                            *)
(***************************************************************************)
EXTENDS TurnHost

\* Retries are explored in the first life of the daemon.  What they keep is in
\* the turn, of which a restart leaves nothing.
Explored == crashes > 0 => turn.attempt = 0 /\ ~turn.fellBack

=============================================================================
