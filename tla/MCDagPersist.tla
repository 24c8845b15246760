---------------------------- MODULE MCDagPersist ----------------------------
(***************************************************************************)
(* Instances of DagPersist for TLC.                                        *)
(***************************************************************************)
EXTENDS DagPersist, TLC

CONSTANTS s1, s2

Interchangeable == Permutations(Sessions)

=============================================================================
