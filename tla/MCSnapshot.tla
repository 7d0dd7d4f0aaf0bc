----------------------------- MODULE MCSnapshot -----------------------------
(* Instances of Snapshot for TLC. *)
EXTENDS Snapshot

CONSTANTS c1, c2, f1, f2

MCOneClient  == {c1}
MCTwoClients == {c1, c2}   \* refutes OkMeansFresh
MCFiles      == {f1, f2}
=============================================================================
