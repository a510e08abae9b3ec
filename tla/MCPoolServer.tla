---------------------------- MODULE MCPoolServer ----------------------------
(* The thread pool server on small sets of clients, slots and threads. *)
EXTENDS PoolServer, TLC

Symmetry == Permutations(Slots) \cup Permutations(Workers) \cup Permutations(Clients)
=============================================================================
