------------------------------ MODULE MCWorker ------------------------------
(* Worker for TLC: the requests are interchangeable. *)
EXTENDS Worker, TLC

Symmetry == Permutations(Requests)

=============================================================================
