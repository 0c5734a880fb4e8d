----------------------------- MODULE MCConnPool -----------------------------
(* ConnPool for TLC: the requests of one kind are interchangeable. *)
EXTENDS ConnPool, TLC

Symmetry == Permutations(Plain) \cup Permutations(Nested)

=============================================================================
