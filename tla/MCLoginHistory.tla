--------------------------- MODULE MCLoginHistory ---------------------------
(* LoginHistory for TLC: the logins are interchangeable. *)
EXTENDS LoginHistory, TLC

Symmetry == Permutations(Logins)

=============================================================================
