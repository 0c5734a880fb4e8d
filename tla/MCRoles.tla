------------------------------ MODULE MCRoles ------------------------------
(* Roles for TLC: the requests of one kind are interchangeable. *)
EXTENDS Roles, TLC

Symmetry ==
    Permutations(Creates) \cup Permutations(Removes) \cup Permutations(Modifies)
        \cup Permutations(Assigns) \cup Permutations(Revokes)
        \cup Permutations(Titles \ {DefaultTitle}) \cup Permutations(Labels)

=============================================================================
