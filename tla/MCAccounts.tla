----------------------------- MODULE MCAccounts -----------------------------
(* Accounts for TLC: requests of one kind, emails and identities are           *)
(* interchangeable.                                                            *)
EXTENDS Accounts, TLC

Symmetry ==
    Permutations(Registers) \cup Permutations(EmailChanges) \cup Permutations(Starts)
        \cup Permutations(Callbacks) \cup Permutations(Emails)
        \cup Permutations(Identities)

=============================================================================
