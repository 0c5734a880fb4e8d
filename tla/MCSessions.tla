----------------------------- MODULE MCSessions -----------------------------
(* Sessions for TLC: the requests of one kind are interchangeable. *)
EXTENDS Sessions, TLC

Symmetry ==
    Permutations(Logins) \cup Permutations(Refreshes) \cup Permutations(Logouts)
        \cup Permutations(LogoutOthers) \cup Permutations(PasswordChanges)
        \cup Permutations(RoleCalls)

\* Two instances in one run: the rotation of the tokens of one login by two
\* refreshes and a logout, with a clock and a role that comes and goes in its first
\* second; and two logins and a refresh beside the writers of token_version, while the
\* clock stands still.  In both one request at most fails, and the login history, which nothing
\* here reads (see LoginHistory), is kept.
Started(kind) == {r \in kind : pc[r] # "idle"}

Rotation == Started(Writers) = {} /\ Cardinality(Started(Logins)) <= 1

Versions ==
    /\ second = 0 /\ tick = 0 /\ row.role
    /\ Started(Logouts) = {} /\ Cardinality(Started(Refreshes)) <= 1

OneFailure == Cardinality({r \in Requests : pc[r] = "failed"}) <= 1

HistoryKept == {l \in Logins : pc[l] = "done" /\ issued[l] # None} \subseteq history

RoleEditedEarly == row'.role # row.role => second = 0

Instances ==
    Init /\ [][ /\ Next
               /\ ((Rotation \/ Versions) /\ OneFailure /\ HistoryKept)'
               /\ RoleEditedEarly ]_vars

=============================================================================
