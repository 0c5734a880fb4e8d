-------------------------------- MODULE Roles --------------------------------
(***************************************************************************)
(* The role catalog and the users' assignments: five superuser routes that *)
(* read rows, decide, and commit in a later round trip to PostgreSQL, with *)
(* no lock in between (READ COMMITTED).  The database enforces unique      *)
(* titles and the foreign key users.role_id, ON DELETE SET NULL.           *)
(*                                                                         *)
(* A role is named by the request that created it.  A request that stops   *)
(* between two steps needs no action: nothing obliges a request to go on.  *)
(***************************************************************************)
EXTENDS Integers, FiniteSets

CONSTANTS
    Creates, Removes, Modifies, Assigns, Revokes,   \* the requests
    Users, Superusers,
    Customs,         \* the roles there are at the start
    Seed,            \* the role create_default_role makes, if it is run
    Titles, DefaultTitle, Labels,
    None,            \* no role
    MaxRequests      \* bound on the requests that arrive

Requests == Creates \cup Removes \cup Modifies \cup Assigns \cup Revokes
RoleIds  == Customs \cup Creates \cup Revokes \cup {Seed}
Role     == [title : Titles, access_labels : Labels]

ASSUME KindsAreDisjoint ==
    /\ \A r \in Creates : r \notin Removes \cup Modifies \cup Assigns \cup Revokes
    /\ \A r \in Removes : r \notin Modifies \cup Assigns \cup Revokes
    /\ \A r \in Modifies : r \notin Assigns \cup Revokes
    /\ \A r \in Assigns : r \notin Revokes
ASSUME TitleAssumption == DefaultTitle \in Titles
ASSUME NoneAssumption == None \notin RoleIds \cup Role \cup Users
ASSUME BoundAssumption == MaxRequests \in Nat
ASSUME SeedAssumption == Seed \notin Customs \cup Requests
ASSUME NewRolesAssumption == Customs \cap (Creates \cup Revokes) = {}

VARIABLES
    roles,     \* the rows of table roles
    users,     \* users.role_id
    pc,        \* where each request stands
    target,    \* the role a request was called with, or found by title
    subject,   \* the user it was called with
    loaded,    \* the row of roles, or the role_id, it read
    wanted,    \* the row a modification asks for
    prior      \* auxiliary: the requests answered before this one arrived

vars == <<roles, users, pc, target, subject, loaded, wanted, prior>>
request == <<target, subject, loaded, wanted>>

Answered == {"done", "exists", "not_found", "protected", "failed"}
Steps == {"idle", "delete", "update", "role", "default", "insert", "commit"}
             \cup Answered

IsDefault(id) == roles[id] # None /\ roles[id].title = DefaultTitle
TitleTaken(title, id) ==
    \E other \in RoleIds \ {id} : roles[other] # None /\ roles[other].title = title

Goto(r, step) == pc' = [pc EXCEPT ![r] = step]

Arrive(r, step) ==
    /\ Goto(r, step)
    /\ prior' = [prior EXCEPT ![r] = {s \in Requests : pc[s] \in Answered}]

TypeOK ==
    /\ roles \in [RoleIds -> Role \cup {None}]
    /\ users \in [Users -> RoleIds \cup {None}]
    /\ pc \in [Requests -> Steps]
    /\ target \in [Requests -> RoleIds \cup {None}]
    /\ subject \in [Requests -> Users \cup {None}]
    /\ loaded \in [Requests -> Role \cup RoleIds \cup {None}]
    /\ wanted \in [Requests -> Role \cup {None}]
    /\ prior \in [Requests -> SUBSET Requests]

Init ==
    /\ \E custom \in [Customs -> [title : Titles \ {DefaultTitle}, access_labels : Labels]],
          default \in {None} \cup [title : {DefaultTitle}, access_labels : Labels] :
          /\ \A c, d \in Customs : custom[c].title = custom[d].title => c = d
          /\ roles = [id \in RoleIds |->
                        IF id \in Customs THEN custom[id]
                        ELSE IF id = Seed THEN default ELSE None]
    /\ users \in [Users -> {None} \cup {id \in Customs \cup {Seed} : roles[id] # None}]
    /\ pc = [r \in Requests |-> "idle"]
    /\ target = [r \in Requests |-> None]
    /\ subject = [r \in Requests |-> None]
    /\ loaded = [r \in Requests |-> None]
    /\ wanted = [r \in Requests |-> None]
    /\ prior = [r \in Requests |-> {}]

-----------------------------------------------------------------------------
(* POST, DELETE and PATCH /roles *)

CreateRole(r, row) ==
    /\ r \in Creates
    /\ \/ /\ TitleTaken(row.title, r)
          /\ Arrive(r, "exists")
          /\ UNCHANGED roles
       \/ /\ ~TitleTaken(row.title, r)
          /\ Arrive(r, "done")
          /\ roles' = [roles EXCEPT ![r] = row]
    /\ UNCHANGED <<users, request>>

\* Mutant: the protection of the default role forgotten.
RemoveRoleUnprotected(r, id) ==
    /\ r \in Removes
    /\ roles[id] # None
    /\ Arrive(r, "delete")
    /\ target' = [target EXCEPT ![r] = id]
    /\ UNCHANGED <<roles, users, subject, loaded, wanted>>

\* session.get(Role, role_id) and the checks on the object it read.
RemoveRole(r, id) ==
    /\ r \in Removes
    /\ target' = [target EXCEPT ![r] = id]
    /\ \/ roles[id] = None /\ Arrive(r, "not_found")
       \/ IsDefault(id) /\ Arrive(r, "protected")
       \/ roles[id] # None /\ ~IsDefault(id) /\ Arrive(r, "delete")
    /\ UNCHANGED <<roles, users, subject, loaded, wanted>>

\* DELETE by primary key; that no row matches is only a warning.
CommitRemoval(r) ==
    /\ pc[r] = "delete"
    /\ roles' = [roles EXCEPT ![target[r]] = None]
    /\ users' = [u \in Users |-> IF users[u] = target[r] THEN None ELSE users[u]]
    /\ Goto(r, "done")
    /\ UNCHANGED <<request, prior>>

\* Mutant: the role is not looked for.
ModifyRoleUnchecked(r, id, row) ==
    /\ r \in Modifies
    /\ Arrive(r, "update")
    /\ target' = [target EXCEPT ![r] = id]
    /\ loaded' = [loaded EXCEPT ![r] = roles[id]]
    /\ wanted' = [wanted EXCEPT ![r] = row]
    /\ UNCHANGED <<roles, users, subject>>

\* session.get(Role, role_id), the checks, and the assignments to the object.
ModifyRole(r, id, row) ==
    /\ r \in Modifies
    /\ target' = [target EXCEPT ![r] = id]
    /\ \/ /\ roles[id] = None
          /\ Arrive(r, "not_found")
          /\ UNCHANGED <<loaded, wanted>>
       \/ /\ IsDefault(id) /\ row.title # DefaultTitle
          /\ Arrive(r, "protected")
          /\ UNCHANGED <<loaded, wanted>>
       \/ /\ roles[id] # None
          /\ ~(IsDefault(id) /\ row.title # DefaultTitle)
          /\ Arrive(r, "update")
          /\ loaded' = [loaded EXCEPT ![r] = roles[id]]
          /\ wanted' = [wanted EXCEPT ![r] = row]
    /\ UNCHANGED <<roles, users, subject>>

\* Mutant: the columns swapped.
MergedSwapped(id, old, new) ==
    [title |-> new.access_labels, access_labels |-> new.title]

\* Mutant: the title alone.
MergedTitle(id, old, new) == [roles[id] EXCEPT !.title = new.title]

\* Only the columns that differ from the object as read are written.
Merged(id, old, new) ==
    [title |-> IF new.title # old.title THEN new.title ELSE roles[id].title,
     access_labels |-> IF new.access_labels # old.access_labels
                       THEN new.access_labels ELSE roles[id].access_labels]

\* An UPDATE that matches no row raises StaleDataError, which nobody catches.
CommitModification(r) ==
    /\ pc[r] = "update"
    /\ LET id == target[r] IN
       \/ /\ wanted[r] = loaded[r]
          /\ Goto(r, "done")
          /\ UNCHANGED roles
       \/ /\ wanted[r] # loaded[r] /\ roles[id] = None
          /\ Goto(r, "failed")
          /\ UNCHANGED roles
       \/ /\ wanted[r] # loaded[r] /\ roles[id] # None
          /\ wanted[r].title # loaded[r].title /\ TitleTaken(wanted[r].title, id)
          /\ Goto(r, "exists")
          /\ UNCHANGED roles
       \/ /\ wanted[r] # loaded[r] /\ roles[id] # None
          /\ ~(wanted[r].title # loaded[r].title /\ TitleTaken(wanted[r].title, id))
          /\ roles' = [roles EXCEPT ![id] = Merged(id, loaded[r], wanted[r])]
          /\ Goto(r, "done")
    /\ UNCHANGED <<users, request, prior>>

-----------------------------------------------------------------------------
(* POST /roles/assign and /roles/revoke *)

\* session.get(User, user_id); None stands for an unknown user_id.
AssignRole(r, u, id) ==
    /\ r \in Assigns
    /\ target' = [target EXCEPT ![r] = id]
    /\ subject' = [subject EXCEPT ![r] = u]
    /\ \/ u = None /\ Arrive(r, "not_found") /\ UNCHANGED loaded
       \/ /\ u # None
          /\ Arrive(r, "role")
          /\ loaded' = [loaded EXCEPT ![r] = users[u]]
    /\ UNCHANGED <<roles, users, wanted>>

\* Mutant: the role is not looked up.
AssumeAssignedRole(r) ==
    /\ pc[r] = "role"
    /\ Goto(r, "commit")
    /\ UNCHANGED <<roles, users, request, prior>>

\* session.get(Role, role_id).
LoadAssignedRole(r) ==
    /\ pc[r] = "role"
    /\ Goto(r, IF roles[target[r]] = None THEN "not_found" ELSE "commit")
    /\ UNCHANGED <<roles, users, request, prior>>

\* A superuser is left with no role, anyone else with the default one.
RevokeRole(r, u) ==
    /\ r \in Revokes
    /\ subject' = [subject EXCEPT ![r] = u]
    /\ \/ u = None /\ Arrive(r, "not_found") /\ UNCHANGED loaded
       \/ /\ u # None
          /\ Arrive(r, IF u \in Superusers THEN "commit" ELSE "default")
          /\ loaded' = [loaded EXCEPT ![r] = users[u]]
    /\ UNCHANGED <<roles, users, target, wanted>>

\* get_or_create_default_role, in a session of its own: the SELECT ...
FindDefaultRole(r) ==
    /\ pc[r] = "default"
    /\ \/ \E id \in RoleIds :
            /\ IsDefault(id)
            /\ target' = [target EXCEPT ![r] = id]
            /\ Goto(r, "commit")
       \/ /\ \A id \in RoleIds : ~IsDefault(id)
          /\ Goto(r, "insert")
          /\ UNCHANGED target
    /\ UNCHANGED <<roles, users, subject, loaded, wanted, prior>>

\* ... and the INSERT, whose IntegrityError nobody catches.
CreateDefaultRole(r, labels) ==
    /\ pc[r] = "insert"
    /\ \/ /\ TitleTaken(DefaultTitle, r)
          /\ Goto(r, "failed")
          /\ UNCHANGED <<roles, target>>
       \/ /\ ~TitleTaken(DefaultTitle, r)
          /\ roles' = [roles EXCEPT ![r] =
                         [title |-> DefaultTitle, access_labels |-> labels]]
          /\ target' = [target EXCEPT ![r] = r]
          /\ Goto(r, "commit")
    /\ UNCHANGED <<users, subject, loaded, wanted, prior>>

\* Mutant: the foreign key is assigned to a detached object.
CommitNothing(r) ==
    /\ pc[r] = "commit"
    /\ Goto(r, "done")
    /\ UNCHANGED <<roles, users, request, prior>>

\* No UPDATE when the object already had that role_id; the foreign key fails
\* when the role is gone, an IntegrityError nobody catches.
CommitUserRole(r) ==
    /\ pc[r] = "commit"
    /\ LET u == subject[r]  id == target[r] IN
       \/ id = loaded[r] /\ Goto(r, "done") /\ UNCHANGED users
       \/ /\ id # loaded[r] /\ id # None /\ roles[id] = None
          /\ Goto(r, "failed")
          /\ UNCHANGED users
       \/ /\ id # loaded[r] /\ (id # None => roles[id] # None)
          /\ users' = [users EXCEPT ![u] = id]
          /\ Goto(r, "done")
    /\ UNCHANGED <<roles, request, prior>>

-----------------------------------------------------------------------------

Receive(r) ==
    /\ pc[r] = "idle"
    /\ Cardinality({s \in Requests : pc[s] # "idle"}) < MaxRequests
    /\ \/ \E row \in Role : CreateRole(r, row)
       \/ \E id \in RoleIds :
             \/ RemoveRole(r, id)
             \/ \E row \in Role : ModifyRole(r, id, row)
             \/ \E u \in Users \cup {None} : AssignRole(r, u, id)
       \/ \E u \in Users \cup {None} : RevokeRole(r, u)

Proceed(r) ==
    \/ CommitRemoval(r)
    \/ CommitModification(r)
    \/ LoadAssignedRole(r)
    \/ FindDefaultRole(r)
    \/ \E labels \in Labels : CreateDefaultRole(r, labels)
    \/ CommitUserRole(r)

Next == \E r \in Requests : Receive(r) \/ Proceed(r)

Spec == Init /\ [][Next]_vars

-----------------------------------------------------------------------------
(* Properties *)

Overlaps(s, r) == s # r /\ pc[s] # "idle" /\ s \notin prior[r]

\* Made before serving, the default role stays, whatever its labels become: the
\* check of the title and the removal or renaming are far apart, and no other
\* role can take the title in between (service_role.py:45-52, 54-60).
DefaultRoleStays ==
    [][ IsDefault(Seed) => IsDefault(Seed)' ]_vars

\* A modification is applied as asked, though it writes only the columns that
\* differ from what it read, when no other one of that role overlaps it or comes
\* later: the role is as it wanted, or was deleted (service_role.py:54-67).
ModificationIsApplied ==
    \A m \in Modifies :
        /\ pc[m] = "done"
        /\ \A n \in Modifies \ {m} : target[n] = target[m] => n \in prior[m]
        => roles[target[m]] \in {wanted[m], None}

\* A 200 of assign_role or revoke_role is the truth about the user as long as
\* no other request for that user overlaps it or comes later, whatever happens
\* to the roles meanwhile: the user has the role, or the role was deleted.
AnswerIsApplied ==
    \A a \in Assigns \cup Revokes :
        /\ pc[a] = "done"
        /\ \A b \in (Assigns \cup Revokes) \ {a} :
              subject[b] = subject[a] => b \in prior[a]
        => \/ users[subject[a]] = target[a]
           \/ /\ users[subject[a]] = None
              /\ \E m \in Removes : pc[m] = "done" /\ target[m] = target[a]

\* An uncaught database error always comes of a race: the role was deleted, or
\* the default role made, by a request that overlaps.  Alone, no request fails.
ServerErrorIsConflict ==
    \A r \in Requests :
        pc[r] = "failed" =>
            \/ \E m \in Removes :
                  Overlaps(m, r) /\ pc[m] = "done" /\ target[m] = target[r]
            \/ /\ r \in Revokes /\ roles[Seed] = None
               /\ \E s \in Creates \cup Modifies \cup Revokes :
                     Overlaps(s, r) /\ pc[s] \in {"done", "commit"}

=============================================================================
