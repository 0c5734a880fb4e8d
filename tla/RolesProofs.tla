----------------------------- MODULE RolesProofs -----------------------------
(***************************************************************************)
(* What holds of the role routes for any number of requests, users, titles *)
(* and labels: types, that the default role stays, that the answers of     *)
(* assign_role, revoke_role and modify_role are true, and that a server    *)
(* error is always due to a request that overlaps.                         *)
(***************************************************************************)
EXTENDS Roles, TLAPS

(* Types *)

\* What a request at each step can rely on: its kind, and what it has read.
Ready ==
    \A r \in Requests :
        /\ pc[r] = "delete" => r \in Removes
        /\ pc[r] = "update" =>
              r \in Modifies /\ target[r] \in RoleIds /\ loaded[r] \in Role /\ wanted[r] \in Role
        /\ pc[r] = "role" => r \in Assigns
        /\ pc[r] \in {"default", "insert"} => r \in Revokes
        /\ pc[r] = "commit" => r \in Assigns \cup Revokes
        /\ pc[r] \in {"role", "default", "insert", "commit"} => subject[r] \in Users

Base == TypeOK /\ Ready

\* Every step keeps the types and what requests rely on.
LEMMA BaseStep == ASSUME Base, [Next]_vars PROVE Base'
<1> USE KindsAreDisjoint, NoneAssumption
    DEF Base, TypeOK, Ready, Steps, Answered, Requests, RoleIds, request, Goto, Arrive
<1>1. ASSUME NEW r \in Requests, NEW row \in Role, pc[r] = "idle", CreateRole(r, row)
      PROVE Base'
  BY <1>1 DEF CreateRole
<1>2. ASSUME NEW r \in Requests, NEW id \in RoleIds, pc[r] = "idle", RemoveRole(r, id)
      PROVE Base'
  BY <1>2 DEF RemoveRole
<1>3. ASSUME NEW r \in Requests, NEW id \in RoleIds, NEW row \in Role, pc[r] = "idle",
             ModifyRole(r, id, row)
      PROVE Base'
  BY <1>3 DEF ModifyRole
<1>4. ASSUME NEW r \in Requests, NEW id \in RoleIds, NEW u \in Users \cup {None},
             pc[r] = "idle", AssignRole(r, u, id)
      PROVE Base'
  BY <1>4 DEF AssignRole
<1>5. ASSUME NEW r \in Requests, NEW u \in Users \cup {None}, pc[r] = "idle", RevokeRole(r, u)
      PROVE Base'
  BY <1>5 DEF RevokeRole
<1>6. ASSUME NEW r \in Requests, CommitRemoval(r) PROVE Base'
  BY <1>6 DEF CommitRemoval
<1>7. ASSUME NEW r \in Requests, CommitModification(r) PROVE Base'
  <2>1. pc[r] = "update" /\ target[r] \in RoleIds /\ loaded[r] \in Role /\ wanted[r] \in Role
    BY <1>7 DEF CommitModification
  <2>2. roles[target[r]] # None => Merged(target[r], loaded[r], wanted[r]) \in Role
    BY <2>1 DEF Merged, Role
  <2>3. roles' \in [RoleIds -> Role \cup {None}]
    BY <1>7, <2>1, <2>2 DEF CommitModification
  <2> QED
    BY <1>7, <2>3 DEF CommitModification
<1>8. ASSUME NEW r \in Requests, LoadAssignedRole(r) PROVE Base'
  BY <1>8 DEF LoadAssignedRole
<1>9. ASSUME NEW r \in Requests, FindDefaultRole(r) PROVE Base'
  BY <1>9 DEF FindDefaultRole
<1>10. ASSUME NEW r \in Requests, NEW labels \in Labels, CreateDefaultRole(r, labels)
       PROVE Base'
  <2>1. [title |-> DefaultTitle, access_labels |-> labels] \in Role
    BY TitleAssumption DEF Role
  <2> QED
    BY <1>10, <2>1 DEF CreateDefaultRole
<1>11. ASSUME NEW r \in Requests, CommitUserRole(r) PROVE Base'
  BY <1>11 DEF CommitUserRole
<1>12. CASE UNCHANGED vars
  BY <1>12 DEF vars
<1> QED
  BY <1>1, <1>2, <1>3, <1>4, <1>5, <1>6, <1>7, <1>8, <1>9, <1>10, <1>11, <1>12
     DEF Next, Receive, Proceed

\* The service starts with roles, users and no request.
LEMMA BaseInit == Init => Base
<1> SUFFICES ASSUME Init PROVE Base
  OBVIOUS
<1> USE DEF Base, TypeOK, Ready, Steps, Answered
<1>1. PICK custom \in [Customs -> [title : Titles \ {DefaultTitle}, access_labels : Labels]],
           default \in {None} \cup [title : {DefaultTitle}, access_labels : Labels] :
        roles = [id \in RoleIds |-> IF id \in Customs THEN custom[id]
                                    ELSE IF id = Seed THEN default ELSE None]
  BY DEF Init
<1>2. roles \in [RoleIds -> Role \cup {None}]
  BY <1>1, TitleAssumption DEF Role
<1>3. users \in [Users -> RoleIds \cup {None}]
  BY DEF Init, RoleIds
<1> QED
  BY <1>2, <1>3 DEF Init

\* The variables of the role routes keep their types (service_role.py).
THEOREM RolesTypeCorrect == Spec => []TypeOK
<1>1. Base => TypeOK
  BY DEF Base
<1> QED
  BY <1>1, BaseInit, BaseStep, PTL DEF Spec

-----------------------------------------------------------------------------
(* The default role *)

\* The roles that create_default_role makes have that title from the start; once
\* there, nobody is about to delete or to rename one.
Defaults == Revokes \cup {Seed}

DefaultsAreSafe ==
    \A id \in Defaults :
        /\ roles[id] = None \/ IsDefault(id)
        /\ \A r \in Requests :
             target[r] = id =>
                /\ pc[r] # "delete"
                /\ pc[r] = "update" => wanted[r].title = DefaultTitle

DefaultsStay == \A id \in Defaults : IsDefault(id) => IsDefault(id)'

\* A step keeps the default roles safe, and where they are.
LEMMA DefaultsStep ==
    ASSUME Base, DefaultsAreSafe, [Next]_vars
    PROVE  DefaultsAreSafe' /\ DefaultsStay
<1> DEFINE Kept == DefaultsAreSafe' /\ DefaultsStay
<1> USE SeedAssumption, NoneAssumption, KindsAreDisjoint
    DEF Base, TypeOK, Ready, DefaultsAreSafe, DefaultsStay, Defaults, IsDefault, Answered,
        Requests, request, Goto, Arrive
<1>0. Defaults \subseteq RoleIds
  BY DEF RoleIds
<1> USE <1>0
<1>1. ASSUME NEW r \in Requests, NEW row \in Role, CreateRole(r, row) PROVE Kept
  BY <1>1 DEF CreateRole
<1>2. ASSUME NEW r \in Requests, NEW id \in RoleIds, RemoveRole(r, id) PROVE Kept
  BY <1>2 DEF RemoveRole
<1>3. ASSUME NEW r \in Requests, NEW id \in RoleIds, NEW row \in Role, ModifyRole(r, id, row)
      PROVE Kept
  BY <1>3 DEF ModifyRole
<1>4. ASSUME NEW r \in Requests, NEW id \in RoleIds, NEW u \in Users \cup {None},
             AssignRole(r, u, id)
      PROVE Kept
  BY <1>4 DEF AssignRole
<1>5. ASSUME NEW r \in Requests, NEW u \in Users \cup {None}, RevokeRole(r, u) PROVE Kept
  BY <1>5 DEF RevokeRole
<1>6. ASSUME NEW r \in Requests, CommitRemoval(r) PROVE Kept
  BY <1>6 DEF CommitRemoval
<1>7. ASSUME NEW r \in Requests, CommitModification(r) PROVE Kept
  <2>1. pc[r] = "update"
    BY <1>7 DEF CommitModification
  <2>2. ASSUME NEW id \in Defaults
        PROVE  /\ roles[id] = None => roles'[id] = None
               /\ roles[id] # None => roles'[id] # None /\ roles'[id].title = DefaultTitle
    <3>1. CASE target[r] = id
      BY <1>7, <2>1, <3>1 DEF CommitModification, Merged, Role
    <3>2. CASE target[r] # id
      BY <1>7, <2>1, <3>2 DEF CommitModification
    <3> QED
      BY <3>1, <3>2
  <2> QED
    BY <1>7, <2>2 DEF CommitModification
<1>8. ASSUME NEW r \in Requests, LoadAssignedRole(r) PROVE Kept
  BY <1>8 DEF LoadAssignedRole
<1>9. ASSUME NEW r \in Requests, FindDefaultRole(r) PROVE Kept
  BY <1>9 DEF FindDefaultRole
<1>10. ASSUME NEW r \in Requests, NEW labels \in Labels, CreateDefaultRole(r, labels) PROVE Kept
  <2>1. [title |-> DefaultTitle, access_labels |-> labels] \in Role
    BY TitleAssumption DEF Role
  <2> QED
    BY <1>10, <2>1 DEF CreateDefaultRole
<1>11. ASSUME NEW r \in Requests, CommitUserRole(r) PROVE Kept
  BY <1>11 DEF CommitUserRole
<1>12. CASE UNCHANGED vars
  BY <1>12 DEF vars
<1> QED
  BY <1>1, <1>2, <1>3, <1>4, <1>5, <1>6, <1>7, <1>8, <1>9, <1>10, <1>11, <1>12
     DEF Next, Receive, Proceed

LEMMA DefaultsInit == Init => DefaultsAreSafe
<1> SUFFICES ASSUME Init, NEW id \in Defaults PROVE roles[id] = None \/ IsDefault(id)
  BY DEF Init, DefaultsAreSafe
<1>1. PICK custom \in [Customs -> [title : Titles \ {DefaultTitle}, access_labels : Labels]],
           default \in {None} \cup [title : {DefaultTitle}, access_labels : Labels] :
        roles = [i \in RoleIds |-> IF i \in Customs THEN custom[i]
                                   ELSE IF i = Seed THEN default ELSE None]
  BY DEF Init
<1>2. id \in RoleIds /\ id \notin Customs
  BY SeedAssumption, NewRolesAssumption DEF Defaults, RoleIds
<1> QED
  BY <1>1, <1>2 DEF IsDefault

\* The default role, made before serving, is neither deleted nor renamed by any
\* interleaving of the role routes (service_role.py:45-67).
THEOREM DefaultRoleIsKept == Spec => DefaultRoleStays
<1>1. Base /\ DefaultsAreSafe /\ [Next]_vars
        => DefaultsAreSafe' /\ [IsDefault(Seed) => IsDefault(Seed)']_vars
  BY DefaultsStep DEF DefaultsStay, Defaults
<1> QED
  BY <1>1, DefaultsInit, BaseInit, BaseStep, PTL DEF Spec, DefaultRoleStays

-----------------------------------------------------------------------------
(* What a step does to requests, users and roles *)

Givers == Assigns \cup Revokes

Choosing == {"role", "default", "insert", "commit"}

\* A request answered before another one is over; one not there yet has no user.
OrderIsKnown ==
    \A r \in Requests :
        /\ \A s \in prior[r] : pc[s] \in Answered
        /\ pc[r] = "idle" => subject[r] = None
        /\ r \in Givers /\ pc[r] = "done" => subject[r] \in Users

\* All that the properties need to know of a step of one request.
Moves(r) ==
    /\ pc[r] \notin Answered /\ pc'[r] # "idle"
    /\ \A s \in Requests \ {r} :
          /\ pc'[s] = pc[s] /\ target'[s] = target[s] /\ subject'[s] = subject[s]
          /\ loaded'[s] = loaded[s] /\ prior'[s] = prior[s]
    /\ IF pc[r] = "idle" THEN prior'[r] = {s \in Requests : pc[s] \in Answered}
       ELSE prior'[r] = prior[r] /\ subject'[r] = subject[r]
    /\ \/ users' = users
       \/ /\ r \in Removes /\ pc'[r] = "done" /\ target'[r] = target[r]
          /\ users' = [u \in Users |-> IF users[u] = target[r] THEN None ELSE users[u]]
       \/ /\ r \in Givers /\ pc[r] = "commit" /\ pc'[r] = "done"
          /\ users' = [users EXCEPT ![subject[r]] = target[r]]
    /\ r \in Givers /\ pc'[r] \in Choosing =>
          /\ users' = users
          /\ \/ pc[r] = "idle" /\ loaded'[r] = users[subject'[r]]
             \/ pc[r] \in Choosing /\ loaded'[r] = loaded[r]
    /\ r \in Givers /\ pc'[r] = "done" =>
          /\ pc[r] = "commit" /\ target'[r] = target[r]
          /\ \/ target[r] = loaded[r] /\ users' = users
             \/ users' = [users EXCEPT ![subject[r]] = target[r]]

Makers == Creates \cup Revokes

Unmade == {"idle", "default", "insert"}

Untitled == \A id \in RoleIds : ~IsDefault(id)

\* What a step of one request does to the rows of roles: make one, delete one or
\* write the columns of one; and what it has read of them.
WritesRow(r) ==
    \/ roles' = roles
    \/ /\ r \in Makers /\ pc[r] \in Unmade /\ pc'[r] \in {"done", "commit"}
       /\ roles' = [roles EXCEPT ![r] = roles'[r]] /\ roles'[r] \in Role
       /\ IF r \in Revokes THEN pc'[r] = "commit" /\ target'[r] = r ELSE pc'[r] = "done"
    \/ /\ r \in Removes /\ pc[r] = "delete" /\ pc'[r] = "done" /\ target'[r] = target[r]
       /\ roles' = [roles EXCEPT ![target[r]] = None]
    \/ /\ r \in Modifies /\ pc[r] = "update" /\ pc'[r] = "done" /\ roles[target[r]] # None
       /\ roles' = [roles EXCEPT ![target[r]] = Merged(target[r], loaded[r], wanted[r])]

ReadsRow(r) ==
    /\ pc'[r] = "update" =>
         /\ r \in Modifies /\ pc[r] = "idle" /\ roles' = roles
         /\ loaded'[r] = roles[target'[r]] /\ roles[target'[r]] # None
    /\ r \in Modifies /\ pc'[r] = "done" =>
         /\ pc[r] = "update"
         /\ \/ wanted[r] = loaded[r] /\ roles' = roles
            \/ /\ roles[target[r]] # None
               /\ roles' = [roles EXCEPT ![target[r]] = Merged(target[r], loaded[r], wanted[r])]
    /\ pc'[r] = "commit" =>
         \/ pc[r] = "idle" /\ target'[r] = target[r]
         \/ roles'[target'[r]] # None
    /\ pc'[r] = "insert" => Untitled /\ roles' = roles
    /\ pc'[r] = "failed" =>
         /\ roles' = roles /\ target'[r] = target[r]
         /\ \/ /\ pc[r] \in {"update", "commit"} /\ target[r] # None
               /\ roles[target[r]] = None
            \/ r \in Revokes /\ pc[r] = "insert" /\ ~Untitled

RoleMoves(r) ==
    /\ \A s \in Requests \ {r} : wanted'[s] = wanted[s]
    /\ pc[r] # "idle" => wanted'[r] = wanted[r] /\ loaded'[r] = loaded[r]
    /\ pc[r] \in {"update", "delete", "role", "commit"} => target'[r] = target[r]
    /\ r \in Creates => target'[r] = target[r]
    /\ pc[r] = "commit" => pc'[r] \in {"done", "failed"}
    /\ pc'[r] \in Unmade => pc[r] \in Unmade
    /\ WritesRow(r) /\ ReadsRow(r)

\* Every step is such a step.
LEMMA NextMoves == ASSUME Base, Next PROVE \E r \in Requests : Moves(r) /\ RoleMoves(r)
<1> USE KindsAreDisjoint, NoneAssumption
    DEF Base, TypeOK, Ready, Moves, Givers, Choosing, Answered, Requests, RoleIds, Makers, Unmade,
        RoleMoves, WritesRow, ReadsRow, request, Goto, Arrive
<1>1. ASSUME NEW r \in Requests, NEW row \in Role, pc[r] = "idle", CreateRole(r, row)
      PROVE Moves(r) /\ RoleMoves(r)
  BY <1>1 DEF CreateRole
<1>2. ASSUME NEW r \in Requests, NEW id \in RoleIds, pc[r] = "idle", RemoveRole(r, id)
      PROVE Moves(r) /\ RoleMoves(r)
  BY <1>2 DEF RemoveRole
<1>3. ASSUME NEW r \in Requests, NEW id \in RoleIds, NEW row \in Role, pc[r] = "idle",
             ModifyRole(r, id, row)
      PROVE Moves(r) /\ RoleMoves(r)
  BY <1>3 DEF ModifyRole
<1>4. ASSUME NEW r \in Requests, NEW id \in RoleIds, NEW u \in Users \cup {None},
             pc[r] = "idle", AssignRole(r, u, id)
      PROVE Moves(r) /\ RoleMoves(r)
  BY <1>4 DEF AssignRole
<1>5. ASSUME NEW r \in Requests, NEW u \in Users \cup {None}, pc[r] = "idle", RevokeRole(r, u)
      PROVE Moves(r) /\ RoleMoves(r)
  BY <1>5 DEF RevokeRole
<1>6. ASSUME NEW r \in Requests, CommitRemoval(r) PROVE Moves(r) /\ RoleMoves(r)
  BY <1>6 DEF CommitRemoval
<1>7. ASSUME NEW r \in Requests, CommitModification(r) PROVE Moves(r) /\ RoleMoves(r)
  BY <1>7 DEF CommitModification
<1>8. ASSUME NEW r \in Requests, LoadAssignedRole(r) PROVE Moves(r) /\ RoleMoves(r)
  BY <1>8 DEF LoadAssignedRole
<1>9. ASSUME NEW r \in Requests, FindDefaultRole(r) PROVE Moves(r) /\ RoleMoves(r)
  BY <1>9 DEF FindDefaultRole, IsDefault, Untitled
<1>10. ASSUME NEW r \in Requests, NEW labels \in Labels, CreateDefaultRole(r, labels)
       PROVE Moves(r) /\ RoleMoves(r)
  <2>1. [title |-> DefaultTitle, access_labels |-> labels] \in Role
    BY TitleAssumption DEF Role
  <2> QED
    BY <1>10, <2>1 DEF CreateDefaultRole, TitleTaken, IsDefault, Untitled
<1>11. ASSUME NEW r \in Requests, CommitUserRole(r) PROVE Moves(r) /\ RoleMoves(r)
  BY <1>11 DEF CommitUserRole
<1> HIDE DEF Moves, RoleMoves
<1> QED
  BY <1>1, <1>2, <1>3, <1>4, <1>5, <1>6, <1>7, <1>8, <1>9, <1>10, <1>11
     DEF Next, Receive, Proceed

\* A step leaves the order of the requests known.
LEMMA OrderStep ==
    ASSUME Base, OrderIsKnown, NEW r \in Requests, Moves(r) PROVE OrderIsKnown'
<1> USE DEF Base, TypeOK, OrderIsKnown, Moves
<1>1. \A s \in Requests : pc[s] \in Answered => pc'[s] = pc[s]
  OBVIOUS
<1>2. ASSUME NEW q \in Requests, NEW s \in prior'[q] PROVE pc'[s] \in Answered
  <2>1. pc[s] \in Answered /\ s \in Requests
    BY <1>2
  <2> QED
    BY <1>1, <2>1
<1>3. ASSUME NEW q \in Requests, pc'[q] = "idle" PROVE subject'[q] = None
  BY <1>3
<1>4. ASSUME NEW q \in Requests, q \in Givers, pc'[q] = "done" PROVE subject'[q] \in Users
  BY <1>4 DEF Ready
<1> QED
  BY <1>2, <1>3, <1>4

-----------------------------------------------------------------------------
(* The answers of assign_role and revoke_role *)

\* No other request for the user of this one overlaps it or comes later.
Alone(a) == \A b \in Givers \ {a} : subject[b] = subject[a] => b \in prior[a]

\* The user has that role, or had it until it was deleted.
Holds(a, id) ==
    \/ users[subject[a]] = id
    \/ /\ users[subject[a]] = None
       /\ \E m \in Removes : pc[m] = "done" /\ target[m] = id

\* A request that is alone knows the user's role as long as it chooses, and sets it.
ChoiceIsKnown ==
    \A a \in Givers : Alone(a) /\ pc[a] \in Choosing => Holds(a, loaded[a])

AnswerInv == OrderIsKnown /\ ChoiceIsKnown /\ AnswerIsApplied

\* A request that is alone after a step was alone before it.
LEMMA StillAlone ==
    ASSUME Base, OrderIsKnown, NEW r \in Requests, Moves(r),
           NEW a \in Givers, pc[a] # "idle", subject[a] \in Users, Alone(a)'
    PROVE  Alone(a)
<1> USE DEF Base, TypeOK, OrderIsKnown, Moves, Givers, Requests
<1>1. subject'[a] = subject[a] /\ prior'[a] = prior[a]
  OBVIOUS
<1>2. ASSUME NEW b \in Givers \ {a}, subject[b] = subject[a] PROVE b \in prior[a]
  <2>1. subject'[b] = subject[b]
    BY <1>2, NoneAssumption
  <2> QED
    BY <1>1, <1>2, <2>1 DEF Alone
<1> QED
  BY <1>2 DEF Alone

\* What a lone request knows of its user, a step of another one leaves true.
LEMMA StillHolds ==
    ASSUME Base, OrderIsKnown, NEW r \in Requests, Moves(r),
           NEW a \in Givers, a # r, pc[a] # "idle", subject[a] \in Users, Alone(a)',
           NEW id, Holds(a, id)
    PROVE  Holds(a, id)'
<1> USE DEF Base, TypeOK, OrderIsKnown, Moves
<1>1. a \in Requests /\ subject'[a] = subject[a] /\ prior'[a] = prior[a]
  BY DEF Givers, Requests
<1>2. \A m \in Removes :
        pc[m] = "done" => m \in Requests /\ pc'[m] = "done" /\ target'[m] = target[m]
  BY DEF Requests, Answered
<1>3. CASE users' = users
  BY <1>1, <1>2, <1>3 DEF Holds
<1>4. CASE /\ r \in Removes /\ pc'[r] = "done" /\ target'[r] = target[r]
           /\ users' = [u \in Users |-> IF users[u] = target[r] THEN None ELSE users[u]]
  BY <1>1, <1>2, <1>4 DEF Holds
<1>5. CASE /\ r \in Givers /\ pc[r] = "commit" /\ pc'[r] = "done"
           /\ users' = [users EXCEPT ![subject[r]] = target[r]]
  <2>1. r \notin prior[a]
    BY <1>1, <1>5 DEF Answered
  <2>2. subject'[r] = subject[r]
    BY <1>5
  <2>3. subject[r] # subject[a]
    BY <1>1, <1>5, <2>1, <2>2 DEF Alone
  <2>4. users'[subject[a]] = users[subject[a]]
    BY <1>5, <2>3
  <2> QED
    BY <1>1, <1>2, <2>4 DEF Holds
<1> QED
  BY <1>3, <1>4, <1>5

\* A step keeps what lone requests know, and the truth of their answers.
LEMMA AnswerStep ==
    ASSUME Base, AnswerInv, NEW r \in Requests, Moves(r) PROVE AnswerInv'
<1> USE DEF AnswerInv
<1>1. OrderIsKnown'
  BY OrderStep
<1>2. ASSUME NEW a \in Givers, Alone(a)', pc'[a] \in Choosing PROVE Holds(a, loaded[a])'
  <2>1. CASE a # r
    <3>1. /\ a \in Requests /\ pc'[a] = pc[a] /\ loaded'[a] = loaded[a]
          /\ pc[a] # "idle" /\ subject[a] \in Users
      BY <1>2, <2>1 DEF Moves, Givers, Requests, Choosing, Base, Ready
    <3>2. Alone(a)
      BY <1>2, <3>1, StillAlone
    <3>3. Holds(a, loaded[a])
      BY <1>2, <3>1, <3>2 DEF ChoiceIsKnown
    <3>4. \A id : Holds(a, id) => Holds(a, id)'
      BY <1>2, <2>1, <3>1, StillHolds
    <3> QED
      BY <3>1, <3>3, <3>4 DEF Holds
  <2>2. CASE a = r /\ pc[r] = "idle"
    BY <1>2, <2>2 DEF Moves, Holds, Choosing
  <2>3. CASE a = r /\ pc[r] \in Choosing /\ loaded'[r] = loaded[r] /\ users' = users
    <3>1. pc[a] # "idle" /\ subject[a] \in Users
      BY <2>3 DEF Choosing, Base, Ready
    <3>2. Alone(a)
      BY <1>2, <3>1, StillAlone
    <3>3. Holds(a, loaded[a])
      BY <2>3, <3>2 DEF ChoiceIsKnown
    <3>4. \A m \in Removes :
            pc[m] = "done" => pc'[m] = "done" /\ target'[m] = target[m]
      BY <2>3 DEF Moves, Requests, Choosing
    <3>5. subject'[a] = subject[a]
      BY <2>3, <3>1 DEF Moves
    <3> QED
      BY <2>3, <3>3, <3>4, <3>5 DEF Holds
  <2> QED
    BY <1>2, <2>1, <2>2, <2>3 DEF Moves
<1>3. ASSUME NEW a \in Givers, Alone(a)', pc'[a] = "done" PROVE Holds(a, target[a])'
  <2>1. CASE a # r
    <3>1. /\ a \in Requests /\ pc'[a] = pc[a] /\ target'[a] = target[a]
          /\ pc[a] # "idle" /\ subject[a] \in Users
      BY <1>3, <2>1 DEF Moves, Givers, Requests, OrderIsKnown
    <3>2. Alone(a)
      BY <1>3, <3>1, StillAlone
    <3>3. Holds(a, target[a])
      BY <1>3, <3>1, <3>2 DEF AnswerIsApplied, Alone, Givers, Holds
    <3>4. \A id : Holds(a, id) => Holds(a, id)'
      BY <1>3, <2>1, <3>1, StillHolds
    <3> QED
      BY <3>1, <3>3, <3>4 DEF Holds
  <2>2. CASE a = r
    <3>1. /\ pc[a] = "commit" /\ target'[a] = target[a] /\ subject'[a] = subject[a]
          /\ subject[a] \in Users
      BY <1>3, <2>2 DEF Moves, Base, Ready
    <3>2. Alone(a)
      BY <1>3, <3>1, StillAlone
    <3>3. Holds(a, loaded[a])
      BY <3>1, <3>2 DEF ChoiceIsKnown, Choosing
    <3>4. \A m \in Removes :
            pc[m] = "done" => pc'[m] = "done" /\ target'[m] = target[m]
      BY <2>2, <3>1 DEF Moves, Requests
    <3>5. CASE target[a] = loaded[a] /\ users' = users
      BY <3>1, <3>3, <3>4, <3>5 DEF Holds
    <3>6. CASE users' = [users EXCEPT ![subject[a]] = target[a]]
      BY <3>1, <3>6 DEF Holds, Base, TypeOK
    <3> QED
      BY <1>3, <2>2, <3>5, <3>6 DEF Moves
  <2> QED
    BY <2>1, <2>2
<1>4. ChoiceIsKnown'
  BY <1>2 DEF ChoiceIsKnown
<1>5. AnswerIsApplied'
  BY <1>3 DEF AnswerIsApplied, Alone, Givers, Holds
<1> QED
  BY <1>1, <1>4, <1>5

\* A 200 of assign_role or revoke_role is the truth about the user, when no other
\* request for that user overlaps it or comes later (service_role.py:75-96).
THEOREM AnswersAreTrue == Spec => []AnswerIsApplied
<1>1. Init => AnswerInv
  BY DEF Init, AnswerInv, OrderIsKnown, ChoiceIsKnown, AnswerIsApplied, Choosing, Givers, Requests
<1>2. Base /\ AnswerInv /\ [Next]_vars => AnswerInv'
  <2>1. ASSUME Base, AnswerInv, UNCHANGED vars PROVE AnswerInv'
    BY <2>1 DEF vars, AnswerInv, OrderIsKnown, ChoiceIsKnown, AnswerIsApplied, Alone, Holds
  <2> QED
    BY <2>1, NextMoves, AnswerStep
<1>3. AnswerInv => AnswerIsApplied
  BY DEF AnswerInv
<1> QED
  BY <1>1, <1>2, <1>3, BaseInit, BaseStep, PTL DEF Spec

-----------------------------------------------------------------------------
(* Modifications *)

\* A role is not there before the request that makes it has; a modification that
\* found its role does not meet another one of that name later.
MadeOnce ==
    /\ \A r \in Makers : pc[r] \in Unmade => roles[r] = None
    /\ \A m \in Modifies :
         /\ pc[m] \in {"update", "done"} /\ target[m] \in Makers => pc[target[m]] \notin Unmade
         /\ pc[m] = "done" => target[m] # None
    /\ \A r \in Requests : pc[r] = "idle" => target[r] = None

\* No other modification of that role overlaps this one or comes later.
Only(m) == \A n \in Modifies \ {m} : target[n] = target[m] => n \in prior[m]

\* Such a modification knows the row it read, unless the role is deleted.
ReadIsKnown ==
    \A m \in Modifies : Only(m) /\ pc[m] = "update" => roles[target[m]] \in {loaded[m], None}

ModificationInv == ReadIsKnown /\ ModificationIsApplied

\* Roles are made once, whatever the step.
LEMMA MadeStep ==
    ASSUME Base, MadeOnce, NEW r \in Requests, Moves(r), RoleMoves(r) PROVE MadeOnce'
<1> USE KindsAreDisjoint, NoneAssumption DEF Base, TypeOK, Moves, RoleMoves
<1>1. \A q \in Requests : pc'[q] \in Unmade => pc[q] \in Unmade
  OBVIOUS
<1>2. Makers \subseteq Requests /\ Modifies \subseteq Requests /\ Makers \subseteq RoleIds
  BY DEF Makers, Requests, RoleIds
<1>3. ASSUME NEW q \in Makers, pc'[q] \in Unmade PROVE roles'[q] = None
  <2>1. pc[q] \in Unmade /\ roles[q] = None
    BY <1>1, <1>2, <1>3 DEF MadeOnce
  <2>2. q = r => pc'[r] \notin {"done", "commit"}
    BY <1>3 DEF Unmade
  <2> QED
    BY <1>2, <2>1, <2>2 DEF WritesRow
<1>4. ASSUME NEW m \in Modifies, pc'[m] \in {"update", "done"}, target'[m] \in Makers
      PROVE  pc'[target'[m]] \notin Unmade
  <2>1. CASE m # r
    BY <1>1, <1>2, <1>4, <2>1 DEF MadeOnce
  <2>2. CASE m = r /\ pc[m] = "update"
    BY <1>1, <1>2, <1>4, <2>2 DEF MadeOnce
  <2>3. CASE m = r /\ pc[m] # "update"
    BY <1>1, <1>2, <1>4, <2>3 DEF MadeOnce, ReadsRow
  <2> QED
    BY <2>1, <2>2, <2>3
<1>5. ASSUME NEW m \in Modifies, pc'[m] = "done" PROVE target'[m] # None
  <2>1. CASE m # r
    BY <1>2, <1>5, <2>1 DEF MadeOnce
  <2>2. CASE m = r
    BY <1>5, <2>2 DEF ReadsRow, Ready
  <2> QED
    BY <2>1, <2>2
<1>6. ASSUME NEW q \in Requests, pc'[q] = "idle" PROVE target'[q] = None
  BY <1>6 DEF MadeOnce
<1> QED
  BY <1>3, <1>4, <1>5, <1>6 DEF MadeOnce

LEMMA MadeInit == Init => MadeOnce
<1> SUFFICES ASSUME Init PROVE MadeOnce
  OBVIOUS
<1>1. ASSUME NEW r \in Makers PROVE roles[r] = None
  <2>1. r \in RoleIds /\ r \notin Customs /\ r # Seed
    BY SeedAssumption, NewRolesAssumption DEF Makers, RoleIds, Requests
  <2> QED
    BY <2>1 DEF Init
<1> QED
  BY <1>1 DEF Init, MadeOnce, Requests

\* What the columns written come to, on the row that was read.
LEMMA MergedIsWanted ==
    ASSUME NEW id \in RoleIds, NEW old \in Role, NEW new \in Role, roles[id] = old
    PROVE  Merged(id, old, new) = new
  BY DEF Merged, Role

\* What the only modification of a role knows, a step of another request leaves.
LEMMA StillRead ==
    ASSUME Base, MadeOnce, OrderIsKnown, NEW r \in Requests, Moves(r), RoleMoves(r),
           NEW m \in Modifies, m # r, pc[m] \in {"update", "done"}, Only(m)'
    PROVE  /\ Only(m) /\ pc'[m] = pc[m] /\ target'[m] = target[m] /\ loaded'[m] = loaded[m]
           /\ wanted'[m] = wanted[m] /\ roles'[target[m]] \in {roles[target[m]], None}
<1> USE KindsAreDisjoint, NoneAssumption DEF Base, TypeOK, Moves, RoleMoves
<1>1. m \in Requests /\ Modifies \subseteq Requests /\ target[m] \in RoleIds
  BY DEF Requests, MadeOnce, Ready
<1>2. /\ pc'[m] = pc[m] /\ target'[m] = target[m] /\ loaded'[m] = loaded[m]
      /\ wanted'[m] = wanted[m] /\ prior'[m] = prior[m]
  BY <1>1
<1>3. ASSUME NEW n \in Modifies \ {m}, target[n] = target[m]
      PROVE  n \in prior[m] /\ n # r
  <2>1. pc[n] \in {"update"} \cup Answered
    BY <1>1, <1>3 DEF MadeOnce, Ready, Steps
  <2>2. target'[n] = target[n]
    BY <1>1, <2>1
  <2>3. n \in prior[m]
    BY <1>2, <1>3, <2>2 DEF Only
  <2> QED
    BY <1>1, <2>3 DEF OrderIsKnown
<1>4. Only(m)
  BY <1>3 DEF Only
<1>5. r \in Makers /\ pc[r] \in Unmade => r # target[m]
  BY <1>1 DEF MadeOnce
<1>6. roles'[target[m]] \in {roles[target[m]], None}
  BY <1>1, <1>3, <1>5 DEF WritesRow
<1> QED
  BY <1>2, <1>4, <1>6

\* A step keeps what modifications know, and what they have done.
LEMMA ModificationStep ==
    ASSUME Base, MadeOnce, OrderIsKnown, ModificationInv,
           NEW r \in Requests, Moves(r), RoleMoves(r)
    PROVE  ModificationInv'
<1>1. ASSUME NEW m \in Modifies, Only(m)', pc'[m] = "update"
      PROVE  roles'[target'[m]] \in {loaded'[m], None}
  <2>1. CASE m # r
    <3>1. pc[m] = "update"
      BY <1>1, <2>1 DEF Moves, Requests
    <3> QED
      BY <1>1, <2>1, <3>1, StillRead DEF ModificationInv, ReadIsKnown
  <2>2. CASE m = r
    BY <1>1, <2>2 DEF RoleMoves, ReadsRow
  <2> QED
    BY <2>1, <2>2
<1>2. ASSUME NEW m \in Modifies, Only(m)', pc'[m] = "done"
      PROVE  roles'[target'[m]] \in {wanted'[m], None}
  <2>1. CASE m # r
    <3>1. pc[m] = "done"
      BY <1>2, <2>1 DEF Moves, Requests
    <3>2. Only(m) => roles[target[m]] \in {wanted[m], None}
      BY <3>1 DEF ModificationInv, ModificationIsApplied, Only
    <3> QED
      BY <1>2, <2>1, <3>1, <3>2, StillRead
  <2>2. CASE m = r
    <3>1. /\ pc[m] = "update" /\ target'[m] = target[m] /\ wanted'[m] = wanted[m]
          /\ prior'[m] = prior[m]
      BY <1>2, <2>2 DEF Moves, RoleMoves, ReadsRow
    <3>2. target[m] \in RoleIds /\ loaded[m] \in Role /\ wanted[m] \in Role
      BY <3>1, <2>2 DEF Base, Ready
    <3>3. Only(m)
      BY <1>2, <2>2, <3>1 DEF Only, Moves, Requests
    <3>4. roles[target[m]] \in {loaded[m], None}
      BY <3>1, <3>3 DEF ModificationInv, ReadIsKnown
    <3>5. CASE wanted[m] = loaded[m] /\ roles' = roles
      BY <3>1, <3>4, <3>5
    <3>6. CASE /\ roles[target[m]] # None
               /\ roles' = [roles EXCEPT ![target[m]] = Merged(target[m], loaded[m], wanted[m])]
      <4>1. Merged(target[m], loaded[m], wanted[m]) = wanted[m]
        BY <3>2, <3>4, <3>6, MergedIsWanted
      <4> QED
        BY <3>1, <3>2, <3>6, <4>1 DEF Base, TypeOK
    <3> QED
      BY <1>2, <2>2, <3>5, <3>6 DEF RoleMoves, ReadsRow
  <2> QED
    BY <2>1, <2>2
<1> QED
  BY <1>1, <1>2 DEF ModificationInv, ReadIsKnown, ModificationIsApplied, Only

\* A PATCH that is answered 200 leaves the role as it wanted, or deleted, when no
\* other modification of that role overlaps it or comes later (service_role.py:54-67).
THEOREM ModificationsAreApplied == Spec => []ModificationIsApplied
<1> DEFINE Inv == MadeOnce /\ OrderIsKnown /\ ModificationInv
<1>1. Init => Inv
  BY MadeInit DEF Init, OrderIsKnown, ModificationInv, ReadIsKnown, ModificationIsApplied, Requests,
     Givers
<1>2. Base /\ Inv /\ [Next]_vars => Inv'
  <2>1. ASSUME Base, Inv, UNCHANGED vars PROVE Inv'
    BY <2>1 DEF vars, MadeOnce, OrderIsKnown, ModificationInv, ReadIsKnown,
       ModificationIsApplied, Only
  <2> QED
    BY <2>1, NextMoves, MadeStep, OrderStep, ModificationStep
<1>3. Inv => ModificationIsApplied
  BY DEF ModificationInv
<1> HIDE DEF Inv
<1> QED
  BY <1>1, <1>2, <1>3, BaseInit, BaseStep, PTL DEF Spec

-----------------------------------------------------------------------------
(* Server errors *)

\* The role was deleted by a request that overlaps this one.
GoneBy(r) ==
    \E m \in Removes : m # r /\ m \notin prior[r] /\ pc[m] = "done" /\ target[m] = target[r]

\* The default role was made by one: it does so in a step, and does not fail later.
MadeBy(r) ==
    \E s \in (Makers \cup Modifies) \ {r} :
        /\ s \notin prior[r]
        /\ \/ pc[s] = "done"
           \/ s \in Revokes /\ pc[s] = "commit" /\ target[s] = s

RoleIsKnown ==
    \A r \in Requests :
        pc[r] \in {"update", "commit"} /\ target[r] # None => roles[target[r]] # None \/ GoneBy(r)

OwnRoleIsThere == \A s \in Revokes : pc[s] = "commit" /\ target[s] = s => roles[s] # None

InsertIsKnown ==
    \A r \in Requests : pc[r] = "insert" => roles[Seed] = None /\ (Untitled \/ MadeBy(r))

FailureIsKnown ==
    \A r \in Requests :
        pc[r] = "failed" => GoneBy(r) \/ (r \in Revokes /\ roles[Seed] = None /\ MadeBy(r))

FailureInv == RoleIsKnown /\ OwnRoleIsThere /\ InsertIsKnown /\ FailureIsKnown

\* A removal that is over stays so, and a step that deletes a role is one.
LEMMA GoneStep ==
    ASSUME Base, OrderIsKnown, NEW r \in Requests, Moves(r), RoleMoves(r),
           NEW q \in Requests, pc[q] # "idle", target'[q] = target[q]
    PROVE  /\ GoneBy(q) => GoneBy(q)'
           /\ \/ pc[q] = "delete"
              \/ roles[target[q]] # None /\ target[q] \in RoleIds
                   => roles'[target[q]] # None \/ GoneBy(q)'
<1> USE KindsAreDisjoint, NoneAssumption DEF Base, TypeOK, Moves, RoleMoves, Answered
<1>1. prior'[q] = prior[q] /\ Removes \subseteq Requests
  BY DEF Requests
<1>2. ASSUME GoneBy(q) PROVE GoneBy(q)'
  BY <1>1, <1>2 DEF GoneBy
<1>3. ASSUME pc[q] # "delete", target[q] \in RoleIds,
             roles[target[q]] # None, roles'[target[q]] = None
      PROVE  GoneBy(q)'
  <2>1. ASSUME NEW id \in RoleIds, roles[id] # None, NEW old \in Role, NEW new \in Role
        PROVE  Merged(id, old, new) # None
    <3>1. roles[id] \in Role
      BY <2>1
    <3>2. Merged(id, old, new) \in Role
      BY <2>1, <3>1 DEF Merged, Role
    <3> QED
      BY <3>2
  <2>2. Makers \subseteq RoleIds /\ None \notin Role
    BY DEF Makers, RoleIds
  <2> QED
    BY <1>1, <1>3, <2>1, <2>2 DEF WritesRow, OrderIsKnown, GoneBy, Ready
<1> QED
  BY <1>2, <1>3

LEMMA MadeByStep ==
    ASSUME Base, OwnRoleIsThere, NEW r \in Requests, Moves(r), RoleMoves(r),
           NEW q \in Requests, pc[q] # "idle", MadeBy(q)
    PROVE  MadeBy(q)'
<1> USE DEF Base, TypeOK, Moves, RoleMoves, Answered
<1>1. PICK s \in (Makers \cup Modifies) \ {q} :
         /\ s \notin prior[q]
         /\ \/ pc[s] = "done"
            \/ s \in Revokes /\ pc[s] = "commit" /\ target[s] = s
  BY DEF MadeBy
<1>2. prior'[q] = prior[q] /\ s \in Requests
  BY DEF Makers, Requests
<1>3. CASE pc[s] = "done"
  BY <1>1, <1>2, <1>3 DEF MadeBy
<1>4. CASE s \in Revokes /\ pc[s] = "commit" /\ target[s] = s
  <2>1. roles[s] # None
    BY <1>4 DEF OwnRoleIsThere
  <2>2. \/ pc'[s] = "commit" /\ target'[s] = s
        \/ pc'[s] = "done"
    BY <1>2, <1>4, <2>1 DEF ReadsRow
  <2> QED
    BY <1>1, <1>2, <1>4, <2>2 DEF MadeBy
<1> QED
  BY <1>1, <1>3, <1>4

\* The default role is made by a step of a request that the waiting one overlaps.
LEMMA UntitledStep ==
    ASSUME Base, OrderIsKnown, NEW r \in Requests, Moves(r), RoleMoves(r),
           NEW q \in Requests, q # r, pc[q] # "idle", Untitled
    PROVE  Untitled' \/ MadeBy(q)'
<1> USE NoneAssumption DEF Base, TypeOK, Moves, RoleMoves, Answered
<1>1. prior'[q] = prior[q] /\ r \notin prior[q]
  BY DEF OrderIsKnown
<1>2. CASE r \in Makers \cup Modifies /\ (pc'[r] = "done" \/ (pc'[r] = "commit" /\ target'[r] = r))
  <2>1. r \notin Revokes => pc'[r] # "commit" \/ roles' = roles
    BY KindsAreDisjoint DEF WritesRow
  <2> QED
    BY <1>1, <1>2, <2>1 DEF MadeBy, Untitled, IsDefault
<1>3. CASE roles' = roles
  BY <1>3 DEF Untitled, IsDefault
<1>4. CASE roles' = [roles EXCEPT ![target[r]] = None]
  BY <1>4 DEF Untitled, IsDefault
<1> QED
  BY <1>2, <1>3, <1>4 DEF WritesRow

\* Without the default role at the start nobody makes that one any more.
LEMMA SeedIsNotMade ==
    ASSUME Base, NEW r \in Requests, Moves(r), RoleMoves(r), roles[Seed] = None
    PROVE  roles'[Seed] = None
<1>1. Seed \in RoleIds /\ Seed # r
  BY SeedAssumption DEF RoleIds
<1> QED
  BY <1>1 DEF RoleMoves, WritesRow, Base, TypeOK

LEMMA FailureStep ==
    ASSUME Base, MadeOnce, OrderIsKnown, DefaultsAreSafe, DefaultsStay, FailureInv,
           NEW r \in Requests, Moves(r), RoleMoves(r)
    PROVE  FailureInv'
<1> USE DEF FailureInv
<1>1. ASSUME NEW q \in Requests, pc'[q] \in {"update", "commit"}, target'[q] # None
      PROVE  roles'[target'[q]] # None \/ GoneBy(q)'
  <2>1. CASE q # r
    <3>1. pc'[q] = pc[q] /\ target'[q] = target[q] /\ target[q] \in RoleIds
      BY <1>1, <2>1 DEF Moves, Base, TypeOK
    <3>2. roles[target[q]] # None \/ GoneBy(q)
      BY <1>1, <3>1 DEF RoleIsKnown
    <3> QED
      BY <1>1, <3>1, <3>2, GoneStep
  <2>2. CASE q = r
    BY <1>1, <2>2 DEF RoleMoves, ReadsRow, MadeOnce
  <2> QED
    BY <2>1, <2>2
<1>2. ASSUME NEW s \in Revokes, pc'[s] = "commit", target'[s] = s PROVE roles'[s] # None
  <2>1. s \in Requests /\ s \in RoleIds
    BY DEF Requests, RoleIds
  <2>2. CASE s # r
    <3>1. roles[s] # None
      BY <1>2, <2>1, <2>2 DEF OwnRoleIsThere, Moves
    <3> QED
      BY <3>1 DEF DefaultsAreSafe, DefaultsStay, Defaults, IsDefault
  <2>3. CASE s = r
    BY <1>2, <2>1, <2>3, NoneAssumption DEF RoleMoves, ReadsRow, MadeOnce
  <2> QED
    BY <2>2, <2>3
<1>3. ASSUME NEW q \in Requests, pc'[q] = "insert"
      PROVE  roles'[Seed] = None /\ (Untitled' \/ MadeBy(q)')
  <2>1. CASE q # r
    <3>1. pc[q] = "insert"
      BY <1>3, <2>1 DEF Moves
    <3>2. roles[Seed] = None /\ (Untitled \/ MadeBy(q))
      BY <3>1 DEF InsertIsKnown
    <3> QED
      BY <2>1, <3>1, <3>2, SeedIsNotMade, UntitledStep, MadeByStep
  <2>2. CASE q = r
    <3>1. Untitled /\ roles' = roles
      BY <1>3, <2>2 DEF RoleMoves, ReadsRow
    <3>2. roles[Seed] = None
      BY <3>1 DEF Untitled, DefaultsAreSafe, Defaults, RoleIds
    <3> QED
      BY <3>1, <3>2 DEF Untitled, IsDefault
  <2> QED
    BY <2>1, <2>2
<1>4. ASSUME NEW q \in Requests, pc'[q] = "failed"
      PROVE  GoneBy(q)' \/ (q \in Revokes /\ roles'[Seed] = None /\ MadeBy(q)')
  <2>1. target'[q] = target[q] /\ pc[q] # "idle"
    BY <1>4 DEF Moves, RoleMoves, ReadsRow
  <2>2. GoneBy(q) \/ (q \in Revokes /\ roles[Seed] = None /\ MadeBy(q))
    <3>1. CASE q # r
      BY <1>4, <3>1 DEF FailureIsKnown, Moves
    <3>2. CASE q = r
      BY <1>4, <3>2 DEF RoleMoves, ReadsRow, RoleIsKnown, InsertIsKnown
    <3> QED
      BY <3>1, <3>2
  <2> QED
    BY <2>1, <2>2, GoneStep, MadeByStep, SeedIsNotMade
<1> QED
  BY <1>1, <1>2, <1>3, <1>4
     DEF RoleIsKnown, OwnRoleIsThere, InsertIsKnown, FailureIsKnown

\* A server error of a role route is always due to a request that overlaps it: one
\* that deleted its role, or one that made the default role (service_role.py:45-96,
\* helpers.py:16-26).
THEOREM ServerErrorsAreConflicts == Spec => []ServerErrorIsConflict
<1> DEFINE Inv == MadeOnce /\ OrderIsKnown /\ DefaultsAreSafe /\ FailureInv
<1>1. Init => Inv
  BY MadeInit, DefaultsInit
     DEF Init, OrderIsKnown, FailureInv, RoleIsKnown, OwnRoleIsThere, InsertIsKnown, FailureIsKnown,
         Requests, Givers
<1>2. Base /\ Inv /\ [Next]_vars => Inv'
  <2>1. ASSUME Base, Inv, UNCHANGED vars PROVE Inv'
    BY <2>1 DEF vars, MadeOnce, OrderIsKnown, DefaultsAreSafe, FailureInv, RoleIsKnown,
       OwnRoleIsThere, InsertIsKnown, FailureIsKnown, GoneBy, MadeBy, Untitled, IsDefault
  <2> QED
    BY <2>1, NextMoves, MadeStep, OrderStep, DefaultsStep, FailureStep
<1>3. Inv => ServerErrorIsConflict
  BY DEF FailureInv, FailureIsKnown, ServerErrorIsConflict, GoneBy, MadeBy, Overlaps, Makers
<1> HIDE DEF Inv
<1> QED
  BY <1>1, <1>2, <1>3, BaseInit, BaseStep, PTL DEF Spec

=============================================================================
