---------------------------- MODULE AccountsProofs ----------------------------
(***************************************************************************)
(* What holds of accounts and linked identities for any number of requests, *)
(* emails and identities: types, that a callback logs in to the account its *)
(* identity is linked to, that it leaves no account without a link, that a  *)
(* state is redeemed once, and that the uncaught error comes of a race.     *)
(***************************************************************************)
EXTENDS Accounts, TLAPS

(* Types *)

\* What a request at each step can rely on: its kind, and what it has learnt.
Ready ==
    \A r \in Requests :
        /\ pc[r] \in {"setex", "redirect"} => r \in Starts
        /\ pc[r] \in {"consume", "exchange", "profile", "linked", "by_email", "flush",
                      "attach", "tokens"} => r \in Callbacks
        /\ pc[r] = "commit" => r \in Registers \cup EmailChanges /\ mail[r] \in Emails
        /\ pc[r] = "commit" /\ r \in EmailChanges => user[r] \in Users
        /\ pc[r] = "refresh" => r \in Registers
        /\ pc[r] \in {"linked", "by_email", "flush", "attach", "tokens"} =>
              who[r] \in Identities /\ mail[r] \in Emails
        /\ pc[r] \in {"attach", "tokens"} => user[r] \in Users

Base == TypeOK /\ Ready

\* Every step keeps the types and what requests rely on.
LEMMA BaseStep == ASSUME Base, [Next]_vars PROVE Base'
<1> USE KindsAreDisjoint, NoneAssumption
    DEF Base, TypeOK, Ready, Steps, Answered, Requests, Users, Goto, TakenBy
<1>1. ASSUME NEW r \in Requests, BuildLoginRedirect(r) PROVE Base'
  BY <1>1 DEF BuildLoginRedirect
<1>2. ASSUME NEW r \in Requests, NEW s \in Starts, ValidateLoginState(r, s) PROVE Base'
  BY <1>2 DEF ValidateLoginState
<1>3. ASSUME NEW r \in Requests, NEW e \in Emails, CreateUser(r, e) PROVE Base'
  BY <1>3 DEF CreateUser
<1>4. ASSUME NEW r \in Requests, NEW u \in Users, NEW e \in Emails, ChangeEmail(r, u, e)
      PROVE Base'
  BY <1>4 DEF ChangeEmail
<1>5. ASSUME NEW r \in Requests, CommitNewUser(r) PROVE Base'
  BY <1>5 DEF CommitNewUser
<1>6. ASSUME NEW r \in Requests, CommitEmail(r) \/ RefreshUser(r) PROVE Base'
  BY <1>6 DEF CommitEmail, RefreshUser
<1>7. ASSUME NEW r \in Requests, CacheState(r) PROVE Base'
  BY <1>7 DEF CacheState
<1>8. ASSUME NEW r \in Requests, LoginRedirected(r) PROVE Base'
  BY <1>8 DEF LoginRedirected
<1>9. ASSUME NEW r \in Requests, ConsumeCachedState(r) PROVE Base'
  BY <1>9 DEF ConsumeCachedState
<1>10. ASSUME NEW r \in Requests, ExchangeCode(r) PROVE Base'
  BY <1>10 DEF ExchangeCode
<1>11. ASSUME NEW r \in Requests, NEW i \in Identities, NEW e \in Emails,
              FetchUserInfo(r, i, e)
       PROVE Base'
  BY <1>11 DEF FetchUserInfo
<1>12. ASSUME NEW r \in Requests, FindLinkedUser(r) PROVE Base'
  BY <1>12 DEF FindLinkedUser
<1>13. ASSUME NEW r \in Requests, FindUserByEmail(r) PROVE Base'
  BY <1>13 DEF FindUserByEmail
<1>14. ASSUME NEW r \in Requests, FlushNewUser(r) PROVE Base'
  BY <1>14 DEF FlushNewUser
<1>15. ASSUME NEW r \in Requests, AttachOAuthAccount(r) PROVE Base'
  BY <1>15 DEF AttachOAuthAccount, Pending
<1>16. ASSUME NEW r \in Requests, CallbackReturn(r) PROVE Base'
  BY <1>16 DEF CallbackReturn
<1>17. ASSUME NEW r \in Requests, Fail(r) PROVE Base'
  BY <1>17 DEF Fail
<1>18. CASE ExpireState
  BY <1>18 DEF ExpireState
<1>19. CASE UNCHANGED vars
  BY <1>19 DEF vars
<1> QED
  BY <1>1, <1>2, <1>3, <1>4, <1>5, <1>6, <1>7, <1>8, <1>9, <1>10, <1>11, <1>12, <1>13,
     <1>14, <1>15, <1>16, <1>17, <1>18, <1>19
     DEF Next, Receive, Proceed

\* The service starts with some accounts and no request.
LEMMA BaseInit == Init => Base
<1> SUFFICES ASSUME Init PROVE Base
  OBVIOUS
<1>1. email \in [Users -> Emails \cup {None}]
  <2>1. PICK founder \in [Founders -> Emails] :
          email = [u \in Users |-> IF u \in Founders THEN founder[u] ELSE None]
    BY DEF Init
  <2> QED
    BY <2>1
<1> QED
  BY <1>1 DEF Init, Base, TypeOK, Ready, Steps, Answered

\* The variables of registration, email change and the Yandex ID flow keep their
\* types (service_user.py, service_yandexid.py).
THEOREM AccountsTypeCorrect == Spec => []TypeOK
<1>1. Base => TypeOK
  BY DEF Base
<1> QED
  BY <1>1, BaseInit, BaseStep, PTL DEF Spec

-----------------------------------------------------------------------------
(* What a step may do to links and emails *)

\* Only AttachOAuthAccount links, and no identity is linked again.
LEMMA LinksStay ==
    ASSUME Base, [Next]_vars, NEW i \in Identities, link[i] # None
    PROVE  link'[i] = link[i]
<1>1. ASSUME NEW r \in Requests, AttachOAuthAccount(r) PROVE link'[i] = link[i]
  BY <1>1 DEF AttachOAuthAccount, Base, TypeOK
<1> QED
  BY <1>1 DEF Next, Receive, Proceed, vars, BuildLoginRedirect, ValidateLoginState,
     CreateUser, ChangeEmail, CommitNewUser, RefreshUser, CommitEmail, CacheState, LoginRedirected,
     ConsumeCachedState, ExchangeCode, FetchUserInfo, FindLinkedUser, FindUserByEmail,
     FlushNewUser, CallbackReturn, Fail, ExpireState

\* The three commits write emails.
LEMMA OnlyCommitsWrite ==
    ASSUME Base, [Next]_vars
    PROVE  \/ UNCHANGED email
           \/ \E r \in Requests :
                CommitNewUser(r) \/ CommitEmail(r) \/ AttachOAuthAccount(r)
  BY DEF Next, Receive, Proceed, vars, BuildLoginRedirect, ValidateLoginState,
     CreateUser, ChangeEmail, RefreshUser, CacheState, LoginRedirected, ConsumeCachedState,
     ExchangeCode, FetchUserInfo, FindLinkedUser, FindUserByEmail, FlushNewUser,
     CallbackReturn, Fail, ExpireState

-----------------------------------------------------------------------------
(* The account a callback logs in to *)

\* Once a callback issues tokens, its account is the one of its identity.
LinkSafe ==
    \A r \in Callbacks :
        pc[r] \in {"tokens", "done"} =>
            who[r] \in Identities /\ user[r] \in Users /\ link[who[r]] = user[r]

\* A callback that has tokens keeps its identity and its account; one gets them
\* by finding the link or by inserting it.
LEMMA TokensStep ==
    ASSUME Base, [Next]_vars, NEW r \in Callbacks, pc'[r] \in {"tokens", "done"}
    PROVE  \/ /\ pc[r] \in {"tokens", "done"}
              /\ who'[r] = who[r] /\ user'[r] = user[r]
           \/ FindLinkedUser(r)
           \/ AttachOAuthAccount(r)
<1> USE KindsAreDisjoint DEF Base, TypeOK, Ready, Requests, Goto
<1>1. CASE \E s \in Requests : FindLinkedUser(s) \/ AttachOAuthAccount(s)
  BY <1>1 DEF FindLinkedUser, AttachOAuthAccount
<1>2. CASE \E s \in Requests : Receive(s)
  BY <1>2 DEF Receive, BuildLoginRedirect, ValidateLoginState, CreateUser, ChangeEmail
<1>3. CASE \E s \in Requests : CommitNewUser(s) \/ RefreshUser(s) \/ CommitEmail(s)
                                \/ CacheState(s) \/ LoginRedirected(s)
  BY <1>3 DEF CommitNewUser, RefreshUser, CommitEmail, CacheState, LoginRedirected
<1>4. CASE \E s \in Requests : \/ ConsumeCachedState(s) \/ ExchangeCode(s)
                                \/ \E i \in Identities, e \in Emails : FetchUserInfo(s, i, e)
  BY <1>4 DEF ConsumeCachedState, ExchangeCode, FetchUserInfo
<1>5. CASE \E s \in Requests : FindUserByEmail(s) \/ FlushNewUser(s) \/ CallbackReturn(s)
                                \/ Fail(s)
  BY <1>5 DEF FindUserByEmail, FlushNewUser, CallbackReturn, Fail
<1>6. CASE ExpireState \/ UNCHANGED vars
  BY <1>6 DEF ExpireState, vars
<1> QED
  BY <1>1, <1>2, <1>3, <1>4, <1>5, <1>6 DEF Next, Proceed

\* Every step keeps the accounts of callbacks and the links in agreement.
LEMMA LinkStep == ASSUME Base, LinkSafe, [Next]_vars PROVE LinkSafe'
<1> USE NoneAssumption DEF LinkSafe
<1> SUFFICES ASSUME NEW r \in Callbacks, pc'[r] \in {"tokens", "done"}
             PROVE  (who[r] \in Identities /\ user[r] \in Users /\ link[who[r]] = user[r])'
  OBVIOUS
<1>1. CASE pc[r] \in {"tokens", "done"} /\ who'[r] = who[r] /\ user'[r] = user[r]
  BY <1>1, LinksStay DEF Users
<1>2. CASE FindLinkedUser(r)
  BY <1>2 DEF FindLinkedUser, Base, TypeOK, Ready, Requests, Goto
<1>3. CASE AttachOAuthAccount(r)
  BY <1>3 DEF AttachOAuthAccount, Base, TypeOK, Ready, Requests, Goto
<1> QED
  BY <1>1, <1>2, <1>3, TokensStep

\* Whoever comes back from the provider is logged in to the account its identity
\* is linked to, in every interleaving of callbacks, registrations and changes of
\* email (service_yandexid.py:253-342).
THEOREM LoggedInAsLinkedHolds == Spec => []LoggedInAsLinked
<1>1. Init => LinkSafe
  BY DEF Init, LinkSafe, Requests
<1>2. LinkSafe => LoggedInAsLinked
  BY DEF LinkSafe, LoggedInAsLinked
<1> QED
  BY <1>1, <1>2, BaseInit, BaseStep, LinkStep, PTL DEF Spec

-----------------------------------------------------------------------------
(* No orphan accounts *)

\* A change of email that is about to commit has an account to change.
Changes ==
    \A r \in EmailChanges : pc[r] = "commit" => email[user[r]] # None

\* An account once committed stays.
LEMMA AccountsStay ==
    ASSUME Base, [Next]_vars, NEW u \in Users, email[u] # None
    PROVE  email'[u] # None
<1> USE NoneAssumption DEF Base, TypeOK, Ready, Requests
<1>1. ASSUME NEW r \in Requests, CommitNewUser(r) PROVE email'[u] # None
  BY <1>1 DEF CommitNewUser
<1>2. ASSUME NEW r \in Requests, CommitEmail(r) PROVE email'[u] # None
  BY <1>2 DEF CommitEmail
<1>3. ASSUME NEW r \in Requests, AttachOAuthAccount(r) PROVE email'[u] # None
  BY <1>3 DEF AttachOAuthAccount
<1> QED
  BY <1>1, <1>2, <1>3, OnlyCommitsWrite

\* What a change of email read stays true until it commits.
LEMMA ChangesStep == ASSUME Base, Changes, [Next]_vars PROVE Changes'
<1> USE KindsAreDisjoint DEF Base, TypeOK, Ready, Requests, Goto
<1> SUFFICES ASSUME NEW r \in EmailChanges, pc'[r] = "commit"
             PROVE  email'[user'[r]] # None
  BY DEF Changes
<1>1. \/ pc[r] = "commit" /\ user'[r] = user[r]
      \/ \E u \in Users, e \in Emails : ChangeEmail(r, u, e)
  <2>1. CASE \E s \in Requests : Receive(s)
    BY <2>1 DEF Receive, BuildLoginRedirect, ValidateLoginState, CreateUser, ChangeEmail
  <2>2. CASE \E s \in Requests : CommitNewUser(s) \/ RefreshUser(s) \/ CommitEmail(s)
                                  \/ CacheState(s) \/ LoginRedirected(s)
    BY <2>2 DEF CommitNewUser, RefreshUser, CommitEmail, CacheState, LoginRedirected
  <2>3. CASE \E s \in Requests : \/ ConsumeCachedState(s) \/ ExchangeCode(s)
                                  \/ \E i \in Identities, e \in Emails : FetchUserInfo(s, i, e)
    BY <2>3 DEF ConsumeCachedState, ExchangeCode, FetchUserInfo
  <2>4. CASE \E s \in Requests : FindLinkedUser(s) \/ FindUserByEmail(s) \/ FlushNewUser(s)
    BY <2>4 DEF FindLinkedUser, FindUserByEmail, FlushNewUser
  <2>5. CASE \E s \in Requests : AttachOAuthAccount(s) \/ CallbackReturn(s) \/ Fail(s)
    BY <2>5 DEF AttachOAuthAccount, CallbackReturn, Fail
  <2>6. CASE ExpireState \/ UNCHANGED vars
    BY <2>6 DEF ExpireState, vars
  <2> QED
    BY <2>1, <2>2, <2>3, <2>4, <2>5, <2>6 DEF Next, Proceed
<1>2. CASE pc[r] = "commit" /\ user'[r] = user[r]
  BY <1>2, AccountsStay DEF Changes
<1>3. CASE \E u \in Users, e \in Emails : ChangeEmail(r, u, e)
  BY <1>3 DEF ChangeEmail
<1> QED
  BY <1>1, <1>2, <1>3

\* An account of a callback comes with its link, and no link is taken away.
LEMMA OrphanStep ==
    ASSUME Base, Changes, NoOrphanAccount, [Next]_vars PROVE NoOrphanAccount'
<1> USE KindsAreDisjoint, NoneAssumption DEF Base, TypeOK, Ready, Requests, Users
<1> SUFFICES ASSUME NEW u \in Callbacks, email'[u] # None
             PROVE  \E i \in Identities : link'[i] = u
  BY DEF NoOrphanAccount
<1>1. CASE email[u] # None
  <2>1. PICK i \in Identities : link[i] = u
    BY <1>1 DEF NoOrphanAccount
  <2> QED
    BY <2>1, LinksStay
<1>2. CASE email[u] = None
  <2>1. ASSUME NEW r \in Requests, CommitNewUser(r) PROVE FALSE
    BY <1>2, <2>1 DEF CommitNewUser
  <2>2. ASSUME NEW r \in Requests, CommitEmail(r) PROVE FALSE
    BY <1>2, <2>2 DEF CommitEmail, Changes
  <2>3. ASSUME NEW r \in Requests, AttachOAuthAccount(r)
        PROVE  \E i \in Identities : link'[i] = u
    BY <1>2, <2>3 DEF AttachOAuthAccount, Pending
  <2> QED
    BY <1>2, <2>1, <2>2, <2>3, OnlyCommitsWrite
<1> QED
  BY <1>1, <1>2

\* A callback that fails leaves no account: the account it creates is committed
\* with its link or not at all (service_yandexid.py:294-325).
THEOREM NoOrphanAccountHolds == Spec => []NoOrphanAccount
<1>1. Init => Changes /\ NoOrphanAccount
  BY FounderAssumption DEF Init, Changes, NoOrphanAccount, Requests, Users
<1> QED
  BY <1>1, BaseInit, BaseStep, ChangesStep, OrphanStep, PTL DEF Spec

-----------------------------------------------------------------------------
(* One login per state *)

\* A state some callback presents was redirected with before, and one that got a
\* callback to the provider is no longer cached, so no other callback gets there.
StatesAreSpent ==
    \A r \in Callbacks :
        /\ state[r] # None => pc[state[r]] = "done"
        /\ pc[r] \in BeyondState => state[r] \in Starts \ cache

SpentSafe == StatesAreSpent /\ OneLoginPerState

\* A callback keeps the state it was called with.  It gets beyond the check of its
\* state by the GETDEL alone, which finds the key and removes it.
LEMMA BeyondStep ==
    ASSUME Base, [Next]_vars, NEW r \in Callbacks
    PROVE  /\ \/ state'[r] = state[r]
              \/ /\ pc'[r] \in {"consume", "bad_state"}
                 /\ state'[r] \in Starts /\ pc[state'[r]] = "done"
           /\ pc'[r] \in BeyondState =>
                /\ state'[r] = state[r]
                /\ \/ pc[r] \in BeyondState
                   \/ /\ pc[r] = "consume"
                      /\ state[r] \in cache
                      /\ cache' = cache \ {state[r]}
                      /\ \A s \in Requests \ {r} : pc'[s] = pc[s]
<1> USE KindsAreDisjoint
    DEF Base, TypeOK, Ready, Requests, BeyondState, Steps, Answered, Goto
<1>1. CASE \E s \in Requests : Receive(s)
  BY <1>1 DEF Receive, BuildLoginRedirect, ValidateLoginState, CreateUser, ChangeEmail
<1>2. CASE \E s \in Requests : CommitNewUser(s) \/ RefreshUser(s) \/ CommitEmail(s)
  BY <1>2 DEF CommitNewUser, RefreshUser, CommitEmail
<1>3. CASE \E s \in Requests : CacheState(s) \/ LoginRedirected(s)
  BY <1>3 DEF CacheState, LoginRedirected
<1>4. CASE \E s \in Requests : ConsumeCachedState(s)
  BY <1>4 DEF ConsumeCachedState
<1>5. CASE \E s \in Requests : \/ ExchangeCode(s)
                                \/ \E i \in Identities, e \in Emails : FetchUserInfo(s, i, e)
  BY <1>5 DEF ExchangeCode, FetchUserInfo
<1>6. CASE \E s \in Requests : FindLinkedUser(s) \/ FindUserByEmail(s) \/ FlushNewUser(s)
  BY <1>6 DEF FindLinkedUser, FindUserByEmail, FlushNewUser
<1>7. CASE \E s \in Requests : AttachOAuthAccount(s) \/ CallbackReturn(s) \/ Fail(s)
  BY <1>7 DEF AttachOAuthAccount, CallbackReturn, Fail
<1>8. CASE ExpireState \/ UNCHANGED vars
  BY <1>8 DEF ExpireState, vars
<1> QED
  BY <1>1, <1>2, <1>3, <1>4, <1>5, <1>6, <1>7, <1>8 DEF Next, Proceed

\* A redirect once made stays made, and its state is not cached again.
LEMMA RedirectsStay ==
    ASSUME Base, [Next]_vars, NEW s \in Starts, pc[s] = "done"
    PROVE  pc'[s] = "done" /\ (s \notin cache => s \notin cache')
<1> USE KindsAreDisjoint DEF Base, TypeOK, Ready, Requests, Answered, Goto
<1>1. CASE \E r \in Requests : Receive(r)
  BY <1>1 DEF Receive, BuildLoginRedirect, ValidateLoginState, CreateUser, ChangeEmail
<1>2. CASE \E r \in Requests : CommitNewUser(r) \/ RefreshUser(r) \/ CommitEmail(r)
  BY <1>2 DEF CommitNewUser, RefreshUser, CommitEmail
<1>3. CASE \E r \in Requests : CacheState(r) \/ LoginRedirected(r)
  BY <1>3 DEF CacheState, LoginRedirected
<1>4. CASE \E r \in Requests : \/ ConsumeCachedState(r) \/ ExchangeCode(r)
                                \/ \E i \in Identities, e \in Emails : FetchUserInfo(r, i, e)
  BY <1>4 DEF ConsumeCachedState, ExchangeCode, FetchUserInfo
<1>5. CASE \E r \in Requests : FindLinkedUser(r) \/ FindUserByEmail(r) \/ FlushNewUser(r)
  BY <1>5 DEF FindLinkedUser, FindUserByEmail, FlushNewUser
<1>6. CASE \E r \in Requests : AttachOAuthAccount(r) \/ CallbackReturn(r) \/ Fail(r)
  BY <1>6 DEF AttachOAuthAccount, CallbackReturn, Fail
<1>7. CASE ExpireState \/ UNCHANGED vars
  BY <1>7 DEF ExpireState, vars
<1> QED
  BY <1>1, <1>2, <1>3, <1>4, <1>5, <1>6, <1>7 DEF Next, Proceed

\* Every step keeps the states of callbacks spent.
LEMMA SpentStep == ASSUME Base, SpentSafe, [Next]_vars PROVE SpentSafe'
<1> USE NoneAssumption DEF SpentSafe, StatesAreSpent
<1>1. ASSUME NEW r \in Callbacks, state'[r] # None
      PROVE  state'[r] \in Starts /\ pc'[state'[r]] = "done" /\ pc[state'[r]] = "done"
  BY <1>1, BeyondStep, RedirectsStay DEF Base, TypeOK
<1>2. ASSUME NEW r \in Callbacks, pc'[r] \in BeyondState
      PROVE  state'[r] \in Starts /\ state'[r] \notin cache'
  BY <1>1, <1>2, BeyondStep, RedirectsStay DEF Base, TypeOK
<1>3. ASSUME NEW r \in Callbacks, NEW s \in Callbacks, r # s, state'[r] = state'[s],
             pc'[r] \in BeyondState, pc'[s] \in BeyondState
      PROVE  FALSE
  <2>1. state[r] = state[s] /\ state[r] # None
    BY <1>2, <1>3, BeyondStep
  <2>2. ASSUME NEW p \in Callbacks, NEW q \in Callbacks, p # q, state[p] = state[q],
               pc'[p] \in BeyondState, pc'[q] \in BeyondState, pc[p] \notin BeyondState
        PROVE  FALSE
    <3>1. pc[p] = "consume" /\ state[p] \in cache
      BY <2>2, BeyondStep
    <3>2. pc[q] \in BeyondState
      BY <2>2, BeyondStep DEF Requests
    <3> QED
      BY <2>2, <3>1, <3>2
  <2>3. pc[r] \in BeyondState /\ pc[s] \in BeyondState
    BY <1>3, <2>1, <2>2
  <2> QED
    BY <1>3, <2>1, <2>3 DEF OneLoginPerState
<1> QED
  BY <1>1, <1>2, <1>3 DEF OneLoginPerState

\* Of the callbacks that present one state at most one reaches the provider, lost
\* replies of Redis and expiry included (service_yandexid.py:158-171).
THEOREM OneLoginPerStateHolds == Spec => []OneLoginPerState
<1>1. Init => SpentSafe
  BY DEF Init, SpentSafe, StatesAreSpent, OneLoginPerState, BeyondState, Requests
<1>2. SpentSafe => OneLoginPerState
  BY DEF SpentSafe
<1> QED
  BY <1>1, <1>2, BaseInit, BaseStep, SpentStep, PTL DEF Spec

-----------------------------------------------------------------------------
(* The uncaught error is a race *)

\* Of the requests that took an email after r had looked, one took the email of r.
Beaten(r) == \E s \in taken[r] : mail[s] = mail[r]

\* If the email of a callback about to flush has an account, someone took it since
\* the callback looked.  Whoever took an email is past changing what it wants, and
\* past waiting to flush.
FlushSafe ==
    /\ \A r \in Callbacks :
        /\ pc[r] = "flush" => \A v \in Users : email[v] = mail[r] => Beaten(r)
        /\ pc[r] = "server_error" => Beaten(r)
    /\ \A r \in Callbacks : \A s \in taken[r] :
        pc[s] \in {"refresh", "tokens"} \cup (Answered \ {"server_error"})

\* A callback comes to its flush with no account of that email, and to the error
\* with one.
LEMMA FlushFrom ==
    ASSUME Base, [Next]_vars, NEW r \in Callbacks, pc'[r] \in {"flush", "server_error"}
    PROVE  /\ mail'[r] = mail[r]
           /\ \/ pc'[r] = pc[r]
              \/ /\ pc'[r] = "flush" /\ UNCHANGED email
                 /\ \A v \in Users : email[v] # mail[r]
              \/ /\ pc[r] = "flush" /\ pc'[r] = "server_error"
                 /\ \E v \in Users : email[v] = mail[r]
<1> USE KindsAreDisjoint DEF Base, TypeOK, Ready, Requests, Goto
<1>1. CASE \E s \in Requests : Receive(s)
  BY <1>1 DEF Receive, BuildLoginRedirect, ValidateLoginState, CreateUser, ChangeEmail
<1>2. CASE \E s \in Requests : CommitNewUser(s) \/ RefreshUser(s) \/ CommitEmail(s)
                                \/ CacheState(s) \/ LoginRedirected(s)
  BY <1>2 DEF CommitNewUser, RefreshUser, CommitEmail, CacheState, LoginRedirected
<1>3. CASE \E s \in Requests : \/ ConsumeCachedState(s) \/ ExchangeCode(s)
                                \/ \E i \in Identities, e \in Emails : FetchUserInfo(s, i, e)
  BY <1>3 DEF ConsumeCachedState, ExchangeCode, FetchUserInfo
<1>4. CASE \E s \in Requests : FindLinkedUser(s) \/ FindUserByEmail(s) \/ FlushNewUser(s)
  BY <1>4 DEF FindLinkedUser, FindUserByEmail, FlushNewUser, EmailTaken
<1>5. CASE \E s \in Requests : AttachOAuthAccount(s) \/ CallbackReturn(s) \/ Fail(s)
  BY <1>5 DEF AttachOAuthAccount, CallbackReturn, Fail
<1>6. CASE ExpireState \/ UNCHANGED vars
  BY <1>6 DEF ExpireState, vars
<1> QED
  BY <1>1, <1>2, <1>3, <1>4, <1>5, <1>6 DEF Next, Proceed

\* Who took an email has taken it for good, and wants no other.
LEMMA TakersStay ==
    ASSUME Base, FlushSafe, [Next]_vars, NEW r \in Callbacks, NEW s \in taken[r]
    PROVE  /\ s \in taken'[r]
           /\ mail'[s] = mail[s]
           /\ pc'[s] \in {"refresh", "tokens"} \cup (Answered \ {"server_error"})
<1> USE DEF Base, TypeOK, Goto, FlushSafe, Answered
<1>1. CASE \E q \in Requests : Receive(q)
  BY <1>1 DEF Receive, BuildLoginRedirect, ValidateLoginState, CreateUser, ChangeEmail
<1>2. CASE \E q \in Requests : CommitNewUser(q) \/ CommitEmail(q) \/ AttachOAuthAccount(q)
  BY <1>2 DEF CommitNewUser, CommitEmail, AttachOAuthAccount, TakenBy
<1>3. CASE \E q \in Requests : RefreshUser(q) \/ CacheState(q) \/ LoginRedirected(q)
  BY <1>3 DEF RefreshUser, CacheState, LoginRedirected
<1>4. CASE \E q \in Requests : \/ ConsumeCachedState(q) \/ ExchangeCode(q)
                                \/ \E i \in Identities, e \in Emails : FetchUserInfo(q, i, e)
  BY <1>4 DEF ConsumeCachedState, ExchangeCode, FetchUserInfo
<1>5. CASE \E q \in Requests : FindLinkedUser(q) \/ FindUserByEmail(q) \/ FlushNewUser(q)
  BY <1>5 DEF FindLinkedUser, FindUserByEmail, FlushNewUser
<1>6. CASE \E q \in Requests : CallbackReturn(q) \/ Fail(q)
  BY <1>6 DEF CallbackReturn, Fail
<1>7. CASE ExpireState \/ UNCHANGED vars
  BY <1>7 DEF ExpireState, vars
<1> QED
  BY <1>1, <1>2, <1>3, <1>4, <1>5, <1>6, <1>7 DEF Next, Proceed

\* Whoever joins the takers has just committed an email and is past its flush.
LEMMA NewTaker ==
    ASSUME Base, [Next]_vars, NEW r \in Callbacks, NEW s \in taken'[r], s \notin taken[r]
    PROVE  pc'[s] \in {"refresh", "tokens"} \cup (Answered \ {"server_error"})
<1> USE DEF Base, TypeOK, Goto, Answered, TakenBy
<1>1. ASSUME NEW q \in Requests, CommitNewUser(q) \/ CommitEmail(q) \/ AttachOAuthAccount(q)
      PROVE  pc'[s] \in {"refresh", "tokens"} \cup (Answered \ {"server_error"})
  BY <1>1 DEF CommitNewUser, CommitEmail, AttachOAuthAccount
<1> QED
  BY <1>1 DEF Next, Receive, Proceed, vars, BuildLoginRedirect, ValidateLoginState,
     CreateUser, ChangeEmail, RefreshUser, CacheState, LoginRedirected, ConsumeCachedState,
     ExchangeCode, FetchUserInfo, FindLinkedUser, FindUserByEmail, FlushNewUser,
     CallbackReturn, Fail, ExpireState

\* Whoever gives an account the email that a callback is about to flush took it.
LEMMA NewEmailIsTaken ==
    ASSUME Base, [Next]_vars, NEW r \in Callbacks, pc[r] = "flush", mail'[r] = mail[r],
           NEW v \in Users, email[v] # mail[r], email'[v] = mail[r]
    PROVE  Beaten(r)'
<1> USE KindsAreDisjoint DEF Base, TypeOK, Ready, Requests, Goto, TakenBy, Beaten
<1>1. ASSUME NEW s \in Requests, CommitNewUser(s) PROVE Beaten(r)'
  BY <1>1 DEF CommitNewUser
<1>2. ASSUME NEW s \in Requests, CommitEmail(s) PROVE Beaten(r)'
  BY <1>2 DEF CommitEmail
<1>3. ASSUME NEW s \in Requests, AttachOAuthAccount(s) PROVE Beaten(r)'
  BY <1>3 DEF AttachOAuthAccount, Pending
<1> QED
  BY <1>1, <1>2, <1>3, OnlyCommitsWrite

\* Every step keeps an explanation for the error of each flush.
LEMMA FlushStep == ASSUME Base, FlushSafe, [Next]_vars PROVE FlushSafe'
<1>1. ASSUME NEW r \in Callbacks, mail'[r] = mail[r], Beaten(r) PROVE Beaten(r)'
  BY <1>1, TakersStay DEF Beaten
<1>2. ASSUME NEW r \in Callbacks, pc'[r] = "flush", NEW v \in Users, email'[v] = mail'[r]
      PROVE  Beaten(r)'
  <2>1. mail'[r] = mail[r] /\ pc[r] = "flush"
    BY <1>2, FlushFrom
  <2>2. CASE email[v] = mail[r]
    BY <1>1, <1>2, <2>1, <2>2 DEF FlushSafe
  <2>3. CASE email[v] # mail[r]
    BY <1>2, <2>1, <2>3, NewEmailIsTaken
  <2> QED
    BY <2>2, <2>3
<1>3. ASSUME NEW r \in Callbacks, pc'[r] = "server_error" PROVE Beaten(r)'
  <2>1. mail'[r] = mail[r] /\ Beaten(r)
    BY <1>3, FlushFrom DEF FlushSafe
  <2> QED
    BY <1>1, <2>1
<1>4. ASSUME NEW r \in Callbacks, NEW s \in taken'[r]
      PROVE  pc'[s] \in {"refresh", "tokens"} \cup (Answered \ {"server_error"})
  BY <1>4, TakersStay, NewTaker
<1> QED
  BY <1>2, <1>3, <1>4 DEF FlushSafe

\* A callback raises the uncaught IntegrityError of its flush only if another
\* request committed that email after the callback had looked for it
\* (service_yandexid.py:273-294).
THEOREM ServerErrorIsRaceHolds == Spec => []ServerErrorIsRace
<1>1. Init => FlushSafe
  BY DEF Init, FlushSafe, Requests
<1>2. FlushSafe => ServerErrorIsRace
  BY DEF FlushSafe, ServerErrorIsRace, Beaten
<1> QED
  BY <1>1, <1>2, BaseInit, BaseStep, FlushStep, PTL DEF Spec

=============================================================================
