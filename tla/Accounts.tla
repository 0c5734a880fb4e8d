------------------------------- MODULE Accounts -------------------------------
(***************************************************************************)
(* How accounts come to be and what names them: registration, change of    *)
(* email, and the Yandex ID flow, whose callback finds, links or creates   *)
(* an account.  PostgreSQL keeps emails and linked identities unique; a    *)
(* row inserted by an open transaction is invisible and makes another      *)
(* insertion of its key wait.  Redis keeps the states of started logins.   *)
(* One browser, so one "state" cookie.                                     *)
(*                                                                         *)
(* An account is named by the request that created it.  Passwords, default *)
(* roles and login history are not here: see Sessions and Roles.           *)
(***************************************************************************)
EXTENDS Integers, FiniteSets

CONSTANTS
    Registers, EmailChanges, Starts, Callbacks,   \* the requests
    Founders,      \* the accounts there are at the start
    Emails,
    Identities,    \* the provider's user ids
    None           \* no row, no key, no cookie

Requests == Registers \cup EmailChanges \cup Starts \cup Callbacks
Users    == Founders \cup Registers \cup Callbacks

ASSUME NoneAssumption == None \notin Users \cup Emails \cup Identities \cup Starts
ASSUME FounderAssumption == Founders \cap Requests = {}
ASSUME KindsAreDisjoint ==
    /\ \A r \in Registers : r \notin EmailChanges \cup Starts \cup Callbacks
    /\ \A r \in EmailChanges : r \notin Starts \cup Callbacks
    /\ \A r \in Starts : r \notin Callbacks

VARIABLES
    email,    \* the committed rows of users
    link,     \* the committed rows of oauth_accounts: identity -> user
    cache,    \* Redis: the live oauth:yandex:state:<state> keys
    cookie,   \* the browser's state cookie
    pc,       \* where each request stands
    state,    \* the state a callback was called with
    who,      \* the identity the provider reported to it
    mail,     \* the email a request wants, or the provider reported
    user      \* the account a request found, or was called for

\* For ServerErrorIsRace alone: the requests that committed an email between a
\* callback's look for its email and its flush.
VARIABLE taken

vars == <<email, link, cache, cookie, pc, state, who, mail, user, taken>>

Answered == {"done", "exists", "bad_state", "provider_error", "conflict",
             "server_error", "failed"}
Steps == {"idle", "commit", "refresh", "setex", "redirect", "consume", "exchange", "profile",
          "linked", "by_email", "flush", "attach", "tokens"} \cup Answered

EmailTaken(e, u) == \E v \in Users \ {u} : email[v] = e

\* The account a callback has flushed and not committed.
Pending(u) == u \in Callbacks /\ pc[u] = "attach" /\ user[u] = u
EmailLocked(e, u) == \E v \in Callbacks \ {u} : Pending(v) /\ mail[v] = e

Goto(r, step) == pc' = [pc EXCEPT ![r] = step]

\* taken, once s has committed an email.
TakenBy(s) == [c \in Callbacks |-> IF pc[c] = "flush" THEN taken[c] \cup {s} ELSE taken[c]]

TypeOK ==
    /\ email \in [Users -> Emails \cup {None}]
    /\ link \in [Identities -> Users \cup {None}]
    /\ cache \subseteq Starts
    /\ cookie \in Starts \cup {None}
    /\ pc \in [Requests -> Steps]
    /\ state \in [Callbacks -> Starts \cup {None}]
    /\ who \in [Callbacks -> Identities \cup {None}]
    /\ mail \in [Requests -> Emails \cup {None}]
    /\ user \in [Requests -> Users \cup {None}]
    /\ taken \in [Callbacks -> SUBSET Requests]

Init ==
    /\ \E founder \in [Founders -> Emails] :
          /\ \A u, v \in Founders : founder[u] = founder[v] => u = v
          /\ email = [u \in Users |-> IF u \in Founders THEN founder[u] ELSE None]
    /\ link = [i \in Identities |-> None]
    /\ cache = {}
    /\ cookie = None
    /\ pc = [r \in Requests |-> "idle"]
    /\ state = [r \in Callbacks |-> None]
    /\ who = [r \in Callbacks |-> None]
    /\ mail = [r \in Requests |-> None]
    /\ user = [r \in Requests |-> None]
    /\ taken = [r \in Callbacks |-> {}]

-----------------------------------------------------------------------------
(* POST /users and PATCH /users/me/email *)

\* get_user_by_email; then the hash and the default role.
CreateUser(r, e) ==
    /\ r \in Registers
    /\ pc[r] = "idle"
    /\ mail' = [mail EXCEPT ![r] = e]
    /\ Goto(r, IF EmailTaken(e, r) THEN "exists" ELSE "commit")
    /\ UNCHANGED <<email, link, cache, cookie, state, who, user, taken>>

\* The INSERT waits for an open transaction that inserted the same email.
CommitNewUser(r) ==
    /\ r \in Registers
    /\ pc[r] = "commit"
    /\ ~EmailLocked(mail[r], r)
    /\ \/ /\ EmailTaken(mail[r], r)
          /\ Goto(r, "exists")
          /\ UNCHANGED <<email, taken>>
       \/ /\ ~EmailTaken(mail[r], r)
          /\ email' = [email EXCEPT ![r] = mail[r]]
          /\ taken' = TakenBy(r)
          /\ Goto(r, "refresh")
    /\ UNCHANGED <<link, cache, cookie, state, who, mail, user>>

\* session.refresh of the committed account; if it fails, or if the reply to the
\* COMMIT was lost, the answer is 500 and the account exists (see Fail).
RefreshUser(r) ==
    /\ pc[r] = "refresh"
    /\ Goto(r, "done")
    /\ UNCHANGED <<email, link, cache, cookie, state, who, mail, user, taken>>

\* The password of the account was right; an email equal to the one that was
\* read makes no UPDATE.
ChangeEmail(r, u, e) ==
    /\ r \in EmailChanges
    /\ pc[r] = "idle"
    /\ email[u] # None
    /\ user' = [user EXCEPT ![r] = u]
    /\ mail' = [mail EXCEPT ![r] = e]
    /\ Goto(r, IF email[u] = e THEN "done" ELSE "commit")
    /\ UNCHANGED <<email, link, cache, cookie, state, who, taken>>

\* The COMMIT may be applied although its reply is lost.
CommitEmail(r) ==
    /\ r \in EmailChanges
    /\ pc[r] = "commit"
    /\ ~EmailLocked(mail[r], user[r])
    /\ \/ /\ EmailTaken(mail[r], user[r])
          /\ Goto(r, "exists")
          /\ UNCHANGED <<email, taken>>
       \/ /\ ~EmailTaken(mail[r], user[r])
          /\ email' = [email EXCEPT ![user[r]] = mail[r]]
          /\ taken' = TakenBy(r)
          /\ \E answer \in {"done", "failed"} : Goto(r, answer)
    /\ UNCHANGED <<link, cache, cookie, state, who, mail, user>>

-----------------------------------------------------------------------------
(* GET /yandexid/login *)

BuildLoginRedirect(s) ==
    /\ s \in Starts
    /\ pc[s] = "idle"
    /\ Goto(s, "setex")
    /\ UNCHANGED <<email, link, cache, cookie, state, who, mail, user, taken>>

\* SETEX of the state, which may be applied although its reply is lost.
CacheState(s) ==
    /\ pc[s] = "setex"
    /\ \/ cache' = cache \cup {s} /\ Goto(s, "redirect")
       \/ cache' \in {cache, cache \cup {s}} /\ Goto(s, "provider_error")
    /\ UNCHANGED <<email, link, cookie, state, who, mail, user, taken>>

\* Mutant: the cookie set from the wrong variable.
LoginRedirectedTo(s) ==
    /\ pc[s] = "redirect"
    /\ cookie' = pc[s]
    /\ Goto(s, "done")
    /\ UNCHANGED <<email, link, cache, state, who, mail, user, taken>>

\* The redirect reaches the browser and sets its cookie.
LoginRedirected(s) ==
    /\ pc[s] = "redirect"
    /\ cookie' = s
    /\ Goto(s, "done")
    /\ UNCHANGED <<email, link, cache, state, who, mail, user, taken>>

\* confirmation_code_ttl has passed: for the key, or for the cookie.
ExpireState ==
    /\ \/ \E s \in cache : cache' = cache \ {s} /\ UNCHANGED cookie
       \/ cookie # None /\ cookie' = None /\ UNCHANGED cache
    /\ UNCHANGED <<email, link, pc, state, who, mail, user, taken>>

-----------------------------------------------------------------------------
(* GET /yandexid/token *)

\* validate_login_state: the state of the URL against the cookie sent with it.
ValidateLoginState(r, s) ==
    /\ r \in Callbacks
    /\ pc[r] = "idle"
    /\ pc[s] = "done"
    /\ state' = [state EXCEPT ![r] = s]
    /\ Goto(r, IF cookie = s THEN "consume" ELSE "bad_state")
    /\ UNCHANGED <<email, link, cache, cookie, who, mail, user, taken>>

\* Mutant: GET in place of GETDEL.
PeekCachedState(r) ==
    /\ pc[r] = "consume"
    /\ Goto(r, IF state[r] \in cache THEN "exchange" ELSE "bad_state")
    /\ UNCHANGED <<email, link, cache, cookie, state, who, mail, user, taken>>

\* GETDEL, which may be applied although its reply is lost.
ConsumeCachedState(r) ==
    /\ pc[r] = "consume"
    /\ \/ /\ cache' = cache \ {state[r]}
          /\ Goto(r, IF state[r] \in cache THEN "exchange" ELSE "bad_state")
       \/ /\ cache' \in {cache, cache \ {state[r]}}
          /\ Goto(r, "provider_error")
    /\ UNCHANGED <<email, link, cookie, state, who, mail, user, taken>>

\* The provider answers, or refuses, times out or answers nonsense.
ExchangeCode(r) ==
    /\ pc[r] = "exchange"
    /\ pc' \in {[pc EXCEPT ![r] = "profile"], [pc EXCEPT ![r] = "provider_error"]}
    /\ UNCHANGED <<email, link, cache, cookie, state, who, mail, user, taken>>

FetchUserInfo(r, i, e) ==
    /\ pc[r] = "profile"
    /\ \/ /\ who' = [who EXCEPT ![r] = i]
          /\ mail' = [mail EXCEPT ![r] = e]
          /\ Goto(r, "linked")
       \/ /\ Goto(r, "provider_error")
          /\ UNCHANGED <<who, mail>>
    /\ UNCHANGED <<email, link, cache, cookie, state, user, taken>>

FindLinkedUser(r) ==
    /\ pc[r] = "linked"
    /\ \/ /\ link[who[r]] # None
          /\ user' = [user EXCEPT ![r] = link[who[r]]]
          /\ Goto(r, "tokens")
       \/ /\ link[who[r]] = None
          /\ Goto(r, "by_email")
          /\ UNCHANGED user
    /\ UNCHANGED <<email, link, cache, cookie, state, who, mail, taken>>

\* Mutant: the account of that email is not looked for.
FindNobody(r) ==
    /\ pc[r] = "by_email"
    /\ Goto(r, "flush")
    /\ UNCHANGED <<email, link, cache, cookie, state, who, mail, user, taken>>

\* get_user_by_email; then, for a new account, the default role.
FindUserByEmail(r) ==
    /\ pc[r] = "by_email"
    /\ \/ \E u \in Users :
            /\ email[u] = mail[r]
            /\ user' = [user EXCEPT ![r] = u]
            /\ Goto(r, "attach")
       \/ /\ \A u \in Users : email[u] # mail[r]
          /\ Goto(r, "flush")
          /\ UNCHANGED user
    /\ UNCHANGED <<email, link, cache, cookie, state, who, mail, taken>>

\* Mutant: session.commit() in place of session.flush().
CommitFlushedUser(r) ==
    /\ pc[r] = "flush"
    /\ ~EmailLocked(mail[r], r)
    /\ ~EmailTaken(mail[r], r)
    /\ email' = [email EXCEPT ![r] = mail[r]]
    /\ taken' = TakenBy(r)
    /\ user' = [user EXCEPT ![r] = r]
    /\ Goto(r, "attach")
    /\ UNCHANGED <<link, cache, cookie, state, who, mail>>

\* session.flush() of the new account; nobody catches its IntegrityError.
FlushNewUser(r) ==
    /\ pc[r] = "flush"
    /\ ~EmailLocked(mail[r], r)
    /\ \/ /\ EmailTaken(mail[r], r)
          /\ Goto(r, "server_error")
          /\ UNCHANGED user
       \/ /\ ~EmailTaken(mail[r], r)
          /\ user' = [user EXCEPT ![r] = r]
          /\ Goto(r, "attach")
    /\ UNCHANGED <<email, link, cache, cookie, state, who, mail, taken>>

\* Mutant: the user returned although the link was refused.
AttachRegardless(r) ==
    /\ pc[r] = "attach"
    /\ link' = IF link[who[r]] = None THEN [link EXCEPT ![who[r]] = user[r]] ELSE link
    /\ email' = IF Pending(r) THEN [email EXCEPT ![r] = mail[r]] ELSE email
    /\ taken' = IF Pending(r) THEN TakenBy(r) ELSE taken
    /\ Goto(r, "tokens")
    /\ UNCHANGED <<cache, cookie, state, who, mail, user>>

\* Mutant: the conflict not handled, the transaction left open.
AttachOrHang(r) ==
    /\ pc[r] = "attach"
    /\ link[who[r]] = None
    /\ link' = [link EXCEPT ![who[r]] = user[r]]
    /\ email' = IF Pending(r) THEN [email EXCEPT ![r] = mail[r]] ELSE email
    /\ taken' = IF Pending(r) THEN TakenBy(r) ELSE taken
    /\ Goto(r, "tokens")
    /\ UNCHANGED <<cache, cookie, state, who, mail, user>>

\* The INSERT of the link and the COMMIT, with it, of a new account; or the
\* ROLLBACK of both.
AttachOAuthAccount(r) ==
    /\ pc[r] = "attach"
    /\ \/ /\ link[who[r]] # None
          /\ Goto(r, "conflict")
          /\ UNCHANGED <<email, link, taken>>
       \/ /\ link[who[r]] = None
          /\ link' = [link EXCEPT ![who[r]] = user[r]]
          /\ email' = IF Pending(r) THEN [email EXCEPT ![r] = mail[r]] ELSE email
          /\ taken' = IF Pending(r) THEN TakenBy(r) ELSE taken
          /\ Goto(r, "tokens")
    /\ UNCHANGED <<cache, cookie, state, who, mail, user>>

\* The tokens are issued and their response deletes the browser's cookie.
CallbackReturn(r) ==
    /\ pc[r] = "tokens"
    /\ cookie' = None
    /\ Goto(r, "done")
    /\ UNCHANGED <<email, link, cache, state, who, mail, user, taken>>

-----------------------------------------------------------------------------

\* The worker dies or the database raises: the open transaction is rolled back.
\* What was committed stays, also for a request that answers 500 after its COMMIT
\* ("refresh", "tokens").
Fail(r) ==
    /\ pc[r] \notin Answered \cup {"idle"}
    /\ Goto(r, "failed")
    /\ UNCHANGED <<email, link, cache, cookie, state, who, mail, user, taken>>

Receive(r) ==
    \/ BuildLoginRedirect(r)
    \/ \E s \in Starts : ValidateLoginState(r, s)
    \/ \E e \in Emails : CreateUser(r, e)
    \/ \E u \in Users, e \in Emails : ChangeEmail(r, u, e)

Proceed(r) ==
    \/ CommitNewUser(r)
    \/ RefreshUser(r)
    \/ CommitEmail(r)
    \/ CacheState(r)
    \/ LoginRedirected(r)
    \/ ConsumeCachedState(r)
    \/ ExchangeCode(r)
    \/ \E i \in Identities, e \in Emails : FetchUserInfo(r, i, e)
    \/ FindLinkedUser(r)
    \/ FindUserByEmail(r)
    \/ FlushNewUser(r)
    \/ AttachOAuthAccount(r)
    \/ CallbackReturn(r)

Next ==
    \/ \E r \in Requests : Receive(r) \/ Proceed(r) \/ Fail(r)
    \/ ExpireState

Spec == Init /\ [][Next]_vars

\* Every await completes or raises (the provider's within its timeout), and
\* PostgreSQL wakes a transaction once the one it waits for has ended.
FairSpec == Spec /\ \A r \in Requests : WF_vars(Proceed(r))

-----------------------------------------------------------------------------
(* Properties *)

\* Whoever comes back from the provider is logged in to the account its identity
\* is linked to, now and in every later login, however the callbacks of one
\* identity, registrations and changes of email interleave
\* (service_yandexid.py:253-342).
LoggedInAsLinked ==
    \A r \in Callbacks :
        pc[r] \in {"tokens", "done"} => link[who[r]] = user[r]

\* No account without a password its owner knows is left behind by a callback
\* that failed: what the callback creates is linked in the same transaction.
NoOrphanAccount ==
    \A u \in Callbacks : email[u] # None => \E i \in Identities : link[i] = u

\* A started login is completed once: of the callbacks that present one state,
\* at most one gets as far as the provider.
BeyondState == Steps \ {"idle", "consume", "bad_state", "provider_error", "failed"}

OneLoginPerState ==
    \A r, s \in Callbacks :
        r # s /\ state[r] = state[s] /\ state[r] # None
            => pc[r] \notin BeyondState \/ pc[s] \notin BeyondState

\* The uncaught error of a callback always comes of a race: after the callback had
\* looked for its email and found no account, another request committed that very
\* email, whatever that request then answered (service_yandexid.py:273-294).
ServerErrorIsRace ==
    \A r \in Callbacks :
        pc[r] = "server_error" => \E s \in taken[r] \ {r} : mail[s] = mail[r]

\* Every request is answered, those that wait for another transaction too.
RequestsEnd == \A r \in Requests : pc[r] # "idle" ~> pc[r] \in Answered

=============================================================================
