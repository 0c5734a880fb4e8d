------------------------------ MODULE Sessions ------------------------------
(***************************************************************************)
(* The sessions of one account: password login, refresh-token rotation,    *)
(* logout, logout of all other sessions and password change, served        *)
(* concurrently by four gunicorn workers whose coroutines interleave at    *)
(* every await and whose synchronous code runs in parallel.                *)
(*                                                                         *)
(* Shared state is the account's row in PostgreSQL and the blacklist in    *)
(* Redis.  Everything else belongs to one request: the ORM object it       *)
(* loaded, the token it was called with, the TTL it computed, the pair of  *)
(* tokens it issued.  A request is one handler invocation; a token pair is *)
(* named by the request that issued it, as its jti (uuid4) is fresh.       *)
(*                                                                         *)
(* Time is a whole number of seconds and a tick within the second, so that *)
(* int(now.timestamp()) is "second" and a comparison with the float clock  *)
(* also sees "tick".                                                       *)
(***************************************************************************)
EXTENDS Integers, FiniteSets

CONSTANTS
    Logins, Refreshes, Logouts, LogoutOthers, PasswordChanges, RoleCalls,
                      \* the requests of each kind, disjoint sets
    Passwords,        \* the passwords clients may type
    FirstPassword,    \* the one the account was registered with
    None,             \* absence of a token, of a key, of an ORM object
    IsSuperuser,      \* users.is_superuser, never written by a request
    RoleEdits,        \* TRUE: role routes may clear and set users.role_id
    RedisRestarts,    \* TRUE: Redis may lose its keys, once
    AccessLife,       \* jwt_settings.access_token_expire_minutes, in seconds
    RefreshLife,      \* jwt_settings.refresh_token_expire_days, in seconds
    TicksPerSecond,   \* resolution of the clock below a second
    MaxSecond         \* bound on the clock

Writers  == LogoutOthers \cup PasswordChanges
Requests == Logins \cup Refreshes \cup Logouts \cup Writers \cup RoleCalls

ASSUME KindsAreDisjoint ==
    /\ \A r \in Logins : r \notin Refreshes \cup Logouts \cup Writers
    /\ \A r \in Refreshes : r \notin Logouts \cup Writers
    /\ \A r \in Logouts : r \notin Writers
    /\ \A r \in LogoutOthers : r \notin PasswordChanges
    /\ \A r \in RoleCalls : r \notin Logins \cup Refreshes \cup Logouts \cup Writers
ASSUME PasswordAssumption == FirstPassword \in Passwords
ASSUME FlagAssumption ==
    IsSuperuser \in BOOLEAN /\ RoleEdits \in BOOLEAN /\ RedisRestarts \in BOOLEAN
ASSUME TimeAssumption ==
    /\ AccessLife \in Nat \ {0}
    /\ RefreshLife \in Nat \ {0}
    /\ TicksPerSecond \in Nat \ {0}
    /\ MaxSecond \in Nat

VARIABLES
    row,        \* the committed row of users
    blacklist,  \* Redis: when the key blacklist:<jti> expires, or None
    lost,       \* auxiliary: the tokens whose keys Redis lost in a restart
    second,     \* the clock, whole seconds
    tick,       \* and the ticks since
    pc,         \* where each request stands
    token,      \* the pair whose access or refresh token the request presents
    user,       \* the ORM object the request works on
    ttl,        \* the TTL it computed for SETEX
    issued,     \* the pair of tokens it issued
    history,    \* the login requests whose row in login_history is committed
    prior       \* auxiliary: the requests answered before this one arrived

vars == <<row, blacklist, lost, second, tick, pc, token, user, ttl, issued, history, prior>>

-----------------------------------------------------------------------------
(* Data *)

UserRow == [token_version : Nat, password_hash : Passwords, role : BOOLEAN]
Pair    == [tv : Nat, access_exp : Nat, refresh_exp : Nat]
Instant == [sec : Nat, frac : Nat]
Steps   == {"idle", "ttl", "check", "load", "setex", "blacklisted", "commit",
            "committed", "issue", "history", "done", "rejected", "no_role",
            "bad_ttl", "failed"}
ASSUME NoneIsNothing ==
    None \notin Requests /\ None \notin UserRow /\ None \notin Pair /\ None \notin Instant

Answered == {"done", "rejected", "no_role", "bad_ttl", "failed"}

RefreshExpired(q) == issued[q].refresh_exp <= second
AccessExpired(q)  == issued[q].access_exp <= second

\* Mutant: keyed by the account, not by the jti.
SomeTokenBlacklisted(q) == \E s \in Requests : blacklist[s] # None

\* Redis has the key: it drops one when the clock is past its expiry.
Blacklisted(q) ==
    /\ blacklist[q] # None
    /\ \/ second < blacklist[q].sec
       \/ second = blacklist[q].sec /\ tick <= blacklist[q].frac

\* A client can present the tokens of every answer it has received.
Delivered(q) == issued[q] # None /\ pc[q] = "done"

\* payload.exp - int(now), for SETEX; refresh never goes below one second.
\* Mutant: the clock rounded up.
TimeLeftRoundedUp(q) == issued[q].refresh_exp - (second + 1)
TimeLeft(q) == issued[q].refresh_exp - second
RefreshTtl(q) == IF TimeLeft(q) > 1 THEN TimeLeft(q) ELSE 1

\* user.token_version += 1
\* Mutant: the increment forgotten.
KeptVersion(u) == u
\* Mutant: a column too narrow, that wraps around.
WrappedVersion(u) == [u EXCEPT !.token_version = (@ % 2) + 1]
NextVersion(u) == [u EXCEPT !.token_version = @ + 1]

HasRoleClaims(u) == u.role \/ IsSuperuser

\* Mutant: the lifetime subtracted.
TokenPairBackwards(tv) ==
    [tv |-> tv, access_exp |-> second + AccessLife,
     refresh_exp |-> second - RefreshLife]

TokenPair(tv) ==
    [tv |-> tv, access_exp |-> second + AccessLife,
     refresh_exp |-> second + RefreshLife]

clock == <<second, tick>>

Goto(r, step) == pc' = [pc EXCEPT ![r] = step]

Arrive(r, step) ==
    /\ pc[r] = "idle"
    /\ Goto(r, step)
    /\ prior' = [prior EXCEPT ![r] = {s \in Requests : pc[s] \in Answered}]

TypeOK ==
    /\ row \in UserRow
    /\ blacklist \in [Requests -> Instant \cup {None}]
    /\ lost \in SUBSET Requests
    /\ second \in 0..MaxSecond
    /\ tick \in 0..(TicksPerSecond - 1)
    /\ pc \in [Requests -> Steps]
    /\ token \in [Requests -> Requests \cup {None}]
    /\ user \in [Requests -> UserRow \cup {None}]
    /\ ttl \in [Requests -> Int]
    /\ issued \in [Requests -> Pair \cup {None}]
    /\ history \in SUBSET Logins
    /\ prior \in [Requests -> SUBSET Requests]

Init ==
    /\ row = [token_version |-> 1, password_hash |-> FirstPassword,
              role |-> ~IsSuperuser]
    /\ blacklist = [r \in Requests |-> None]
    /\ lost = {}
    /\ second = 0
    /\ tick = 0
    /\ pc = [r \in Requests |-> "idle"]
    /\ token = [r \in Requests |-> None]
    /\ user = [r \in Requests |-> None]
    /\ ttl = [r \in Requests |-> 0]
    /\ issued = [r \in Requests |-> None]
    /\ history = {}
    /\ prior = [r \in Requests |-> {}]

-----------------------------------------------------------------------------
(* POST /token *)

\* The row is read and the password verified against it without a lock.
LoginUser(r, password) ==
    /\ \/ /\ password = row.password_hash
          /\ Arrive(r, "issue")
          /\ user' = [user EXCEPT ![r] = row]
       \/ /\ password # row.password_hash
          /\ Arrive(r, "rejected")
          /\ UNCHANGED user
    /\ UNCHANGED <<row, blacklist, lost, clock, token, ttl, issued, history>>

\* The pair is made from the loaded object, not from the row.  A user whose
\* role is gone raises ValueError, which no handler catches.
IssueTokenPair(r) ==
    /\ pc[r] = "issue"
    /\ \/ /\ HasRoleClaims(user[r])
          /\ issued' = [issued EXCEPT ![r] = TokenPair(user[r].token_version)]
          /\ Goto(r, IF r \in Logins THEN "history" ELSE "done")
       \/ /\ ~HasRoleClaims(user[r])
          /\ Goto(r, "no_role")
          /\ UNCHANGED issued
    /\ UNCHANGED <<row, blacklist, lost, clock, token, user, ttl, history, prior>>

\* A failed commit is swallowed: the tokens are returned all the same.
SaveLoginHistory(r) ==
    /\ pc[r] = "history"
    /\ history' \in {history, history \cup {r}}
    /\ Goto(r, "done")
    /\ UNCHANGED <<row, blacklist, lost, clock, token, user, ttl, issued, prior>>

-----------------------------------------------------------------------------
(* POST /refresh and POST /logout *)

\* jwt.decode of the cookie.
DecodeRefreshToken(r, q) ==
    /\ Delivered(q)
    /\ token' = [token EXCEPT ![r] = q]
    /\ Arrive(r, IF RefreshExpired(q) THEN "rejected"
                 ELSE IF r \in Refreshes THEN "check" ELSE "ttl")
    /\ UNCHANGED <<row, blacklist, lost, second, tick, user, ttl, issued, history>>

\* Mutant: the check forgotten.
SkipBlacklistCheck(r) ==
    /\ pc[r] = "check"
    /\ Goto(r, "load")
    /\ UNCHANGED <<row, blacklist, lost, clock, token, user, ttl, issued, history, prior>>

CheckBlacklistedToken(r) ==
    /\ pc[r] = "check"
    /\ Goto(r, IF Blacklisted(token[r]) THEN "rejected" ELSE "load")
    /\ UNCHANGED <<row, blacklist, lost, clock, token, user, ttl, issued, history, prior>>

\* The version is compared with the row as read now; the TTL of the coming
\* SETEX is computed before the next await.
LoadRefreshUser(r) ==
    /\ r \in Refreshes
    /\ pc[r] = "load"
    /\ \/ /\ issued[token[r]].tv # row.token_version
          /\ Goto(r, "rejected")
          /\ UNCHANGED <<user, ttl>>
       \/ /\ issued[token[r]].tv = row.token_version
          /\ user' = [user EXCEPT ![r] = row]
          /\ ttl' = [ttl EXCEPT ![r] = RefreshTtl(token[r])]
          /\ Goto(r, "setex")
    /\ UNCHANGED <<row, blacklist, lost, clock, token, issued, history, prior>>

\* The clock is read again after jwt.decode has accepted the token.
ComputeLogoutTtl(r) ==
    /\ pc[r] = "ttl"
    /\ \/ /\ TimeLeft(token[r]) <= 0
          /\ Goto(r, "done")
          /\ UNCHANGED ttl
       \/ /\ TimeLeft(token[r]) > 0
          /\ ttl' = [ttl EXCEPT ![r] = TimeLeft(token[r])]
          /\ Goto(r, "setex")
    /\ UNCHANGED <<row, blacklist, lost, clock, token, user, issued, history, prior>>

\* Redis applies SETEX; it answers a TTL of zero or less with an error.
BlacklistToken(r) ==
    /\ pc[r] = "setex"
    /\ \/ /\ ttl[r] > 0
          /\ blacklist' = [blacklist EXCEPT ![token[r]] =
                              [sec |-> second + ttl[r], frac |-> tick]]
          /\ Goto(r, IF r \in Refreshes THEN "issue" ELSE "blacklisted")
       \/ /\ ttl[r] <= 0
          /\ Goto(r, "bad_ttl")
          /\ UNCHANGED blacklist
    /\ UNCHANGED <<row, lost, clock, token, user, ttl, issued, history, prior>>

LogoutReturn(r) ==
    /\ pc[r] = "blacklisted"
    /\ Goto(r, "done")
    /\ UNCHANGED <<row, blacklist, lost, clock, token, user, ttl, issued, history, prior>>

-----------------------------------------------------------------------------
(* POST /logout-others and PATCH /users/me/password *)

\* get_access_token_payload: jwt.decode of the bearer token.  A role route is
\* then served or not by the token's own claim, with nothing read.
DecodeAccessToken(r, q) ==
    /\ Delivered(q)
    /\ token' = [token EXCEPT ![r] = q]
    /\ Arrive(r, IF AccessExpired(q) \/ (r \in RoleCalls /\ ~IsSuperuser) THEN "rejected"
                 ELSE IF r \in RoleCalls THEN "done" ELSE "load")
    /\ UNCHANGED <<row, blacklist, lost, second, tick, user, ttl, issued, history>>

\* get_token_user, then token_version += 1 on the loaded object.
LogoutOthersLoad(r) ==
    /\ r \in LogoutOthers
    /\ pc[r] = "load"
    /\ \/ /\ issued[token[r]].tv # row.token_version
          /\ Goto(r, "rejected")
          /\ UNCHANGED user
       \/ /\ issued[token[r]].tv = row.token_version
          /\ user' = [user EXCEPT ![r] = NextVersion(row)]
          /\ Goto(r, "commit")
    /\ UNCHANGED <<row, blacklist, lost, clock, token, ttl, issued, history, prior>>

\* get_token_user, verify_password, then both columns on the loaded object.
ChangePasswordLoad(r, old, new) ==
    /\ r \in PasswordChanges
    /\ pc[r] = "load"
    /\ \/ /\ \/ issued[token[r]].tv # row.token_version
             \/ old # row.password_hash
          /\ Goto(r, "rejected")
          /\ UNCHANGED user
       \/ /\ issued[token[r]].tv = row.token_version
          /\ old = row.password_hash
          /\ user' = [user EXCEPT ![r] = [NextVersion(row) EXCEPT !.password_hash = new]]
          /\ Goto(r, "commit")
    /\ UNCHANGED <<row, blacklist, lost, clock, token, ttl, issued, history, prior>>

\* Mutant: session.commit() forgotten.
CommitForgotten(r) ==
    /\ pc[r] = "commit"
    /\ Goto(r, "committed")
    /\ UNCHANGED <<row, blacklist, lost, clock, token, user, ttl, issued, history, prior>>

\* The UPDATE names only the columns the request assigned.
CommitUser(r) ==
    /\ pc[r] = "commit"
    /\ row' = [row EXCEPT
                 !.token_version = user[r].token_version,
                 !.password_hash = IF r \in PasswordChanges
                                   THEN user[r].password_hash ELSE @]
    /\ Goto(r, "committed")
    /\ UNCHANGED <<blacklist, lost, clock, token, user, ttl, issued, history, prior>>

\* The second SELECT loads the role but does not refresh the columns that the
\* identity map already holds: token_version stays the request's own.
LogoutOthersReload(r) ==
    /\ r \in LogoutOthers
    /\ pc[r] = "committed"
    /\ user' = [user EXCEPT ![r].role = row.role]
    /\ Goto(r, "issue")
    /\ UNCHANGED <<row, blacklist, lost, clock, token, ttl, issued, history, prior>>

ChangePasswordReturn(r) ==
    /\ r \in PasswordChanges
    /\ pc[r] = "committed"
    /\ Goto(r, "done")
    /\ UNCHANGED <<row, blacklist, lost, clock, token, user, ttl, issued, history, prior>>

-----------------------------------------------------------------------------
(* The environment *)

\* The worker dies, the client's connection is cut, or PostgreSQL or Redis
\* raises at an await.  What was already applied stays applied.
Fail(r) ==
    /\ pc[r] \notin Answered \cup {"idle"}
    /\ Goto(r, "failed")
    /\ UNCHANGED <<row, blacklist, lost, clock, token, user, ttl, issued, history, prior>>

ClockTick ==
    /\ \/ /\ tick + 1 < TicksPerSecond
          /\ tick' = tick + 1
          /\ UNCHANGED second
       \/ /\ tick + 1 = TicksPerSecond
          /\ second < MaxSecond
          /\ tick' = 0
          /\ second' = second + 1
    /\ UNCHANGED <<row, blacklist, lost, pc, token, user, ttl, issued, history, prior>>

\* remove_role deletes the user's role (ON DELETE SET NULL); assign_role and
\* revoke_role give one.
EditRole ==
    /\ RoleEdits
    /\ row' = [row EXCEPT !.role = ~@]
    /\ UNCHANGED <<blacklist, lost, clock, pc, token, user, ttl, issued, history, prior>>

\* Redis restarts empty: nothing in the repository makes it keep its data.
\* Bound: one restart that loses a key.
RedisRestart ==
    /\ RedisRestarts
    /\ lost = {}
    /\ lost' = {q \in Requests : blacklist[q] # None}
    /\ lost' # {}
    /\ blacklist' = [q \in Requests |-> None]
    /\ UNCHANGED <<row, clock, pc, token, user, ttl, issued, history, prior>>

-----------------------------------------------------------------------------

Receive(r) ==
    \/ r \in Logins /\ \E p \in Passwords : LoginUser(r, p)
    \/ r \in Refreshes \cup Logouts /\ \E q \in Requests : DecodeRefreshToken(r, q)
    \/ r \in Writers \cup RoleCalls /\ \E q \in Requests : DecodeAccessToken(r, q)

Proceed(r) ==
    \/ IssueTokenPair(r)
    \/ SaveLoginHistory(r)
    \/ CheckBlacklistedToken(r)
    \/ LoadRefreshUser(r)
    \/ ComputeLogoutTtl(r)
    \/ BlacklistToken(r)
    \/ LogoutReturn(r)
    \/ LogoutOthersLoad(r)
    \/ \E old, new \in Passwords : ChangePasswordLoad(r, old, new)
    \/ CommitUser(r)
    \/ LogoutOthersReload(r)
    \/ ChangePasswordReturn(r)

Next ==
    \/ \E r \in Requests : Receive(r) \/ Proceed(r) \/ Fail(r)
    \/ ClockTick
    \/ EditRole
    \/ RedisRestart

Spec == Init /\ [][Next]_vars

\* A coroutine whose await has completed is resumed by its event loop, and an
\* await completes or raises: no request waits for another one.
FairSpec == Spec /\ \A r \in Requests : WF_vars(Proceed(r))

-----------------------------------------------------------------------------
(* Properties *)

\* Once a refresh or a logout has blacklisted its token, the Redis key lives at
\* least as long as the token itself: whatever the rounding of the TTL, the
\* delay of SETEX or a second SETEX with a smaller TTL, no moment comes when
\* the token is both unexpired and unlisted (service_auth.py:103-107, 146-152),
\* unless Redis had the key and lost it in a restart.
Revoked(r) ==
    \/ r \in Refreshes /\ pc[r] \in {"issue", "no_role", "done"}
    \/ r \in Logouts /\ pc[r] \in {"blacklisted", "done"}

RevocationOutlivesToken ==
    \A r \in Requests :
        Revoked(r) => RefreshExpired(token[r]) \/ Blacklisted(token[r]) \/ token[r] \in lost

\* While a token is unexpired, a refresh that arrives after another refresh or a
\* logout of the same token has been answered does not get a pair, unless Redis
\* lost the key: the blacklist is the only place a revocation is kept.
Spent(r) ==
    \E s \in prior[r] \cap (Refreshes \cup Logouts) :
        pc[s] = "done" /\ token[s] = token[r]

SpentTokenIsUseless ==
    \A r \in Refreshes :
        Spent(r) /\ ~RefreshExpired(token[r]) /\ token[r] \notin lost => issued[r] = None

\* The TTL is never zero or negative when SETEX is sent, even when the token
\* expires between its validation and the computation (max(1, ...) and ttl <= 0).
TtlIsPositive == \A r \in Requests : pc[r] # "bad_ttl"

\* A refresh is only rejected because its token expired, because another
\* request went on to blacklist it, or because a writer got to its commit:
\* nothing else a client does ends a session.
RejectionIsJustified ==
    \A r \in Refreshes :
        pc[r] = "rejected" =>
            \/ RefreshExpired(token[r])
            \/ \E s \in Requests \ {r} : token[s] = token[r] /\ ttl[s] > 0
            \/ \E w \in Writers : user[w] # None

\* No two requests that write token_version were ever in progress together.
SerialWriters ==
    \A w, v \in Writers :
        w # v /\ pc[w] # "idle" /\ pc[v] # "idle" => w \in prior[v] \/ v \in prior[w]

\* After logout_others or change_password has answered, every session that had
\* been answered before it arrived is over: a later request that presents its
\* token is rejected, whichever of its two tokens it presents and whatever Redis
\* has lost since: these ends are kept in the row.
OtherSessionsEnd ==
    SerialWriters =>
        \A w \in Writers, r \in Refreshes \cup Writers :
            pc[w] = "done" /\ w \in prior[r] /\ token[r] \in prior[w]
                => user[r] = None /\ issued[r] = None

\* The caller of logout_others is not logged out by its own request: until
\* another writer arrives, the pair it was given carries the row's version.
CallerKeepsItsSession ==
    \A w \in LogoutOthers :
        pc[w] = "done" /\ (\A v \in Writers \ {w} : pc[v] = "idle" \/ v \in prior[w])
            => issued[w].tv = row.token_version

\* A session opened with a password is live only while that is the account's
\* password, although login reads the row long before it answers.
LiveSessionKnowsPassword ==
    SerialWriters =>
        \A l \in Logins :
            issued[l] # None /\ issued[l].tv = row.token_version
                => user[l].password_hash = row.password_hash

\* A session whose version is not the row's never comes back to life.
DeadSessionStaysDead ==
    [][ SerialWriters' =>
          \A q \in Requests :
              issued[q] # None /\ issued[q].tv # row.token_version
                  => issued[q].tv # row'.token_version ]_vars

-----------------------------------------------------------------------------
(* What the documentation says, and concurrent requests break *)

\* README: logout-others revokes all other sessions; so a role request that
\* arrives after it was answered, with the access token of another login than
\* the caller's, answered before the caller arrived, is not served.
RevokedTokenIsUseless ==
    \A w \in LogoutOthers, r \in RoleCalls :
        /\ pc[w] = "done" /\ w \in prior[r]
        /\ {token[w], token[r]} \subseteq Logins /\ token[w] # token[r]
        /\ token[r] \in prior[w]
        => pc[r] # "done"

\* The tests: a password change ends the sessions opened with the old one.
OldPasswordSessionsEnd ==
    \A l \in Logins :
        issued[l] # None /\ issued[l].tv = row.token_version
            => user[l].password_hash = row.password_hash

=============================================================================
