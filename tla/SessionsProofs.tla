--------------------------- MODULE SessionsProofs ---------------------------
(***************************************************************************)
(* Proofs about Sessions, for any number of requests of each kind, any     *)
(* lifetimes and any resolution of the clock.                              *)
(*                                                                         *)
(* The invariant is built in two layers.  Base says what each step of a    *)
(* request can rely on: its kind, the object it loaded, the pair it        *)
(* presents.  Blacklist adds the arithmetic: a key outlives its token, and *)
(* so does the key that a TTL already computed will create.                *)
(***************************************************************************)
EXTENDS Sessions, TLAPS

\* Which kinds of request can stand where.
Kinds ==
    \A r \in Requests :
        /\ pc[r] \in {"ttl", "blacklisted"} => r \in Logouts
        /\ pc[r] = "check" => r \in Refreshes
        /\ pc[r] = "load" => r \in Refreshes \cup Writers
        /\ pc[r] = "setex" => r \in Refreshes \cup Logouts
        /\ pc[r] \in {"commit", "committed"} => r \in Writers
        /\ pc[r] = "issue" => r \in Logins \cup Refreshes \cup LogoutOthers
        /\ pc[r] = "history" => r \in Logins

\* A request that goes on to write or to issue has loaded the user.
Loaded ==
    \A r \in Requests :
        \/ pc[r] \in {"issue", "commit", "committed"}
        \/ r \in Refreshes /\ pc[r] = "setex"
        => user[r] \in UserRow

\* A pair exists only after the step that issues it.
IssuedLate ==
    \A r \in Requests :
        issued[r] # None => \/ pc[r] = "done"
                            \/ r \in Logins /\ pc[r] \in {"history", "failed"}

\* Every request but a login presents a pair that was issued.
Presents ==
    \A r \in Requests :
        r \notin Logins /\ pc[r] # "idle"
            => /\ token[r] \in Requests
               /\ pc[token[r]] = "done"
               /\ issued[token[r]] \in Pair

Base == TypeOK /\ Kinds /\ Loaded /\ IssuedLate /\ Presents

\* A key never expires before the token it names.
KeyOutlivesToken ==
    \A q \in Requests :
        blacklist[q] # None =>
            /\ pc[q] = "done"
            /\ issued[q] \in Pair
            /\ issued[q].refresh_exp <= blacklist[q].sec

\* Nor will the key that a computed TTL is about to create.
TtlCoversToken ==
    \A r \in Requests :
        pc[r] = "setex" =>
            ttl[r] > 0 /\ issued[token[r]].refresh_exp <= second + ttl[r]

RevokedIsListed ==
    \A r \in Requests :
        Revoked(r) => \/ RefreshExpired(token[r])
                      \/ blacklist[token[r]] # None
                      \/ token[r] \in lost

\* What one step can do to any request.
OneStep ==
    /\ second' >= second
    /\ lost \subseteq lost'
    /\ \A r \in Requests :
        /\ pc[r] # "idle" => token'[r] = token[r] /\ prior'[r] = prior[r] /\ pc'[r] # "idle"
        /\ pc[r] \in Answered => pc'[r] = pc[r]
        /\ pc[r] = "done" => issued'[r] = issued[r]
        /\ pc[r] = "idle" =>
             prior'[r] = IF pc'[r] = "idle" THEN prior[r]
                         ELSE {s \in Requests : pc[s] \in Answered}
        /\ r \in Refreshes /\ pc[r] \in {"idle", "check"} =>
             \/ pc'[r] \in {"idle", "check", "rejected", "failed"}
             \/ pc[r] = "check" /\ ~Blacklisted(token[r])

\* What a request found answered when it arrived is answered still, and a refresh
\* of a spent token does not get past the blacklist.
PriorIsAnswered == \A r \in Requests : \A s \in prior[r] : pc[s] \in Answered

SpentIsStopped ==
    \A r \in Refreshes :
        pc[r] # "idle" /\ Spent(r) /\ ~RefreshExpired(token[r])
                      /\ token[r] \notin lost
            => pc[r] \in {"check", "rejected", "failed"}

FreshHasNoPrior == \A r \in Requests : pc[r] = "idle" => prior[r] = {}

OrderInv == PriorIsAnswered /\ SpentIsStopped /\ FreshHasNoPrior

BlacklistInv == KeyOutlivesToken /\ TtlCoversToken /\ RevokedIsListed /\ TtlIsPositive

-----------------------------------------------------------------------------

LEMMA InitBase == Init => Base
<1> SUFFICES ASSUME Init PROVE Base
    OBVIOUS
<1> USE DEF Init
<1>1. TypeOK
  <2>1. row \in UserRow
    BY PasswordAssumption, FlagAssumption DEF UserRow
  <2>2. second \in 0..MaxSecond /\ tick \in 0..(TicksPerSecond - 1)
    BY TimeAssumption
  <2>3. QED BY <2>1, <2>2 DEF TypeOK, Steps
<1>2. Kinds
  BY DEF Kinds
<1>3. Loaded /\ IssuedLate /\ Presents
  BY DEF Loaded, IssuedLate, Presents
<1>4. QED BY <1>1, <1>2, <1>3 DEF Base

\* What the two writers assign to the object they loaded is a row.
LEMMA BumpedRow ==
    ASSUME row \in UserRow
    PROVE  NextVersion(row) \in UserRow
  BY DEF NextVersion, UserRow

LEMMA BothColumns ==
    ASSUME row \in UserRow, NEW new \in Passwords
    PROVE  [NextVersion(row) EXCEPT !.password_hash = new] \in UserRow
  BY BumpedRow DEF UserRow

\* Every action keeps the types.
LEMMA TypeStep == Base /\ [Next]_vars => TypeOK'
<1> SUFFICES ASSUME Base, [Next]_vars PROVE TypeOK'
    OBVIOUS
<1> USE DEF Base, TypeOK, Steps, clock
<1>1. ASSUME NEW r \in Logins, NEW p \in Passwords, LoginUser(r, p) PROVE TypeOK'
  BY <1>1 DEF LoginUser, Arrive, Goto, Requests
<1>2. ASSUME NEW r \in Refreshes \cup Logouts, NEW q \in Requests, DecodeRefreshToken(r, q)
      PROVE  TypeOK'
  BY <1>2 DEF DecodeRefreshToken, Arrive, Goto, Requests
<1>3. ASSUME NEW r \in Writers \cup RoleCalls, NEW q \in Requests, DecodeAccessToken(r, q) PROVE TypeOK'
  BY <1>3 DEF DecodeAccessToken, Arrive, Goto, Requests
<1>4. ASSUME NEW r \in Requests, IssueTokenPair(r) PROVE TypeOK'
  <2>1. user[r] \in UserRow
    BY <1>4 DEF IssueTokenPair, Loaded
  <2>2. TokenPair(user[r].token_version) \in Pair
    BY <2>1, TimeAssumption DEF TokenPair, Pair, UserRow
  <2>3. QED BY <1>4, <2>2 DEF IssueTokenPair, Goto, clock
<1>5. ASSUME NEW r \in Requests, SaveLoginHistory(r) PROVE TypeOK'
  BY <1>5 DEF SaveLoginHistory, Goto, Kinds
<1>6. ASSUME NEW r \in Requests, CheckBlacklistedToken(r) PROVE TypeOK'
  BY <1>6 DEF CheckBlacklistedToken, Goto, clock
<1>7. ASSUME NEW r \in Requests, LoadRefreshUser(r) PROVE TypeOK'
  <2>1. issued[token[r]] \in Pair
    BY <1>7, KindsAreDisjoint DEF LoadRefreshUser, Presents
  <2>2. RefreshTtl(token[r]) \in Int
    BY <2>1 DEF Pair, RefreshTtl, TimeLeft
  <2>3. QED BY <1>7, <2>2 DEF LoadRefreshUser, Goto, clock
<1>8. ASSUME NEW r \in Requests, ComputeLogoutTtl(r) PROVE TypeOK'
  <2>1. issued[token[r]] \in Pair
    BY <1>8, KindsAreDisjoint DEF ComputeLogoutTtl, Presents, Kinds
  <2>2. TimeLeft(token[r]) \in Int
    BY <2>1 DEF Pair, TimeLeft
  <2>3. QED BY <1>8, <2>2 DEF ComputeLogoutTtl, Goto, clock
<1>9. ASSUME NEW r \in Requests, BlacklistToken(r) PROVE TypeOK'
  <2>1. CASE ttl[r] > 0
    <3>1. [sec |-> second + ttl[r], frac |-> tick] \in Instant
      BY <2>1 DEF Instant
    <3>2. QED BY <1>9, <2>1, <3>1 DEF BlacklistToken, Goto
  <2>2. CASE ~(ttl[r] > 0)
    BY <1>9, <2>2 DEF BlacklistToken, Goto
  <2>3. QED BY <2>1, <2>2
<1>10. ASSUME NEW r \in Requests, LogoutReturn(r) \/ ChangePasswordReturn(r) \/ Fail(r)
       PROVE  TypeOK'
  BY <1>10 DEF LogoutReturn, ChangePasswordReturn, Fail, Goto, clock
<1>11. ASSUME NEW r \in Requests, LogoutOthersLoad(r) PROVE TypeOK'
  BY <1>11, BumpedRow DEF LogoutOthersLoad, Goto
<1>12. ASSUME NEW r \in Requests, NEW old \in Passwords, NEW new \in Passwords,
              ChangePasswordLoad(r, old, new)
       PROVE  TypeOK'
  <2>1. [NextVersion(row) EXCEPT !.password_hash = new] \in UserRow
    BY BothColumns
  <2>2. QED BY <1>12, <2>1 DEF ChangePasswordLoad, Goto, clock
<1>13. ASSUME NEW r \in Requests, CommitUser(r) PROVE TypeOK'
  <2>1. user[r] \in UserRow
    BY <1>13 DEF CommitUser, Loaded
  <2>2. QED BY <1>13, <2>1 DEF CommitUser, Goto, UserRow
<1>14. ASSUME NEW r \in Requests, LogoutOthersReload(r) PROVE TypeOK'
  <2>1. user[r] \in UserRow
    BY <1>14 DEF LogoutOthersReload, Loaded
  <2>2. QED BY <1>14, <2>1 DEF LogoutOthersReload, Goto, UserRow
<1>15. CASE ClockTick
  BY <1>15, TimeAssumption DEF ClockTick
<1>16. CASE EditRole
  BY <1>16 DEF EditRole, UserRow
<1>17. CASE RedisRestart
  BY <1>17 DEF RedisRestart
<1>18. CASE UNCHANGED vars
  BY <1>18 DEF vars
<1>19. QED
  BY <1>1, <1>2, <1>3, <1>4, <1>5, <1>6, <1>7, <1>8, <1>9, <1>10, <1>11, <1>12,
     <1>13, <1>14, <1>15, <1>16, <1>17, <1>18 DEF Next, Receive, Proceed

\* Every action keeps the kind of request that can stand at each step.
LEMMA KindsStep == Base /\ [Next]_vars => Kinds'
<1> SUFFICES ASSUME Base, [Next]_vars PROVE Kinds'
    OBVIOUS
<1> USE DEF Base, Kinds, TypeOK, Goto, Requests, Writers
<1>1. ASSUME NEW r \in Logins, NEW p \in Passwords, LoginUser(r, p) PROVE Kinds'
  BY <1>1 DEF LoginUser, Arrive
<1>2. ASSUME NEW r \in Refreshes \cup Logouts, NEW q \in Requests, DecodeRefreshToken(r, q)
       PROVE  Kinds'
  BY <1>2 DEF DecodeRefreshToken, Arrive, Delivered
<1>3. ASSUME NEW r \in Writers \cup RoleCalls, NEW q \in Requests, DecodeAccessToken(r, q)
       PROVE  Kinds'
  BY <1>3 DEF DecodeAccessToken, Arrive, Delivered
<1>4. ASSUME NEW r \in Requests, IssueTokenPair(r) PROVE Kinds'
  BY <1>4 DEF IssueTokenPair
<1>5. ASSUME NEW r \in Requests, SaveLoginHistory(r) PROVE Kinds'
  BY <1>5 DEF SaveLoginHistory
<1>6. ASSUME NEW r \in Requests, CheckBlacklistedToken(r) PROVE Kinds'
  BY <1>6 DEF CheckBlacklistedToken
<1>7. ASSUME NEW r \in Requests, LoadRefreshUser(r) PROVE Kinds'
  BY <1>7 DEF LoadRefreshUser
<1>8. ASSUME NEW r \in Requests, ComputeLogoutTtl(r) PROVE Kinds'
  BY <1>8 DEF ComputeLogoutTtl
<1>9. ASSUME NEW r \in Requests, BlacklistToken(r) PROVE Kinds'
  BY <1>9 DEF BlacklistToken
<1>10. ASSUME NEW r \in Requests, LogoutReturn(r) PROVE Kinds'
  BY <1>10 DEF LogoutReturn
<1>11. ASSUME NEW r \in Requests, LogoutOthersLoad(r) PROVE Kinds'
  BY <1>11 DEF LogoutOthersLoad
<1>12. ASSUME NEW r \in Requests, NEW old \in Passwords, NEW new \in Passwords,
              ChangePasswordLoad(r, old, new)
       PROVE  Kinds'
  BY <1>12 DEF ChangePasswordLoad
<1>13. ASSUME NEW r \in Requests, CommitUser(r) PROVE Kinds'
  BY <1>13 DEF CommitUser
<1>14. ASSUME NEW r \in Requests, LogoutOthersReload(r) PROVE Kinds'
  BY <1>14 DEF LogoutOthersReload
<1>15. ASSUME NEW r \in Requests, ChangePasswordReturn(r) PROVE Kinds'
  BY <1>15 DEF ChangePasswordReturn
<1>16. ASSUME NEW r \in Requests, Fail(r) PROVE Kinds'
  BY <1>16 DEF Fail
<1>17. CASE ClockTick
  BY <1>17 DEF ClockTick
<1>18. CASE EditRole
  BY <1>18 DEF EditRole
<1>19. CASE RedisRestart
  BY <1>19 DEF RedisRestart
<1>20. CASE UNCHANGED vars
  BY <1>20 DEF vars
<1>21. QED
  BY <1>1, <1>2, <1>3, <1>4, <1>5, <1>6, <1>7, <1>8, <1>9, <1>10, <1>11,
     <1>12, <1>13, <1>14, <1>15, <1>16, <1>17, <1>18, <1>19, <1>20 DEF Next, Receive, Proceed

\* Every action keeps the object a request is going to write or to issue from.
LEMMA LoadedStep == Base /\ [Next]_vars => Loaded'
<1> SUFFICES ASSUME Base, [Next]_vars PROVE Loaded'
    OBVIOUS
<1> USE KindsAreDisjoint DEF Base, Loaded, Kinds, TypeOK, Goto, clock
<1>1. ASSUME NEW r \in Logins, NEW p \in Passwords, LoginUser(r, p)
       PROVE  Loaded'
  BY <1>1 DEF LoginUser, Arrive
<1>2. ASSUME NEW r \in Refreshes \cup Logouts, NEW q \in Requests, DecodeRefreshToken(r, q)
       PROVE  Loaded'
  BY <1>2 DEF DecodeRefreshToken, Arrive, Delivered
<1>3. ASSUME NEW r \in Writers \cup RoleCalls, NEW q \in Requests, DecodeAccessToken(r, q)
       PROVE  Loaded'
  BY <1>3 DEF DecodeAccessToken, Arrive, Delivered
<1>4. ASSUME NEW r \in Requests, IssueTokenPair(r) PROVE Loaded'
  BY <1>4 DEF IssueTokenPair
<1>5. ASSUME NEW r \in Requests, SaveLoginHistory(r) PROVE Loaded'
  BY <1>5 DEF SaveLoginHistory
<1>6. ASSUME NEW r \in Requests, CheckBlacklistedToken(r) PROVE Loaded'
  BY <1>6 DEF CheckBlacklistedToken
<1>7. ASSUME NEW r \in Requests, LoadRefreshUser(r) PROVE Loaded'
  BY <1>7 DEF LoadRefreshUser
<1>8. ASSUME NEW r \in Requests, ComputeLogoutTtl(r) PROVE Loaded'
  BY <1>8 DEF ComputeLogoutTtl
<1>9. ASSUME NEW r \in Requests, BlacklistToken(r) PROVE Loaded'
  BY <1>9 DEF BlacklistToken
<1>10. ASSUME NEW r \in Requests, LogoutReturn(r) PROVE Loaded'
  BY <1>10 DEF LogoutReturn
<1>11. ASSUME NEW r \in Requests, LogoutOthersLoad(r) PROVE Loaded'
  <2>1. NextVersion(row) \in UserRow
    BY BumpedRow
  <2>2. QED BY <1>11, <2>1 DEF LogoutOthersLoad
<1>12. ASSUME NEW r \in Requests, NEW old \in Passwords, NEW new \in Passwords,
              ChangePasswordLoad(r, old, new)
       PROVE  Loaded'
  <2>1. [NextVersion(row) EXCEPT !.password_hash = new] \in UserRow
    BY BothColumns
  <2>2. QED BY <1>12, <2>1 DEF ChangePasswordLoad
<1>13. ASSUME NEW r \in Requests, CommitUser(r) PROVE Loaded'
  BY <1>13 DEF CommitUser
<1>14. ASSUME NEW r \in Requests, LogoutOthersReload(r) PROVE Loaded'
  <2>1. user[r] \in UserRow
    BY <1>14 DEF LogoutOthersReload
  <2>2. [user[r] EXCEPT !.role = row.role] \in UserRow
    BY <2>1 DEF UserRow
  <2>3. QED BY <1>14, <2>2 DEF LogoutOthersReload
<1>15. ASSUME NEW r \in Requests, ChangePasswordReturn(r) PROVE Loaded'
  BY <1>15 DEF ChangePasswordReturn
<1>16. ASSUME NEW r \in Requests, Fail(r) PROVE Loaded'
  BY <1>16 DEF Fail
<1>17. CASE ClockTick
  BY <1>17 DEF ClockTick
<1>18. CASE EditRole
  BY <1>18 DEF EditRole
<1>19. CASE RedisRestart
  BY <1>19 DEF RedisRestart
<1>20. CASE UNCHANGED vars
  BY <1>20 DEF vars
<1>21. QED
  BY <1>1, <1>2, <1>3, <1>4, <1>5, <1>6, <1>7, <1>8, <1>9, <1>10, <1>11,
     <1>12, <1>13, <1>14, <1>15, <1>16, <1>17, <1>18, <1>19, <1>20 DEF Next, Receive, Proceed

\* No pair exists before the step that issues it.
LEMMA IssuedStep == Base /\ [Next]_vars => IssuedLate'
<1> SUFFICES ASSUME Base, [Next]_vars PROVE IssuedLate'
    OBVIOUS
<1> USE KindsAreDisjoint DEF Base, IssuedLate, Kinds, TypeOK, Goto, clock
<1>1. ASSUME NEW r \in Logins, NEW p \in Passwords, LoginUser(r, p)
       PROVE  IssuedLate'
  BY <1>1 DEF LoginUser, Arrive
<1>2. ASSUME NEW r \in Refreshes \cup Logouts, NEW q \in Requests, DecodeRefreshToken(r, q)
       PROVE  IssuedLate'
  BY <1>2 DEF DecodeRefreshToken, Arrive, Delivered
<1>3. ASSUME NEW r \in Writers \cup RoleCalls, NEW q \in Requests, DecodeAccessToken(r, q)
       PROVE  IssuedLate'
  BY <1>3 DEF DecodeAccessToken, Arrive, Delivered
<1>4. ASSUME NEW r \in Requests, IssueTokenPair(r) PROVE IssuedLate'
  BY <1>4 DEF IssueTokenPair
<1>5. ASSUME NEW r \in Requests, SaveLoginHistory(r) PROVE IssuedLate'
  BY <1>5 DEF SaveLoginHistory
<1>6. ASSUME NEW r \in Requests, CheckBlacklistedToken(r) PROVE IssuedLate'
  BY <1>6 DEF CheckBlacklistedToken
<1>7. ASSUME NEW r \in Requests, LoadRefreshUser(r) PROVE IssuedLate'
  BY <1>7 DEF LoadRefreshUser
<1>8. ASSUME NEW r \in Requests, ComputeLogoutTtl(r) PROVE IssuedLate'
  BY <1>8 DEF ComputeLogoutTtl
<1>9. ASSUME NEW r \in Requests, BlacklistToken(r) PROVE IssuedLate'
  BY <1>9 DEF BlacklistToken
<1>10. ASSUME NEW r \in Requests, LogoutReturn(r) PROVE IssuedLate'
  BY <1>10 DEF LogoutReturn
<1>11. ASSUME NEW r \in Requests, LogoutOthersLoad(r) PROVE IssuedLate'
  BY <1>11 DEF LogoutOthersLoad
<1>12. ASSUME NEW r \in Requests, NEW old \in Passwords, NEW new \in Passwords,
              ChangePasswordLoad(r, old, new)
       PROVE  IssuedLate'
  BY <1>12 DEF ChangePasswordLoad
<1>13. ASSUME NEW r \in Requests, CommitUser(r) PROVE IssuedLate'
  BY <1>13 DEF CommitUser
<1>14. ASSUME NEW r \in Requests, LogoutOthersReload(r) PROVE IssuedLate'
  BY <1>14 DEF LogoutOthersReload
<1>15. ASSUME NEW r \in Requests, ChangePasswordReturn(r) PROVE IssuedLate'
  BY <1>15 DEF ChangePasswordReturn
<1>16. ASSUME NEW r \in Requests, Fail(r) PROVE IssuedLate'
  BY <1>16 DEF Fail, Answered
<1>17. CASE ClockTick
  BY <1>17 DEF ClockTick
<1>18. CASE EditRole
  BY <1>18 DEF EditRole
<1>19. CASE RedisRestart
  BY <1>19 DEF RedisRestart
<1>20. CASE UNCHANGED vars
  BY <1>20 DEF vars
<1>21. QED
  BY <1>1, <1>2, <1>3, <1>4, <1>5, <1>6, <1>7, <1>8, <1>9, <1>10, <1>11,
     <1>12, <1>13, <1>14, <1>15, <1>16, <1>17, <1>18, <1>19, <1>20 DEF Next, Receive, Proceed

\* A pair that is presented was delivered, and stays so.
LEMMA PresentsStep == Base /\ [Next]_vars => Presents'
<1> SUFFICES ASSUME Base, [Next]_vars PROVE Presents'
    OBVIOUS
<1> USE DEF Base, Presents, TypeOK, Goto, clock
<1>1. ASSUME NEW r \in Logins, NEW p \in Passwords, LoginUser(r, p)
       PROVE  Presents'
  BY <1>1 DEF LoginUser, Arrive
<1>2. ASSUME NEW r \in Refreshes \cup Logouts, NEW q \in Requests, DecodeRefreshToken(r, q)
       PROVE  Presents'
  BY <1>2 DEF DecodeRefreshToken, Arrive, Delivered
<1>3. ASSUME NEW r \in Writers \cup RoleCalls, NEW q \in Requests, DecodeAccessToken(r, q)
       PROVE  Presents'
  BY <1>3 DEF DecodeAccessToken, Arrive, Delivered
<1>4. ASSUME NEW r \in Requests, IssueTokenPair(r) PROVE Presents'
  <2>1. pc[r] = "issue" /\ pc'[r] # "idle" /\ token' = token
    BY <1>4 DEF IssueTokenPair
  <2>2. \A q \in Requests : q # r => issued'[q] = issued[q] /\ pc'[q] = pc[q]
    BY <1>4 DEF IssueTokenPair
  <2>3. QED BY <2>1, <2>2
<1>5. ASSUME NEW r \in Requests, SaveLoginHistory(r) PROVE Presents'
  BY <1>5 DEF SaveLoginHistory
<1>6. ASSUME NEW r \in Requests, CheckBlacklistedToken(r) PROVE Presents'
  BY <1>6 DEF CheckBlacklistedToken
<1>7. ASSUME NEW r \in Requests, LoadRefreshUser(r) PROVE Presents'
  BY <1>7 DEF LoadRefreshUser
<1>8. ASSUME NEW r \in Requests, ComputeLogoutTtl(r) PROVE Presents'
  BY <1>8 DEF ComputeLogoutTtl
<1>9. ASSUME NEW r \in Requests, BlacklistToken(r) PROVE Presents'
  BY <1>9 DEF BlacklistToken
<1>10. ASSUME NEW r \in Requests, LogoutReturn(r) PROVE Presents'
  BY <1>10 DEF LogoutReturn
<1>11. ASSUME NEW r \in Requests, LogoutOthersLoad(r) PROVE Presents'
  BY <1>11 DEF LogoutOthersLoad
<1>12. ASSUME NEW r \in Requests, NEW old \in Passwords, NEW new \in Passwords,
              ChangePasswordLoad(r, old, new)
       PROVE  Presents'
  BY <1>12 DEF ChangePasswordLoad
<1>13. ASSUME NEW r \in Requests, CommitUser(r) PROVE Presents'
  BY <1>13 DEF CommitUser
<1>14. ASSUME NEW r \in Requests, LogoutOthersReload(r) PROVE Presents'
  BY <1>14 DEF LogoutOthersReload
<1>15. ASSUME NEW r \in Requests, ChangePasswordReturn(r) PROVE Presents'
  BY <1>15 DEF ChangePasswordReturn
<1>16. ASSUME NEW r \in Requests, Fail(r) PROVE Presents'
  BY <1>16 DEF Fail, Answered
<1>17. CASE ClockTick
  BY <1>17 DEF ClockTick
<1>18. CASE EditRole
  BY <1>18 DEF EditRole
<1>19. CASE RedisRestart
  BY <1>19 DEF RedisRestart
<1>20. CASE UNCHANGED vars
  BY <1>20 DEF vars
<1>21. QED
  BY <1>1, <1>2, <1>3, <1>4, <1>5, <1>6, <1>7, <1>8, <1>9, <1>10, <1>11,
     <1>12, <1>13, <1>14, <1>15, <1>16, <1>17, <1>18, <1>19, <1>20 DEF Next, Receive, Proceed

LEMMA BaseStep == Base /\ [Next]_vars => Base'
  BY TypeStep, KindsStep, LoadedStep, IssuedStep, PresentsStep DEF Base

\* Every reachable state is well typed.
THEOREM TypeCorrect == Spec => []TypeOK
<1>1. Base => TypeOK
  BY DEF Base
<1> QED
  BY <1>1, InitBase, BaseStep, PTL DEF Spec

-----------------------------------------------------------------------------

LEMMA InitBlacklistInv == Init => BlacklistInv
  BY DEF Init, BlacklistInv, KeyOutlivesToken, TtlCoversToken, RevokedIsListed,
         Revoked, TtlIsPositive

\* Only SETEX makes a key, and the TTL it carries covers the token.
LEMMA KeyStep == Base /\ BlacklistInv /\ [Next]_vars => KeyOutlivesToken'
<1> SUFFICES ASSUME Base, BlacklistInv, [Next]_vars PROVE KeyOutlivesToken'
    OBVIOUS
<1> USE DEF Base, BlacklistInv, KeyOutlivesToken, TypeOK, Goto, clock
<1>1. ASSUME NEW r \in Logins, NEW p \in Passwords, LoginUser(r, p)
       PROVE  KeyOutlivesToken'
  BY <1>1 DEF LoginUser, Arrive
<1>2. ASSUME NEW r \in Refreshes \cup Logouts, NEW q \in Requests, DecodeRefreshToken(r, q)
       PROVE  KeyOutlivesToken'
  BY <1>2 DEF DecodeRefreshToken, Arrive, Delivered
<1>3. ASSUME NEW r \in Writers \cup RoleCalls, NEW q \in Requests, DecodeAccessToken(r, q)
       PROVE  KeyOutlivesToken'
  BY <1>3 DEF DecodeAccessToken, Arrive, Delivered
<1>4. ASSUME NEW r \in Requests, IssueTokenPair(r) PROVE KeyOutlivesToken'
  BY <1>4 DEF IssueTokenPair
<1>5. ASSUME NEW r \in Requests, SaveLoginHistory(r) PROVE KeyOutlivesToken'
  BY <1>5 DEF SaveLoginHistory
<1>6. ASSUME NEW r \in Requests, CheckBlacklistedToken(r)
       PROVE  KeyOutlivesToken'
  BY <1>6 DEF CheckBlacklistedToken
<1>7. ASSUME NEW r \in Requests, LoadRefreshUser(r) PROVE KeyOutlivesToken'
  BY <1>7 DEF LoadRefreshUser
<1>8. ASSUME NEW r \in Requests, ComputeLogoutTtl(r) PROVE KeyOutlivesToken'
  BY <1>8 DEF ComputeLogoutTtl
<1>9. ASSUME NEW r \in Requests, BlacklistToken(r) PROVE KeyOutlivesToken'
  <2>1. token[r] \in Requests /\ pc[token[r]] = "done" /\ issued[token[r]] \in Pair
    BY <1>9, KindsAreDisjoint DEF BlacklistToken, Kinds, Presents
  <2>2. ttl[r] > 0 /\ issued[token[r]].refresh_exp <= second + ttl[r]
    BY <1>9 DEF BlacklistToken, TtlCoversToken
  <2>3. blacklist' = [blacklist EXCEPT ![token[r]] =
                        [sec |-> second + ttl[r], frac |-> tick]]
    BY <1>9, <2>2 DEF BlacklistToken
  <2>4. \A q \in Requests :
          pc[q] = "done" => pc'[q] = "done" /\ issued'[q] = issued[q]
    BY <1>9 DEF BlacklistToken
  <2>5. QED BY <2>1, <2>2, <2>3, <2>4
<1>10. ASSUME NEW r \in Requests, LogoutReturn(r) PROVE KeyOutlivesToken'
  BY <1>10 DEF LogoutReturn
<1>11. ASSUME NEW r \in Requests, LogoutOthersLoad(r) PROVE KeyOutlivesToken'
  BY <1>11 DEF LogoutOthersLoad
<1>12. ASSUME NEW r \in Requests, NEW old \in Passwords, NEW new \in Passwords,
              ChangePasswordLoad(r, old, new)
       PROVE  KeyOutlivesToken'
  BY <1>12 DEF ChangePasswordLoad
<1>13. ASSUME NEW r \in Requests, CommitUser(r) PROVE KeyOutlivesToken'
  BY <1>13 DEF CommitUser
<1>14. ASSUME NEW r \in Requests, LogoutOthersReload(r) PROVE KeyOutlivesToken'
  BY <1>14 DEF LogoutOthersReload
<1>15. ASSUME NEW r \in Requests, ChangePasswordReturn(r)
       PROVE  KeyOutlivesToken'
  BY <1>15 DEF ChangePasswordReturn
<1>16. ASSUME NEW r \in Requests, Fail(r) PROVE KeyOutlivesToken'
  BY <1>16 DEF Fail, Answered
<1>17. CASE ClockTick
  BY <1>17 DEF ClockTick
<1>18. CASE EditRole
  BY <1>18 DEF EditRole
<1>19. CASE RedisRestart
  BY <1>19 DEF RedisRestart
<1>20. CASE UNCHANGED vars
  BY <1>20 DEF vars
<1>21. QED
  BY <1>1, <1>2, <1>3, <1>4, <1>5, <1>6, <1>7, <1>8, <1>9, <1>10, <1>11,
     <1>12, <1>13, <1>14, <1>15, <1>16, <1>17, <1>18, <1>19, <1>20 DEF Next, Receive, Proceed

\* A TTL is computed from the token, and waiting only makes its key live longer.
LEMMA TtlStep == Base /\ BlacklistInv /\ [Next]_vars => TtlCoversToken'
<1> SUFFICES ASSUME Base, BlacklistInv, [Next]_vars PROVE TtlCoversToken'
    OBVIOUS
<1> USE KindsAreDisjoint DEF Base, BlacklistInv, TtlCoversToken, Presents, Kinds, TypeOK, Goto, clock
<1>1. ASSUME NEW r \in Logins, NEW p \in Passwords, LoginUser(r, p)
       PROVE  TtlCoversToken'
  BY <1>1 DEF LoginUser, Arrive
<1>2. ASSUME NEW r \in Refreshes \cup Logouts, NEW q \in Requests, DecodeRefreshToken(r, q)
       PROVE  TtlCoversToken'
  BY <1>2 DEF DecodeRefreshToken, Arrive, Delivered
<1>3. ASSUME NEW r \in Writers \cup RoleCalls, NEW q \in Requests, DecodeAccessToken(r, q)
       PROVE  TtlCoversToken'
  BY <1>3 DEF DecodeAccessToken, Arrive, Delivered
<1>4. ASSUME NEW r \in Requests, IssueTokenPair(r) PROVE TtlCoversToken'
  <2>1. \A q \in Requests : pc[q] = "done" => issued'[q] = issued[q]
    BY <1>4 DEF IssueTokenPair
  <2>2. \A q \in Requests : pc'[q] = "setex" => pc[q] = "setex"
    BY <1>4 DEF IssueTokenPair
  <2>3. second' = second /\ ttl' = ttl /\ token' = token
    BY <1>4 DEF IssueTokenPair
  <2>4. QED BY <2>1, <2>2, <2>3
<1>5. ASSUME NEW r \in Requests, SaveLoginHistory(r) PROVE TtlCoversToken'
  BY <1>5 DEF SaveLoginHistory
<1>6. ASSUME NEW r \in Requests, CheckBlacklistedToken(r) PROVE TtlCoversToken'
  BY <1>6 DEF CheckBlacklistedToken
<1>7. ASSUME NEW r \in Requests, LoadRefreshUser(r) PROVE TtlCoversToken'
  <2>1. issued[token[r]] \in Pair
    BY <1>7 DEF LoadRefreshUser, Presents
  <2>2. issued[token[r]].refresh_exp \in Int
    BY <2>1 DEF Pair
  <2>3. QED BY <1>7, <2>2 DEF LoadRefreshUser, RefreshTtl, TimeLeft
<1>8. ASSUME NEW r \in Requests, ComputeLogoutTtl(r) PROVE TtlCoversToken'
  <2>1. issued[token[r]] \in Pair
    BY <1>8 DEF ComputeLogoutTtl, Presents, Kinds
  <2>2. issued[token[r]].refresh_exp \in Int
    BY <2>1 DEF Pair
  <2>3. QED BY <1>8, <2>2 DEF ComputeLogoutTtl, TimeLeft
<1>9. ASSUME NEW r \in Requests, BlacklistToken(r) PROVE TtlCoversToken'
  BY <1>9 DEF BlacklistToken
<1>10. ASSUME NEW r \in Requests, LogoutReturn(r) PROVE TtlCoversToken'
  BY <1>10 DEF LogoutReturn
<1>11. ASSUME NEW r \in Requests, LogoutOthersLoad(r) PROVE TtlCoversToken'
  BY <1>11 DEF LogoutOthersLoad
<1>12. ASSUME NEW r \in Requests, NEW old \in Passwords, NEW new \in Passwords,
              ChangePasswordLoad(r, old, new)
       PROVE  TtlCoversToken'
  BY <1>12 DEF ChangePasswordLoad
<1>13. ASSUME NEW r \in Requests, CommitUser(r) PROVE TtlCoversToken'
  BY <1>13 DEF CommitUser
<1>14. ASSUME NEW r \in Requests, LogoutOthersReload(r) PROVE TtlCoversToken'
  BY <1>14 DEF LogoutOthersReload
<1>15. ASSUME NEW r \in Requests, ChangePasswordReturn(r) PROVE TtlCoversToken'
  BY <1>15 DEF ChangePasswordReturn
<1>16. ASSUME NEW r \in Requests, Fail(r) PROVE TtlCoversToken'
  BY <1>16 DEF Fail, Answered
<1>17. CASE ClockTick
  <2>1. second' >= second /\ second' \in Int
    BY <1>17 DEF ClockTick
  <2>2. ASSUME NEW r \in Requests, pc[r] = "setex"
        PROVE  issued[token[r]].refresh_exp \in Int
    BY <2>2 DEF Presents, Kinds, Pair
  <2>3. QED BY <1>17, <2>1, <2>2 DEF ClockTick
<1>18. CASE EditRole
  BY <1>18 DEF EditRole
<1>19. CASE RedisRestart
  BY <1>19 DEF RedisRestart
<1>20. CASE UNCHANGED vars
  BY <1>20 DEF vars
<1>21. QED
  BY <1>1, <1>2, <1>3, <1>4, <1>5, <1>6, <1>7, <1>8, <1>9, <1>10, <1>11,
     <1>12, <1>13, <1>14, <1>15, <1>16, <1>17, <1>18, <1>19, <1>20 DEF Next, Receive, Proceed

\* A token is listed or expired once a request has revoked it.
LEMMA RevokedStep == Base /\ BlacklistInv /\ [Next]_vars => RevokedIsListed'
<1> SUFFICES ASSUME Base, BlacklistInv, [Next]_vars PROVE RevokedIsListed'
    OBVIOUS
<1> USE KindsAreDisjoint DEF Base, BlacklistInv, RevokedIsListed, Revoked, RefreshExpired, Presents, Kinds, TypeOK, Goto, clock
<1>1. ASSUME NEW r \in Logins, NEW p \in Passwords, LoginUser(r, p)
       PROVE  RevokedIsListed'
  BY <1>1 DEF LoginUser, Arrive
<1>2. ASSUME NEW r \in Refreshes \cup Logouts, NEW q \in Requests, DecodeRefreshToken(r, q)
       PROVE  RevokedIsListed'
  BY <1>2 DEF DecodeRefreshToken, Arrive, Delivered
<1>3. ASSUME NEW r \in Writers \cup RoleCalls, NEW q \in Requests, DecodeAccessToken(r, q)
       PROVE  RevokedIsListed'
  BY <1>3 DEF DecodeAccessToken, Arrive, Delivered
<1>4. ASSUME NEW r \in Requests, IssueTokenPair(r) PROVE RevokedIsListed'
  <2>1. \A q \in Requests : pc[q] = "done" => issued'[q] = issued[q]
    BY <1>4 DEF IssueTokenPair
  <2>2. \A q \in Requests : Revoked(q)' => Revoked(q)
    BY <1>4 DEF IssueTokenPair, Writers
  <2>3. \A q \in Requests : Revoked(q) => pc[token[q]] = "done" /\ token[q] \in Requests
    OBVIOUS
  <2>4. QED BY <1>4, <2>1, <2>2, <2>3 DEF IssueTokenPair
<1>5. ASSUME NEW r \in Requests, SaveLoginHistory(r) PROVE RevokedIsListed'
  BY <1>5 DEF SaveLoginHistory
<1>6. ASSUME NEW r \in Requests, CheckBlacklistedToken(r) PROVE RevokedIsListed'
  BY <1>6 DEF CheckBlacklistedToken
<1>7. ASSUME NEW r \in Requests, LoadRefreshUser(r) PROVE RevokedIsListed'
  BY <1>7 DEF LoadRefreshUser
<1>8. ASSUME NEW r \in Requests, ComputeLogoutTtl(r) PROVE RevokedIsListed'
  <2>1. issued[token[r]] \in Pair /\ r \notin Refreshes
    BY <1>8 DEF ComputeLogoutTtl
  <2>2. issued[token[r]].refresh_exp \in Int
    BY <2>1 DEF Pair
  <2>3. QED BY <1>8, <2>1, <2>2 DEF ComputeLogoutTtl, TimeLeft
<1>9. ASSUME NEW r \in Requests, BlacklistToken(r) PROVE RevokedIsListed'
  <2>1. token[r] \in Requests
    BY <1>9 DEF BlacklistToken
  <2>2. ttl[r] > 0
    BY <1>9 DEF BlacklistToken, TtlCoversToken
  <2>3. /\ \A q \in Requests : q # token[r] => blacklist'[q] = blacklist[q]
        /\ blacklist'[token[r]] = [sec |-> second + ttl[r], frac |-> tick]
    BY <1>9, <2>1, <2>2 DEF BlacklistToken
  <2>4. [sec |-> second + ttl[r], frac |-> tick] # None
    <3>1. [sec |-> second + ttl[r], frac |-> tick] \in Instant
      BY <2>2 DEF Instant
    <3>2. QED BY <3>1, NoneIsNothing
  <2>5. \A q \in Requests : q # r /\ Revoked(q)' => Revoked(q)
    BY <1>9 DEF BlacklistToken
  <2>6. issued' = issued /\ second' = second /\ token' = token /\ lost' = lost
    BY <1>9 DEF BlacklistToken
  <2>7. QED BY <2>1, <2>3, <2>4, <2>5, <2>6
<1>10. ASSUME NEW r \in Requests, LogoutReturn(r) PROVE RevokedIsListed'
  BY <1>10 DEF LogoutReturn
<1>11. ASSUME NEW r \in Requests, LogoutOthersLoad(r) PROVE RevokedIsListed'
  BY <1>11 DEF LogoutOthersLoad
<1>12. ASSUME NEW r \in Requests, NEW old \in Passwords, NEW new \in Passwords,
              ChangePasswordLoad(r, old, new)
       PROVE  RevokedIsListed'
  BY <1>12 DEF ChangePasswordLoad
<1>13. ASSUME NEW r \in Requests, CommitUser(r) PROVE RevokedIsListed'
  BY <1>13 DEF CommitUser
<1>14. ASSUME NEW r \in Requests, LogoutOthersReload(r) PROVE RevokedIsListed'
  BY <1>14 DEF LogoutOthersReload
<1>15. ASSUME NEW r \in Requests, ChangePasswordReturn(r) PROVE RevokedIsListed'
  BY <1>15 DEF ChangePasswordReturn
<1>16. ASSUME NEW r \in Requests, Fail(r) PROVE RevokedIsListed'
  BY <1>16 DEF Fail, Answered
<1>17. CASE ClockTick
  <2>1. second' >= second /\ second' \in Int
    BY <1>17 DEF ClockTick
  <2>2. ASSUME NEW r \in Requests, Revoked(r)
        PROVE  issued[token[r]].refresh_exp \in Int
    BY <2>2 DEF Pair
  <2>3. QED BY <1>17, <2>1, <2>2 DEF ClockTick
<1>18. CASE EditRole
  BY <1>18 DEF EditRole
<1>19. CASE RedisRestart
  BY <1>19 DEF RedisRestart
<1>20. CASE UNCHANGED vars
  BY <1>20 DEF vars
<1>21. QED
  BY <1>1, <1>2, <1>3, <1>4, <1>5, <1>6, <1>7, <1>8, <1>9, <1>10, <1>11,
     <1>12, <1>13, <1>14, <1>15, <1>16, <1>17, <1>18, <1>19, <1>20 DEF Next, Receive, Proceed

\* Redis is never sent a TTL it refuses.
LEMMA PositiveStep == Base /\ BlacklistInv /\ [Next]_vars => TtlIsPositive'
<1> SUFFICES ASSUME Base, BlacklistInv, [Next]_vars PROVE TtlIsPositive'
    OBVIOUS
<1> USE DEF Base, BlacklistInv, TtlIsPositive, TtlCoversToken, TypeOK, Goto, clock
<1>1. ASSUME NEW r \in Logins, NEW p \in Passwords, LoginUser(r, p)
       PROVE  TtlIsPositive'
  BY <1>1 DEF LoginUser, Arrive
<1>2. ASSUME NEW r \in Refreshes \cup Logouts, NEW q \in Requests, DecodeRefreshToken(r, q)
       PROVE  TtlIsPositive'
  BY <1>2 DEF DecodeRefreshToken, Arrive, Delivered
<1>3. ASSUME NEW r \in Writers \cup RoleCalls, NEW q \in Requests, DecodeAccessToken(r, q)
       PROVE  TtlIsPositive'
  BY <1>3 DEF DecodeAccessToken, Arrive, Delivered
<1>4. ASSUME NEW r \in Requests, IssueTokenPair(r) PROVE TtlIsPositive'
  BY <1>4 DEF IssueTokenPair
<1>5. ASSUME NEW r \in Requests, SaveLoginHistory(r) PROVE TtlIsPositive'
  BY <1>5 DEF SaveLoginHistory
<1>6. ASSUME NEW r \in Requests, CheckBlacklistedToken(r) PROVE TtlIsPositive'
  BY <1>6 DEF CheckBlacklistedToken
<1>7. ASSUME NEW r \in Requests, LoadRefreshUser(r) PROVE TtlIsPositive'
  BY <1>7 DEF LoadRefreshUser
<1>8. ASSUME NEW r \in Requests, ComputeLogoutTtl(r) PROVE TtlIsPositive'
  BY <1>8 DEF ComputeLogoutTtl
<1>9. ASSUME NEW r \in Requests, BlacklistToken(r) PROVE TtlIsPositive'
  BY <1>9 DEF BlacklistToken
<1>10. ASSUME NEW r \in Requests, LogoutReturn(r) PROVE TtlIsPositive'
  BY <1>10 DEF LogoutReturn
<1>11. ASSUME NEW r \in Requests, LogoutOthersLoad(r) PROVE TtlIsPositive'
  BY <1>11 DEF LogoutOthersLoad
<1>12. ASSUME NEW r \in Requests, NEW old \in Passwords, NEW new \in Passwords,
              ChangePasswordLoad(r, old, new)
       PROVE  TtlIsPositive'
  BY <1>12 DEF ChangePasswordLoad
<1>13. ASSUME NEW r \in Requests, CommitUser(r) PROVE TtlIsPositive'
  BY <1>13 DEF CommitUser
<1>14. ASSUME NEW r \in Requests, LogoutOthersReload(r) PROVE TtlIsPositive'
  BY <1>14 DEF LogoutOthersReload
<1>15. ASSUME NEW r \in Requests, ChangePasswordReturn(r) PROVE TtlIsPositive'
  BY <1>15 DEF ChangePasswordReturn
<1>16. ASSUME NEW r \in Requests, Fail(r) PROVE TtlIsPositive'
  BY <1>16 DEF Fail
<1>17. CASE ClockTick
  BY <1>17 DEF ClockTick
<1>18. CASE EditRole
  BY <1>18 DEF EditRole
<1>19. CASE RedisRestart
  BY <1>19 DEF RedisRestart
<1>20. CASE UNCHANGED vars
  BY <1>20 DEF vars
<1>21. QED
  BY <1>1, <1>2, <1>3, <1>4, <1>5, <1>6, <1>7, <1>8, <1>9, <1>10, <1>11,
     <1>12, <1>13, <1>14, <1>15, <1>16, <1>17, <1>18, <1>19, <1>20 DEF Next, Receive, Proceed

LEMMA BlacklistStep == Base /\ BlacklistInv /\ [Next]_vars => BlacklistInv'
  BY KeyStep, TtlStep, RevokedStep, PositiveStep DEF BlacklistInv

LEMMA Invariance == Spec => [](Base /\ BlacklistInv)
  BY InitBase, BaseStep, InitBlacklistInv, BlacklistStep, PTL DEF Spec

LEMMA RevocationFollows == Base /\ BlacklistInv => RevocationOutlivesToken
<1> SUFFICES ASSUME Base, BlacklistInv, NEW r \in Requests, Revoked(r),
                    ~RefreshExpired(token[r]), token[r] \notin lost
             PROVE  Blacklisted(token[r])
  BY DEF RevocationOutlivesToken
<1>1. token[r] \in Requests /\ issued[token[r]] \in Pair
  BY KindsAreDisjoint DEF Base, Presents, Revoked, Requests
<1>2. blacklist[token[r]] # None
  BY DEF BlacklistInv, RevokedIsListed
<1>3. issued[token[r]].refresh_exp <= blacklist[token[r]].sec
  BY <1>1, <1>2 DEF BlacklistInv, KeyOutlivesToken
<1>4. second < issued[token[r]].refresh_exp
  BY <1>1 DEF RefreshExpired, Pair, Base, TypeOK
<1>5. blacklist[token[r]].sec \in Nat /\ issued[token[r]].refresh_exp \in Nat
  BY <1>1, <1>2 DEF Base, TypeOK, Instant, Pair
<1>6. QED BY <1>2, <1>3, <1>4, <1>5 DEF Blacklisted, Base, TypeOK

\* A revoked token is never both unexpired and unlisted (service_auth.py:103-107
\* and 146-152): what is listed is listed until the token expires or Redis
\* loses its keys.
THEOREM RevocationHolds == Spec => []RevocationOutlivesToken
  BY RevocationFollows, Invariance, PTL

\* No request fails on a TTL of zero or less, although the clock moves on
\* between the validation of a token and the computation of its TTL.
THEOREM TtlAccepted == Spec => []TtlIsPositive
  BY Invariance, PTL DEF BlacklistInv
-----------------------------------------------------------------------------

\* What one step can do to any request: an answered one does nothing more, and a request keeps what it arrived with.
LEMMA FinalStep == Base /\ [Next]_vars => OneStep
<1> SUFFICES ASSUME Base, [Next]_vars PROVE OneStep
    OBVIOUS
<1> USE KindsAreDisjoint DEF Base, OneStep, Kinds, Answered, Requests, Writers, TypeOK, Goto, clock
<1>1. ASSUME NEW r \in Logins, NEW p \in Passwords, LoginUser(r, p)
       PROVE  OneStep
  <2>1. \E step \in {"issue", "rejected"} :
           pc' = [pc EXCEPT ![r] = step]
    BY <1>1 DEF LoginUser, Arrive
  <2>2. prior' = [prior EXCEPT ![r] = {s \in Requests : pc[s] \in Answered}]
    BY <1>1 DEF LoginUser, Arrive
  <2>3. pc[r] = "idle" /\ r \notin Refreshes /\ r \in Requests
    BY <1>1 DEF LoginUser, Arrive
  <2>4. token' = token /\ issued' = issued /\ second' = second /\ lost' = lost
    BY <1>1 DEF LoginUser
  <2>5. QED BY <2>1, <2>2, <2>3, <2>4
<1>2. ASSUME NEW r \in Refreshes \cup Logouts, NEW q \in Requests, DecodeRefreshToken(r, q)
       PROVE  OneStep
  BY <1>2 DEF DecodeRefreshToken, Arrive, Delivered
<1>3. ASSUME NEW r \in Writers \cup RoleCalls, NEW q \in Requests, DecodeAccessToken(r, q)
       PROVE  OneStep
  BY <1>3 DEF DecodeAccessToken, Arrive, Delivered
<1>4. ASSUME NEW r \in Requests, IssueTokenPair(r) PROVE OneStep
  BY <1>4 DEF IssueTokenPair
<1>5. ASSUME NEW r \in Requests, SaveLoginHistory(r) PROVE OneStep
  BY <1>5 DEF SaveLoginHistory
<1>6. ASSUME NEW r \in Requests, CheckBlacklistedToken(r) PROVE OneStep
  BY <1>6 DEF CheckBlacklistedToken
<1>7. ASSUME NEW r \in Requests, LoadRefreshUser(r) PROVE OneStep
  BY <1>7 DEF LoadRefreshUser
<1>8. ASSUME NEW r \in Requests, ComputeLogoutTtl(r) PROVE OneStep
  BY <1>8 DEF ComputeLogoutTtl
<1>9. ASSUME NEW r \in Requests, BlacklistToken(r) PROVE OneStep
  BY <1>9 DEF BlacklistToken
<1>10. ASSUME NEW r \in Requests, LogoutReturn(r) PROVE OneStep
  BY <1>10 DEF LogoutReturn
<1>11. ASSUME NEW r \in Requests, LogoutOthersLoad(r) PROVE OneStep
  BY <1>11 DEF LogoutOthersLoad
<1>12. ASSUME NEW r \in Requests, NEW old \in Passwords, NEW new \in Passwords,
              ChangePasswordLoad(r, old, new)
       PROVE  OneStep
  BY <1>12 DEF ChangePasswordLoad
<1>13. ASSUME NEW r \in Requests, CommitUser(r) PROVE OneStep
  BY <1>13 DEF CommitUser
<1>14. ASSUME NEW r \in Requests, LogoutOthersReload(r) PROVE OneStep
  BY <1>14 DEF LogoutOthersReload
<1>15. ASSUME NEW r \in Requests, ChangePasswordReturn(r) PROVE OneStep
  BY <1>15 DEF ChangePasswordReturn
<1>16. ASSUME NEW r \in Requests, Fail(r) PROVE OneStep
  BY <1>16 DEF Fail
<1>17. CASE ClockTick
  BY <1>17 DEF ClockTick
<1>18. CASE EditRole
  BY <1>18 DEF EditRole
<1>19. CASE RedisRestart
  BY <1>19 DEF RedisRestart
<1>20. CASE UNCHANGED vars
  BY <1>20 DEF vars
<1>21. QED
  BY <1>1, <1>2, <1>3, <1>4, <1>5, <1>6, <1>7, <1>8, <1>9, <1>10, <1>11,
     <1>12, <1>13, <1>14, <1>15, <1>16, <1>17, <1>18, <1>19, <1>20 DEF Next, Receive, Proceed

LEMMA InitOrder == Init => OrderInv
  BY DEF Init, OrderInv, PriorIsAnswered, SpentIsStopped, FreshHasNoPrior, Requests

LEMMA OrderStep == Base /\ BlacklistInv /\ OrderInv /\ [Next]_vars => OrderInv'
<1> SUFFICES ASSUME Base, BlacklistInv, OrderInv, [Next]_vars PROVE OrderInv'
    OBVIOUS
<1>1. OneStep
  BY FinalStep
<1>2. PriorIsAnswered'
  <2> SUFFICES ASSUME NEW r \in Requests, NEW s \in prior'[r] PROVE pc'[s] \in Answered
      BY DEF PriorIsAnswered
  <2>1. CASE pc[r] = "idle"
    <3>1. s \in {x \in Requests : pc[x] \in Answered}
      BY <1>1, <2>1 DEF OneStep, OrderInv, FreshHasNoPrior
    <3>2. QED BY <1>1, <3>1 DEF OneStep
  <2>2. CASE pc[r] # "idle"
    <3>1. s \in Requests /\ pc[s] \in Answered
      BY <1>1, <2>2 DEF OneStep, OrderInv, PriorIsAnswered, Base, TypeOK
    <3>2. QED BY <1>1, <3>1 DEF OneStep
  <2>3. QED BY <2>1, <2>2
<1>3. FreshHasNoPrior'
  BY <1>1 DEF OneStep, OrderInv, FreshHasNoPrior
<1>4. SpentIsStopped'
  <2> SUFFICES ASSUME NEW r \in Refreshes, (pc[r] # "idle")', Spent(r)',
                      (~RefreshExpired(token[r]))', (token[r] \notin lost)'
               PROVE  pc'[r] \in {"check", "rejected", "failed"}
      BY DEF SpentIsStopped
  <2>1. r \in Requests
    BY DEF Requests
  <2>2. CASE pc[r] = "idle"
    BY <1>1, <2>1, <2>2 DEF OneStep
  <2>3. CASE pc[r] # "idle"
    <3>1. token'[r] = token[r] /\ prior'[r] = prior[r]
      BY <1>1, <2>1, <2>3 DEF OneStep
    <3>2. PICK s \in prior[r] \cap (Refreshes \cup Logouts) :
             pc'[s] = "done" /\ token'[s] = token[r]
      BY <3>1 DEF Spent
    <3>3. s \in Requests /\ pc[s] \in Answered
      BY <3>2, <2>1 DEF OrderInv, PriorIsAnswered, Base, TypeOK
    <3>4. pc[s] = "done" /\ token[s] = token[r]
      BY <1>1, <3>2, <3>3 DEF OneStep, Answered
    <3>5. Spent(r) /\ Revoked(s)
      BY <3>2, <3>4 DEF Spent, Revoked
    <3>6. token[r] \in Requests /\ pc[token[r]] = "done" /\ issued[token[r]] \in Pair
      BY <2>1, <2>3, KindsAreDisjoint DEF Base, Presents
    <3>7. ~RefreshExpired(token[r])
      <4>1. issued'[token'[r]] = issued[token[r]] /\ second' >= second
        BY <1>1, <3>1, <3>6 DEF OneStep
      <4>2. second \in Int /\ second' \in Int /\ issued[token[r]].refresh_exp \in Int
        BY <3>6, TypeStep DEF Base, TypeOK, Pair
      <4>3. QED BY <4>1, <4>2 DEF RefreshExpired
    <3>8. token[r] \notin lost
      BY <1>1, <3>1 DEF OneStep
    <3>9. Blacklisted(token[r])
      BY <3>8, <3>3, <3>4, <3>5, <3>7, RevocationFollows DEF RevocationOutlivesToken
    <3>10. pc[r] \in {"check", "rejected", "failed"}
      BY <2>3, <3>5, <3>7, <3>8 DEF OrderInv, SpentIsStopped
    <3>11. QED
      BY <1>1, <2>1, <2>3, <3>9, <3>10 DEF OneStep, Answered
  <2>4. QED BY <2>2, <2>3
<1>5. QED BY <1>2, <1>3, <1>4 DEF OrderInv

\* A refresh that arrives after its token was redeemed or logged out gets no pair
\* while the token is unexpired and Redis has its key, however the requests
\* interleave (service_auth.py:86-111, 121-153).
THEOREM SpentTokenStops == Spec => []SpentTokenIsUseless
<1>1. Base /\ OrderInv => SpentTokenIsUseless
  BY KindsAreDisjoint
     DEF Base, IssuedLate, OrderInv, SpentIsStopped, SpentTokenIsUseless, Requests
<1> QED
  BY <1>1, InitBase, InitBlacklistInv, InitOrder, BaseStep, BlacklistStep, OrderStep,
     PTL DEF Spec

-----------------------------------------------------------------------------
(* Versions *)

\* A request has no object before it arrives; a writer past its commit has one,
\* and the pair of a login is made from the object it loaded.
Holds ==
    /\ \A r \in Requests : pc[r] = "idle" => user[r] = None
    /\ \A w \in Writers : pc[w] \in {"committed", "issue", "done"} => user[w] # None
    /\ \A l \in Logins :
         issued[l] # None => user[l] # None /\ issued[l].tv = user[l].token_version

\* No version is ahead of the row's but the one a writer is about to commit.
VersionsAreBehind ==
    /\ \A q \in Requests : issued[q] # None => issued[q].tv <= row.token_version
    /\ \A r \in Requests :
         user[r] # None =>
            /\ r \notin Writers \/ pc[r] \in {"committed", "issue", "done"}
                 => user[r].token_version <= row.token_version
            /\ pc[r] = "commit" => user[r].token_version = row.token_version + 1

\* A writer's version is ahead of all the pairs that were answered before it.
WritersGoAhead ==
    \A w \in Writers, q \in Requests :
        q \in prior[w] /\ issued[q] # None /\ user[w] # None
            => issued[q].tv < user[w].token_version

\* A login of the current version read the current password.
LoginsKnowPassword ==
    \A l \in Logins :
        user[l] # None /\ user[l].token_version = row.token_version
            => user[l].password_hash = row.password_hash

\* With writers one at a time.
VersionInv ==
    SerialWriters => VersionsAreBehind /\ WritersGoAhead /\ LoginsKnowPassword /\ OtherSessionsEnd

\* No writer has arrived since w did but those it found answered.
LastWriter(w) == \A v \in Writers \ {w} : pc[v] = "idle" \/ v \in prior[w]

CallerInv ==
    \A w \in LogoutOthers :
        LastWriter(w) =>
            /\ pc[w] \in {"committed", "issue", "done"} => user[w].token_version = row.token_version
            /\ pc[w] = "done" => issued[w].tv = row.token_version

\* A key was set by a request that computed a TTL for that token; who has not got
\* to that has none.
KeysAreExplained ==
    /\ \A q \in Requests :
         blacklist[q] # None => \E s \in Requests : token[s] = q /\ ttl[s] > 0
    /\ \A r \in Requests : pc[r] \in {"idle", "check", "load", "ttl", "rejected"} => ttl[r] = 0

\* Until a writer has loaded the user there is one version.
OneVersion ==
    (\A w \in Writers : user[w] = None) =>
        /\ row.token_version = 1
        /\ \A r \in Requests : user[r] # None => user[r].token_version = 1
        /\ \A q \in Requests : issued[q] # None => issued[q].tv = 1

RejectionInv == KeysAreExplained /\ OneVersion /\ RejectionIsJustified

\* What one step can do to versions: a commit writes a writer's version to the row;
\* a request loads the row, a writer with the next version; a pair is made from the
\* loaded object.  Nothing else touches them.
RowEffect ==
    \/ row'.token_version = row.token_version /\ row'.password_hash = row.password_hash
    \/ /\ UNCHANGED <<user, issued>>
       /\ \E w \in Writers :
            /\ pc[w] = "commit" /\ pc'[w] = "committed"
            /\ row'.token_version = user[w].token_version

UserEffect(r) ==
    \/ user'[r] = user[r]
    \/ /\ UNCHANGED <<row, issued>>
       /\ \/ r \in Logins /\ pc[r] = "idle" /\ user'[r] = row
          \/ r \in Refreshes /\ pc[r] = "load" /\ user'[r] = row
             /\ issued[token[r]].tv = row.token_version
          \/ /\ r \in Writers /\ pc[r] = "load" /\ pc'[r] = "commit"
             /\ issued[token[r]].tv = row.token_version
             /\ user'[r] \in UserRow /\ user'[r].token_version = row.token_version + 1
          \/ /\ r \in LogoutOthers /\ pc[r] = "committed" /\ user'[r] # None
             /\ user'[r].token_version = user[r].token_version

IssueEffect(q) ==
    \/ issued'[q] = issued[q]
    \/ /\ UNCHANGED <<row, user>>
       /\ q \in Logins \cup Refreshes \cup LogoutOthers
       /\ pc[q] = "issue" /\ pc'[q] \in {"history", "done"}
       /\ issued'[q] \in Pair /\ issued'[q].tv = user[q].token_version

\* How a writer gets to its commit and past it, how any request gets to an object.
WriterEffect(w) ==
    /\ pc'[w] # "idle" => user'[w] = user[w] \/ pc[w] \in {"load", "committed"}
    /\ pc'[w] = "commit" => pc[w] \in {"commit", "load"} 
    /\ pc'[w] = "commit" /\ pc[w] = "load" => user'[w].token_version = row.token_version + 1
    /\ pc'[w] = "committed" => \/ pc[w] = "committed"
                               \/ /\ pc[w] = "commit" /\ UNCHANGED user
                                  /\ row'.token_version = user[w].token_version
    /\ pc'[w] = "issue" => pc[w] \in {"issue", "committed"}
    /\ pc'[w] = "done" => \/ pc[w] = "done"
                          \/ w \in PasswordChanges /\ pc[w] = "committed"
                          \/ /\ w \in LogoutOthers /\ pc[w] = "issue"
                             /\ issued'[w].tv = user[w].token_version

VersionEffect ==
    /\ RowEffect
    /\ \A r \in Requests : UserEffect(r) /\ IssueEffect(r)
    /\ \A w \in Writers : WriterEffect(w)
    /\ \A r \in Requests : pc'[r] = "idle" => pc[r] = "idle" /\ user'[r] = user[r]

LEMMA EffectStep == Base /\ [Next]_vars => VersionEffect
<1> SUFFICES ASSUME Base, [Next]_vars PROVE VersionEffect
    OBVIOUS
<1> USE KindsAreDisjoint
    DEF Base, Kinds, Loaded, TypeOK, Requests, Writers, Goto, clock, VersionEffect,
        RowEffect, UserEffect, IssueEffect, WriterEffect
<1>1. ASSUME NEW r \in Logins, NEW p \in Passwords, LoginUser(r, p) PROVE VersionEffect
  BY <1>1 DEF LoginUser, Arrive
<1>2. ASSUME NEW r \in Refreshes \cup Logouts, NEW q \in Requests, DecodeRefreshToken(r, q)
      PROVE  VersionEffect
  BY <1>2 DEF DecodeRefreshToken, Arrive
<1>3. ASSUME NEW r \in Writers \cup RoleCalls, NEW q \in Requests, DecodeAccessToken(r, q)
      PROVE  VersionEffect
  BY <1>3 DEF DecodeAccessToken, Arrive
<1>4. ASSUME NEW r \in Requests, IssueTokenPair(r) PROVE VersionEffect
  <2>1. /\ TokenPair(user[r].token_version) \in Pair
        /\ TokenPair(user[r].token_version).tv = user[r].token_version
    BY <1>4, TimeAssumption DEF IssueTokenPair, TokenPair, Pair, UserRow
  <2> QED
    BY <1>4, <2>1 DEF IssueTokenPair
<1>5. ASSUME NEW r \in Requests,
             SaveLoginHistory(r) \/ CheckBlacklistedToken(r) \/ ComputeLogoutTtl(r)
      PROVE  VersionEffect
  BY <1>5 DEF SaveLoginHistory, CheckBlacklistedToken, ComputeLogoutTtl
<1>6. ASSUME NEW r \in Requests,
             BlacklistToken(r) \/ LogoutReturn(r) \/ ChangePasswordReturn(r) \/ Fail(r)
      PROVE  VersionEffect
  BY <1>6 DEF BlacklistToken, LogoutReturn, ChangePasswordReturn, Fail, Answered
<1>7. ASSUME NEW r \in Requests, LoadRefreshUser(r) PROVE VersionEffect
  BY <1>7 DEF LoadRefreshUser
<1>8. ASSUME NEW r \in Requests, LogoutOthersLoad(r) PROVE VersionEffect
  <2>1. NextVersion(row) \in UserRow /\ NextVersion(row).token_version = row.token_version + 1
    BY DEF NextVersion, UserRow
  <2> QED
    BY <1>8, <2>1 DEF LogoutOthersLoad
<1>9. ASSUME NEW r \in Requests, NEW old \in Passwords, NEW new \in Passwords,
             ChangePasswordLoad(r, old, new)
      PROVE  VersionEffect
  <2> DEFINE changed == [NextVersion(row) EXCEPT !.password_hash = new]
  <2>1. changed \in UserRow /\ changed.token_version = row.token_version + 1
    <3>1. NextVersion(row) \in UserRow /\ NextVersion(row).token_version = row.token_version + 1
      BY DEF NextVersion, UserRow
    <3>2. changed.token_version = NextVersion(row).token_version
      BY <3>1 DEF UserRow
    <3> QED
      BY <3>1, <3>2, BothColumns
  <2> HIDE DEF changed
  <2>2. \/ pc' = [pc EXCEPT ![r] = "rejected"] /\ user' = user
        \/ /\ issued[token[r]].tv = row.token_version
           /\ user' = [user EXCEPT ![r] = changed] /\ pc' = [pc EXCEPT ![r] = "commit"]
    BY <1>9 DEF ChangePasswordLoad, changed
  <2>3. /\ r \in PasswordChanges /\ pc[r] = "load"
        /\ UNCHANGED <<row, issued, token>>
    BY <1>9 DEF ChangePasswordLoad
  <2> QED
    BY <2>1, <2>2, <2>3
<1>10. ASSUME NEW r \in Requests, CommitUser(r) PROVE VersionEffect
  BY <1>10 DEF CommitUser, UserRow
<1>11. ASSUME NEW r \in Requests, LogoutOthersReload(r) PROVE VersionEffect
  <2>1. user[r] \in UserRow
    BY <1>11 DEF LogoutOthersReload
  <2>2. /\ [user[r] EXCEPT !.role = row.role] \in UserRow
        /\ [user[r] EXCEPT !.role = row.role].token_version = user[r].token_version
    BY <2>1 DEF UserRow
  <2> QED
    BY <1>11, <2>2, NoneIsNothing DEF LogoutOthersReload
<1>12. CASE ClockTick \/ RedisRestart \/ UNCHANGED vars
  BY <1>12 DEF ClockTick, RedisRestart, vars
<1>13. CASE EditRole
  BY <1>13 DEF EditRole, UserRow
<1> QED
  BY <1>1, <1>2, <1>3, <1>4, <1>5, <1>6, <1>7, <1>8, <1>9, <1>10, <1>11, <1>12, <1>13
     DEF Next, Receive, Proceed

-----------------------------------------------------------------------------
(* With writers one at a time *)

\* Once two writers have overlapped they have overlapped for good.
LEMMA SerialBefore ==
    ASSUME Base, OrderInv, [Next]_vars, SerialWriters' PROVE SerialWriters
<1>1. OneStep
  BY FinalStep
<1> SUFFICES ASSUME NEW w \in Writers, NEW v \in Writers, w # v,
                    pc[w] # "idle", pc[v] # "idle"
             PROVE  w \in prior[v] \/ v \in prior[w]
  BY DEF SerialWriters
<1>2. w \in Requests /\ v \in Requests
  BY DEF Requests
<1> QED
  BY <1>1, <1>2 DEF SerialWriters, OneStep

\* While one writer is in progress the others are not.
LEMMA OneAtATime ==
    ASSUME OrderInv, SerialWriters, NEW w \in Writers, NEW v \in Writers, w # v,
           pc[w] \notin Answered \cup {"idle"}
    PROVE  pc[v] \in Answered \cup {"idle"}
<1>1. w \in Requests /\ v \in Requests
  BY DEF Requests
<1> QED
  BY <1>1 DEF SerialWriters, OrderInv, PriorIsAnswered

\* Every step keeps what requests hold.
LEMMA HoldsStep == ASSUME Base, Holds, [Next]_vars PROVE Holds'
<1>1. VersionEffect /\ TypeOK' /\ OneStep
  BY EffectStep, TypeStep, FinalStep
<1>2. ASSUME NEW r \in Requests, pc'[r] = "idle" PROVE user'[r] = None
  BY <1>1, <1>2 DEF Holds, VersionEffect
<1>3. ASSUME NEW w \in Writers, pc'[w] \in {"committed", "issue", "done"}
      PROVE  user'[w] # None
  <2>1. w \in Requests /\ WriterEffect(w) /\ UserEffect(w)
    BY <1>1 DEF VersionEffect, Requests
  <2>2. pc[w] \in {"commit", "committed", "issue", "done"}
    BY <1>3, <2>1 DEF WriterEffect
  <2>3. user[w] # None
    BY <2>1, <2>2, NoneIsNothing DEF Holds, Base, Loaded
  <2> QED
    BY <2>1, <2>2, <2>3, NoneIsNothing DEF UserEffect
<1>4. ASSUME NEW l \in Logins, issued'[l] # None
      PROVE  user'[l] # None /\ issued'[l].tv = user'[l].token_version
  <2>1. l \in Requests /\ UserEffect(l) /\ IssueEffect(l) /\ l \notin Writers \cup Refreshes
    BY <1>1, KindsAreDisjoint DEF VersionEffect, Requests, Writers
  <2>2. CASE issued'[l] = issued[l]
    <3>1. pc[l] # "idle"
      BY <1>4, <2>1, <2>2 DEF Base, IssuedLate
    <3> QED
      BY <1>4, <2>1, <2>2, <3>1 DEF Holds, UserEffect, Writers
  <2>3. CASE issued'[l] # issued[l]
    BY <2>1, <2>3, NoneIsNothing DEF IssueEffect, Base, Loaded
  <2> QED
    BY <2>2, <2>3
<1> QED
  BY <1>2, <1>3, <1>4 DEF Holds

\* The row's version never goes back, and only a writer's commit moves it, by one.
LEMMA RowGoesOn ==
    ASSUME Base, VersionsAreBehind, [Next]_vars
    PROVE  /\ row.token_version \in Nat /\ row'.token_version \in Nat
           /\ \/ row'.token_version = row.token_version /\ row'.password_hash = row.password_hash
              \/ /\ row'.token_version = row.token_version + 1 /\ UNCHANGED <<user, issued>>
                 /\ \E w \in Writers : pc[w] = "commit" /\ pc'[w] = "committed"
<1>1. RowEffect /\ TypeOK'
  BY EffectStep, TypeStep DEF VersionEffect
<1>2. row \in UserRow /\ row' \in UserRow
  BY <1>1 DEF Base, TypeOK
<1>3. ASSUME NEW w \in Writers, pc[w] = "commit"
      PROVE  user[w].token_version = row.token_version + 1
  <2>1. w \in Requests /\ user[w] # None
    BY <1>3, NoneIsNothing DEF Requests, Base, Loaded
  <2> QED
    BY <1>3, <2>1 DEF VersionsAreBehind
<1> QED
  BY <1>1, <1>2, <1>3 DEF RowEffect, UserRow

\* No version gets ahead of the row.
LEMMA BehindStep ==
    ASSUME Base, OrderInv, Holds, VersionsAreBehind, SerialWriters, SerialWriters', [Next]_vars
    PROVE  VersionsAreBehind'
<1>1. VersionEffect /\ TypeOK' /\ OrderInv
  BY EffectStep, TypeStep
<1>2. /\ row.token_version \in Nat /\ row'.token_version \in Nat
      /\ row.token_version <= row'.token_version
  BY RowGoesOn
<1>3. ASSUME NEW q \in Requests, issued'[q] # None PROVE issued'[q].tv <= row'.token_version
  <2>1. CASE issued'[q] = issued[q]
    <3>1. issued[q].tv \in Nat
      BY <1>3, <2>1 DEF Base, TypeOK, Pair
    <3> QED
      BY <1>2, <1>3, <2>1, <3>1 DEF VersionsAreBehind
  <2>2. CASE issued'[q] # issued[q]
    <3>1. /\ row' = row /\ pc[q] = "issue" /\ issued'[q].tv = user[q].token_version
      BY <1>1, <2>2 DEF VersionEffect, IssueEffect
    <3>2. user[q] # None
      BY <3>1, NoneIsNothing DEF Base, Loaded
    <3> QED
      BY <3>1, <3>2 DEF VersionsAreBehind
  <2> QED
    BY <2>1, <2>2
<1>4. ASSUME NEW r \in Requests, user'[r] # None,
             r \notin Writers \/ pc'[r] \in {"committed", "issue", "done"}
      PROVE  user'[r].token_version <= row'.token_version
  <2>0. UserEffect(r)
    BY <1>1 DEF VersionEffect
  <2>1. CASE r \notin Writers
    <3>1. CASE user'[r] = user[r]
      <4>1. user[r].token_version \in Nat /\ user[r].token_version <= row.token_version
        BY <1>4, <2>1, <3>1 DEF VersionsAreBehind, Base, TypeOK, UserRow
      <4> QED
        BY <1>2, <3>1, <4>1
    <3>2. CASE user'[r] # user[r]
      BY <1>2, <2>0, <2>1, <3>2 DEF UserEffect, Writers
    <3> QED
      BY <3>1, <3>2
  <2>2. CASE r \in Writers /\ pc'[r] \in {"committed", "issue", "done"}
    <3>1. WriterEffect(r)
      BY <1>1, <2>2 DEF VersionEffect
    <3>2. CASE pc[r] = "commit"
      BY <1>2, <2>2, <3>1, <3>2 DEF WriterEffect
    <3>3. CASE pc[r] # "commit"
      <4>1. pc[r] \in {"committed", "issue", "done"}
        BY <2>2, <3>1, <3>3 DEF WriterEffect
      <4>2. user[r] # None /\ user'[r].token_version = user[r].token_version
        BY <2>0, <2>2, <4>1, KindsAreDisjoint DEF Holds, UserEffect, Writers
      <4>3. user[r].token_version \in Nat /\ user[r].token_version <= row.token_version
        BY <2>2, <4>1, <4>2 DEF VersionsAreBehind, Base, TypeOK, UserRow
      <4> QED
        BY <1>2, <4>2, <4>3
    <3> QED
      BY <3>2, <3>3
  <2> QED
    BY <1>4, <2>1, <2>2
<1>5. ASSUME NEW r \in Requests, user'[r] # None, pc'[r] = "commit"
      PROVE  user'[r].token_version = row'.token_version + 1
  <2>1. r \in Writers
    BY <1>5, KindsStep DEF Base, Kinds
  <2>2. WriterEffect(r) /\ pc[r] \in {"commit", "load"}
    BY <1>1, <1>5, <2>1 DEF VersionEffect, WriterEffect
  <2>3. row'.token_version = row.token_version
    <3>1. ASSUME NEW w \in Writers, pc[w] = "commit", pc'[w] = "committed" PROVE FALSE
      <4>1. w # r
        BY <1>5, <3>1
      <4>2. pc[r] \in Answered \cup {"idle"}
        BY <2>1, <3>1, <4>1, OneAtATime DEF Answered
      <4> QED
        BY <2>2, <4>2 DEF Answered
    <3> QED
      BY <3>1, RowGoesOn
  <2>4. CASE pc[r] = "load"
    BY <1>5, <2>2, <2>3, <2>4 DEF WriterEffect
  <2>5. CASE pc[r] = "commit"
    <3>1. user'[r] = user[r]
      BY <1>5, <2>2, <2>5 DEF WriterEffect
    <3> QED
      BY <1>5, <2>3, <2>5, <3>1 DEF VersionsAreBehind
  <2> QED
    BY <2>2, <2>4, <2>5
<1> QED
  BY <1>3, <1>4, <1>5 DEF VersionsAreBehind

\* A writer's next version is ahead of all the pairs that were answered before.
LEMMA AheadStep ==
    ASSUME Base, OrderInv, Holds, VersionsAreBehind, WritersGoAhead, [Next]_vars
    PROVE  WritersGoAhead'
<1>1. VersionEffect /\ OneStep /\ TypeOK'
  BY EffectStep, FinalStep, TypeStep
<1> SUFFICES ASSUME NEW w \in Writers, NEW q \in Requests,
                    q \in prior'[w], issued'[q] # None, user'[w] # None
             PROVE  issued'[q].tv < user'[w].token_version
  BY DEF WritersGoAhead
<1>2. w \in Requests /\ UserEffect(w) /\ IssueEffect(q) /\ w \notin Logins \cup Refreshes
  BY <1>1, KindsAreDisjoint DEF VersionEffect, Requests
<1>3. pc[w] # "idle"
  BY <1>2 DEF UserEffect, Holds
<1>4. q \in prior[w] /\ issued'[q] = issued[q]
  BY <1>1, <1>2, <1>3 DEF OneStep, OrderInv, PriorIsAnswered, IssueEffect, Answered
<1>5. issued[q].tv \in Nat /\ row.token_version \in Nat /\ issued[q].tv <= row.token_version
  BY <1>4 DEF Base, TypeOK, Pair, UserRow, VersionsAreBehind
<1>6. CASE user'[w] = user[w]
  BY <1>4, <1>6 DEF WritersGoAhead
<1>7. CASE user'[w].token_version = row.token_version + 1
  BY <1>4, <1>5, <1>7
<1>8. CASE pc[w] = "committed" /\ user'[w].token_version = user[w].token_version
  BY <1>4, <1>8 DEF WritersGoAhead, Holds
<1> QED
  BY <1>2, <1>6, <1>7, <1>8 DEF UserEffect

\* A login holds the password of its version.
LEMMA PasswordStep ==
    ASSUME Base, VersionsAreBehind, LoginsKnowPassword, [Next]_vars
    PROVE  LoginsKnowPassword'
<1>1. VersionEffect
  BY EffectStep
<1> SUFFICES ASSUME NEW l \in Logins, user'[l] # None,
                    user'[l].token_version = row'.token_version
             PROVE  user'[l].password_hash = row'.password_hash
  BY DEF LoginsKnowPassword
<1>2. l \in Requests /\ l \notin Writers \cup Refreshes /\ UserEffect(l)
  BY <1>1, KindsAreDisjoint DEF VersionEffect, Requests
<1>3. CASE row'.token_version = row.token_version + 1 /\ user' = user
  <2>1. /\ user[l].token_version <= row.token_version
        /\ user[l].token_version \in Nat /\ row.token_version \in Nat
    BY <1>2, <1>3 DEF VersionsAreBehind, Base, TypeOK, UserRow
  <2> QED
    BY <1>3, <2>1
<1>4. CASE row'.token_version = row.token_version /\ row'.password_hash = row.password_hash
  BY <1>2, <1>4 DEF UserEffect, LoginsKnowPassword, Writers
<1> QED
  BY <1>3, <1>4, RowGoesOn

\* A session that a writer ended does not get past its load of the row.
LEMMA EndStep ==
    ASSUME Base, OrderInv, Holds, VersionsAreBehind, WritersGoAhead, SerialWriters,
           OtherSessionsEnd, [Next]_vars
    PROVE  OtherSessionsEnd'
<1>1. VersionEffect /\ OneStep
  BY EffectStep, FinalStep
<1> SUFFICES ASSUME NEW w \in Writers, NEW r \in Refreshes \cup Writers,
                    pc'[w] = "done", w \in prior'[r], token'[r] \in prior'[w]
             PROVE  user'[r] = None /\ issued'[r] = None
  BY DEF OtherSessionsEnd
<1>2. /\ w \in Requests /\ r \in Requests /\ r \notin Logins
      /\ UserEffect(r) /\ IssueEffect(r)
  BY <1>1, KindsAreDisjoint DEF VersionEffect, Requests
<1>3. CASE pc[r] = "idle"
  BY <1>2, <1>3 DEF UserEffect, IssueEffect, Holds, Base, IssuedLate
<1>4. CASE pc[r] # "idle"
  <2>1. w \in prior[r] /\ token'[r] = token[r]
    BY <1>1, <1>2, <1>4 DEF OneStep
  <2>2. pc[w] = "done" /\ token[r] \in prior[w]
    BY <1>1, <1>2, <2>1 DEF OneStep, OrderInv, PriorIsAnswered, Answered
  <2>3. user[r] = None /\ issued[r] = None
    BY <2>1, <2>2 DEF OtherSessionsEnd
  <2>4. token[r] \in Requests /\ issued[token[r]] \in Pair
    BY <1>2, <1>4 DEF Base, Presents
  <2>5. issued[token[r]] # None /\ user[w] # None
    BY <2>2, <2>4, NoneIsNothing DEF Holds
  <2>6. /\ issued[token[r]].tv < user[w].token_version
        /\ user[w].token_version <= row.token_version
    BY <1>2, <2>2, <2>4, <2>5 DEF WritersGoAhead, VersionsAreBehind
  <2>7. /\ issued[token[r]].tv \in Nat /\ user[w].token_version \in Nat
        /\ row.token_version \in Nat
    BY <1>2, <2>4, <2>5 DEF Pair, UserRow, Base, TypeOK
  <2>8. issued[token[r]].tv # row.token_version
    BY <2>6, <2>7
  <2>9. user'[r] = None
    BY <1>2, <2>3, <2>8, KindsAreDisjoint DEF UserEffect, Holds, Writers
  <2>10. issued'[r] = None
    BY <1>2, <2>3, NoneIsNothing DEF IssueEffect, Base, Loaded
  <2> QED
    BY <2>9, <2>10
<1> QED
  BY <1>3, <1>4

LEMMA VersionInit == Init => Holds /\ VersionInv
<1> SUFFICES ASSUME Init PROVE Holds /\ VersionInv
  OBVIOUS
<1> USE DEF Init
<1>1. Holds
  BY DEF Holds, Requests
<1>2. VersionsAreBehind /\ WritersGoAhead /\ LoginsKnowPassword
  BY DEF VersionsAreBehind, WritersGoAhead, LoginsKnowPassword, Requests
<1>3. OtherSessionsEnd
  BY DEF OtherSessionsEnd, Requests
<1> QED
  BY <1>1, <1>2, <1>3 DEF VersionInv

LEMMA VersionStep ==
    Base /\ OrderInv /\ Holds /\ VersionInv /\ [Next]_vars => Holds' /\ VersionInv'
<1> SUFFICES ASSUME Base, OrderInv, Holds, VersionInv, [Next]_vars PROVE Holds' /\ VersionInv'
  OBVIOUS
<1>1. SerialWriters' => SerialWriters
  BY SerialBefore
<1> QED
  BY <1>1, HoldsStep, BehindStep, AheadStep, PasswordStep, EndStep DEF VersionInv

LEMMA VersionInvariance == Spec => [](Base /\ OrderInv /\ Holds /\ VersionInv)
  BY InitBase, InitBlacklistInv, InitOrder, VersionInit, BaseStep, BlacklistStep, OrderStep,
     VersionStep, PTL DEF Spec

\* Once logout_others or change_password is answered, no session answered before it
\* arrived refreshes, writes or gets a new pair again, for any number of writers
\* that do not overlap (service_auth.py:155-164, service_user.py:79-91).
THEOREM OtherSessionsEndHolds == Spec => []OtherSessionsEnd
<1>1. Holds /\ VersionInv => OtherSessionsEnd
  BY DEF VersionInv, OtherSessionsEnd
<1> QED
  BY <1>1, VersionInvariance, PTL

\* A live session of a login was opened with the password the account has now.
THEOREM LiveSessionKnowsPasswordHolds == Spec => []LiveSessionKnowsPassword
<1>1. Holds /\ VersionInv => LiveSessionKnowsPassword
  BY DEF VersionInv, LiveSessionKnowsPassword, Holds, LoginsKnowPassword
<1> QED
  BY <1>1, VersionInvariance, PTL

\* The version of a dead session never becomes the row's again.
THEOREM DeadSessionStaysDeadHolds == Spec => DeadSessionStaysDead
<1>1. ASSUME Base, OrderInv, VersionInv, [Next]_vars, SerialWriters'
      PROVE  \A q \in Requests :
                issued[q] # None /\ issued[q].tv # row.token_version
                    => issued[q].tv # row'.token_version
  <2> SUFFICES ASSUME NEW q \in Requests, issued[q] # None,
                      issued[q].tv # row.token_version
               PROVE  issued[q].tv # row'.token_version
    OBVIOUS
  <2>1. VersionsAreBehind
    BY <1>1, SerialBefore DEF VersionInv
  <2>2. /\ row.token_version \in Nat /\ row'.token_version \in Nat
        /\ row.token_version <= row'.token_version
    BY <1>1, <2>1, RowGoesOn
  <2>3. issued[q].tv \in Nat /\ issued[q].tv <= row.token_version
    BY <1>1, <2>1 DEF VersionsAreBehind, Base, TypeOK, Pair
  <2> QED
    BY <2>2, <2>3
<1> QED
  BY <1>1, VersionInvariance, PTL DEF Spec, DeadSessionStaysDead

-----------------------------------------------------------------------------
(* The caller of logout_others *)

\* As long as no other writer arrives, the caller's version and then its pair are
\* the row's.
LEMMA CallerStep == Base /\ OrderInv /\ Holds /\ CallerInv /\ [Next]_vars => CallerInv'
<1> SUFFICES ASSUME Base, OrderInv, Holds, CallerInv, [Next]_vars,
                    NEW w \in LogoutOthers, LastWriter(w)'
             PROVE  /\ pc'[w] \in {"committed", "issue", "done"} =>
                         user'[w].token_version = row'.token_version
                    /\ pc'[w] = "done" => issued'[w].tv = row'.token_version
  BY DEF CallerInv
<1>1. VersionEffect /\ OneStep /\ w \in Writers /\ w \in Requests
  BY EffectStep, FinalStep DEF Writers, Requests
<1> SUFFICES ASSUME pc'[w] \in {"committed", "issue", "done"}
             PROVE  /\ user'[w].token_version = row'.token_version
                    /\ pc'[w] = "done" => issued'[w].tv = row'.token_version
  OBVIOUS
<1>2. WriterEffect(w) /\ UserEffect(w) /\ IssueEffect(w) /\ RowEffect
  BY <1>1 DEF VersionEffect
<1>3. pc[w] \in {"commit", "committed", "issue", "done"}
  BY <1>2 DEF WriterEffect
<1>4. CASE pc[w] = "commit"
  BY <1>2, <1>4 DEF WriterEffect
<1>5. CASE pc[w] # "commit"
  <2>1. LastWriter(w)
    <3>1. ASSUME NEW v \in Writers \ {w}, pc[v] # "idle" PROVE v \in prior[w]
      BY <1>1, <1>3, <3>1 DEF OneStep, LastWriter, Requests
    <3> QED
      BY <3>1 DEF LastWriter
  <2>2. user[w].token_version = row.token_version /\ user[w] # None
    BY <1>1, <1>3, <1>5, <2>1 DEF CallerInv, Holds
  <2>3. row'.token_version = row.token_version
    <3>1. ASSUME NEW v \in Writers, pc[v] = "commit" PROVE FALSE
      <4>1. v # w
        BY <1>5, <3>1
      <4>2. v \in prior[w]
        BY <2>1, <3>1, <4>1 DEF LastWriter
      <4> QED
        BY <1>1, <3>1, <4>2 DEF OrderInv, PriorIsAnswered, Answered
    <3> QED
      BY <1>2, <3>1 DEF RowEffect
  <2>4. user'[w].token_version = user[w].token_version
    BY <1>1, <1>2, <1>3, <1>5, KindsAreDisjoint DEF UserEffect, Writers
  <2>5. ASSUME pc'[w] = "done" PROVE issued'[w].tv = row'.token_version
    <3>1. CASE pc[w] = "done"
      BY <1>2, <2>1, <2>3, <3>1 DEF IssueEffect, CallerInv
    <3>2. CASE pc[w] # "done"
      BY <1>2, <2>2, <2>3, <2>5, <3>2, KindsAreDisjoint DEF WriterEffect
    <3> QED
      BY <3>1, <3>2
  <2> QED
    BY <2>2, <2>3, <2>4, <2>5
<1> QED
  BY <1>4, <1>5

\* The caller of logout_others keeps the session it was given until another writer
\* arrives (service_auth.py:155-164).
THEOREM CallerKeepsItsSessionHolds == Spec => []CallerKeepsItsSession
<1>1. Init => CallerInv
  BY DEF Init, CallerInv, Requests, Writers
<1>2. CallerInv => CallerKeepsItsSession
  BY DEF CallerInv, CallerKeepsItsSession, LastWriter
<1> QED
  BY <1>1, <1>2, CallerStep, VersionInvariance, PTL DEF Spec

-----------------------------------------------------------------------------
(* Rejections *)

BeforeTtl == {"idle", "check", "load", "ttl", "rejected"}

\* What one step can do to keys, to TTLs and to a refresh that it rejects.
RejectEffect ==
    /\ \A q \in Requests :
         blacklist'[q] # None /\ blacklist[q] = None =>
            \E s \in Requests : pc[s] = "setex" /\ token[s] = q /\ ttl[s] > 0
    /\ \A r \in Requests : ttl'[r] = ttl[r] \/ (pc[r] \in {"load", "ttl"} /\ pc'[r] = "setex")
    /\ \A r \in Requests : pc'[r] \in BeforeTtl => pc[r] \in BeforeTtl
    /\ \A r \in Refreshes :
         pc'[r] = "rejected" =>
            \/ pc[r] = "rejected"
            \/ RefreshExpired(token[r])'
            \/ pc[r] = "check" /\ Blacklisted(token[r])
            \/ pc[r] = "load" /\ issued[token[r]].tv # row.token_version

LEMMA RejectEffectStep == Base /\ [Next]_vars => RejectEffect
<1> SUFFICES ASSUME Base, [Next]_vars PROVE RejectEffect
    OBVIOUS
<1> USE KindsAreDisjoint
    DEF Base, Kinds, TypeOK, Requests, Writers, Goto, clock, RejectEffect, BeforeTtl
<1>1. ASSUME NEW r \in Logins, NEW p \in Passwords, LoginUser(r, p) PROVE RejectEffect
  BY <1>1 DEF LoginUser, Arrive
<1>2. ASSUME NEW r \in Refreshes \cup Logouts, NEW q \in Requests, DecodeRefreshToken(r, q)
      PROVE  RejectEffect
  BY <1>2 DEF DecodeRefreshToken, Arrive, RefreshExpired
<1>3. ASSUME NEW r \in Writers \cup RoleCalls, NEW q \in Requests, DecodeAccessToken(r, q)
      PROVE  RejectEffect
  BY <1>3 DEF DecodeAccessToken, Arrive
<1>4. ASSUME NEW r \in Requests, IssueTokenPair(r) PROVE RejectEffect
  BY <1>4 DEF IssueTokenPair
<1>5. ASSUME NEW r \in Requests,
             SaveLoginHistory(r) \/ LogoutReturn(r) \/ ChangePasswordReturn(r) \/ Fail(r)
      PROVE  RejectEffect
  BY <1>5 DEF SaveLoginHistory, LogoutReturn, ChangePasswordReturn, Fail
<1>6. ASSUME NEW r \in Requests, CheckBlacklistedToken(r) \/ ComputeLogoutTtl(r)
      PROVE  RejectEffect
  BY <1>6 DEF CheckBlacklistedToken, ComputeLogoutTtl
<1>7. ASSUME NEW r \in Requests, BlacklistToken(r) PROVE RejectEffect
  BY <1>7 DEF BlacklistToken
<1>8. ASSUME NEW r \in Requests, LoadRefreshUser(r) PROVE RejectEffect
  BY <1>8 DEF LoadRefreshUser
<1>9. ASSUME NEW r \in Requests, NEW old \in Passwords, NEW new \in Passwords,
             ChangePasswordLoad(r, old, new)
      PROVE  RejectEffect
  BY <1>9 DEF ChangePasswordLoad
<1>10. ASSUME NEW r \in Requests, LogoutOthersLoad(r) \/ CommitUser(r) \/ LogoutOthersReload(r)
       PROVE  RejectEffect
  BY <1>10 DEF LogoutOthersLoad, CommitUser, LogoutOthersReload
<1>11. CASE ClockTick \/ EditRole \/ RedisRestart \/ UNCHANGED vars
  BY <1>11 DEF ClockTick, EditRole, RedisRestart, vars
<1> QED
  BY <1>1, <1>2, <1>3, <1>4, <1>5, <1>6, <1>7, <1>8, <1>9, <1>10, <1>11
     DEF Next, Receive, Proceed

\* A TTL once computed stays, with the token it was computed for.
LEMMA TtlStays ==
    ASSUME Base, KeysAreExplained, [Next]_vars, NEW s \in Requests, ttl[s] > 0
    PROVE  token'[s] = token[s] /\ ttl'[s] > 0
<1>1. RejectEffect /\ OneStep
  BY RejectEffectStep, FinalStep
<1>2. pc[s] \notin BeforeTtl
  BY DEF KeysAreExplained, BeforeTtl
<1> QED
  BY <1>1, <1>2 DEF RejectEffect, OneStep, BeforeTtl

LEMMA KeysStep == ASSUME Base, KeysAreExplained, [Next]_vars PROVE KeysAreExplained'
<1>1. RejectEffect
  BY RejectEffectStep
<1>2. ASSUME NEW q \in Requests, blacklist'[q] # None
      PROVE  \E s \in Requests : token'[s] = q /\ ttl'[s] > 0
  <2>1. PICK s \in Requests : token[s] = q /\ ttl[s] > 0
    BY <1>1, <1>2 DEF RejectEffect, KeysAreExplained
  <2> QED
    BY <2>1, TtlStays
<1>3. ASSUME NEW r \in Requests, pc'[r] \in BeforeTtl PROVE ttl'[r] = 0
  BY <1>1, <1>3 DEF RejectEffect, KeysAreExplained, BeforeTtl
<1> QED
  BY <1>2, <1>3 DEF KeysAreExplained, BeforeTtl

\* A user once loaded is not unloaded.
LEMMA UserStays ==
    ASSUME Base, [Next]_vars, NEW r \in Requests, user[r] # None
    PROVE  user'[r] # None
<1>1. VersionEffect /\ row \in UserRow
  BY EffectStep DEF Base, TypeOK
<1> QED
  BY <1>1, NoneIsNothing DEF VersionEffect, UserEffect

LEMMA OneVersionStep == ASSUME Base, OneVersion, [Next]_vars PROVE OneVersion'
<1>1. VersionEffect
  BY EffectStep
<1> SUFFICES ASSUME \A w \in Writers : user'[w] = None
             PROVE  /\ row'.token_version = 1
                    /\ \A r \in Requests : user'[r] # None => user'[r].token_version = 1
                    /\ \A q \in Requests : issued'[q] # None => issued'[q].tv = 1
  BY DEF OneVersion
<1>2. \A w \in Writers : user[w] = None
  BY UserStays DEF Requests
<1>3. /\ row.token_version = 1
      /\ \A r \in Requests : user[r] # None => user[r].token_version = 1
      /\ \A q \in Requests : issued[q] # None => issued[q].tv = 1
  BY <1>2 DEF OneVersion
<1>4. row'.token_version = 1
  <2>1. ASSUME NEW w \in Writers, pc[w] = "commit" PROVE FALSE
    BY <1>2, <2>1, NoneIsNothing DEF Base, Loaded, Requests
  <2> QED
    BY <1>1, <1>3, <2>1 DEF VersionEffect, RowEffect
<1>5. ASSUME NEW r \in Requests, user'[r] # None PROVE user'[r].token_version = 1
  BY <1>1, <1>3, <1>5, NoneIsNothing DEF VersionEffect, UserEffect, Writers
<1>6. ASSUME NEW q \in Requests, issued'[q] # None PROVE issued'[q].tv = 1
  <2>1. pc[q] = "issue" => user[q] # None
    BY NoneIsNothing DEF Base, Loaded
  <2> QED
    BY <1>1, <1>3, <1>6, <2>1 DEF VersionEffect, IssueEffect
<1> QED
  BY <1>4, <1>5, <1>6

LEMMA RejectionStep == Base /\ RejectionInv /\ [Next]_vars => RejectionInv'
<1> SUFFICES ASSUME Base, KeysAreExplained, OneVersion, RejectionIsJustified, [Next]_vars
             PROVE  KeysAreExplained' /\ OneVersion' /\ RejectionIsJustified'
  BY DEF RejectionInv
<1>1. RejectEffect /\ OneStep /\ KeysAreExplained' /\ OneVersion'
  BY RejectEffectStep, FinalStep, KeysStep, OneVersionStep
<1>2. ASSUME NEW r \in Refreshes, pc'[r] = "rejected"
      PROVE  \/ RefreshExpired(token[r])'
             \/ \E s \in Requests \ {r} : token'[s] = token'[r] /\ ttl'[s] > 0
             \/ \E w \in Writers : user'[w] # None
  <2>1. r \in Requests
    BY DEF Requests
  <2>2. CASE RefreshExpired(token[r])'
    BY <2>2
  <2>3. ASSUME pc[r] # "idle", NEW s \in Requests \ {r}, token[s] = token[r], ttl[s] > 0
        PROVE  \E v \in Requests \ {r} : token'[v] = token'[r] /\ ttl'[v] > 0
    BY <1>1, <2>1, <2>3, TtlStays DEF OneStep
  <2>4. ASSUME NEW w \in Writers, user[w] # None PROVE user'[w] # None
    BY <2>4, UserStays DEF Requests
  <2>5. CASE pc[r] = "rejected"
    <3>1. CASE RefreshExpired(token[r])
      <4>1. token'[r] = token[r] /\ second' >= second
        BY <1>1, <2>1, <2>5 DEF OneStep
      <4>2. token[r] \in Requests /\ pc[token[r]] = "done" /\ issued[token[r]] \in Pair
        BY <2>1, <2>5, KindsAreDisjoint DEF Base, Presents
      <4>3. issued'[token[r]] = issued[token[r]]
        BY <1>1, <4>2 DEF OneStep
      <4>4. second \in Int /\ second' \in Int /\ issued[token[r]].refresh_exp \in Int
        BY <4>2, TypeStep DEF Base, TypeOK, Pair
      <4> QED
        BY <3>1, <4>1, <4>3, <4>4 DEF RefreshExpired
    <3> QED
      BY <2>3, <2>4, <2>5, <3>1 DEF RejectionIsJustified
  <2>6. CASE pc[r] = "check" /\ Blacklisted(token[r])
    <3>1. token[r] \in Requests /\ blacklist[token[r]] # None /\ ttl[r] = 0
      BY <2>1, <2>6, KindsAreDisjoint DEF Base, Presents, Blacklisted, KeysAreExplained
    <3>2. PICK s \in Requests : token[s] = token[r] /\ ttl[s] > 0
      BY <3>1 DEF KeysAreExplained
    <3>3. s # r
      BY <3>1, <3>2
    <3> QED
      BY <2>3, <2>6, <3>2, <3>3
  <2>7. CASE pc[r] = "load" /\ issued[token[r]].tv # row.token_version
    <3>1. token[r] \in Requests /\ issued[token[r]] # None
      BY <2>1, <2>7, KindsAreDisjoint, NoneIsNothing DEF Base, Presents
    <3>2. \E w \in Writers : user[w] # None
      BY <2>7, <3>1 DEF OneVersion
    <3> QED
      BY <2>4, <3>2
  <2> QED
    BY <1>1, <1>2, <2>2, <2>5, <2>6, <2>7 DEF RejectEffect
<1> QED
  BY <1>1, <1>2 DEF RejectionIsJustified, RefreshExpired

\* Nothing a client does ends a session but a refresh or a logout of its own token
\* and a writer: a refresh is rejected for its age, for a key that another request of
\* the same token set, or because a writer loaded the row (service_auth.py:86-111).
THEOREM RejectionIsJustifiedHolds == Spec => []RejectionIsJustified
<1>1. Init => RejectionInv
  BY DEF Init, RejectionInv, KeysAreExplained, OneVersion, RejectionIsJustified, Requests, Writers
<1> QED
  BY <1>1, InitBase, BaseStep, RejectionStep, PTL DEF Spec, RejectionInv

=============================================================================
