----------------------------- MODULE WorkerProofs -----------------------------
(***************************************************************************)
(* What holds at the edge of a worker for any number of requests, any ids, *)
(* any timeouts and posts of any length: request ids never mix, and the    *)
(* heartbeat fails only when posts hold the loop between two checks.       *)
(***************************************************************************)
EXTENDS Worker, TLAPS

(* Types *)

\* Every step of a worker keeps the types of its variables.
LEMMA TypeStep == ASSUME TypeOK, [Next]_vars PROVE TypeOK'
<1> USE IdsAssumption, TimeAssumption DEF TypeOK, Steps, Ids, Record, Event, Time
<1>1. ASSUME NEW r \in Requests, Enter(r) PROVE TypeOK'
  BY <1>1 DEF Enter, Goto, SetRequestId
<1>2. ASSUME NEW r \in Requests, LogInfo(r) PROVE TypeOK'
  BY <1>2 DEF LogInfo, Goto, Log
<1>3. ASSUME NEW r \in Requests, StartThread(r) PROVE TypeOK'
  BY <1>3 DEF StartThread, Goto
<1>4. ASSUME NEW r \in Requests, RejectToken(r) PROVE TypeOK'
  BY <1>4 DEF RejectToken, Goto, Log, BeforeSend
<1>5. ASSUME NEW r \in Requests, AcceptToken(r) PROVE TypeOK'
  BY <1>5 DEF AcceptToken, Goto
<1>6. ASSUME NEW r \in Requests, Answer(r) PROVE TypeOK'
  BY <1>6 DEF Answer, Goto, Log, BeforeSend
<1>7. ASSUME NEW r \in Requests, Raise(r) PROVE TypeOK'
  BY <1>7 DEF Raise, Goto
<1>8. ASSUME NEW r \in Requests, Report(r) PROVE TypeOK'
  BY <1>8 DEF Report, Goto, Log, BeforeSend
<1>9. CASE Second \/ Check
  <2>1. silence' \in Nat /\ held' \in Nat
    BY <1>9 DEF Second, Check
  <2>2. due' \in BOOLEAN
    BY <1>9 DEF Second, Check
  <2> QED
    BY <1>9, <2>1, <2>2, Zenon DEF Second, Check
<1>10. CASE Kill
  BY <1>10 DEF Kill
<1>11. CASE UNCHANGED vars
  BY <1>11 DEF vars
<1> QED
  BY <1>1, <1>2, <1>3, <1>4, <1>5, <1>6, <1>7, <1>8, <1>9, <1>10, <1>11 DEF Next

\* The worker's variables keep their types, whatever interleaves
\* (middleware.py, logging.py, sentry.py).
THEOREM WorkerTypeCorrect == Spec => []TypeOK
<1>1. Init => TypeOK
  <2> SUFFICES ASSUME Init PROVE TypeOK
    OBVIOUS
  <2>1. silence \in Nat /\ held \in Nat
    BY DEF Init
  <2>2. due \in BOOLEAN /\ alive \in BOOLEAN
    BY DEF Init
  <2> QED
    BY <2>1, <2>2, IdsAssumption, Zenon DEF Init, TypeOK, Steps, Ids, Record, Event
<1> QED
  BY <1>1, TypeStep, PTL DEF Spec

-----------------------------------------------------------------------------
(* Request ids *)

\* Where a request stands says what its context and its thread hold; nothing is
\* logged or sent about a request that has not entered.
ContextByStep ==
    \A r \in Requests :
        /\ pc[r] \in {"running", "in_thread", "rejected"} => context[r] = id[r]
        /\ pc[r] \in {"in_thread", "rejected"} => thread[r] = id[r]
        /\ pc[r] = "raised" => context[r] = None

AboutEntered ==
    /\ \A x \in records : pc[x.about] # "idle"
    /\ \A e \in events : pc[e.about] # "idle"

EdgeSafe == ContextByStep /\ AboutEntered /\ NoForeignId

\* A step of the worker takes no request's id for another's.
LEMMA IdStep == ASSUME TypeOK, EdgeSafe, [Next]_vars PROVE EdgeSafe'
<1> USE DEF TypeOK, EdgeSafe, ContextByStep, AboutEntered, NoForeignId, Unhandled, Record, Event
<1>1. ASSUME NEW r \in Requests, Enter(r) PROVE EdgeSafe'
  BY <1>1 DEF Enter, Goto, SetRequestId
<1>2. ASSUME NEW r \in Requests, LogInfo(r) PROVE EdgeSafe'
  BY <1>2 DEF LogInfo, Goto, Log
<1>3. ASSUME NEW r \in Requests, StartThread(r) PROVE EdgeSafe'
  BY <1>3 DEF StartThread, Goto
<1>4. ASSUME NEW r \in Requests, RejectToken(r) PROVE EdgeSafe'
  BY <1>4 DEF RejectToken, Goto, Log, BeforeSend
<1>5. ASSUME NEW r \in Requests, AcceptToken(r) PROVE EdgeSafe'
  BY <1>5 DEF AcceptToken, Goto
<1>6. ASSUME NEW r \in Requests, Answer(r) PROVE EdgeSafe'
  BY <1>6 DEF Answer, Goto, Log, BeforeSend
<1>7. ASSUME NEW r \in Requests, Raise(r) PROVE EdgeSafe'
  BY <1>7 DEF Raise, Goto
<1>8. ASSUME NEW r \in Requests, Report(r) PROVE EdgeSafe'
  BY <1>8 DEF Report, Goto, Log, BeforeSend
<1>9. CASE Second \/ Check
  BY <1>9 DEF Second, Check
<1>10. CASE Kill
  BY <1>10 DEF Kill
<1>11. CASE UNCHANGED vars
  BY <1>11 DEF vars
<1> QED
  BY <1>1, <1>2, <1>3, <1>4, <1>5, <1>6, <1>7, <1>8, <1>9, <1>10, <1>11 DEF Next

\* Log records, events and answers show the id of the request they are about,
\* or none for an unhandled exception (middleware.py:21-39, logging.py:20).
THEOREM IdsHold == Spec => []NoForeignId
<1>1. Init => EdgeSafe
  BY DEF Init, EdgeSafe, ContextByStep, AboutEntered, NoForeignId
<1>2. EdgeSafe => NoForeignId
  BY DEF EdgeSafe
<1> QED
  BY <1>1, <1>2, IdStep, WorkerTypeCorrect, PTL DEF Spec

-----------------------------------------------------------------------------
(* The heartbeat *)

\* Right after a check the heartbeat is no older than NotifyEvery; since then it
\* has aged by the second that makes the next check due, and by the posts.
SilenceIsBounded ==
    /\ silence <= NotifyEvery + (IF due THEN 1 ELSE 0) + held
    /\ ~alive => silence > WorkerTimeout

\* A step of the worker keeps the bound.
LEMMA SilenceStep ==
    ASSUME TypeOK, SilenceIsBounded, [Next]_vars PROVE SilenceIsBounded'
<1> USE TimeAssumption DEF TypeOK, SilenceIsBounded, Time
<1>1. ASSUME NEW r \in Requests,
             \/ Enter(r) \/ LogInfo(r) \/ StartThread(r) \/ RejectToken(r)
             \/ AcceptToken(r) \/ Answer(r) \/ Raise(r)
      PROVE SilenceIsBounded'
  BY <1>1 DEF Enter, LogInfo, StartThread, RejectToken, AcceptToken, Answer, Raise
<1>2. ASSUME NEW r \in Requests, Report(r) PROVE SilenceIsBounded'
  <2>1. PICK seconds \in PostSeconds : silence' = silence + seconds /\ held' = held + seconds
    BY <1>2 DEF Report
  <2>2. seconds \in Nat
    BY <2>1
  <2> QED
    BY <1>2, <2>1, <2>2 DEF Report, Goto
<1>3. CASE Second
  BY <1>3 DEF Second
<1>4. CASE Check
  BY <1>4 DEF Check
<1>5. CASE Kill
  BY <1>5 DEF Kill
<1>6. CASE UNCHANGED vars
  BY <1>6 DEF vars
<1> QED
  BY <1>1, <1>2, <1>3, <1>4, <1>5, <1>6 DEF Next

\* The master kills a worker only if posts of unhandled exceptions held its loop
\* between two checks for longer than the heartbeat had left, however long posts
\* take (sentry.py:63).
THEOREM KillsAreExplained == Spec => []HeldLoopKills
<1>1. Init => SilenceIsBounded
  BY TimeAssumption DEF Init, SilenceIsBounded
<1>2. TypeOK /\ SilenceIsBounded => HeldLoopKills
  BY TimeAssumption DEF TypeOK, SilenceIsBounded, HeldLoopKills
<1> QED
  BY <1>1, <1>2, SilenceStep, WorkerTypeCorrect, PTL DEF Spec

=============================================================================
