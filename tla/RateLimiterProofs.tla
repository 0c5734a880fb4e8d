-------------------------- MODULE RateLimiterProofs --------------------------
(***************************************************************************)
(* Proofs about RateLimiter, for any limit, window, number of requests and *)
(* unit of time.  Requests counted in one window hold different ranks, and *)
(* those let through hold ranks up to Limit: hence at most Limit of them.  *)
(***************************************************************************)
EXTENDS RateLimiter, FiniteSetTheorems, TLAPS

\* What a request knows of the window that counted it.
CountedWell ==
    \A r \in Requests :
        /\ pc[r] = "idle" => window[r] = NoKey
        /\ pc[r] \in {"counted", "limited"} => window[r] # NoKey
        /\ window[r] # NoKey =>
             /\ window[r] = at[r].counted + ttl_ms[r]
             /\ at[r].counted <= now
             /\ rank[r] >= 1
             /\ expire_at # NoKey
             /\ window[r] <= expire_at
             /\ window[r] = expire_at => rank[r] <= current

\* No two requests of a window hold the same rank.
RanksDiffer ==
    \A r, s \in Requests :
        r # s /\ window[r] # NoKey /\ window[r] = window[s] => rank[r] # rank[s]

\* An admission is within the limit, unless the limiter fails open.
AdmittedWithin ==
    ~FailOpen =>
        \A r \in Requests : pc[r] = "admitted" => window[r] # NoKey /\ rank[r] <= Limit

\* A refusal carries the wait computed from the time left at the count.
LimitedWell ==
    \A r \in Requests :
        pc[r] = "limited" =>
            retry[r] = RetryAfter(ttl_ms[r]) /\ at[r].counted <= at[r].answered

Inv == TypeOK /\ CountedWell /\ RanksDiffer /\ AdmittedWithin /\ LimitedWell

-----------------------------------------------------------------------------

LEMMA WindowPositive == WindowMs \in Nat \ {0}
  BY WindowAssumption DEF WindowMs

LEMMA RetryIsNat ==
    ASSUME NEW ms \in Nat
    PROVE  RetryAfter(ms) \in Nat /\ RetryAfter(ms) * MsPerSecond >= ms
<1>1. CASE ms > 0
  <2> DEFINE q == CeilSeconds(ms)
  <2>1. q \in Nat /\ q * MsPerSecond >= ms
    BY WindowAssumption, SMTT(30) DEF CeilSeconds
  <2>2. RetryAfter(ms) = IF q > 1 THEN q ELSE 1
    BY <1>1 DEF RetryAfter
  <2>3. CASE q > 1
    BY <2>1, <2>2, <2>3
  <2>4. CASE ~(q > 1)
    <3>1. RetryAfter(ms) = 1 /\ q \in {0, 1}
      BY <2>1, <2>2, <2>4
    <3>2. q * MsPerSecond <= MsPerSecond
      BY <3>1, WindowAssumption
    <3>3. QED BY <2>1, <3>1, <3>2, WindowAssumption
  <2>5. QED BY <2>3, <2>4
<1>2. CASE ms = 0
  BY <1>2, WindowAssumption DEF RetryAfter
<1>3. QED BY <1>1, <1>2

LEMMA InitInv == Init => Inv
  BY NoKeyAssumption, ClockAssumption
     DEF Init, Inv, TypeOK, States, CountedWell, RanksDiffer, AdmittedWithin, LimitedWell

\* What counting a hit does to the key: the window is the same and the count one
\* more, or the window ends later than any before it and the count is one.
LEMMA HitStep ==
    ASSUME Inv, CountHit
    PROVE  /\ current' \in Nat /\ current' >= 1
           /\ expire_at' \in Nat
           /\ expire_at' # NoKey
           /\ now <= expire_at'
           /\ \/ expire_at' = expire_at /\ current' = current + 1
              \/ /\ current' = 1
                 /\ \A r \in Requests : window[r] # NoKey => window[r] < expire_at'
<1> USE DEF Inv, TypeOK
<1>1. CASE KeyExists /\ current' = current + 1 /\ UNCHANGED expire_at
  BY <1>1 DEF KeyExists
<1>2. CASE ~KeyExists /\ current' = 1 /\ expire_at' = now + WindowMs
  <2>1. expire_at' \in Nat /\ now < expire_at'
    BY <1>2, WindowPositive
  <2>2. ASSUME NEW r \in Requests, window[r] # NoKey PROVE window[r] < expire_at'
    <3>1. window[r] \in Nat /\ expire_at \in Nat /\ window[r] <= expire_at
      BY <2>2 DEF CountedWell
    <3>2. expire_at < now
      BY <1>2, <3>1, NoKeyAssumption DEF KeyExists
    <3>3. QED BY <2>1, <3>1, <3>2
  <2>3. QED BY <1>2, <2>1, <2>2, NoKeyAssumption
<1>3. QED BY <1>1, <1>2 DEF CountHit

LEMMA EvalStep ==
    ASSUME Inv, NEW r \in Requests, Eval(r)
    PROVE  Inv'
<1> USE DEF Inv, TypeOK, Eval
<1>1. /\ current' \in Nat /\ current' >= 1
      /\ expire_at' \in Nat /\ expire_at' # NoKey /\ now <= expire_at'
      /\ \/ expire_at' = expire_at /\ current' = current + 1
         \/ current' = 1 /\ \A q \in Requests : window[q] # NoKey => window[q] < expire_at'
  BY HitStep
<1>2. /\ pc[r] = "idle" /\ pc'[r] = "counted"
      /\ rank'[r] = current' /\ window'[r] = expire_at'
      /\ ttl_ms'[r] = expire_at' - now /\ at'[r].counted = now
      /\ window[r] = NoKey /\ now' = now
  BY DEF CountedWell
<1>3. \A q \in Requests : q # r =>
        /\ pc'[q] = pc[q] /\ rank'[q] = rank[q] /\ window'[q] = window[q]
        /\ ttl_ms'[q] = ttl_ms[q] /\ at'[q] = at[q] /\ retry'[q] = retry[q]
  OBVIOUS
<1>4. TypeOK'
  BY <1>1 DEF States
<1>5. CountedWell'
  <2> SUFFICES ASSUME NEW q \in Requests
               PROVE  /\ (pc[q] = "idle" => window[q] = NoKey)'
                      /\ (pc[q] \in {"counted", "limited"} => window[q] # NoKey)'
                      /\ (window[q] # NoKey =>
                            /\ window[q] = at[q].counted + ttl_ms[q]
                            /\ at[q].counted <= now
                            /\ rank[q] >= 1
                            /\ expire_at # NoKey
                            /\ window[q] <= expire_at
                            /\ window[q] = expire_at => rank[q] <= current)'
    BY DEF CountedWell
  <2>1. CASE q = r
    BY <1>1, <1>2, <2>1
  <2>2. CASE q # r
    <3>1. window[q] # NoKey => window[q] \in Nat /\ expire_at \in Nat
      BY DEF CountedWell
    <3>2. QED BY <1>1, <1>2, <1>3, <2>2, <3>1 DEF CountedWell
  <2>3. QED BY <2>1, <2>2
<1>6. RanksDiffer'
  <2>1. ASSUME NEW q \in Requests, q # r, window[q] # NoKey, window[q] = expire_at'
        PROVE  rank[q] # current'
    <3>1. window[q] \in Nat /\ expire_at' = expire_at /\ current' = current + 1
      BY <1>1, <2>1
    <3>2. rank[q] <= current
      BY <2>1, <3>1 DEF CountedWell
    <3>3. QED BY <3>1, <3>2
  <2>2. QED BY <1>2, <1>3, <2>1 DEF RanksDiffer
<1>7. AdmittedWithin' /\ LimitedWell'
  BY <1>2, <1>3 DEF AdmittedWithin, LimitedWell
<1>8. QED BY <1>4, <1>5, <1>6, <1>7

LEMMA InvStep == Inv /\ [Next]_vars => Inv'
<1> SUFFICES ASSUME Inv, [Next]_vars PROVE Inv'
    OBVIOUS
<1> USE DEF Inv
<1>1. ASSUME NEW r \in Requests, Eval(r) PROVE Inv'
  BY <1>1, EvalStep
<1>2. ASSUME NEW r \in Requests, Decide(r) PROVE Inv'
  <2> USE <1>2 DEF Decide, TypeOK
  <2>1. RetryAfter(ttl_ms[r]) \in Nat
    BY RetryIsNat
  <2>2. TypeOK'
    <3>1. at' \in [Requests -> [counted : Nat, answered : Nat]]
      BY ClockAssumption
    <3>2. pc' \in [Requests -> States]
      BY DEF States
    <3>3. retry' \in [Requests -> Nat]
      BY <2>1
    <3>4. QED BY <3>1, <3>2, <3>3
  <2>3. CountedWell' /\ RanksDiffer'
    BY DEF CountedWell, RanksDiffer
  <2>4. AdmittedWithin'
    BY DEF AdmittedWithin, CountedWell, Allowed
  <2>5. LimitedWell'
    BY DEF LimitedWell, CountedWell
  <2>6. QED BY <2>2, <2>3, <2>4, <2>5
<1>3. ASSUME NEW r \in Requests, StorageError(r) PROVE Inv'
  <2> USE <1>3 DEF StorageError, TypeOK
  <2>1. TypeOK'
    BY DEF States
  <2>2. CountedWell' /\ RanksDiffer'
    BY DEF CountedWell, RanksDiffer
  <2>3. AdmittedWithin' /\ LimitedWell'
    BY DEF AdmittedWithin, LimitedWell
  <2>4. QED BY <2>1, <2>2, <2>3
<1>4. CASE Tick
  BY <1>4, ClockAssumption
     DEF Tick, TypeOK, CountedWell, RanksDiffer, AdmittedWithin, LimitedWell
<1>5. CASE UNCHANGED vars
  BY <1>5 DEF vars, TypeOK, CountedWell, RanksDiffer, AdmittedWithin, LimitedWell
<1>6. QED
  BY <1>1, <1>2, <1>3, <1>4, <1>5 DEF Next

LEMMA Invariance == Spec => []Inv
  BY InitInv, InvStep, PTL DEF Spec

\* Every reachable state is well typed.
THEOREM LimiterTypeCorrect == Spec => []TypeOK
  BY Invariance, PTL DEF Inv

\* The ranks up to Limit are enough for Limit requests of a window.
LEMMA WindowQuota ==
    ASSUME Inv, ~FailOpen, NEW r \in Requests
    PROVE  /\ IsFiniteSet(Admitted \cap Hits(window[r]))
           /\ Cardinality(Admitted \cap Hits(window[r])) \in 0..Limit
<1> DEFINE S == Admitted \cap Hits(window[r])
           f == [s \in S |-> rank[s]]
<1>1. IsFiniteSet(S) /\ Cardinality(S) \in Nat
  BY RequestsAssumption, FS_Subset, FS_CardinalityType DEF Admitted
<1>2. IsFiniteSet(1..Limit) /\ Cardinality(1..Limit) = Limit
  BY LimitAssumption, FS_Interval
<1>3. f \in [S -> 1..Limit]
  <2> SUFFICES ASSUME NEW s \in S PROVE rank[s] \in 1..Limit
    OBVIOUS
  <2>1. s \in Requests /\ pc[s] = "admitted"
    BY DEF Admitted
  <2>2. window[s] # NoKey /\ rank[s] <= Limit
    BY <2>1 DEF Inv, AdmittedWithin
  <2>3. rank[s] >= 1 /\ rank[s] \in Nat
    BY <2>1, <2>2 DEF Inv, CountedWell, TypeOK
  <2>4. QED BY <2>2, <2>3, LimitAssumption
<1>4. \A x, y \in S : x # y => f[x] # f[y]
  <2> SUFFICES ASSUME NEW x \in S, NEW y \in S, x # y PROVE rank[x] # rank[y]
    OBVIOUS
  <2>1. /\ x \in Requests /\ y \in Requests
          /\ window[x] = window[r] /\ window[y] = window[r] /\ pc[x] = "admitted"
    BY DEF Admitted, Hits
  <2>2. window[x] # NoKey
    BY <2>1 DEF Inv, AdmittedWithin
  <2>3. QED BY <2>1, <2>2 DEF Inv, RanksDiffer
<1> HIDE DEF S, f
<1>5. ~(Limit < Cardinality(S))
  BY <1>1, <1>2, <1>3, <1>4, FS_PigeonHole
<1> QED
  BY <1>1, <1>5, LimitAssumption DEF S

\* A window never lets more than Limit requests through, unless the limiter is
\* configured to fail open (rate_limiter.py:111-134).
THEOREM LimitHolds == Spec => []AtMostLimitPerWindow
<1>1. Inv => AtMostLimitPerWindow
  BY WindowQuota DEF AtMostLimitPerWindow
<1> QED
  BY <1>1, Invariance, PTL

\* Whoever waits as long as Retry-After says is counted in a later window, or at
\* the very instant at which the one that refused it ends (rate_limiter.py:131-132).
THEOREM RetryAfterSuffices == Spec => []WaitingIsEnough
<1>1. Inv => WaitingIsEnough
  <2> SUFFICES ASSUME Inv, NEW r \in Requests, NEW s \in Requests,
                      pc[r] = "limited", window[s] # NoKey,
                      at[s].counted >= at[r].answered + retry[r] * MsPerSecond,
                      window[s] = window[r]
               PROVE  AtTheEdge(r, s)
    BY DEF WaitingIsEnough
  <2>1. /\ at[s].counted \in Nat /\ at[r].counted \in Nat /\ at[r].answered \in Nat
        /\ ttl_ms[r] \in Nat /\ ttl_ms[s] \in Nat
    BY DEF Inv, TypeOK
  <2>2. /\ window[r] = at[r].counted + ttl_ms[r]
        /\ window[s] = at[s].counted + ttl_ms[s]
    BY DEF Inv, CountedWell
  <2>3. at[r].counted <= at[r].answered /\ retry[r] = RetryAfter(ttl_ms[r])
    BY DEF Inv, LimitedWell
  <2> DEFINE wait == retry[r] * MsPerSecond
  <2>4. wait >= ttl_ms[r] /\ wait \in Nat
    BY <2>1, <2>3, RetryIsNat, WindowAssumption
  <2>5. at[s].counted >= at[r].answered + wait
    OBVIOUS
  <2>6. /\ at[r].answered = at[r].counted /\ at[s].counted = at[r].answered + wait
        /\ at[s].counted = window[r] /\ ttl_ms[s] = 0
    <3> HIDE DEF wait
    <3> QED
      BY <2>1, <2>2, <2>3, <2>4, <2>5
  <2> QED
    BY <2>6 DEF AtTheEdge
<1> QED
  BY <1>1, Invariance, PTL

-----------------------------------------------------------------------------

\* The ranks of a window have no gap: every smaller one was given to a request.
Held(w, k) == \E s \in Requests : window[s] = w /\ rank[s] = k

RanksHaveNoGap ==
    /\ expire_at # NoKey => \A k \in 1..current : Held(expire_at, k)
    /\ \A r \in Requests : window[r] # NoKey => \A k \in 1..rank[r] : Held(window[r], k)

LimitedBeyond == \A r \in Requests : pc[r] = "limited" => rank[r] > Limit

FillInv == RanksHaveNoGap /\ LimitedBeyond

LEMMA EvalFills ==
    ASSUME Inv, FillInv, NEW r \in Requests, Eval(r)
    PROVE  FillInv'
<1> USE DEF Inv, TypeOK, FillInv
<1>1. /\ pc' = [pc EXCEPT ![r] = "counted"] /\ rank' = [rank EXCEPT ![r] = current']
      /\ window' = [window EXCEPT ![r] = expire_at'] /\ window[r] = NoKey /\ CountHit
  BY DEF Eval, CountedWell
<1>2. current' \in Nat /\ current' >= 1 /\ expire_at' # NoKey
  BY <1>1, HitStep
<1>3. ASSUME NEW w, w # NoKey, NEW k, Held(w, k) PROVE Held(w, k)'
  BY <1>1, <1>3 DEF Held
<1>4. Held(expire_at, current)'
  BY <1>1 DEF Held
<1>5. ASSUME NEW k \in 1..current' PROVE Held(expire_at, k)'
  <2>1. CASE k = current'
    BY <1>4, <2>1
  <2>2. CASE k # current'
    <3>1. expire_at' = expire_at /\ k \in 1..current
      BY <1>1, <1>2, <1>5, <2>2 DEF CountHit
    <3>2. Held(expire_at, k)
      BY <1>2, <3>1 DEF RanksHaveNoGap
    <3>3. QED BY <1>2, <1>3, <3>1, <3>2 DEF Held
  <2>3. QED BY <2>1, <2>2
<1>6. ASSUME NEW q \in Requests, window'[q] # NoKey, NEW k \in 1..rank'[q]
      PROVE  Held(window[q], k)'
  <2>1. CASE q = r
    BY <1>1, <1>5, <1>6, <2>1
  <2>2. CASE q # r
    <3>1. window'[q] = window[q] /\ rank'[q] = rank[q]
      BY <1>1, <2>2
    <3>2. Held(window[q], k)
      BY <1>6, <3>1 DEF RanksHaveNoGap
    <3>3. Held(window[q], k)'
      <4>1. PICK s \in Requests : window[s] = window[q] /\ rank[s] = k
        BY <3>2 DEF Held
      <4>2. s # r
        BY <1>1, <1>6, <3>1, <4>1
      <4>3. window'[s] = window'[q] /\ rank'[s] = k
        BY <1>1, <3>1, <4>1, <4>2
      <4>4. QED BY <4>3 DEF Held
    <3>4. QED BY <3>3
  <2>3. QED BY <2>1, <2>2
<1>7. RanksHaveNoGap'
  BY <1>5, <1>6 DEF RanksHaveNoGap
<1>8. LimitedBeyond'
  BY <1>1 DEF LimitedBeyond
<1>9. QED BY <1>7, <1>8

LEMMA FillStep == Inv /\ FillInv /\ [Next]_vars => FillInv'
<1> SUFFICES ASSUME Inv, FillInv, [Next]_vars PROVE FillInv'
    OBVIOUS
<1> USE LimitAssumption DEF Inv, TypeOK, FillInv, RanksHaveNoGap, Held, LimitedBeyond
<1>1. ASSUME NEW r \in Requests, Eval(r) PROVE FillInv'
  BY <1>1, EvalFills
<1>2. ASSUME NEW r \in Requests, Decide(r) PROVE FillInv'
  BY <1>2 DEF Decide, Allowed
<1>3. ASSUME NEW r \in Requests, StorageError(r) PROVE FillInv'
  BY <1>3 DEF StorageError
<1>4. CASE Tick
  BY <1>4 DEF Tick
<1>5. CASE UNCHANGED vars
  BY <1>5 DEF vars
<1>6. QED
  BY <1>1, <1>2, <1>3, <1>4, <1>5 DEF Next

\* No request is refused before Limit others of its window were counted: the
\* limiter never refuses early (rate_limiter.py:21-28, 131-145).
THEOREM QuotaHolds == Spec => []QuotaIsHonoured
<1>1. Inv /\ FillInv => QuotaIsHonoured
  <2> SUFFICES ASSUME Inv, FillInv, NEW r \in Requests, pc[r] = "limited"
               PROVE  Cardinality({s \in Hits(window[r]) : rank[s] < rank[r]}) >= Limit
    BY DEF QuotaIsHonoured
  <2> DEFINE S == {s \in Hits(window[r]) : rank[s] < rank[r]}
             f == [k \in 1..Limit |->
                     CHOOSE s \in Requests : window[s] = window[r] /\ rank[s] = k]
  <2>1. IsFiniteSet(S) /\ Cardinality(S) \in Nat
    BY RequestsAssumption, FS_Subset, FS_CardinalityType DEF Hits
  <2>2. IsFiniteSet(1..Limit) /\ Cardinality(1..Limit) = Limit
    BY LimitAssumption, FS_Interval
  <2>3. ASSUME NEW k \in 1..Limit
        PROVE  f[k] \in S /\ rank[f[k]] = k
    <3>1. k \in 1..rank[r] /\ k < rank[r] /\ window[r] # NoKey
      BY LimitAssumption DEF Inv, TypeOK, CountedWell, FillInv, LimitedBeyond
    <3>2. \E s \in Requests : window[s] = window[r] /\ rank[s] = k
      BY <3>1 DEF FillInv, RanksHaveNoGap, Held
    <3>3. f[k] \in Requests /\ window[f[k]] = window[r] /\ rank[f[k]] = k
      BY <3>2
    <3>4. QED BY <3>1, <3>3 DEF Hits
  <2>4. f \in [1..Limit -> S]
    BY <2>3
  <2>5. \A x, y \in 1..Limit : x # y => f[x] # f[y]
    BY <2>3
  <2> HIDE DEF S, f
  <2>6. ~(Cardinality(S) < Cardinality(1..Limit))
    <3> DEFINE D == 1..Limit
    <3> HIDE DEF D
    <3>1. IsFiniteSet(D) /\ IsFiniteSet(S) /\ f \in [D -> S]
      BY <2>1, <2>2, <2>4 DEF D
    <3>2. \A x, y \in D : x # y => f[x] # f[y]
      BY <2>5 DEF D
    <3>3. ~(Cardinality(S) < Cardinality(D))
      BY <3>1, <3>2, FS_PigeonHole
    <3>4. QED BY <3>3 DEF D
  <2>7. QED BY <2>1, <2>2, <2>6, LimitAssumption DEF S
<1>2. Init => FillInv
  BY DEF Init, FillInv, RanksHaveNoGap, LimitedBeyond
<1> QED
  BY <1>1, <1>2, InitInv, InvStep, FillStep, PTL DEF Spec

-----------------------------------------------------------------------------
(* Bursts *)

\* A window ends WindowMs after the hit that opened it, and that hit comes after
\* the end of every window before: requests are counted within their window, and
\* two windows are apart.
WindowsApart ==
    /\ expire_at # NoKey => expire_at <= now + WindowMs
    /\ \A r \in Requests :
         window[r] # NoKey =>
            /\ window[r] <= at[r].counted + WindowMs
            /\ window[r] # expire_at => window[r] + WindowMs < expire_at
    /\ \A r, s \in Requests :
         window[r] # NoKey /\ window[s] # NoKey /\ window[r] < window[s]
            => window[r] + WindowMs < window[s]

LEMMA EvalApart ==
    ASSUME Inv, WindowsApart, NEW r \in Requests, Eval(r)
    PROVE  WindowsApart'
<1> USE WindowPositive, NoKeyAssumption DEF Inv, TypeOK, WindowsApart
<1>1. /\ window' = [window EXCEPT ![r] = expire_at'] /\ now' = now /\ at'[r].counted = now
      /\ \A q \in Requests \ {r} : at'[q] = at[q]
  BY DEF Eval
<1>2. expire_at' \in Nat /\ expire_at' <= now + WindowMs /\ CountHit
  BY HitStep DEF Eval, CountHit
<1>3. ASSUME NEW q \in Requests, window[q] # NoKey
      PROVE  window[q] \in Nat /\ expire_at \in Nat /\ window[q] <= expire_at
  BY <1>3 DEF CountedWell
<1>4. ASSUME NEW q \in Requests, window[q] # NoKey, window[q] # expire_at'
      PROVE  window[q] + WindowMs < expire_at'
  <2>1. CASE expire_at' = expire_at
    BY <1>4, <2>1
  <2>2. CASE ~KeyExists /\ expire_at' = now + WindowMs
    <3>1. window[q] < now
      BY <1>3, <1>4, <2>2 DEF KeyExists
    <3> QED
      BY <1>3, <1>4, <2>2, <3>1
  <2> QED
    BY <1>2, <2>1, <2>2 DEF CountHit
<1>5. ASSUME NEW q \in Requests, window'[q] # NoKey
      PROVE  /\ window'[q] <= at'[q].counted + WindowMs
             /\ window'[q] # expire_at' => window'[q] + WindowMs < expire_at'
  <2>1. CASE q = r
    BY <1>1, <1>2, <2>1
  <2>2. CASE q # r
    BY <1>1, <1>4, <1>5, <2>2
  <2> QED
    BY <2>1, <2>2
<1>6. ASSUME NEW q \in Requests, NEW s \in Requests,
             window'[q] # NoKey, window'[s] # NoKey, window'[q] < window'[s]
      PROVE  window'[q] + WindowMs < window'[s]
  <2>1. CASE s = r
    BY <1>1, <1>2, <1>5, <1>6, <2>1
  <2>2. CASE s # r /\ q # r
    BY <1>1, <1>6, <2>2
  <2>3. CASE s # r /\ q = r
    <3>1. window[s] \in Nat /\ expire_at' < window[s] /\ window[s] # expire_at'
      BY <1>1, <1>2, <1>3, <1>6, <2>3
    <3> QED
      BY <1>2, <1>4, <3>1
  <2> QED
    BY <2>1, <2>2, <2>3
<1> QED
  BY <1>1, <1>2, <1>5, <1>6

LEMMA ApartStep == Inv /\ WindowsApart /\ [Next]_vars => WindowsApart'
<1> SUFFICES ASSUME Inv, WindowsApart, [Next]_vars PROVE WindowsApart'
    OBVIOUS
<1> USE WindowPositive, NoKeyAssumption DEF Inv, TypeOK, WindowsApart
<1>1. ASSUME NEW r \in Requests, Eval(r) PROVE WindowsApart'
  BY <1>1, EvalApart
<1>2. ASSUME NEW r \in Requests, Decide(r) PROVE WindowsApart'
  BY <1>2 DEF Decide
<1>3. ASSUME NEW r \in Requests, StorageError(r) PROVE WindowsApart'
  BY <1>3 DEF StorageError
<1>4. CASE Tick
  BY <1>4 DEF Tick
<1>5. CASE UNCHANGED vars
  BY <1>5 DEF vars
<1> QED
  BY <1>1, <1>2, <1>3, <1>4, <1>5 DEF Next

\* Requests that were counted within WindowMs of each other are of two windows.
LEMMA TwoWindows ==
    ASSUME Inv, WindowsApart,
           NEW x \in Requests, NEW y \in Requests, NEW z \in Requests,
           window[x] # NoKey, window[y] # NoKey, window[z] # NoKey,
           window[x] < window[y], window[y] < window[z]
    PROVE  at[z].counted > at[x].counted + WindowMs
<1> USE WindowPositive DEF Inv, TypeOK
<1>1. /\ window[x] \in Nat /\ window[y] \in Nat /\ window[z] \in Nat
      /\ at[x].counted \in Nat /\ at[z].counted \in Nat /\ ttl_ms[x] \in Nat
  OBVIOUS
<1>2. window[x] >= at[x].counted
  BY <1>1 DEF CountedWell
<1>3. window[z] <= at[z].counted + WindowMs
  BY DEF WindowsApart
<1>4. window[x] + WindowMs < window[y] /\ window[y] + WindowMs < window[z]
  BY DEF WindowsApart
<1> QED
  BY <1>1, <1>2, <1>3, <1>4

\* At most twice the limit is let through in any interval as long as a window: the
\* end of one window and the start of the next (rate_limiter.py:21-28, 111-134).
THEOREM BurstHolds == Spec => []BurstIsBounded
<1>1. Inv /\ WindowsApart => BurstIsBounded
  <2> SUFFICES ASSUME Inv, WindowsApart, ~FailOpen, NEW r \in Requests
               PROVE  Cardinality({s \in Admitted : at[s].counted - at[r].counted \in 0..WindowMs})
                         <= 2 * Limit
    BY DEF BurstIsBounded
  <2> DEFINE B == {s \in Admitted : at[s].counted - at[r].counted \in 0..WindowMs}
             Of(x) == Admitted \cap Hits(window[x])
  <2>1. ASSUME NEW x \in B
        PROVE  /\ x \in Admitted /\ x \in Requests /\ window[x] # NoKey
               /\ window[x] \in Nat /\ at[x].counted \in Nat /\ at[r].counted \in Nat
               /\ at[r].counted <= at[x].counted
               /\ at[x].counted <= at[r].counted + WindowMs
    BY WindowPositive DEF Admitted, Inv, TypeOK, AdmittedWithin
  <2>2. ASSUME NEW x \in B, NEW y \in B, NEW z \in B, window[x] < window[y], window[y] < window[z]
        PROVE  FALSE
    <3>1. at[z].counted > at[x].counted + WindowMs
      BY <2>1, <2>2, TwoWindows
    <3> QED
      BY <2>1, <3>1, WindowPositive
  <2>3. ASSUME NEW x \in B, NEW y \in B, NEW z \in B, window[x] # window[y]
        PROVE  window[z] \in {window[x], window[y]}
    <3>1. window[x] \in Nat /\ window[y] \in Nat /\ window[z] \in Nat
      BY <2>1
    <3> HIDE DEF B
    <3> QED
      BY <2>2, <2>3, <3>1
  <2>4. \E x, y \in Requests : B \subseteq Of(x) \cup Of(y)
    <3>1. CASE \E x, y \in B : window[x] # window[y]
      <4>1. PICK x \in B, y \in B : window[x] # window[y]
        BY <3>1
      <4>2. ASSUME NEW z \in B PROVE z \in Of(x) \cup Of(y)
        <5>1. window[z] = window[x] \/ window[z] = window[y]
          BY <2>3, <4>1
        <5>2. z \in Admitted /\ z \in Requests
          BY <2>1
        <5> QED
          BY <5>1, <5>2 DEF Hits
      <4>3. x \in Requests /\ y \in Requests
        BY <2>1
      <4> QED
        BY <4>2, <4>3
    <3>2. CASE \A x, y \in B : window[x] = window[y]
      <4>1. CASE B = {}
        BY <4>1
      <4>2. CASE B # {}
        <5>1. PICK x \in B : TRUE
          BY <4>2
        <5>2. x \in Requests /\ B \subseteq Of(x)
          BY <2>1, <3>2, <5>1 DEF Hits
        <5> QED
          BY <5>2
      <4> QED
        BY <4>1, <4>2
    <3> QED
      BY <3>1, <3>2
  <2>5. PICK x \in Requests, y \in Requests : B \subseteq Of(x) \cup Of(y)
    BY <2>4
  <2>6. /\ IsFiniteSet(Of(x)) /\ Cardinality(Of(x)) \in 0..Limit
        /\ IsFiniteSet(Of(y)) /\ Cardinality(Of(y)) \in 0..Limit
    BY WindowQuota
  <2> HIDE DEF B, Of
  <2>7. /\ IsFiniteSet(Of(x) \cup Of(y)) /\ IsFiniteSet(Of(x) \cap Of(y))
        /\ Cardinality(Of(x) \cup Of(y))
              = Cardinality(Of(x)) + Cardinality(Of(y)) - Cardinality(Of(x) \cap Of(y))
    BY <2>6, FS_Union, FS_Subset
  <2>8. IsFiniteSet(B) /\ Cardinality(B) <= Cardinality(Of(x) \cup Of(y))
    BY <2>5, <2>7, FS_Subset
  <2>9. /\ Cardinality(B) \in Nat /\ Cardinality(Of(x) \cap Of(y)) \in Nat
        /\ Cardinality(Of(x) \cup Of(y)) \in Nat
    BY <2>7, <2>8, FS_CardinalityType
  <2>10. Cardinality(B) <= 2 * Limit
    BY <2>6, <2>7, <2>8, <2>9, LimitAssumption
  <2> QED
    BY <2>10 DEF B
<1>2. Init => WindowsApart
  BY DEF Init, WindowsApart
<1> QED
  BY <1>1, <1>2, InitInv, InvStep, ApartStep, PTL DEF Spec

-----------------------------------------------------------------------------

\* The pool before a count is one larger than after it, or both are empty.
GrantsAt(count) == IF count < Limit THEN Limit - count ELSE 0

LEMMA PoolShrinks ==
    ASSUME NEW count \in Nat, count >= 1
    PROVE  /\ GrantsAt(count - 1) \in Nat
           /\ count <= Limit => GrantsAt(count - 1) > 0 /\ GrantsAt(count) = GrantsAt(count - 1) - 1
           /\ count > Limit => GrantsAt(count - 1) = 0 /\ GrantsAt(count) = 0
  BY LimitAssumption DEF GrantsAt

\* A count takes a grant or is refused; the pool it leaves is what the counter
\* stands for.
LEMMA EvalTakes ==
    ASSUME Inv, NEW r \in Requests, Eval(r)
    PROVE  Promise!Call(r)
<1> USE LimitAssumption DEF Inv, TypeOK
<1> DEFINE state == [q \in Requests |-> StateOf(q)]
<1>1. /\ pc[r] = "idle" /\ pc' = [pc EXCEPT ![r] = "counted"]
      /\ rank' = [rank EXCEPT ![r] = current'] /\ now' = now /\ CountHit
  BY DEF Eval
<1>2. current' \in Nat /\ current' >= 1
  BY <1>1, HitStep
<1>3. state' = [state EXCEPT ![r] = IF current' <= Limit THEN "granted" ELSE "refused"]
  BY <1>1, <1>2 DEF StateOf
<1>4. state[r] = "idle"
  BY <1>1 DEF StateOf
<1> HIDE DEF state
<1>5. Promise!Take(r, GrantsAt(current' - 1))
  <2> DEFINE grants == GrantsAt(current' - 1)
  <2>0. Left' = GrantsAt(current')
    BY DEF Left, GrantsAt
  <2>1. CASE current' <= Limit
    <3>1. grants > 0 /\ Left' = grants - 1
      BY <1>2, <2>0, <2>1, PoolShrinks, LimitAssumption
    <3>2. Promise!Move(r, {"idle"}, "granted")
      BY <1>3, <1>4, <2>1 DEF Promise!Move, state
    <3>3. QED BY <3>1, <3>2 DEF Promise!Take
  <2>2. CASE ~(current' <= Limit)
    <3>1. grants = 0 /\ Left' = 0
      BY <1>2, <2>0, <2>2, PoolShrinks, LimitAssumption
    <3>2. Promise!Move(r, {"idle"}, "refused")
      BY <1>3, <1>4, <2>2 DEF Promise!Move, state
    <3>3. QED BY <3>1, <3>2 DEF Promise!Take
  <2>3. QED BY <2>1, <2>2
<1>6. CASE KeyExists /\ current' = current + 1 /\ UNCHANGED expire_at
  <2>1. Left = GrantsAt(current)
    BY DEF Left, GrantsAt
  <2>2. current' - 1 = current
    BY <1>6
  <2>3. QED BY <1>1, <1>5, <1>6, <2>1, <2>2 DEF Promise!Call, KeyExists
<1>7. CASE ~KeyExists /\ current' = 1 /\ expire_at' = now + WindowMs
  <2>1. Promise!Take(r, Limit)
    <3>1. current' - 1 = 0 /\ GrantsAt(0) = Limit
      BY <1>7 DEF GrantsAt
    <3>2. QED BY <1>5, <3>1
  <2>2. expire_at = NoKey \/ now > expire_at
    BY <1>7 DEF KeyExists
  <2>3. QED BY <1>1, <1>7, <2>1, <2>2 DEF Promise!Call
<1>8. QED BY <1>1, <1>6, <1>7 DEF CountHit

LEMMA DecideAnswers ==
    ASSUME Inv, NEW r \in Requests, Decide(r)
    PROVE  Promise!Answer(r)
<1> USE DEF Inv, TypeOK
<1> DEFINE state == [q \in Requests |-> StateOf(q)]
<1>1. /\ pc[r] = "counted" /\ rank' = rank
      /\ now' = now /\ expire_at' = expire_at /\ current' = current
  BY DEF Decide
<1>2. CASE rank[r] <= Limit
  <2>1. pc' = [pc EXCEPT ![r] = "admitted"]
    BY <1>2 DEF Decide, Allowed
  <2>2. state[r] = "granted" /\ state' = [state EXCEPT ![r] = "admitted"]
    BY <1>1, <1>2, <2>1 DEF StateOf
  <2> HIDE DEF state
  <2>3. Promise!Move(r, {"granted"}, "admitted")
    BY <2>2 DEF Promise!Move, state
  <2>4. QED BY <1>1, <2>3 DEF Promise!Answer, Left
<1>3. CASE ~(rank[r] <= Limit)
  <2>1. pc' = [pc EXCEPT ![r] = "limited"]
    BY <1>3 DEF Decide, Allowed
  <2>2. state[r] = "refused" /\ state' = [state EXCEPT ![r] = "limited"]
    BY <1>1, <1>3, <2>1 DEF StateOf
  <2> HIDE DEF state
  <2>3. Promise!Move(r, {"refused"}, "limited")
    BY <2>2 DEF Promise!Move, state
  <2>4. QED BY <1>1, <2>3 DEF Promise!Answer, Left
<1>4. QED BY <1>2, <1>3

LEMMA ErrorLoses ==
    ASSUME Inv, NEW r \in Requests, StorageError(r)
    PROVE  Promise!Lose(r)
<1> USE SwitchAssumption DEF Inv, TypeOK
<1> DEFINE state == [q \in Requests |-> StateOf(q)]
           answer == IF FailOpen THEN "admitted" ELSE "unavailable"
<1>1. /\ pc[r] \in {"idle", "counted"} /\ rank' = rank
      /\ pc' = [pc EXCEPT ![r] = answer]
      /\ now' = now /\ expire_at' = expire_at /\ current' = current
  BY DEF StorageError
<1>2. state[r] \in {"idle", "granted", "refused"} /\ state' = [state EXCEPT ![r] = answer]
  BY <1>1 DEF StateOf
<1> HIDE DEF state
<1>3. Promise!Move(r, {"idle", "granted", "refused"}, answer)
  BY <1>2 DEF Promise!Move, state
<1>4. QED BY <1>1, <1>3 DEF Promise!Lose, Left

\* The limiter implements the promise of Quota: whatever its limit and window, a
\* counter that is never read back behaves as a pool of grants
\* (rate_limiter.py:21-28, 131-145).
THEOREM QuotaImplemented == Spec => ImplementsQuota
<1>1. Init => Promise!Init
  BY LimitAssumption DEF Init, Promise!Init, Left, StateOf
<1>2. Inv /\ [Next]_vars => [Promise!Next]_(Promise!vars)
  <2> SUFFICES ASSUME Inv, [Next]_vars PROVE [Promise!Next]_(Promise!vars)
      OBVIOUS
  <2>1. ASSUME NEW r \in Requests, Eval(r) PROVE Promise!Next
    BY <2>1, EvalTakes DEF Promise!Next
  <2>2. ASSUME NEW r \in Requests, Decide(r) PROVE Promise!Next
    BY <2>2, DecideAnswers DEF Promise!Next
  <2>3. ASSUME NEW r \in Requests, StorageError(r) PROVE Promise!Next
    BY <2>3, ErrorLoses DEF Promise!Next
  <2>4. CASE Tick
    BY <2>4 DEF Tick, Promise!Next, Promise!Tick, Left, StateOf
  <2>5. CASE UNCHANGED vars
    BY <2>5 DEF vars, Promise!vars, Left, StateOf
  <2>6. QED BY <2>1, <2>2, <2>3, <2>4, <2>5 DEF Next
<1>3. QED
  BY <1>1, <1>2, Invariance, PTL DEF Spec, ImplementsQuota, Promise!Spec

=============================================================================
