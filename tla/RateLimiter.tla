----------------------------- MODULE RateLimiter -----------------------------
(***************************************************************************)
(* The fixed-window limiter in front of the sensitive routes, for one      *)
(* identity (a client address and a route).  The workers share nothing but *)
(* the counter in Redis: one Lua script increments it, starts its expiry   *)
(* on the first hit and reads the time left, all at one instant; the reply *)
(* reaches the worker, and the client, later.                              *)
(***************************************************************************)
EXTENDS Integers, FiniteSets

CONSTANTS
    Requests,        \* the calls of one client to one route
    Limit,           \* rate_limit_settings.ip_limit
    WindowSeconds,   \* rate_limit_settings.ip_window_seconds
    MsPerSecond,     \* 1000; a smaller unit in small instances
    FailOpen,        \* rate_limit_settings.fail_open
    NoKey,           \* the key does not exist, or the request has no window
    MaxNow           \* bound on the clock

ASSUME LimitAssumption == Limit \in Nat
ASSUME WindowAssumption == WindowSeconds \in Nat /\ MsPerSecond \in Nat \ {0}
ASSUME SwitchAssumption == FailOpen \in BOOLEAN
ASSUME NoKeyAssumption == NoKey \notin Int
ASSUME ClockAssumption == MaxNow \in Nat
ASSUME RequestsAssumption == IsFiniteSet(Requests)

VARIABLES
    now,         \* the clock of Redis, in milliseconds
    current,     \* the value of the key
    expire_at,   \* when the key expires, or NoKey
    pc,          \* where each request stands
    rank,        \* the count its script returned
    window,      \* auxiliary: the expiry of the window that counted it
    ttl_ms,      \* the time left that its script returned
    retry,       \* the Retry-After it was answered with, in seconds
    at           \* auxiliary: when it was counted, and when it was answered

vars == <<now, current, expire_at, pc, rank, window, ttl_ms, retry, at>>

States == {"idle", "counted", "admitted", "limited", "unavailable"}

\* rule.window_seconds * 1000, at least one millisecond.
WindowMs == IF WindowSeconds * MsPerSecond > 1 THEN WindowSeconds * MsPerSecond ELSE 1

\* Redis drops a key once the clock is past its expiry.
KeyExists == expire_at # NoKey /\ now <= expire_at

\* Mutant: the quotient rounded down.
FlooredSeconds(ms) == ms \div MsPerSecond
CeilSeconds(ms) == (ms + MsPerSecond - 1) \div MsPerSecond

\* Mutant: what has gone of the window, with the wrong sign.
RetryAfterSigned(ms) == ms - WindowMs

\* The value of the header: the time left in the window, or the window.
RetryAfter(ms) ==
    LET seconds == IF ms > 0 THEN CeilSeconds(ms) ELSE WindowSeconds
    IN  IF seconds > 1 THEN seconds ELSE 1

\* Mutants: an off-by-one, either way.
AllowedOneMore(count) == count <= Limit + 1
AllowedOneLess(count) == count < Limit
Allowed(count) == count <= Limit

TypeOK ==
    /\ now \in 0..MaxNow
    /\ current \in Nat
    /\ expire_at \in Nat \cup {NoKey}
    /\ pc \in [Requests -> States]
    /\ rank \in [Requests -> Nat]
    /\ window \in [Requests -> Nat \cup {NoKey}]
    /\ ttl_ms \in [Requests -> Nat]
    /\ retry \in [Requests -> Nat]
    /\ at \in [Requests -> [counted : Nat, answered : Nat]]

Init ==
    /\ now = 0
    /\ current = 0
    /\ expire_at = NoKey
    /\ pc = [r \in Requests |-> "idle"]
    /\ rank = [r \in Requests |-> 0]
    /\ window = [r \in Requests |-> NoKey]
    /\ ttl_ms = [r \in Requests |-> 0]
    /\ retry = [r \in Requests |-> 0]
    /\ at = [r \in Requests |-> [counted |-> 0, answered |-> 0]]

-----------------------------------------------------------------------------

\* Mutant: PEXPIRE at every hit.
CountHitProlonging ==
    /\ current' = IF KeyExists THEN current + 1 ELSE 1
    /\ expire_at' = now + WindowMs

\* INCR, and PEXPIRE when the result is 1.
CountHit ==
    \/ /\ KeyExists
       /\ current' = current + 1
       /\ UNCHANGED expire_at
    \/ /\ ~KeyExists
       /\ current' = 1
       /\ expire_at' = now + WindowMs

\* Redis runs the script of a request: INCR, PEXPIRE, PTTL.
Eval(r) ==
    /\ pc[r] = "idle"
    /\ CountHit
    /\ rank' = [rank EXCEPT ![r] = current']
    /\ window' = [window EXCEPT ![r] = expire_at']
    /\ ttl_ms' = [ttl_ms EXCEPT ![r] = expire_at' - now]
    /\ at' = [at EXCEPT ![r].counted = now]
    /\ pc' = [pc EXCEPT ![r] = "counted"]
    /\ UNCHANGED <<now, retry>>

\* The reply arrives: the request goes on, or is answered 429.
Decide(r) ==
    /\ pc[r] = "counted"
    /\ \/ /\ Allowed(rank[r])
          /\ pc' = [pc EXCEPT ![r] = "admitted"]
          /\ UNCHANGED retry
       \/ /\ ~Allowed(rank[r])
          /\ pc' = [pc EXCEPT ![r] = "limited"]
          /\ retry' = [retry EXCEPT ![r] = RetryAfter(ttl_ms[r])]
    /\ at' = [at EXCEPT ![r].answered = now]
    /\ UNCHANGED <<now, current, expire_at, rank, window, ttl_ms>>

\* Mutant: the setting ignored.
AlwaysOpen(r) ==
    /\ pc[r] \in {"idle", "counted"}
    /\ pc' = [pc EXCEPT ![r] = "admitted"]
    /\ at' = [at EXCEPT ![r].answered = now]
    /\ UNCHANGED <<now, current, expire_at, rank, window, ttl_ms, retry>>

\* RedisError, before the script ran or after its reply was lost.
StorageError(r) ==
    /\ pc[r] \in {"idle", "counted"}
    /\ pc' = [pc EXCEPT ![r] = IF FailOpen THEN "admitted" ELSE "unavailable"]
    /\ at' = [at EXCEPT ![r].answered = now]
    /\ UNCHANGED <<now, current, expire_at, rank, window, ttl_ms, retry>>

Tick ==
    /\ now < MaxNow
    /\ now' = now + 1
    /\ UNCHANGED <<current, expire_at, pc, rank, window, ttl_ms, retry, at>>

Next ==
    \/ \E r \in Requests : Eval(r) \/ Decide(r) \/ StorageError(r)
    \/ Tick

Spec == Init /\ [][Next]_vars

-----------------------------------------------------------------------------
(* Properties *)

Hits(w) == {r \in Requests : window[r] = w}
Admitted == {r \in Requests : pc[r] = "admitted"}

\* Unless it fails open, the limiter lets at most Limit requests of a window
\* through, in whatever order the replies reach the workers and whatever
\* replies are lost (rate_limiter.py:21-28, 111-134).
AtMostLimitPerWindow ==
    ~FailOpen =>
        \A r \in Requests : Cardinality(Admitted \cap Hits(window[r])) <= Limit

\* And so at most twice the limit in any interval as long as a window: the end
\* of one window and the start of the next.
BurstIsBounded ==
    ~FailOpen =>
        \A r \in Requests :
            Cardinality({s \in Admitted : at[s].counted - at[r].counted \in 0..WindowMs})
                <= 2 * Limit

\* No request is refused before the whole quota of its window has been counted
\* for others.
QuotaIsHonoured ==
    \A r \in Requests :
        pc[r] = "limited" =>
            Cardinality({s \in Hits(window[r]) : rank[s] < rank[r]}) >= Limit

\* Counting without an upper end, and deciding where the reply arrives, amounts
\* to a pool of Limit grants that every window refills: a call beyond the limit,
\* a late reply or a lost one takes no grant from another call, and none opens,
\* prolongs or shortens a window.
Left == IF current < Limit THEN Limit - current ELSE 0

StateOf(r) ==
    IF pc[r] # "counted" THEN pc[r] ELSE IF rank[r] <= Limit THEN "granted" ELSE "refused"

Promise == INSTANCE Quota
    WITH Length <- WindowMs, Never <- NoKey, ends <- expire_at, left <- Left,
         state <- [r \in Requests |-> StateOf(r)]

ImplementsQuota == Promise!Spec

\* A client that waits as long as Retry-After says, from the moment it was
\* answered, is counted in a later window, however late the answer was
\* (rate_limiter.py:131-132, exceptions.py:22-28); with one exception.  Redis still
\* has the key at the instant of its expiry, so that a client that was answered at
\* the instant it was counted, waits no longer than it was told and arrives at
\* that instant meets the same window, with no time left.
AtTheEdge(r, s) ==
    /\ at[r].answered = at[r].counted
    /\ at[s].counted = at[r].answered + retry[r] * MsPerSecond
    /\ at[s].counted = window[r] /\ ttl_ms[s] = 0

WaitingIsEnough ==
    \A r, s \in Requests :
        /\ pc[r] = "limited"
        /\ window[s] # NoKey
        /\ at[s].counted >= at[r].answered + retry[r] * MsPerSecond
        => window[s] # window[r] \/ AtTheEdge(r, s)

=============================================================================
