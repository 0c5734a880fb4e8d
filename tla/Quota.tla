------------------------------- MODULE Quota -------------------------------
(***************************************************************************)
(* What a fixed-window limiter promises: a window opens with the first     *)
(* call, holds Limit grants and lasts a fixed time; each call takes a      *)
(* grant, or is refused when none is left, at a single instant, and is     *)
(* answered accordingly later.  Nothing is counted beyond the last grant.  *)
(***************************************************************************)
EXTENDS Integers

CONSTANTS
    Requests,  \* the calls of one identity
    Limit,     \* the grants of a window
    Length,    \* how long a window lasts
    FailOpen,  \* calls whose verdict is lost are let through
    Never,     \* no window has opened yet
    MaxNow     \* bound on the clock

VARIABLES now, ends, left, state

vars == <<now, ends, left, state>>

Init ==
    /\ now = 0
    /\ ends = Never
    /\ left = Limit
    /\ state = [r \in Requests |-> "idle"]

Move(r, from, to) ==
    /\ state[r] \in from
    /\ state' = [state EXCEPT ![r] = to]

\* A call takes one of the grants there are: Limit of them in a new window.
Take(r, grants) ==
    \/ /\ grants > 0
       /\ left' = grants - 1
       /\ Move(r, {"idle"}, "granted")
    \/ /\ grants = 0
       /\ left' = 0
       /\ Move(r, {"idle"}, "refused")

Call(r) ==
    /\ \/ /\ ends # Never /\ now <= ends
          /\ Take(r, left)
          /\ UNCHANGED ends
       \/ /\ ends = Never \/ now > ends
          /\ Take(r, Limit)
          /\ ends' = now + Length
    /\ UNCHANGED now

Answer(r) ==
    /\ Move(r, {"granted"}, "admitted") \/ Move(r, {"refused"}, "limited")
    /\ UNCHANGED <<now, ends, left>>

Lose(r) ==
    /\ Move(r, {"idle", "granted", "refused"}, IF FailOpen THEN "admitted" ELSE "unavailable")
    /\ UNCHANGED <<now, ends, left>>

Tick ==
    /\ now < MaxNow
    /\ now' = now + 1
    /\ UNCHANGED <<ends, left, state>>

Next == Tick \/ \E r \in Requests : Call(r) \/ Answer(r) \/ Lose(r)

Spec == Init /\ [][Next]_vars

=============================================================================
