------------------------------ MODULE ConnPool ------------------------------
(***************************************************************************)
(* The connection pool of one worker process.  A session takes a           *)
(* connection at its first statement and keeps it until it commits, rolls  *)
(* back or is closed.  get_or_create_default_role opens a session of its   *)
(* own: a request that calls it after a SELECT holds one connection while  *)
(* it waits for another.  The pool gives up a wait after its timeout.      *)
(***************************************************************************)
EXTENDS Integers, FiniteSets

CONSTANTS
    Plain,      \* requests that use one connection
    Nested,     \* create_user, revoke_role and new Yandex ID users: two
    Capacity    \* pool_size + max_overflow: 5 + 10 unless configured

Requests == Plain \cup Nested

ASSUME CapacityAssumption == Capacity \in Nat \ {0}
ASSUME RequestsAssumption == IsFiniteSet(Requests) /\ Plain \cap Nested = {}

VARIABLES
    pc,     \* where each request stands
    held,   \* the connections each request holds
    free    \* the connections nobody holds

vars == <<pc, held, free>>

Answered == {"done", "timeout"}
Waiting  == {"wait_first", "wait_second", "wait_again"}
Steps    == {"idle", "first", "second", "last", "again"} \cup Waiting \cup Answered

Goto(r, step) == pc' = [pc EXCEPT ![r] = step]

Take(r) ==
    /\ free > 0
    /\ free' = free - 1
    /\ held' = [held EXCEPT ![r] = @ + 1]

\* Mutant: the session of the helper left open.
GiveNothing(r, n) == UNCHANGED <<held, free>>
Give(r, n) ==
    /\ free' = free + n
    /\ held' = [held EXCEPT ![r] = @ - n]

TypeOK ==
    /\ pc \in [Requests -> Steps]
    /\ held \in [Requests -> 0..2]
    /\ free \in 0..Capacity

Init ==
    /\ pc = [r \in Requests |-> "idle"]
    /\ held = [r \in Requests |-> 0]
    /\ free = Capacity

-----------------------------------------------------------------------------

\* The handler reaches its first statement.
Arrive(r) ==
    /\ pc[r] = "idle"
    /\ Goto(r, "wait_first")
    /\ UNCHANGED <<held, free>>

TakeFirst(r) ==
    /\ pc[r] = "wait_first"
    /\ Take(r)
    /\ Goto(r, "first")

\* Mutant: every route asks for the default role.
OpenSecondAlways(r) ==
    /\ pc[r] = "first"
    /\ Goto(r, "wait_second")
    /\ UNCHANGED <<held, free>>

\* The SELECT has answered, its transaction is open, and the helper is called.
OpenSecond(r) ==
    /\ r \in Nested
    /\ pc[r] = "first"
    /\ Goto(r, "wait_second")
    /\ UNCHANGED <<held, free>>

TakeSecond(r) ==
    /\ pc[r] = "wait_second"
    /\ Take(r)
    /\ Goto(r, "second")

\* async with async_session() ends.
CloseSecond(r) ==
    /\ pc[r] = "second"
    /\ Give(r, 1)
    /\ Goto(r, "last")

\* No other session is needed before a commit or the answer.  A nested request
\* may answer after its first statement too, if only with an error; an exception
\* closes the sessions in the same order, the inner one first.
Ready(r) == pc[r] \in {"first", "last", "again"}

\* session.commit(), after which logout_others and create_user read once more.
CommitAndReload(r) ==
    /\ Ready(r) /\ pc[r] # "again"
    /\ Give(r, 1)
    /\ Goto(r, "wait_again")

TakeAgain(r) ==
    /\ pc[r] = "wait_again"
    /\ Take(r)
    /\ Goto(r, "again")

\* Commit, rollback or the end of get_session.
Finish(r) ==
    /\ Ready(r)
    /\ Give(r, 1)
    /\ Goto(r, "done")

\* Mutant: the pool waits for ever.
NeverTimeout(r) == FALSE /\ UNCHANGED vars

\* Mutant: one connection given back, whatever the request holds.
TimeoutGivesOne(r) ==
    /\ pc[r] \in Waiting
    /\ free = 0
    /\ Give(r, 1)
    /\ Goto(r, "timeout")

\* sqlalchemy.exc.TimeoutError, on which get_session closes the session.
PoolTimeout(r) ==
    /\ pc[r] \in Waiting
    /\ free = 0
    /\ Give(r, held[r])
    /\ Goto(r, "timeout")

-----------------------------------------------------------------------------

Work(r) ==
    \/ TakeFirst(r) \/ OpenSecond(r) \/ TakeSecond(r) \/ CloseSecond(r)
    \/ CommitAndReload(r) \/ TakeAgain(r) \/ Finish(r)

Next == \E r \in Requests : Arrive(r) \/ Work(r) \/ PoolTimeout(r)

Spec == Init /\ [][Next]_vars

\* Statements end; the pool hands a free connection to some waiter, and gives a
\* waiter that it cannot serve an error in the end.
FairSpec ==
    Spec /\ \A r \in Requests : WF_vars(Work(r) \/ PoolTimeout(r))

-----------------------------------------------------------------------------
(* Properties *)

\* Connections do not leak: those held and those free are the whole pool, after
\* any sequence of commits, failures and timeouts, and an answered request holds
\* none.
Conserved ==
    /\ free + Cardinality({r \in Requests : held[r] >= 1})
            + Cardinality({r \in Requests : held[r] = 2}) = Capacity
    /\ \A r \in Requests : pc[r] \in Answered => held[r] = 0

\* Nobody can go on: the pool is empty and all its connections are held by
\* requests that wait for another one.
Stalled == free = 0 /\ \A r \in Requests : held[r] > 0 => pc[r] = "wait_second"

\* The pool stalls only when as many requests as it has connections are inside
\* get_or_create_default_role with a session of their own open
\* (db/helpers.py:16-18, service_user.py:38-46): 15 in one worker.
StallNeedsFullHouse == Stalled => Cardinality({r \in Nested : held[r] = 1}) >= Capacity

\* So it never does when there are fewer such requests.
NoStall == Cardinality(Nested) < Capacity => ~Stalled

\* Every request is answered, if only with an error when the wait times out.
RequestsEnd == \A r \in Requests : pc[r] # "idle" ~> pc[r] \in Answered

=============================================================================
