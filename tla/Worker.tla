------------------------------- MODULE Worker -------------------------------
(***************************************************************************)
(* One gunicorn worker seen from its edge: the requests that its event     *)
(* loop serves concurrently, the request id each of them is traced by, the *)
(* Sentry events their errors send, and the heartbeat without which the    *)
(* gunicorn master kills the worker.                                       *)
(*                                                                         *)
(* The request id lives in a ContextVar: a task has a context of its own,  *)
(* and a synchronous dependency runs in a thread with a copy of it.  An    *)
(* exception that no handler expects leaves RequestIdMiddleware, which     *)
(* resets the variable, before ServerErrorMiddleware answers 500 and       *)
(* Sentry's ASGI middleware captures it.  Events are posted synchronously: *)
(* from the event loop, a post holds every other request up.               *)
(*                                                                         *)
(* Once a second of its own time the loop checks when it last gave a sign  *)
(* of life.  Time that a post takes comes on top of that second, and the   *)
(* timeout that the code gives urlopen bounds each operation on the socket *)
(* but neither the whole post nor the resolution of the host's name.       *)
(***************************************************************************)
EXTENDS Integers

CONSTANTS
    Requests,       \* the requests of the worker
    ClientIds,      \* the ids that clients send in x-request-id
    None,           \* no id: shown as "-", or not at all
    PostSeconds,    \* how long a post to Sentry may take, in seconds
    NotifyEvery,    \* the age beyond which a check renews the heartbeat
    WorkerTimeout   \* how long the master waits for one

ASSUME IdsAssumption == None \notin ClientIds \cup Requests
ASSUME TimeAssumption ==
    PostSeconds \subseteq Nat /\ NotifyEvery \in Nat /\ WorkerTimeout \in Nat

VARIABLES
    pc,        \* where each request stands
    id,        \* auxiliary: the id the middleware gave it
    context,   \* the ContextVar _request_id in the context of its task
    thread,    \* and in the copy that a thread works with
    header,    \* x-request-id of its answer, None when it has none
    records,   \* the log records: the request they are about, the id they show
    events,    \* the events posted to Sentry: the same, and what raised them
    silence,   \* seconds since the last heartbeat
    due,       \* a second of the loop's own has gone since its last check
    alive      \* the master has not killed the worker

\* For HeldLoopKills alone: the seconds for which the posts of unhandled
\* exceptions have held the loop since its last check.
VARIABLE held

vars == <<pc, id, context, thread, header, records, events, silence, due, alive, held>>

\* A request without a usable header is given uuid4(): here, its own name.
Ids   == ClientIds \cup Requests
Steps == {"idle", "running", "in_thread", "rejected", "raised", "answered", "broken", "lost"}

Record == [about : Requests, shows : Ids \cup {None}]
Event  == [about : Requests, tag : Ids \cup {None}, from : {"log", "unhandled", "expected"}]

TypeOK ==
    /\ pc \in [Requests -> Steps]
    /\ id \in [Requests -> Ids \cup {None}]
    /\ context \in [Requests -> Ids \cup {None}]
    /\ thread \in [Requests -> Ids \cup {None}]
    /\ header \in [Requests -> Ids \cup {None}]
    /\ records \subseteq Record
    /\ events \subseteq Event
    /\ silence \in Nat
    /\ due \in BOOLEAN
    /\ held \in Nat
    /\ alive \in BOOLEAN

Init ==
    /\ pc = [r \in Requests |-> "idle"]
    /\ id = [r \in Requests |-> None]
    /\ context = [r \in Requests |-> None]
    /\ thread = [r \in Requests |-> None]
    /\ header = [r \in Requests |-> None]
    /\ records = {}
    /\ events = {}
    /\ silence = 0
    /\ due = FALSE
    /\ held = 0
    /\ alive = TRUE

-----------------------------------------------------------------------------

Goto(r, from, to) ==
    /\ alive
    /\ pc[r] = from
    /\ pc' = [pc EXCEPT ![r] = to]

\* Mutant: a module global instead of a ContextVar.
SetGlobalId(r, value) == context' = [q \in Requests |-> value]
SetRequestId(r, value) == context' = [context EXCEPT ![r] = value]

\* TraceContextFilter stamps a record with the id of the context it is made in.
Log(r, current) == records' = records \cup {[about |-> r, shows |-> current]}

\* Mutant: the placeholder sent as a tag.
BeforeSendDash(r, current, from) ==
    events' = IF from = "expected" THEN events
              ELSE events \cup {[about |-> r, tag |-> IF current = None THEN "-" ELSE current,
                                from |-> from]}

\* _before_send drops an HTTPException and tags the rest, unless the id is "-".
BeforeSend(r, current, from) ==
    events' = IF from = "expected" THEN events
              ELSE events \cup {[about |-> r, tag |-> current, from |-> from]}

Time == <<silence, due, held>>

\* RequestIdMiddleware takes the client's id, or makes one.
Enter(r) ==
    /\ Goto(r, "idle", "running")
    /\ \E value \in ClientIds \cup {r} :
        /\ id' = [id EXCEPT ![r] = value]
        /\ SetRequestId(r, value)
    /\ UNCHANGED <<thread, header, records, events, alive, Time>>

\* A handler logs below ERROR.
LogInfo(r) ==
    /\ Goto(r, "running", "running")
    /\ Log(r, context[r])
    /\ UNCHANGED <<id, context, thread, header, events, alive, Time>>

\* get_access_token_payload is synchronous: it runs in a thread with a copy of
\* the context, taken when it starts.
StartThread(r) ==
    /\ Goto(r, "running", "in_thread")
    /\ thread' = [thread EXCEPT ![r] = context[r]]
    /\ UNCHANGED <<id, context, header, records, events, alive, Time>>

\* Mutant: the dependency made async, so that the loop waits for its post.
RejectTokenInLoop(r) ==
    /\ Goto(r, "in_thread", "rejected")
    /\ Log(r, thread[r])
    /\ BeforeSend(r, thread[r], "log")
    /\ \E seconds \in PostSeconds : silence' = silence + seconds
    /\ UNCHANGED <<id, context, thread, header, alive, due, held>>

\* An invalid token is logged at ERROR, which Sentry's LoggingIntegration turns
\* into an event, posted from the thread while the loop goes on; then it is an expected 401.
RejectToken(r) ==
    /\ Goto(r, "in_thread", "rejected")
    /\ Log(r, thread[r])
    /\ BeforeSend(r, thread[r], "log")
    /\ UNCHANGED <<id, context, thread, header, alive, Time>>

\* The token is valid, or it is expired or of another kind: a 401 nobody logs.
AcceptToken(r) ==
    /\ Goto(r, "in_thread", "running")
    /\ UNCHANGED <<id, context, thread, header, records, events, alive, Time>>

\* The answer, an HTTPException's included, is sent with the request id in its
\* header; uvicorn logs the access from the same task; the context is reset.
Answer(r) ==
    /\ \/ Goto(r, "running", "answered") /\ UNCHANGED events
       \/ Goto(r, "running", "answered") /\ BeforeSend(r, context[r], "expected")
       \/ Goto(r, "rejected", "answered") /\ BeforeSend(r, context[r], "expected")
    /\ header' = [header EXCEPT ![r] = id[r]]
    /\ Log(r, context[r])
    /\ context' = [context EXCEPT ![r] = None]
    /\ UNCHANGED <<id, thread, alive, Time>>

\* An exception nobody expected: finally, reset_request_id.
Raise(r) ==
    /\ Goto(r, "running", "raised")
    /\ context' = [context EXCEPT ![r] = None]
    /\ UNCHANGED <<id, thread, header, records, events, alive, Time>>

\* ServerErrorMiddleware answers 500, Sentry captures the exception and
\* LegacyStoreTransport posts it, with the loop waiting until the post is over.
Report(r) ==
    /\ Goto(r, "raised", "broken")
    /\ Log(r, context[r])
    /\ BeforeSend(r, context[r], "unhandled")
    /\ \E seconds \in PostSeconds :
        /\ silence' = silence + seconds
        /\ held' = held + seconds
    /\ UNCHANGED <<id, context, thread, header, alive, due>>

\* A second passes in which the loop is free; at its end a check is due.
Second ==
    /\ alive
    /\ ~due
    /\ silence' = silence + 1
    /\ due' = TRUE
    /\ UNCHANGED <<pc, id, context, thread, header, records, events, alive, held>>

\* The check renews a heartbeat that is more than NotifyEvery seconds old.
Check ==
    /\ alive
    /\ due
    /\ due' = FALSE
    /\ silence' = IF silence > NotifyEvery THEN 0 ELSE silence
    /\ held' = 0
    /\ UNCHANGED <<pc, id, context, thread, header, records, events, alive>>

\* The master kills a silent worker, and every request it was serving.  It looks
\* whenever it likes: what it finds in the middle of a post it also finds at its end.
Kill ==
    /\ alive
    /\ silence > WorkerTimeout
    /\ alive' = FALSE
    /\ pc' = [r \in Requests |->
                IF pc[r] \in {"answered", "broken", "idle"} THEN pc[r] ELSE "lost"]
    /\ UNCHANGED <<id, context, thread, header, records, events, Time>>

Next ==
    \/ \E r \in Requests :
        \/ Enter(r) \/ LogInfo(r) \/ StartThread(r) \/ RejectToken(r) \/ AcceptToken(r)
        \/ Answer(r) \/ Raise(r) \/ Report(r)
    \/ Second
    \/ Check
    \/ Kill

Spec == Init /\ [][Next]_vars

-----------------------------------------------------------------------------
(* Properties *)

Unhandled(r) == pc[r] = "broken"

\* Whatever interleaves in the loop and in the threads, no log record, event or
\* answer shows the id of a request it is not about, and one that shows no id is
\* about an unhandled exception, whose 500, access log and event come after the
\* reset (middleware.py:36-39).
NoForeignId ==
    /\ \A x \in records : x.shows = id[x.about] \/ (x.shows = None /\ Unhandled(x.about))
    /\ \A e \in events : e.tag = id[e.about] \/ (e.tag = None /\ Unhandled(e.about))
    /\ \A r \in Requests : pc[r] = "answered" => header[r] = id[r]

\* What the README says (README.md:133): the events of unhandled exceptions, like
\* all events, are tagged with the request's id (middleware.py:39 and
\* sentry.py:116-119 leave it out).
EventsCarryTheirId == \A e \in events : e.tag = id[e.about]

\* The master kills a worker only if posts of unhandled exceptions held its loop
\* between two of its checks for longer than the heartbeat, which may be a second
\* older than the age at which it is renewed, had left of the master's patience.
\* No other work of the requests does it, nor posts that come one at a time and
\* stay below that (sentry.py:63).
HeldLoopKills == ~alive => held > WorkerTimeout - (NotifyEvery + 1)

=============================================================================
