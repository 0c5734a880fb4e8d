---------------------------- MODULE LoginHistory ----------------------------
(***************************************************************************)
(* The login history of one account: every password or Yandex login        *)
(* appends a row after its tokens are issued, and the account's clients    *)
(* page through the rows, newest first, by page number.  A page is an      *)
(* OFFSET and a LIMIT over the rows committed when the query runs, ordered *)
(* by logged_in_at alone: rows that share a timestamp come in any order,   *)
(* another one at each query.                                              *)
(*                                                                         *)
(* The timestamp is taken when the INSERT is flushed, the row is visible   *)
(* only once it is committed: rows can appear behind newer ones.           *)
(***************************************************************************)
EXTENDS Integers, FiniteSets

CONSTANTS
    Logins,     \* the logins of the account, one row each
    Readers,    \* clients that read the whole history, page after page
    PageSize,   \* page_size, the same for every page a client asks for
    MaxNow      \* bound on the clock

ASSUME LoginsAssumption == IsFiniteSet(Logins)
ASSUME SizeAssumption == PageSize \in Nat \ {0} /\ MaxNow \in Nat

VARIABLES
    now,           \* the clock of the workers, in microseconds
    login,         \* where each login stands
    logged_in_at,  \* the timestamp of its row, once flushed
    rows,          \* the logins whose row is committed
    swallowed,     \* auxiliary: the logins answered although the commit failed
    page,          \* the next page each client asks for, 0 when it has stopped
    pages,         \* auxiliary: the pages on which each client found each row
    owed           \* auxiliary: per client, the logins answered, and the rows
                   \* committed, before its first page

vars == <<now, login, logged_in_at, rows, swallowed, page, pages, owed>>

LoginSteps == {"idle", "flushed", "answered", "failed"}

Answered == {l \in Logins : login[l] = "answered"}

TypeOK ==
    /\ now \in 0..MaxNow
    /\ login \in [Logins -> LoginSteps]
    /\ logged_in_at \in [Logins -> 0..MaxNow]
    /\ rows \subseteq Logins
    /\ swallowed \subseteq Answered
    /\ page \in [Readers -> Nat]
    /\ pages \in [Readers -> [Logins -> SUBSET Nat]]
    /\ owed \in [Readers -> [answered : SUBSET Logins, committed : SUBSET Logins]]

Init ==
    /\ now = 0
    /\ login = [l \in Logins |-> "idle"]
    /\ logged_in_at = [l \in Logins |-> 0]
    /\ rows = {}
    /\ swallowed = {}
    /\ page = [c \in Readers |-> 1]
    /\ pages = [c \in Readers |-> [l \in Logins |-> {}]]
    /\ owed = [c \in Readers |-> [answered |-> {}, committed |-> {}]]

-----------------------------------------------------------------------------
(* Logins *)

\* session.commit() flushes the INSERT: default=lambda: datetime.now(UTC).
FlushHistory(l) ==
    /\ login[l] = "idle"
    /\ login' = [login EXCEPT ![l] = "flushed"]
    /\ logged_in_at' = [logged_in_at EXCEPT ![l] = now]
    /\ UNCHANGED <<now, rows, swallowed, page, pages, owed>>

\* Mutant: the commit left to a background task, after the answer.
AnswerUncommitted(l) ==
    \/ /\ login[l] = "flushed"
       /\ login' = [login EXCEPT ![l] = "answered"]
       /\ UNCHANGED <<now, logged_in_at, rows, swallowed, page, pages, owed>>
    \/ /\ login[l] = "answered"
       /\ rows' = rows \cup {l}
       /\ UNCHANGED <<now, login, logged_in_at, swallowed, page, pages, owed>>

\* PostgreSQL commits, and the tokens are returned.
CommitHistory(l) ==
    /\ login[l] = "flushed"
    /\ rows' = rows \cup {l}
    /\ login' = [login EXCEPT ![l] = "answered"]
    /\ UNCHANGED <<now, logged_in_at, swallowed, page, pages, owed>>

\* Mutant: the exception is counted but not caught.
CountFailure(l) ==
    /\ login[l] \in {"idle", "flushed"}
    /\ login' = [login EXCEPT ![l] = "failed"]
    /\ swallowed' = swallowed \cup {l}
    /\ UNCHANGED <<now, logged_in_at, rows, page, pages, owed>>

\* The INSERT or the COMMIT raises; the exception is swallowed, the session
\* rolled back and the tokens returned.  A COMMIT may have been applied.
SwallowFailure(l) ==
    /\ login[l] \in {"idle", "flushed"}
    /\ login' = [login EXCEPT ![l] = "answered"]
    /\ swallowed' = swallowed \cup {l}
    /\ \/ UNCHANGED rows
       \/ login[l] = "flushed" /\ rows' = rows \cup {l}
    /\ UNCHANGED <<now, logged_in_at, page, pages, owed>>

\* The worker dies before it answers, before or after PostgreSQL has committed.
Die(l) ==
    /\ login[l] \in {"idle", "flushed"}
    /\ login' = [login EXCEPT ![l] = "failed"]
    /\ \/ UNCHANGED rows
       \/ login[l] = "flushed" /\ rows' = rows \cup {l}
    /\ UNCHANGED <<now, logged_in_at, swallowed, page, pages, owed>>

-----------------------------------------------------------------------------
(* GET /users/me/login-history *)

Offset(p) == (p - 1) * PageSize

NotOlder(newer, older) ==
    \A x \in newer, y \in older : logged_in_at[x] >= logged_in_at[y]

\* What ORDER BY logged_in_at DESC OFFSET LIMIT can return: the skipped rows,
\* the page and the rest are in order, but ties fall anywhere.
Page(result, p) ==
    \E skipped \in SUBSET (rows \ result) :
        LET rest == rows \ (result \cup skipped) IN
        /\ Cardinality(skipped) =
             IF Offset(p) < Cardinality(rows) THEN Offset(p) ELSE Cardinality(rows)
        /\ \/ Cardinality(result) = PageSize
           \/ Cardinality(result) < PageSize /\ rest = {}
        /\ NotOlder(skipped, result \cup rest)
        /\ NotOlder(result, rest)

\* A page that is not full is the last one.
GetLoginHistory(c) ==
    /\ page[c] > 0
    /\ \E result \in SUBSET rows :
        /\ Page(result, page[c])
        /\ pages' = [pages EXCEPT ![c] = [l \in Logins |->
                        IF l \in result THEN @[l] \cup {page[c]} ELSE @[l]]]
        /\ page' = [page EXCEPT ![c] = IF Cardinality(result) = PageSize THEN @ + 1 ELSE 0]
    /\ owed' = IF page[c] = 1
               THEN [owed EXCEPT ![c] = [answered |-> Answered \ swallowed, committed |-> rows]]
               ELSE owed
    /\ UNCHANGED <<now, login, logged_in_at, rows, swallowed>>

Tick ==
    /\ now < MaxNow
    /\ now' = now + 1
    /\ UNCHANGED <<login, logged_in_at, rows, swallowed, page, pages, owed>>

Next ==
    \/ \E l \in Logins :
        FlushHistory(l) \/ CommitHistory(l) \/ SwallowFailure(l) \/ Die(l)
    \/ \E c \in Readers : GetLoginHistory(c)
    \/ Tick

Spec == Init /\ [][Next]_vars

-----------------------------------------------------------------------------
(* Properties *)

Tied(l) == \E k \in rows \ {l} : logged_in_at[k] = logged_in_at[l]

\* A client that has read to the last page found every login answered before
\* its first page whose commit did not fail, and every row committed by then:
\* rows that appear meanwhile, even behind newer ones, only push others to
\* later pages.  The exception is a row that shares its timestamp with another,
\* as nothing orders the two (service_user.py:96-102).
NothingIsMissed ==
    \A c \in Readers :
        page[c] = 0 =>
            \A l \in owed[c].answered \cup owed[c].committed :
                pages[c][l] # {} \/ Tied(l)

=============================================================================
