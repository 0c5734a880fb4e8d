# Verification of the Auth API

TLA+ models, TLC runs and TLAPS proofs about the service under `src/app`: a
FastAPI application served by four gunicorn workers, each an asyncio event loop,
over one PostgreSQL database (READ COMMITTED) and one Redis. Coroutines of one
worker interleave at every `await`; code between two awaits runs in parallel with
other workers. No module takes a row lock, a Redis transaction (other than one
Lua script) or an asyncio lock, so every "read, decide, write" of the code spans
several round trips. That is what is modelled here.

## 1. Inventory

| component | state | operations | works with | what is hard | what makes it correct |
|---|---|---|---|---|---|
| Sessions (`services/service_auth.py`, `services/helpers.py`, `UserService.change_password`) | `users.token_version`, `users.password_hash`, `users.role_id`; Redis keys `blacklist:<jti>`; per request: the ORM object, the token, the TTL | `POST /token`, `/refresh`, `/logout`, `/logout-others`, `PATCH /users/me/password` | Roles (a token needs a role), clients that keep and resend tokens | read-modify-write of `token_version`; blacklist check and write in two round trips; TTLs in whole seconds against a fractional clock; `expire_on_commit=False` keeps stale columns | a revoked token stays revoked until it expires; a spent token gets no pair; a forced logout or password change ends the sessions it should and no others |
| Rate limiter (`api/rate_limiter.py`) | one Redis counter with an expiry per (address, route) | one Lua script, then the worker's decision | every sensitive route | replies late, reordered or lost; window boundary; rounding of Retry-After; the instant of expiry | quota per window, quota honoured, waiting as told is enough, but for one instant |
| Role catalog and assignments (`services/service_role.py`, `db/helpers.py`) | `roles`, `users.role_id` | create, delete, modify, assign, revoke, get-or-create the default | Sessions, Accounts | checks on objects read earlier; UPDATEs of the changed columns only; uncaught `IntegrityError` and `StaleDataError` | the default role stays; a 200 is the truth; an error has a cause |
| Accounts (`services/service_user.py`, `services/service_yandexid.py`) | `users.email`, `oauth_accounts`, Redis keys `oauth:yandex:state:<state>`, the browser's state cookie | `POST /users`, `PATCH /users/me/email`, `GET /yandexid/login`, `GET /yandexid/token` | the provider; Roles for a new account | find, link or create against unique keys; insertions that wait for open transactions; replies lost after Redis applied a command or PostgreSQL a COMMIT | logged in to the linked account; no orphan account; a state is redeemed once |
| Connection pool (`db/clients.py`, `get_session`, `get_or_create_default_role`) | the connections of one worker | check out, nested check out, check in, time out | every handler | a request that holds a connection asks for a second | no leak; a stall only with as many nested requests as connections; everyone is answered |
| Login history (`AuthService.login_user`, `YandexIdService.authorize`, `UserService.get_login_history`) | `login_history` | append after the tokens are made; read a page | Sessions, Accounts | a failed commit is swallowed; a row gets its timestamp before it is visible; pages are offsets into a growing list | a client that reads all pages misses no login |
| Access-token dependency (`api/dependencies.py`) | none | decode, compare `tv` with the row, or trust the superuser claim | Sessions | superuser claim trusted until expiry | as Sessions |
| Bootstrap (`run_app.sh`, `alembic/`, `commands/`, `main.py`, `db/helpers.py`) | tables, partitions, `alembic_version`, the default role, the superuser | migrate, seed, start workers; drop, create and seed in each worker's lifespan | everything that serves | four workers drop and create the same tables; failed seeds are printed; restarts with other settings | a worker that serves is seeded; a failed start has a cause; rows survive |
| Edge of a worker (`api/middleware.py`, `core/request_context.py`, `core/logging.py`, `core/sentry.py`) | a context variable per task and thread; the heartbeat | set and reset the request id, log, report to Sentry | every handler; gunicorn's master | tasks and threads interleave; exceptions outrun the reset; reports block the loop | no id of another request; what it takes to be killed |
| Tracing, configuration, schemas | output; values | per request | | pure | not modelled |

## 2. Modules

| module | models | proofs |
|---|---|---|
| `Sessions` | the sessions of one account | `SessionsProofs` |
| `Quota` | abstract: what a fixed-window limiter promises | |
| `RateLimiter` | one counter of the limiter; implements `Quota` | `RateLimiterProofs` |
| `Roles` | the role catalog and assignments | `RolesProofs` |
| `Accounts` | registration, email change, Yandex ID | `AccountsProofs` |
| `ConnPool` | the pool of one worker | `ConnPoolProofs` |
| `LoginHistory` | appending to and paging through one account's history | `LoginHistoryProofs` |
| `Bootstrap` | container starts, migrations, seeds, lifespans | `BootstrapProofs` |
| `Worker` | request ids, logs, Sentry and heartbeat of one worker | `WorkerProofs` |

`MC<module>` adds only the symmetry sets; a run is `MC<module>_<run>.cfg`.

### How a module corresponds to the code

A *request* is one invocation of a handler; `pc[r]` is the await at which its
coroutine stands, named for the statement that comes next. An action is all the
code from one await to the next, with every branch and early return a disjunct.
What a coroutine holds in local variables and ORM objects is a function of the
request (`user`, `token`, `ttl`, `loaded`, `target`...); what PostgreSQL and Redis
hold is one variable each. `prior[r]` is auxiliary: the requests answered before
`r` arrived, by which the properties say "afterwards" and "meanwhile".

**Sessions.** `row` is the account's committed row and `user[r]` the object a
request loaded from it. `LoginUser` reads and verifies, `IssueTokenPair` signs
from the *object*, `SaveLoginHistory` may fail silently. A refresh goes
`DecodeRefreshToken`, `CheckBlacklistedToken`, `LoadRefreshUser` (which also
computes the TTL), `BlacklistToken`, `IssueTokenPair`; a logout decodes, then
`ComputeLogoutTtl` reads the clock again, then `BlacklistToken`. `CommitUser` writes
what the two writers assigned to the objects they loaded in `LogoutOthersLoad` and
`ChangePasswordLoad`; `LogoutOthersReload` is the second SELECT of `logout_others`,
which loads the role and leaves `token_version` as the identity map has it. Time is
`second` and `tick`: JWT times and TTLs are whole seconds, `exp <= now` is expiry
(PyJWT), a Redis key is there while `now` is at most its expiry. `Fail` is a worker,
connection or server that dies at an await: a COMMIT or SETEX in flight was applied
before it or not at all. `EditRole` is what the role routes do to this user.
`RedisRestart` empties the blacklist, once; `lost` remembers for the properties which
tokens had a key. A *role call* is a request of a superuser route: `DecodeAccessToken`
alone serves it, since `ensure_superuser` reads no row.

**RateLimiter.** `Eval` is the Lua script, atomic in Redis; `Decide` is the worker
on receipt of the reply; `StorageError` is a `RedisError` before or after the script
ran, with `fail_open` either way. `window[r]`, `at[r]` are auxiliary: which window
counted a request, and when. `Promise` maps the state to `Quota`: a counter that may run
past the limit is a pool of grants that stops at zero (`Left`), and a request that was
counted and not yet answered has its grant or refusal already (`StateOf`).

**Roles.** A role is named by the request that inserts it. `RemoveRole` and
`ModifyRole` read and check, `CommitRemoval` and `CommitModification` write later.
`Merged` is the UPDATE SQLAlchemy sends: only the columns that differ from the object
as read. `FindDefaultRole` and `CreateDefaultRole` are the two statements of
`get_or_create_default_role`. Unique titles and the foreign key (`ON DELETE SET
NULL`) are guards of the commits, as the database enforces them. Users are never
deleted by the code. The default role may or may not exist at the start: `run_app.sh`
makes it before serving unless `APP_MODE` is `dev`.

**Accounts.** A callback goes through state validation, GETDEL, two provider calls,
the lookups of the link and of the email, the flush of a new account and the insertion
of the link, which commits both. A flushed account is `Pending`: invisible to SELECTs,
but an insertion of the same email waits for it (`EmailLocked`). Each Redis command
may be applied although its reply is lost, and so may each COMMIT: `CommitEmail` has
both answers, and after the COMMIT of `CommitNewUser` and of `AttachOAuthAccount` the request
stands at a step (`refresh`, the `session.refresh` of `create_user`, and `tokens`) from
which `Fail` answers 500 with the account committed. `taken[c]` is auxiliary: the requests
that committed an email between the look of callback `c` for its email and its flush. There is one browser, hence one cookie,
and the callback of any started login may be sent any number of times.

**ConnPool.** A session takes a connection at its first statement and returns it at
commit, rollback or close. `create_user`, `revoke_role` of a non-superuser and a new
Yandex ID user are *nested*: they call `get_or_create_default_role`, which opens a
session of its own, with theirs open. `CommitAndReload` is a commit followed by one
more read (`logout_others`, `create_user`). An exception closes the sessions that are
open, the inner one first, which to the pool is the same as an answer.

**LoginHistory.** `FlushHistory` takes the timestamp (`default=lambda: datetime.now(UTC)`),
`CommitHistory` makes the row visible, `SwallowFailure` is the `except` that returns the
tokens all the same (an INSERT that failed, or a COMMIT that failed or whose reply was
lost), `Die` is the worker's end. `Page` is what `ORDER BY logged_in_at DESC OFFSET LIMIT`
may return: equal timestamps come in any order. `owed[c]` is auxiliary: what was answered
and what was committed when client `c` asked for its first page.

**Bootstrap.** `script` is where `run_app.sh` stands, `pc[w]` where a worker's lifespan does.
A start may have another configuration than the one before. `Migrate` is `alembic upgrade
head`, both revisions in one transaction (`env.py:89`); it fails when there are tables and no
`alembic_version`. `Look` is SQLAlchemy's existence check of one table, `DropAllTables` and
`CreateAllTables` the DDL of the tables found or missed, in one transaction. `drop_all` leaves
`alembic_version` alone and `create_all` makes no partitions. A worker whose lifespan raises
exits, and the gunicorn master stops the others (`Halt`); one that dies later is
replaced (`Respawn`). Registrations are the rows that a reset can destroy.

**Worker.** `context[r]` is the context variable in the task of a request, `thread[r]` its copy
in the thread of the synchronous `get_access_token_payload`. `Answer` and `Raise` are the two
ways out of `RequestIdMiddleware`: an exception leaves it, and its `finally`, before Starlette's
`ServerErrorMiddleware` answers 500 and Sentry's ASGI middleware reports. `silence` is the
age of the heartbeat. uvicorn's worker looks at it once a second of loop time (ten ticks of 0.1 s)
and renews it when it is *more* than `NotifyEvery` old, half of gunicorn's timeout: `Second` is that second,
`Check` the look, so that a free loop has a heartbeat of up to 16 s. A `Report` holds the
loop for any member of `PostSeconds`: `urlopen(timeout=5)` bounds each operation on the socket,
not the resolution of the name and not a post as a whole. `held` is auxiliary: how long such posts have
held the loop since its last check. The event of an invalid token is posted from its
thread and holds nothing. The processor time of handlers, far below a second, is not counted.
`SENTRY_ENABLED` is taken to be set.

### Abstractions

- One account in `Sessions` and one (address, route) in `RateLimiter`: keys and rows
  of different accounts and clients are never read together.
- Redis has the workers' clock, and loses its keys at most once (`sessions`):
  nothing in the repository configures its persistence.
- jti and state are fresh (uuid4, `secrets`), so tokens, states, accounts and roles
  are named by the request that makes them.
- A limiter reply whose PTTL is not positive falls back to the window, as the code does. The
  script returns one, 0, at the instant the key expires: Redis drops a key only after that
  instant. A request refused then is told to wait for a whole window, of which nothing is left.
- Passwords are values compared for equality; hashing, signing, parsing and response
  bodies are left out.
- `Worker` has no HTTP pipelining (a task that inherits the context of the one before).

## 3. Runs

All bounds are in the cfg files. Deadlock checking is off where requests run out: each
model has a finite set of requests and legitimately stops.

| run | question | instance and why it is enough |
|---|---|---|
| `sessions` | rotation and revocation of refresh tokens; which sessions a version ends or keeps | two instances in one run (`Instances` of `MCSessions`), each with a restart of Redis, at most one request that fails (`OneFailure`: a failed request only stops, so that two seldom meet) and the login history always kept (`HistoryKept`: no property of sessions reads it). `Rotation`: a login, two refreshes and a logout, tokens of 2 s, a clock of 2 ticks a second to second 2, a role that comes and goes in the first second (`RoleEditedEarly`): two competitors for one token and one for its successor, SETEX on either side of a second boundary and of the expiry. `Versions`: two logins, a refresh, one writer of each kind, two passwords; the clock stands still, as versions do not depend on it |
| `old_password` (violated) | a password change ends the old password's sessions | see Findings |
| `revoked_superuser` (violated) | README: "Revoke all other sessions" | a superuser's two logins, a logout of the others by one, a role call with the token of the other; see Findings |
| `window` | quota, burst, Retry-After, refinement of `Quota` | four requests, limit 1, windows of 2 s at 2 ticks a second, clock to 6: a boundary, a refusal and the request that waited |
| `roles` | the default role, modifications, assignments | any `MaxRequests` = 3 of a creation, a removal, two modifications, an assignment and two revocations; three titles, two label lists, a user and a superuser, with and without a default role: every pair of kinds and a third request to come between |
| `linking` | callbacks against registration and email change | two started logins, two callbacks, a registration, an email change, an existing account, two emails, two identities |
| `waiting` | every request of `Accounts` is answered | two callbacks and a registration for one email: insertions that wait for each other's transactions |
| `full` | leaks, stalls, answers of the pool | three connections, three nested and two plain requests: the least that stalls with company |
| `startup` | what a serving worker finds, why starts fail, what survives | two workers, one registered account, the five settings of `MCBootstrap` (production and development, with and without a reset, alone or not), three starts and two deaths: a start follows one that was cut short anywhere, in the same or another setting, and is followed by one that must cope with both |
| `history` | completeness of the pages | four logins, one client, pages of two rows, four instants: two full pages, rows that appear between any two, ties |
| `edge` | request ids, heartbeat | three requests, one id that clients repeat, the real 15 and 30 s, posts of 0, 5 and 16 s: three posts of 5 s between two checks are the fewest of that length that kill, one of 16 s does it alone |
| `unhandled` (violated) | README: events carry "the current `request.id`" | two requests; see Findings |

What they show, beyond types:

- *Sessions.* A token that a refresh or logout revoked is listed until it expires
  (`RevocationOutlivesToken`); a refresh that arrives after another one, or a logout, of
  its unexpired token was answered gets nothing (`SpentTokenIsUseless`); a refresh is
  rejected only because the token expired, another request presented it, or a writer got as far as loading the row (`RejectionIsJustified`). With writers one at a time (`SerialWriters`), a forced logout or
  password change ends every earlier session, a session opened with a password lives no
  longer than the password although login reads early and signs late, and no dead
  session returns. `CallerKeepsItsSession` holds in spite of the stale reload.
- *What these properties concede is exact.* Without `SerialWriters`, `old_password` breaks
  them, and two callers of `logout_others` that overlap both read version *n*, both write
  *n* + 1 and both stay logged in, each told that the other is not. Two refreshes of one token that
  *overlap* both get a pair. A refresh decoded just before `exp` whose blacklist lookup
  comes just after it finds the key gone and passes; hence "unexpired". A restart of Redis
  revives the tokens whose keys it had (`lost`), and no others; what `token_version` ended
  stays ended.
- *RateLimiter.* At most `Limit` of a window, at most twice that in any span as long as a
  window, no refusal before the quota is used, and a client that waits as long as Retry-After
  says is counted in a later window. The exception (`AtTheEdge`) is one instant: a client answered
  in the same instant it was counted, told the exact time to the expiry, and back at precisely the
  instant of the expiry meets the old key and is told to wait for a window more. Without the
  exception TLC finds this case and no other.
- *Roles.* A default role made before serving survives any interleaving. Without one,
  a removal can delete the role that a modification has just renamed to the default
  title. A modification alone in its time is applied as asked; two that overlap can
  leave the title of one with the labels of the other. A 200 of assign or revoke is the
  truth about the user or the role was deleted. Every uncaught database error has an
  overlapping cause: a deleted role, or two first callers of
  `get_or_create_default_role`.
- *Accounts.* The account a callback logs in to is the one its identity is linked to, a
  failed callback leaves no account behind, a state gets one callback to the provider. The
  uncaught `IntegrityError` of the flush is always a race for the email: another request committed it
  after the callback had looked, possibly one that itself answered 500 because the reply
  to its COMMIT was lost or its `session.refresh` failed. Of two
  concurrent first logins of one identity one answers 500 where a retry succeeds.
- *LoginHistory.* A client that pages to the end finds every login answered before it began,
  unless its commit failed, however many rows appear meanwhile, even behind newer ones. Equal
  timestamps are the exception.
- *Bootstrap.* A serving worker finds every table and seed, unless another worker of the start
  resets the database, or the commit of a seed failed and was only printed. A start fails only
  after some worker dropped the tables; a lifespan only beside another one, so with four
  workers `RESET_DB_ON_STARTUP` can fail and with one it cannot. Once a worker has reset a migrated
  database the login history cannot be written (no partitions) and no later start repairs it.
- *Worker.* Ids never mix: what shows no id is about an unhandled exception (see Findings).
  A worker is killed only if posts of unhandled exceptions held its loop for more than 14 s
  between two checks (`HeldLoopKills`): the heartbeat may be 16 s old and the master waits 30. Three
  Sentry timeouts at once are enough, and so is one post that is slow in small pieces or in resolving the name.
  Posts that a check separates do not add up.
- *ConnPool.* No connection leaks; a stall needs every connection to be held by a nested
  request, ends by `pool_timeout`, and cannot occur below that.

### Fairness

Safety is checked without any. `Accounts!FairSpec` is weak fairness of each request's next
step: an await completes or raises (the HTTP client has timeouts), the event
loop resumes a coroutine that is ready, and PostgreSQL wakes an insertion that waits once
the other transaction has ended. A handler waits only while it holds no key another
waits for, and the run shows that this suffices. No fairness is assumed of clients
(arrivals), failures, expiry or the clock. `ConnPool!FairSpec` is weak
fairness of "the request goes on or its wait times out". `Bootstrap!FairSpec` is weak fairness
of the script's next command and of each worker's lifespan, which are processes; restarts,
deaths and registrations need not happen.

## 4. Findings

1. `old_password`: `logout_others` and `change_password` read the same `token_version`, add
   one in memory and commit (`service_auth.py:156-158`, `service_user.py:90`). With a login
   between the two commits a session opened with the old password is alive after the change
   (`test_users.py:158` expects 401).
2. `revoked_superuser`: an access token of a session that `logout_others` ended is refused
   wherever `get_token_user` compares its version, but `ensure_superuser`
   (`dependencies.py:152-156`) reads only the claim: it opens the role routes until it
   expires (`README.md:44`: "Revoke all other sessions").
3. `unhandled`: an unhandled exception passes the `finally` of `RequestIdMiddleware`
   (`middleware.py:39`) before Sentry captures it outside, so its event has no
   `request_id` (`sentry.py:116-119`), while `README.md:133` says events "are tagged with
   `service=auth-api` and the current `request.id`". `NoForeignId`, which holds, says no more
   than that such an event shows no *other* request's id.

Seen beside these, without a run of its own: deleting a role sets `role_id` to NULL for its
users (`models.py:65`), whose next login or refresh ends in an uncaught `ValueError`
(`helpers.py:24`): the step `no_role` of `Sessions`. `README.md:133` also says that
expected responses such as 401 are ignored by Sentry; the 401 of an invalid token is, but the error it is
logged as (`dependencies.py:128`) is sent (`RejectToken` of `Worker`).

## 5. Proofs

TLAPS proves every safety invariant and action property that the passing runs check,
and the refinement of `Quota`, for all values of the constants that satisfy the named
assumptions: kinds of requests that are disjoint, positive lifetimes and units, finite
sets where something is counted (`WorkersAssumption`: gunicorn's workers are finitely
many), roles named apart from one another (`NewRolesAssumption`: the roles there are at
the start and those that requests make). The invariants the proofs add were checked by
TLC on the instances of section 3 before they were proved. In each module there is one lemma for
an invariant or a conjunct of it, and in the lemma one step for each action.

- **`SessionsProofs`**: `TypeCorrect`, `RevocationHolds`, `TtlAccepted`,
  `SpentTokenStops`. `RevocationOutlivesToken` is not inductive: that a key is there says
  nothing of how long it lives. `Base` says what a request at each step can rely on (its
  kind, a loaded row, an issued pair). `BlacklistInv` adds that a key never
  ends before its token (`KeyOutlivesToken`) and, since the clock moves between the two,
  that a TTL already computed will not make one that does (`TtlCoversToken`); waiting only
  helps. `OrderInv` adds what `prior` means and that a refresh of a spent token
  has not passed the blacklist. All this holds with restarts of Redis: a revoked token is
  listed, expired or `lost`.
- **`SessionsProofs`, versions**: `OtherSessionsEndHolds`, `LiveSessionKnowsPasswordHolds`,
  `DeadSessionStaysDeadHolds`, `CallerKeepsItsSessionHolds`. A dead session must not
  return by way of a row that someone read before and has yet to use. `VersionInv` speaks of these
  rows as well as of the pairs: with one writer at a time no version anywhere is ahead of the
  database's, but the one that the writer between load and commit is about to write, which is ahead by one
  (`VersionsAreBehind`); that version is ahead of every pair answered before the writer
  arrived (`WritersGoAhead`), which is why its commit ends them; and a login that
  read the current version read the current password (`LoginsKnowPassword`), since
  both are columns of one row and `change_password` writes them together. The caller keeps its
  session because the object that `LogoutOthersReload` leaves stale still has the
  version it committed (`CallerInv`).
- **`SessionsProofs`, rejections**: `RejectionIsJustifiedHolds`. A key is there only if some
  request computed a TTL for that token (`KeysAreExplained`), and until a writer has loaded
  the user there is one version (`OneVersion`). No writer needs to be alone for this.
- **`RateLimiterProofs`**: `LimiterTypeCorrect`, `LimitHolds`, `BurstHolds`, `RetryAfterSuffices`.
  Requests of one window hold different ranks (`RanksDiffer`, which needs that the window's
  ranks are at most `current`: `CountedWell`) and those admitted hold ranks in `1..Limit`;
  an injection into `1..Limit` gives the bound. The burst needs that the ends of
  different windows are more than a window apart (`WindowsApart`), so that an
  interval meets two windows at most. `QuotaHolds` counts the other way: a request
  of rank above `Limit` has `Limit` predecessors. `QuotaImplemented` is the refinement: each
  step is a step of `Quota` under the mapping, or a stutter. Retry-After is a ceiling, so it
  reaches the expiry (`RetryIsNat`), and past it unless the rounding adds nothing and the answer took no time.
- **`RolesProofs`**: `RolesTypeCorrect`, `DefaultRoleIsKept`, `AnswersAreTrue`,
  `ModificationsAreApplied`, `ServerErrorsAreConflicts`. `Ready` is what a
  request can rely on at each step, `Moves` and `RoleMoves` abstract every action to what the
  arguments need of it (`NextMoves`). `DefaultsAreSafe` says that no request that passed its
  check is about to delete or rename the default role. For the answers, `ChoiceIsKnown`: a
  request that is alone with its user (`Alone`) still knows the user's role, up to a
  deletion, when it commits, so that leaving out an UPDATE is right. For modifications
  `ReadIsKnown` says the same of the row of a role, for a request that no other modification of
  the role overlaps or follows; `MadeOnce` says that a role it found is not made
  again under the same name. For errors, `FailureInv` says at each step
  before a commit or an INSERT that what was found is still there or an overlapping request is to blame.
- **`AccountsProofs`**: `AccountsTypeCorrect`, `LoggedInAsLinkedHolds`, `NoOrphanAccountHolds`,
  `OneLoginPerStateHolds`, `ServerErrorIsRaceHolds`. None is inductive alone. Links are never
  changed once made (`LinksStay`), so a callback that has tokens stays in agreement with them.
  `NoOrphanAccount` needs `Changes`: a change of email about to commit has a committed account,
  so it cannot bring an unfinished one to life. `OneLoginPerState` needs `StatesAreSpent`: the
  state of a callback beyond its check is out of Redis and, its redirect being done, is not
  written again. `ServerErrorIsRace` needs `FlushSafe`: if the email of a callback
  about to flush has an account, one of those in `taken`, who committed since it looked, took it; and
  whoever is in `taken` is past changing the email it wants (`TakersStay`).
- **`LoginHistoryProofs`**: `HistoryTypeCorrect`, `NothingIsMissedHolds`. The hazard is that an
  OFFSET counts rows of a list that grows between two pages. `FoundOrAhead` says why it
  is harmless: a row that is owed and not found yet has at least as many newer rows as the
  offset of the next page, hence is on that page or a later one. New rows only add to
  the newer ones (`LoginAdds`), and a page without the row is full and comes before it
  as a whole (`PageGoesOn`). The last page is not full, so none is left behind. With a timestamp that another row has, the place of a row in the order is not its
  own, and the argument and the property stop.
- **`BootstrapProofs`**: `BootstrapTypeCorrect`, `RowsAreKeptHolds`, `FailureHasCauseHolds`,
  `HistoryIsWritableHolds`, `ServingIsSeededHolds`, for any workers, settings, starts and deaths. For
  failures `CauseInv` says which tables there are as long as nothing was dropped
  (`CatalogIsExplained`), that a worker comes past its drop only once something was
  (`ResetIsExplained`), and that what a worker has seen of the tables is still true if no other can
  have dropped them (`LooksAreTrue`): hence a worker alone cannot fail. For the seeds `SeedInv`
  says of each thing a serving worker relies on that it is there, its commit was swallowed, or some worker
  has yet to come to it (`TablesAreComing`, `SuperuserIsComing`, `DefaultRoleIsComing`);
  when no other one is at its reset, none has.
- **`WorkerProofs`**: `WorkerTypeCorrect`, `IdsHold`, `KillsAreExplained`. What the context and the thread hold follows from the step
  (`ContextByStep`). The heartbeat is at most `NotifyEvery` old right after a check; until the
  next it ages by a second and by what posts hold the loop (`SilenceIsBounded`). `PostSeconds`
  is any set of lengths.
- **`ConnPoolProofs`**: `PoolTypeCorrect`, `PoolConserved`, `StallsAreFull`,
  `NeverStalls`. What a request holds follows from its step (`HeldByStep`) and the
  connections held and free are the pool (`Balance`); in a stall each holder holds
  one and is nested, so they number `Capacity`.

Only model-checked: liveness (`RequestsEnd` of `Accounts` and of `ConnPool`, `StartEnds`), since
liveness under fairness and ENABLED are out of the prover's reach, as is induction over data
(no module has a recursive definition). The three properties that are violated are
of course not proved. `OtherSessionsEnd`, `LiveSessionKnowsPassword` and `DeadSessionStaysDead` are
proved under their own condition `SerialWriters`; the run `old_password` shows that the code
does not ensure it.

## 6. Not modelled

Tracing and configuration (output and values); formats and levels of logs and the scrubbing of
Sentry events (pure functions of one event); request validation and serialisation; the
client address, device id and request meta (pure functions of one request); the profile and
the list of roles, which change nothing; `downgrade` of the migrations, which nothing
calls; `created_at` and `updated_at`, which nothing reads. The tokens of a Yandex ID
callback are those of a password login.

## 7. Plan

Done, in order of importance: `Sessions`, `RateLimiter`, `Roles`, `Accounts`, `ConnPool`,
`Bootstrap`, `LoginHistory`, `Worker`, the refinement of `Quota`, and the proofs of every safety
and action property. To come:

1. An abstract directory of accounts and links that `Accounts` refines; an abstract store of
   live sessions that `Sessions` with serial writers refines; both with proofs of the kind of
   `QuotaImplemented`.
2. `Sessions` composed with `Roles`, in place of `EditRole`.
