------------------------------ MODULE Bootstrap ------------------------------
(***************************************************************************)
(* How the service comes up: run_app.sh migrates and seeds the database    *)
(* unless APP_MODE is dev, then gunicorn boots its workers, and each       *)
(* worker's lifespan drops, creates and seeds everything again when        *)
(* RESET_DB_ON_STARTUP is set.  Every statement that commits, or that      *)
(* reads the catalog, is a step: SQLAlchemy looks each table up before it  *)
(* drops or creates the ones it found or missed, all in one transaction.   *)
(***************************************************************************)
EXTENDS Naturals, Sequences, FiniteSets

CONSTANTS
    Workers,       \* the workers gunicorn may be asked for
    Configs,       \* environments a container may be started with
    Accounts,      \* what clients register
    MaxStarts,     \* bound on starts of the container
    MaxDeaths      \* bound on deaths of workers

ASSUME ConfigAssumption ==
    Configs \subseteq [app_mode : {"prod", "dev"}, reset : BOOLEAN, workers : SUBSET Workers]
ASSUME WorkersAssumption == IsFiniteSet(Workers)
ASSUME BoundAssumption == MaxStarts \in Nat /\ MaxDeaths \in Nat

VARIABLES
    config,      \* the environment of this start
    tables,      \* the tables that exist
    partitioned, \* login_history has partitions to insert into
    revision,    \* alembic_version names the head revision
    rows,        \* the seeds and accounts that are committed
    script,      \* where run_app.sh stands
    pc,          \* where each worker's lifespan stands
    seen,        \* the tables a worker's transaction has found
    looked,      \* and how many it has looked up
    swallowed,   \* auxiliary: seeds whose failed commit was only reported
    rebuilt,     \* auxiliary: workers dropped tables since Alembic made them
    starts, deaths

catalog == <<tables, partitioned, revision>>
vars == <<config, catalog, rows, script, pc, seen, looked, swallowed, rebuilt, starts, deaths>>

\* The order of ProjectBase.metadata, and the foreign keys.
TableOrder == <<"users", "roles", "login_history", "oauth_accounts">>
Tables == {TableOrder[i] : i \in DOMAIN TableOrder}
References(t) ==
    CASE t = "users" -> {"roles"}
      [] t = "roles" -> {}
      [] OTHER -> {"users"}

DefaultRole == "default_role"
Superuser == "superuser"
Seeds == {DefaultRole, Superuser}
ASSUME AccountAssumption == Accounts \cap Seeds = {}

\* A table takes its rows with it.
RowsOf(t) == CASE t = "users" -> {Superuser} \cup Accounts
               [] t = "roles" -> {DefaultRole}
               [] OTHER -> {}

Resetting == {"boot", "drop", "create", "find_superuser", "add_superuser",
              "find_role", "add_role"}
Running == {"migrate", "role", "superuser", "gunicorn"}

TypeOK ==
    /\ config \in Configs
    /\ tables \subseteq Tables
    /\ partitioned \in BOOLEAN /\ revision \in BOOLEAN /\ rebuilt \in BOOLEAN
    /\ rows \subseteq UNION {RowsOf(t) : t \in tables}
    /\ script \in {"down", "failed"} \cup Running
    /\ pc \in [Workers -> {"off", "serving", "boot_error"} \cup Resetting]
    /\ seen \in [Workers -> SUBSET Tables]
    /\ looked \in [Workers -> 0..Len(TableOrder)]
    /\ swallowed \subseteq Seeds
    /\ starts \in 0..MaxStarts /\ deaths \in 0..MaxDeaths

\* A database nobody has used.
Init ==
    /\ config \in Configs
    /\ tables = {} /\ partitioned = FALSE /\ revision = FALSE
    /\ rows = {}
    /\ script = "down"
    /\ pc = [w \in Workers |-> "off"]
    /\ seen = [w \in Workers |-> {}]
    /\ looked = [w \in Workers |-> 0]
    /\ swallowed = {}
    /\ rebuilt = FALSE
    /\ starts = 0 /\ deaths = 0

-----------------------------------------------------------------------------
(* run_app.sh *)

Booting(c) == [w \in Workers |-> IF w \in c.workers THEN "boot" ELSE "off"]

\* Mutant: the migration forgotten.
StartUnmigrated(c) ==
    /\ script \in {"down", "failed"}
    /\ starts < MaxStarts
    /\ config' = c
    /\ starts' = starts + 1
    /\ swallowed' = {}
    /\ \/ c.app_mode = "dev" /\ script' = "gunicorn" /\ pc' = Booting(c)
       \/ c.app_mode # "dev" /\ script' = "role" /\ UNCHANGED pc
    /\ UNCHANGED <<catalog, rows, seen, looked, rebuilt, deaths>>

Start(c) ==
    /\ script \in {"down", "failed"}
    /\ starts < MaxStarts
    /\ config' = c
    /\ starts' = starts + 1
    /\ swallowed' = {}
    /\ \/ c.app_mode = "dev" /\ script' = "gunicorn" /\ pc' = Booting(c)
       \/ c.app_mode # "dev" /\ script' = "migrate" /\ UNCHANGED pc
    /\ UNCHANGED <<catalog, rows, seen, looked, rebuilt, deaths>>

\* Mutant: the first revision only.
MigrateInitialOnly ==
    /\ script = "migrate"
    /\ \/ revision /\ UNCHANGED <<catalog, rebuilt>>
       \/ /\ ~revision /\ tables = {}
          /\ tables' = Tables /\ partitioned' = FALSE /\ revision' = TRUE
          /\ rebuilt' = FALSE
    /\ script' = "role"
    /\ UNCHANGED <<config, rows, pc, seen, looked, swallowed, starts, deaths>>

\* alembic upgrade head: both revisions in one transaction, or an error when
\* a table is there already; set -e ends the script on it.
Migrate ==
    /\ script = "migrate"
    /\ \/ /\ revision
          /\ script' = "role"
          /\ UNCHANGED <<catalog, rebuilt>>
       \/ /\ ~revision /\ tables = {}
          /\ tables' = Tables /\ partitioned' = TRUE /\ revision' = TRUE
          /\ rebuilt' = FALSE
          /\ script' = "role"
       \/ /\ ~revision /\ tables # {}
          /\ script' = "failed"
          /\ UNCHANGED <<catalog, rebuilt>>
    /\ UNCHANGED <<config, rows, pc, seen, looked, swallowed, starts, deaths>>

\* Mutant: the table not needed.
SeedBlindly(seed, table) ==
    rows' = rows \cup {seed} /\ UNCHANGED swallowed

\* A command inserts its row unless it is there.  A failed commit is printed
\* and the command exits 0, so the script goes on; a failed SELECT ends it.
Seed(seed, table) ==
    /\ table \in tables
    /\ \/ rows' = rows \cup {seed} /\ UNCHANGED swallowed
       \/ seed \notin rows /\ swallowed' = swallowed \cup {seed} /\ UNCHANGED rows

CommandDefaultRole ==
    /\ script = "role"
    /\ \/ Seed(DefaultRole, "roles") /\ script' = "superuser"
       \/ "roles" \notin tables /\ script' = "failed" /\ UNCHANGED <<rows, swallowed>>
    /\ UNCHANGED <<config, catalog, pc, seen, looked, rebuilt, starts, deaths>>

\* Mutant: the last command forgotten.
CommandNothing ==
    /\ script = "superuser"
    /\ script' = "gunicorn"
    /\ pc' = Booting(config)
    /\ UNCHANGED <<config, catalog, rows, seen, looked, swallowed, rebuilt, starts, deaths>>

CommandSuperuser ==
    /\ script = "superuser"
    /\ \/ /\ Seed(Superuser, "users")
          /\ script' = "gunicorn"
          /\ pc' = Booting(config)
       \/ /\ "users" \notin tables
          /\ script' = "failed"
          /\ UNCHANGED <<rows, swallowed, pc>>
    /\ UNCHANGED <<config, catalog, seen, looked, rebuilt, starts, deaths>>

-----------------------------------------------------------------------------
(* The lifespan of a worker *)

Goto(w, next) == pc' = [pc EXCEPT ![w] = next]

\* Mutants: the setting ignored; workers that wait for one that serves.
LifespanResets(w) ==
    /\ pc[w] = "boot"
    /\ Goto(w, "drop")
    /\ UNCHANGED <<config, catalog, rows, script, seen, looked, swallowed, rebuilt, starts, deaths>>
LifespanWaits(w) ==
    /\ pc[w] = "boot"
    /\ \E v \in config.workers : pc[v] = "serving"
    /\ Goto(w, "serving")
    /\ UNCHANGED <<config, catalog, rows, script, seen, looked, swallowed, rebuilt, starts, deaths>>

Lifespan(w) ==
    /\ pc[w] = "boot"
    /\ Goto(w, IF config.reset THEN "drop" ELSE "serving")
    /\ UNCHANGED <<config, catalog, rows, script, seen, looked, swallowed, rebuilt, starts, deaths>>

\* checkfirst: one query of the catalog for each table.
Look(w) ==
    /\ pc[w] \in {"drop", "create"}
    /\ looked[w] < Len(TableOrder)
    /\ looked' = [looked EXCEPT ![w] = @ + 1]
    /\ seen' = [seen EXCEPT ![w] = @ \cup (tables \cap {TableOrder[looked[w] + 1]})]
    /\ UNCHANGED <<config, catalog, rows, script, pc, swallowed, rebuilt, starts, deaths>>

Forget(w) == seen' = [seen EXCEPT ![w] = {}] /\ looked' = [looked EXCEPT ![w] = 0]

\* drop_all of the tables found: all or, when one is gone by now or another
\* one still refers to it, none.
DropAllTables(w) ==
    /\ pc[w] = "drop"
    /\ looked[w] = Len(TableOrder)
    /\ Forget(w)
    /\ \/ /\ seen[w] \subseteq tables
          /\ \A t \in tables \ seen[w] : References(t) \cap seen[w] = {}
          /\ tables' = tables \ seen[w]
          /\ partitioned' = (partitioned /\ "login_history" \notin seen[w])
          /\ rows' = rows \ UNION {RowsOf(t) : t \in seen[w]}
          /\ rebuilt' = TRUE
          /\ Goto(w, "create")
       \/ /\ \/ ~(seen[w] \subseteq tables)
             \/ \E t \in tables \ seen[w] : References(t) \cap seen[w] # {}
          /\ Goto(w, "boot_error")
          /\ UNCHANGED <<tables, partitioned, rows, rebuilt>>
    /\ UNCHANGED <<config, revision, script, swallowed, starts, deaths>>

\* create_all of the tables missed, without partitions.
CreateAllTables(w) ==
    LET missed == Tables \ seen[w]
        fits   == /\ missed \cap tables = {}
                  /\ \A t \in missed : References(t) \subseteq tables \cup missed
    IN  /\ pc[w] = "create"
        /\ looked[w] = Len(TableOrder)
        /\ Forget(w)
        /\ \/ fits /\ tables' = tables \cup missed /\ Goto(w, "find_superuser")
           \/ ~fits /\ Goto(w, "boot_error") /\ UNCHANGED tables
        /\ UNCHANGED <<config, partitioned, revision, rows, script, swallowed,
                       rebuilt, starts, deaths>>

FindSuperuser(w) ==
    /\ pc[w] = "find_superuser"
    /\ Goto(w, IF "users" \notin tables THEN "boot_error"
               ELSE IF Superuser \in rows THEN "find_role" ELSE "add_superuser")
    /\ UNCHANGED <<config, catalog, rows, script, seen, looked, swallowed, rebuilt, starts, deaths>>

\* A failed commit, a duplicate email or a missing table included, is a warning.
AddSuperuser(w) ==
    /\ pc[w] = "add_superuser"
    /\ Goto(w, "find_role")
    /\ \/ "users" \in tables /\ rows' = rows \cup {Superuser} /\ UNCHANGED swallowed
       \/ swallowed' = swallowed \cup ({Superuser} \ rows) /\ UNCHANGED rows
    /\ UNCHANGED <<config, catalog, script, seen, looked, rebuilt, starts, deaths>>

FindDefaultRole(w) ==
    /\ pc[w] = "find_role"
    /\ Goto(w, IF "roles" \notin tables THEN "boot_error"
               ELSE IF DefaultRole \in rows THEN "serving" ELSE "add_role")
    /\ UNCHANGED <<config, catalog, rows, script, seen, looked, swallowed, rebuilt, starts, deaths>>

\* A duplicate title or a missing table is an exception of the lifespan.
AddDefaultRole(w) ==
    /\ pc[w] = "add_role"
    /\ \/ /\ "roles" \in tables /\ DefaultRole \notin rows
          /\ rows' = rows \cup {DefaultRole}
          /\ Goto(w, "serving")
       \/ /\ "roles" \notin tables \/ DefaultRole \in rows
          /\ Goto(w, "boot_error")
          /\ UNCHANGED rows
    /\ UNCHANGED <<config, catalog, script, seen, looked, swallowed, rebuilt, starts, deaths>>

\* A registration, which makes the default role when there is none.
Register(w, a) ==
    /\ pc[w] = "serving"
    /\ {"users", "roles"} \subseteq tables
    /\ rows' = rows \cup {a, DefaultRole}
    /\ UNCHANGED <<config, catalog, script, pc, seen, looked, swallowed, rebuilt, starts, deaths>>

-----------------------------------------------------------------------------
(* The environment *)

\* A worker whose lifespan failed makes the gunicorn master stop them all.
Halt ==
    /\ \E w \in Workers : pc[w] = "boot_error"
    /\ script' = "failed"
    /\ pc' = [w \in Workers |-> "off"]
    /\ seen' = [w \in Workers |-> {}] /\ looked' = [w \in Workers |-> 0]
    /\ UNCHANGED <<config, catalog, rows, swallowed, rebuilt, starts, deaths>>

\* The container is stopped or killed, or loses its database while starting.
Crash ==
    /\ script \in Running
    /\ script' = "down"
    /\ pc' = [w \in Workers |-> "off"]
    /\ seen' = [w \in Workers |-> {}] /\ looked' = [w \in Workers |-> 0]
    /\ UNCHANGED <<config, catalog, rows, swallowed, rebuilt, starts, deaths>>

\* gunicorn replaces a worker that died.
Respawn(w) ==
    /\ pc[w] \in {"serving"} \cup Resetting
    /\ deaths < MaxDeaths
    /\ deaths' = deaths + 1
    /\ Goto(w, "boot")
    /\ Forget(w)
    /\ UNCHANGED <<config, catalog, rows, script, swallowed, rebuilt, starts>>

-----------------------------------------------------------------------------

ScriptStep == Migrate \/ CommandDefaultRole \/ CommandSuperuser \/ Halt

WorkerStep(w) ==
    \/ Lifespan(w) \/ Look(w) \/ DropAllTables(w) \/ CreateAllTables(w)
    \/ FindSuperuser(w) \/ AddSuperuser(w) \/ FindDefaultRole(w) \/ AddDefaultRole(w)

Next ==
    \/ \E c \in Configs : Start(c)
    \/ ScriptStep
    \/ \E w \in Workers : WorkerStep(w) \/ Respawn(w) \/ \E a \in Accounts : Register(w, a)
    \/ Crash

Spec == Init /\ [][Next]_vars

\* The script and the workers run; nobody need restart, register or crash.
FairSpec == Spec /\ WF_vars(ScriptStep) /\ \A w \in Workers : WF_vars(WorkerStep(w))

-----------------------------------------------------------------------------
(* Properties *)

\* A worker that serves finds every table, and every seed whose commit was not
\* reported to have failed, however often the container was started and died
\* before, with whatever settings.  Tables are missing only after a reset that
\* was cut short, anything is missing only while another worker of the same
\* start still resets the database or has failed to (main.py:36-47,
\* run_app.sh:4-10).
OthersReset == config.reset /\ \E v \in Workers : pc[v] \in Resetting \cup {"boot_error"}

ServingIsSeeded ==
    /\ \E w \in Workers : pc[w] = "serving"
    /\ config.reset \/ config.app_mode # "dev"
    => \/ OthersReset
       \/ /\ Seeds \subseteq rows \cup swallowed
          /\ tables = Tables \/ (rebuilt /\ ~config.reset)

\* A start fails only where workers have dropped the tables that Alembic made or
\* would make, and a lifespan only beside another one: a worker that resets
\* alone succeeds, whatever earlier starts left behind (env.py:80-87,
\* helpers.py:29-36).
FailureHasCause ==
    /\ script = "failed" => rebuilt
    /\ \A w \in Workers :
         pc[w] = "boot_error" => config.reset /\ Cardinality(config.workers) > 1

\* The login history of a migrated database can be written until some worker
\* drops the tables: the revision is not applied again to those made from the
\* models, which have no partitions (0002:24-35, models.py:96, helpers.py:34-36).
HistoryIsWritable ==
    /\ script = "gunicorn" /\ config.app_mode # "dev" /\ ~rebuilt => partitioned
    /\ rebuilt /\ revision /\ "login_history" \in tables => ~partitioned

\* Registered accounts and seeds survive every start, crash and restart in which
\* no reset is asked for.
RowsAreKept == [][ ~config.reset => rows \subseteq rows' ]_vars

\* Every start comes to an end: all its workers serve, or it has failed or was
\* stopped.
StartEnds ==
    script \in Running ~>
        \/ script \notin Running
        \/ \A w \in config.workers : pc[w] = "serving"

=============================================================================
