--------------------------- MODULE BootstrapProofs ---------------------------
(***************************************************************************)
(* What holds of the start of the service for any number of workers, any   *)
(* environments and any number of starts, crashes and deaths: types, that  *)
(* rows survive without a reset, what a failed start or lifespan is due    *)
(* to, when the login history can be written, and that a worker that       *)
(* serves finds tables and seeds.                                          *)
(***************************************************************************)
EXTENDS Bootstrap, FiniteSetTheorems, TLAPS

(* Types, and what the script and the workers can rely on *)

\* The workers run only under gunicorn.
ScriptBeforeWorkers == script # "gunicorn" => \A w \in Workers : pc[w] = "off"

\* A worker that runs was asked for, and one past its boot was told to reset.
ByTheConfig ==
    \A w \in Workers :
        /\ pc[w] # "off" => w \in config.workers
        /\ pc[w] \in (Resetting \cup {"boot_error"}) \ {"boot"} => config.reset

\* What a worker saw is forgotten at the end of each transaction.
LooksAreShort ==
    \A w \in Workers : pc[w] \notin {"drop", "create"} => seen[w] = {} /\ looked[w] = 0

Base == TypeOK /\ ScriptBeforeWorkers /\ ByTheConfig /\ LooksAreShort

LEMMA TableFacts ==
    /\ Tables = {"users", "roles", "login_history", "oauth_accounts"}
    /\ Len(TableOrder) = 4
    /\ \A i \in 1..4 : TableOrder[i] \in Tables
  BY DEF Tables, TableOrder

LEMMA RowFacts ==
    /\ \A a \in {Superuser} \cup Accounts : a \in RowsOf("users")
    /\ DefaultRole \in RowsOf("roles")
  BY DEF RowsOf

\* Rows outlive a change of the tables that keeps their own.
LEMMA RowsOfMore ==
    ASSUME NEW S, NEW T, S \subseteq T
    PROVE  UNION {RowsOf(t) : t \in S} \subseteq UNION {RowsOf(t) : t \in T}
  OBVIOUS

LEMMA RowsOfLess ==
    ASSUME NEW S, NEW T, NEW R, R \subseteq UNION {RowsOf(t) : t \in S}
    PROVE  R \ UNION {RowsOf(t) : t \in T} \subseteq UNION {RowsOf(t) : t \in S \ T}
  OBVIOUS

LEMMA ConfigFacts ==
    ASSUME NEW c \in Configs
    PROVE  c.app_mode \in {"prod", "dev"} /\ c.reset \in BOOLEAN /\ c.workers \in SUBSET Workers
  BY ConfigAssumption

\* The service starts from a database nobody has used.
LEMMA BaseInit == Init => Base
<1> SUFFICES ASSUME Init PROVE Base
  OBVIOUS
<1>1. starts \in 0..MaxStarts /\ deaths \in 0..MaxDeaths
  BY BoundAssumption DEF Init
<1>2. looked \in [Workers -> 0..Len(TableOrder)] /\ seen \in [Workers -> SUBSET Tables]
  BY TableFacts DEF Init
<1>3. rows \subseteq UNION {RowsOf(t) : t \in tables}
  BY DEF Init
<1>4. TypeOK
  BY <1>1, <1>2, <1>3 DEF Init, TypeOK, Resetting, Running
<1>5. ScriptBeforeWorkers /\ ByTheConfig /\ LooksAreShort
  BY DEF Init, ScriptBeforeWorkers, ByTheConfig, LooksAreShort, Resetting
<1> QED
  BY <1>4, <1>5 DEF Base

\* Every step keeps the types and the order of script and workers.
LEMMA BaseStep == ASSUME Base, [Next]_vars PROVE Base'
<1> USE BoundAssumption, TableFacts, ConfigFacts
    DEF Base, TypeOK, ScriptBeforeWorkers, ByTheConfig, LooksAreShort, Resetting, Running,
        catalog, Goto, Forget
<1>1. ASSUME NEW c \in Configs, Start(c) PROVE Base'
  BY <1>1 DEF Start, Booting
<1>2. CASE Migrate
  BY <1>2, RowsOfMore DEF Migrate
<1>3. CASE CommandDefaultRole
  BY <1>3, RowFacts DEF CommandDefaultRole, Seed, Seeds
<1>4. CASE CommandSuperuser
  BY <1>4, RowFacts DEF CommandSuperuser, Seed, Seeds, Booting
<1>5. CASE Halt
  BY <1>5 DEF Halt
<1>6. ASSUME NEW w \in Workers, Lifespan(w) PROVE Base'
  BY <1>6 DEF Lifespan
<1>7. ASSUME NEW w \in Workers, Look(w) PROVE Base'
  BY <1>7 DEF Look
<1>8. ASSUME NEW w \in Workers, DropAllTables(w) PROVE Base'
  <2>1. rows' \subseteq UNION {RowsOf(t) : t \in tables'}
    BY <1>8, RowsOfLess DEF DropAllTables
  <2>2. tables' \subseteq Tables /\ partitioned' \in BOOLEAN /\ rebuilt' \in BOOLEAN
    BY <1>8 DEF DropAllTables
  <2>3. pc'[w] \in {"create", "boot_error"} /\ \A v \in Workers \ {w} : pc'[v] = pc[v]
    BY <1>8 DEF DropAllTables
  <2>4. /\ pc' \in [Workers -> {"off", "serving", "boot_error"} \cup Resetting]
        /\ seen' \in [Workers -> SUBSET Tables] /\ looked' \in [Workers -> 0..Len(TableOrder)]
    BY <1>8 DEF DropAllTables
  <2>5. script' = script /\ config' = config /\ pc[w] = "drop"
    BY <1>8 DEF DropAllTables
  <2>6. LooksAreShort' /\ ByTheConfig' /\ ScriptBeforeWorkers'
    BY <1>8, <2>3, <2>5 DEF DropAllTables
  <2> QED
    BY <1>8, <2>1, <2>2, <2>4, <2>5, <2>6 DEF DropAllTables
<1>9. ASSUME NEW w \in Workers, CreateAllTables(w) PROVE Base'
  <2>1. tables \subseteq tables' /\ tables' \subseteq Tables /\ rows' = rows
    BY <1>9 DEF CreateAllTables
  <2>2. rows' \subseteq UNION {RowsOf(t) : t \in tables'}
    BY <2>1, RowsOfMore
  <2> QED
    BY <1>9, <2>1, <2>2 DEF CreateAllTables
<1>10. ASSUME NEW w \in Workers, FindSuperuser(w) PROVE Base'
  BY <1>10 DEF FindSuperuser
<1>11. ASSUME NEW w \in Workers, AddSuperuser(w) PROVE Base'
  BY <1>11, RowFacts DEF AddSuperuser, Seeds
<1>12. ASSUME NEW w \in Workers, FindDefaultRole(w) PROVE Base'
  BY <1>12 DEF FindDefaultRole
<1>13. ASSUME NEW w \in Workers, AddDefaultRole(w) PROVE Base'
  BY <1>13, RowFacts DEF AddDefaultRole
<1>14. ASSUME NEW w \in Workers, NEW a \in Accounts, Register(w, a) PROVE Base'
  BY <1>14, RowFacts DEF Register
<1>15. CASE Crash
  BY <1>15 DEF Crash
<1>16. ASSUME NEW w \in Workers, Respawn(w) PROVE Base'
  BY <1>16 DEF Respawn
<1>17. CASE UNCHANGED vars
  BY <1>17 DEF vars
<1> QED
  BY <1>1, <1>2, <1>3, <1>4, <1>5, <1>6, <1>7, <1>8, <1>9, <1>10, <1>11, <1>12, <1>13,
     <1>14, <1>15, <1>16, <1>17
     DEF Next, ScriptStep, WorkerStep

\* The variables of the start keep their types (run_app.sh, main.py, helpers.py).
THEOREM BootstrapTypeCorrect == Spec => []TypeOK
<1>1. Base => TypeOK
  BY DEF Base
<1> QED
  BY <1>1, BaseInit, BaseStep, PTL DEF Spec

-----------------------------------------------------------------------------
(* What is committed stays without a reset *)

\* Only a reset deletes rows: accounts and seeds survive every start, crash and
\* restart in which none is asked for (main.py:36-47, helpers.py:29-36).
THEOREM RowsAreKeptHolds == Spec => RowsAreKept
<1>1. ASSUME Base, [Next]_vars, ~config.reset PROVE rows \subseteq rows'
  <2>1. ASSUME NEW w \in Workers, DropAllTables(w) PROVE FALSE
    BY <1>1, <2>1 DEF DropAllTables, Base, ByTheConfig, Resetting
  <2> QED
    BY <1>1, <2>1 DEF Next, ScriptStep, WorkerStep, vars, catalog, Start, Migrate,
       CommandDefaultRole, CommandSuperuser, Seed, Halt, Lifespan, Look, CreateAllTables,
       FindSuperuser, AddSuperuser, FindDefaultRole, AddDefaultRole, Register, Crash, Respawn
<1> QED
  BY <1>1, BaseInit, BaseStep, PTL DEF Spec, RowsAreKept

-----------------------------------------------------------------------------
(* What failures are due to, and when the history can be written *)

\* Until workers drop something the tables are those of Alembic, all with their
\* partitions or none at all; what create_all makes has no partitions.
CatalogIsExplained ==
    /\ ~rebuilt => tables = IF revision THEN Tables ELSE {}
    /\ ~rebuilt /\ revision => partitioned
    /\ partitioned => revision /\ "login_history" \in tables
    /\ rebuilt /\ revision /\ "login_history" \in tables => ~partitioned

\* The script seeds and serves what it has migrated.
ScriptMigrates ==
    \/ script \in {"role", "superuser"}
    \/ script = "gunicorn" /\ config.app_mode # "dev"
    => revision

Rebuilding == {"create", "find_superuser", "add_superuser", "find_role", "add_role"}

Alone(w) == config.workers = {w}

\* A worker comes past its drop, or fails, only once something was dropped; if it
\* is alone it does not fail.
ResetIsExplained ==
    \A w \in Workers :
        /\ pc[w] \in Rebuilding \cup {"boot_error"} => rebuilt
        /\ Alone(w) =>
              /\ pc[w] # "boot_error"
              /\ pc[w] \in Rebuilding \ {"create"} => tables = Tables
              /\ pc[w] = "add_role" => DefaultRole \notin rows

\* What a worker has seen is still there as long as no other one could drop it.
LooksAreTrue ==
    \A w \in Workers :
        \/ pc[w] = "drop" /\ (~rebuilt \/ Alone(w))
        \/ pc[w] = "create" /\ Alone(w)
        => seen[w] = {t \in tables : \E i \in 1..looked[w] : t = TableOrder[i]}

CauseInv ==
    /\ CatalogIsExplained /\ ScriptMigrates /\ ResetIsExplained /\ LooksAreTrue
    /\ script = "failed" => rebuilt

\* Steps of the script.
LEMMA CauseScript ==
    ASSUME Base, CauseInv,
           \/ \E c \in Configs : Start(c)
           \/ Migrate \/ CommandDefaultRole \/ CommandSuperuser \/ Halt \/ Crash
    PROVE  CauseInv'
<1> USE TableFacts, ConfigFacts
    DEF Base, TypeOK, ScriptBeforeWorkers, ByTheConfig, CauseInv, CatalogIsExplained,
        ScriptMigrates, ResetIsExplained, LooksAreTrue, Rebuilding, Resetting, Running, Alone, catalog
<1>1. ASSUME NEW c \in Configs, Start(c) PROVE CauseInv'
  BY <1>1 DEF Start, Booting
<1>2. CASE Migrate
  <2>1. \A w \in Workers : pc'[w] = "off"
    BY <1>2 DEF Migrate
  <2>2. ResetIsExplained' /\ LooksAreTrue'
    BY <2>1
  <2>3. CatalogIsExplained'
    <3>1. CASE ~revision /\ tables = {}
      BY <1>2, <3>1 DEF Migrate
    <3>2. CASE revision \/ tables # {}
      <4>1. UNCHANGED <<tables, partitioned, revision, rebuilt>>
        BY <1>2, <3>2 DEF Migrate
      <4> QED
        BY <4>1
    <3> QED
      BY <3>1, <3>2
  <2>4. ScriptMigrates' /\ (script' = "failed" => rebuilt')
    BY <1>2 DEF Migrate
  <2> QED
    BY <2>2, <2>3, <2>4
<1>3. CASE CommandDefaultRole
  BY <1>3 DEF CommandDefaultRole, Seed
<1>4. CASE CommandSuperuser
  BY <1>4 DEF CommandSuperuser, Seed, Booting
<1>5. CASE Halt
  BY <1>5 DEF Halt
<1>6. CASE Crash
  BY <1>6 DEF Crash
<1> QED
  BY <1>1, <1>2, <1>3, <1>4, <1>5, <1>6

\* A look adds the next table, if it is there.
LEMMA LookIsTrue ==
    ASSUME Base, CauseInv, NEW w \in Workers, Look(w) PROVE LooksAreTrue'
<1> USE TableFacts DEF Base, TypeOK, Look, catalog, Alone
<1> SUFFICES ASSUME NEW v \in Workers,
                    \/ pc[v] = "drop" /\ (~rebuilt \/ Alone(v))
                    \/ pc[v] = "create" /\ Alone(v)
             PROVE  seen'[v] = {t \in tables : \E i \in 1..looked'[v] : t = TableOrder[i]}
  BY DEF LooksAreTrue
<1>1. seen[v] = {t \in tables : \E i \in 1..looked[v] : t = TableOrder[i]}
  BY DEF CauseInv, LooksAreTrue
<1>2. CASE v # w
  BY <1>1, <1>2
<1>3. CASE v = w
  <2>1. looked'[v] = looked[v] + 1 /\ looked[v] \in Nat
    BY <1>3
  <2>2. seen'[v] = seen[v] \cup (tables \cap {TableOrder[looked[v] + 1]})
    BY <1>3
  <2>3. \A i \in 1..looked'[v] : i \in 1..looked[v] \/ i = looked[v] + 1
    BY <2>1
  <2>4. 1..looked[v] \subseteq 1..looked'[v] /\ looked[v] + 1 \in 1..looked'[v]
    BY <2>1
  <2> QED
    BY <1>1, <2>2, <2>3, <2>4
<1> QED
  BY <1>2, <1>3

\* A worker that has looked at all the tables, undisturbed, has seen them all.
LEMMA AllLookedAt ==
    ASSUME Base, LooksAreTrue, NEW w \in Workers, looked[w] = Len(TableOrder),
           \/ pc[w] = "drop" /\ (~rebuilt \/ Alone(w))
           \/ pc[w] = "create" /\ Alone(w)
    PROVE  seen[w] = tables
<1>1. \A t \in Tables : \E i \in 1..4 : t = TableOrder[i]
  BY DEF Tables, TableOrder
<1>2. \A t \in tables : \E i \in 1..looked[w] : t = TableOrder[i]
  BY <1>1, TableFacts DEF Base, TypeOK
<1>3. seen[w] = {t \in tables : \E i \in 1..looked[w] : t = TableOrder[i]}
  BY DEF LooksAreTrue
<1> QED
  BY <1>2, <1>3

\* What a worker that drops or creates has seen, if nobody disturbed it.
LEMMA SeenIsThere ==
    ASSUME Base, LooksAreTrue, NEW w \in Workers
    PROVE  /\ DropAllTables(w) /\ (~rebuilt \/ Alone(w)) => seen[w] = tables
           /\ CreateAllTables(w) /\ Alone(w) => seen[w] = tables
<1>1. ASSUME DropAllTables(w), ~rebuilt \/ Alone(w) PROVE seen[w] = tables
  <2>1. pc[w] = "drop" /\ looked[w] = Len(TableOrder)
    BY <1>1 DEF DropAllTables
  <2> QED
    BY <1>1, <2>1, AllLookedAt
<1>2. ASSUME CreateAllTables(w), Alone(w) PROVE seen[w] = tables
  <2>1. pc[w] = "create" /\ looked[w] = Len(TableOrder)
    BY <1>2 DEF CreateAllTables
  <2> QED
    BY <1>2, <2>1, AllLookedAt
<1> QED
  BY <1>1, <1>2

\* A drop or a creation by a worker that nobody disturbed succeeds.
LEMMA CauseReset ==
    ASSUME Base, CauseInv, NEW w \in Workers, DropAllTables(w) \/ CreateAllTables(w)
    PROVE  CauseInv'
<1>0. /\ DropAllTables(w) /\ (~rebuilt \/ Alone(w)) => seen[w] = tables
      /\ CreateAllTables(w) /\ Alone(w) => seen[w] = tables
  BY SeenIsThere DEF CauseInv
<1> USE TableFacts
    DEF Base, TypeOK, ByTheConfig, CauseInv, CatalogIsExplained, ScriptMigrates,
        ResetIsExplained, LooksAreTrue, Rebuilding, Resetting, Alone, Goto, Forget
<1>1. \A v \in Workers \ {w} : ~Alone(v)
  <2>1. pc[w] # "off"
    BY DEF DropAllTables, CreateAllTables
  <2> QED
    BY <2>1
<1>2. CASE DropAllTables(w)
  <2>1. ~rebuilt \/ Alone(w) => seen[w] = tables
    BY <1>2, <1>0
  <2>2. rebuilt' /\ (Alone(w) => pc'[w] = "create")
    BY <1>2, <2>1 DEF DropAllTables
  <2>3. CatalogIsExplained'
    <3>1. CASE pc'[w] = "boot_error"
      <4>1. UNCHANGED <<tables, partitioned, revision, rebuilt>>
        BY <1>2, <3>1 DEF DropAllTables
      <4> QED
        BY <4>1
    <3>2. CASE pc'[w] # "boot_error"
      <4>1. /\ tables' = tables \ seen[w] /\ revision' = revision
            /\ partitioned' = (partitioned /\ "login_history" \notin seen[w])
        BY <1>2, <3>2 DEF DropAllTables
      <4> QED
        BY <2>1, <2>2, <4>1
    <3> QED
      BY <3>1, <3>2
  <2>4. ResetIsExplained'
    BY <1>1, <1>2, <2>2 DEF DropAllTables
  <2>5. LooksAreTrue'
    BY <1>1, <1>2, <2>2 DEF DropAllTables
  <2> QED
    BY <1>2, <2>2, <2>3, <2>4, <2>5 DEF DropAllTables
<1>3. CASE CreateAllTables(w)
  <2>1. Alone(w) => seen[w] = tables
    BY <1>3, <1>0
  <2>2. rebuilt /\ rebuilt' /\ (Alone(w) => pc'[w] = "find_superuser" /\ tables' = Tables)
    BY <1>3, <2>1 DEF CreateAllTables, References
  <2>3. CatalogIsExplained'
    BY <1>3, <2>2 DEF CreateAllTables
  <2>4. ResetIsExplained'
    BY <1>1, <1>3, <2>2 DEF CreateAllTables
  <2>5. LooksAreTrue'
    BY <1>1, <1>3, <2>2 DEF CreateAllTables
  <2> QED
    BY <1>3, <2>2, <2>3, <2>4, <2>5 DEF CreateAllTables
<1> QED
  BY <1>2, <1>3

\* The other steps of a worker.
LEMMA CauseWorker ==
    ASSUME Base, CauseInv, NEW w \in Workers,
           \/ Lifespan(w) \/ Look(w) \/ FindSuperuser(w) \/ AddSuperuser(w)
           \/ FindDefaultRole(w) \/ AddDefaultRole(w)
           \/ Respawn(w) \/ \E a \in Accounts : Register(w, a)
    PROVE  CauseInv'
<1> USE TableFacts
    DEF Base, TypeOK, ByTheConfig, LooksAreShort, CauseInv, CatalogIsExplained, ScriptMigrates,
        ResetIsExplained, LooksAreTrue, Rebuilding, Resetting, Alone, Goto, catalog
<1>1. CASE Lifespan(w)
  BY <1>1 DEF Lifespan
<1>2. CASE Look(w)
  BY <1>2, LookIsTrue DEF Look
<1>3. CASE FindSuperuser(w) \/ AddSuperuser(w)
  BY <1>3 DEF FindSuperuser, AddSuperuser, Superuser, DefaultRole
<1>4. CASE FindDefaultRole(w)
  BY <1>4 DEF FindDefaultRole
<1>5. CASE AddDefaultRole(w)
  BY <1>5 DEF AddDefaultRole
<1>6. CASE Respawn(w)
  BY <1>6 DEF Respawn, Forget
<1>7. ASSUME NEW a \in Accounts, Register(w, a) PROVE CauseInv'
  BY <1>7 DEF Register
<1> QED
  BY <1>1, <1>2, <1>3, <1>4, <1>5, <1>6, <1>7

LEMMA CauseStep == ASSUME Base, CauseInv, [Next]_vars PROVE CauseInv'
<1>1. CASE UNCHANGED vars
  BY <1>1 DEF vars, catalog, CauseInv, CatalogIsExplained, ScriptMigrates, ResetIsExplained,
     LooksAreTrue, Alone
<1> QED
  BY <1>1, CauseScript, CauseReset, CauseWorker DEF Next, ScriptStep, WorkerStep

LEMMA CauseInit == Init => CauseInv
  BY DEF Init, CauseInv, CatalogIsExplained, ScriptMigrates, ResetIsExplained, LooksAreTrue,
     Rebuilding

\* A start fails only where workers dropped the tables of Alembic, and a lifespan
\* only beside another one (env.py:80-87, helpers.py:29-36).
THEOREM FailureHasCauseHolds == Spec => []FailureHasCause
<1>1. ASSUME Base, CauseInv PROVE FailureHasCause
  <2>1. ASSUME NEW w \in Workers, pc[w] = "boot_error"
        PROVE  config.reset /\ Cardinality(config.workers) > 1
    <3>1. config.reset /\ w \in config.workers /\ config.workers # {w}
      BY <1>1, <2>1 DEF Base, ByTheConfig, CauseInv, ResetIsExplained, Alone
    <3>2. IsFiniteSet(config.workers)
      BY <1>1, WorkersAssumption, ConfigFacts, FS_Subset DEF Base, TypeOK
    <3>3. PICK v \in config.workers : v # w
      BY <3>1
    <3>4. IsFiniteSet({w, v}) /\ Cardinality({w, v}) = 2
      <4>1. IsFiniteSet({w}) /\ Cardinality({w}) = 1
        BY FS_Singleton
      <4>2. IsFiniteSet({w} \cup {v}) /\ Cardinality({w} \cup {v}) = 2
        BY <3>3, <4>1, v \notin {w}, FS_AddElement, 1 + 1 = 2
      <4>3. {w} \cup {v} = {w, v}
        OBVIOUS
      <4> QED
        BY <4>2, <4>3
    <3>5. 2 <= Cardinality(config.workers) /\ Cardinality(config.workers) \in Nat
      BY <3>1, <3>2, <3>3, <3>4, FS_Subset, FS_CardinalityType
    <3> QED
      BY <3>1, <3>5
  <2> QED
    BY <1>1, <2>1 DEF CauseInv, FailureHasCause
<1> QED
  BY <1>1, BaseInit, BaseStep, CauseInit, CauseStep, PTL DEF Spec

\* A migrated database takes login history until a worker drops the tables; those
\* that workers make do not (0002:24-35, models.py:96, helpers.py:34-36).
THEOREM HistoryIsWritableHolds == Spec => []HistoryIsWritable
<1>1. CauseInv => HistoryIsWritable
  BY DEF CauseInv, CatalogIsExplained, ScriptMigrates, HistoryIsWritable
<1> QED
  BY <1>1, BaseInit, BaseStep, CauseInit, CauseStep, PTL DEF Spec

-----------------------------------------------------------------------------
(* Serving workers find what they need *)

\* In a resetting start, whatever is missing is still to be made by a worker, or
\* one has failed.
TablesAreComing ==
    tables # Tables =>
        \E v \in Workers :
            \/ pc[v] \in {"boot", "drop", "boot_error"}
            \/ pc[v] = "create" /\ seen[v] \subseteq tables

SuperuserIsComing ==
    Superuser \notin rows \cup swallowed =>
        \E v \in Workers :
            pc[v] \in {"boot", "drop", "boot_error", "create", "find_superuser", "add_superuser"}

DefaultRoleIsComing ==
    DefaultRole \notin rows \cup swallowed =>
        \E v \in Workers : pc[v] \in Resetting \cup {"boot_error"}

ResetIsComplete ==
    config.reset /\ (\E w \in Workers : pc[w] # "off") =>
        TablesAreComing /\ SuperuserIsComing /\ DefaultRoleIsComing

\* Without a reset the seeds are those of the script.
ScriptSeeds ==
    /\ script = "superuser" => DefaultRole \in rows \cup swallowed
    /\ script = "gunicorn" /\ config.app_mode # "dev" /\ ~config.reset
         => Seeds \subseteq rows \cup swallowed

SeedInv == ResetIsComplete /\ ScriptSeeds

\* Steps of the script: gunicorn boots every worker anew, nothing runs otherwise.
LEMMA SeedScript ==
    ASSUME Base, SeedInv,
           \/ \E c \in Configs : Start(c)
           \/ Migrate \/ CommandDefaultRole \/ CommandSuperuser \/ Halt \/ Crash
    PROVE  SeedInv'
<1> USE ConfigFacts
    DEF Base, TypeOK, ScriptBeforeWorkers, SeedInv, ResetIsComplete, TablesAreComing,
        SuperuserIsComing, DefaultRoleIsComing, ScriptSeeds, Seeds, Resetting, Running
<1>1. ASSUME NEW c \in Configs, Start(c) PROVE SeedInv'
  BY <1>1 DEF Start, Booting
<1>2. CASE Migrate
  BY <1>2 DEF Migrate
<1>3. CASE CommandDefaultRole
  BY <1>3 DEF CommandDefaultRole, Seed
<1>4. CASE CommandSuperuser
  BY <1>4 DEF CommandSuperuser, Seed, Booting
<1>5. CASE Halt
  BY <1>5 DEF Halt
<1>6. CASE Crash
  BY <1>6 DEF Crash
<1> QED
  BY <1>1, <1>2, <1>3, <1>4, <1>5, <1>6

\* Who drops tables is about to create them.
LEMMA SeedDrop ==
    ASSUME Base, SeedInv, NEW w \in Workers, DropAllTables(w) PROVE SeedInv'
<1> USE DEF Base, TypeOK, ScriptBeforeWorkers, ByTheConfig, Resetting
<1>1. config.reset /\ config' = config /\ script' = script /\ script = "gunicorn"
  BY DEF DropAllTables
<1>2. \/ pc'[w] = "boot_error"
      \/ pc'[w] = "create" /\ seen'[w] = {}
  BY DEF DropAllTables, Goto, Forget
<1>3. TablesAreComing' /\ SuperuserIsComing' /\ DefaultRoleIsComing'
  BY <1>2 DEF TablesAreComing, SuperuserIsComing, DefaultRoleIsComing
<1> QED
  BY <1>1, <1>3 DEF SeedInv, ResetIsComplete, ScriptSeeds

\* Who creates the tables it missed makes them all, if those it saw are there.
LEMMA SeedCreate ==
    ASSUME Base, SeedInv, NEW w \in Workers, CreateAllTables(w) PROVE SeedInv'
<1> USE DEF Base, TypeOK, ScriptBeforeWorkers, ByTheConfig, Resetting
<1>1. /\ config.reset /\ config' = config /\ script' = script /\ script = "gunicorn"
      /\ rows' = rows /\ swallowed' = swallowed
  BY DEF CreateAllTables
<1>2. pc'[w] \in {"boot_error", "find_superuser"} /\ \A v \in Workers \ {w} : pc'[v] = pc[v]
  BY DEF CreateAllTables, Goto
<1>3. SuperuserIsComing' /\ DefaultRoleIsComing'
  BY <1>2 DEF SuperuserIsComing, DefaultRoleIsComing
<1>4. TablesAreComing'
  <2>1. CASE pc'[w] = "boot_error"
    BY <2>1 DEF TablesAreComing
  <2>2. CASE pc'[w] # "boot_error"
    <3>1. /\ tables' = tables \cup (Tables \ seen[w])
          /\ \A v \in Workers \ {w} : seen'[v] = seen[v] /\ pc'[v] = pc[v]
      BY <2>2 DEF CreateAllTables, Goto, Forget
    <3>2. TablesAreComing
      BY <1>1 DEF SeedInv, ResetIsComplete, CreateAllTables
    <3>3. CASE seen[w] \subseteq tables
      BY <3>1, <3>3 DEF TablesAreComing
    <3>4. CASE ~(seen[w] \subseteq tables)
      <4>1. PICK v \in Workers :
              \/ pc[v] \in {"boot", "drop", "boot_error"}
              \/ pc[v] = "create" /\ seen[v] \subseteq tables
        BY <3>2, <3>4 DEF TablesAreComing
      <4>2. v # w
        BY <3>4, <4>1 DEF CreateAllTables
      <4> QED
        BY <3>1, <4>1, <4>2 DEF TablesAreComing
    <3> QED
      BY <3>3, <3>4
  <2> QED
    BY <2>1, <2>2
<1> QED
  BY <1>1, <1>3, <1>4 DEF SeedInv, ResetIsComplete, ScriptSeeds

\* The other steps of a worker make what is missing or leave it to others.
LEMMA SeedWorker ==
    ASSUME Base, SeedInv, NEW w \in Workers,
           \/ Lifespan(w) \/ Look(w) \/ FindSuperuser(w) \/ AddSuperuser(w)
           \/ FindDefaultRole(w) \/ AddDefaultRole(w)
           \/ Respawn(w) \/ \E a \in Accounts : Register(w, a)
    PROVE  SeedInv'
<1> USE DEF Base, TypeOK, ScriptBeforeWorkers, ByTheConfig, SeedInv, ResetIsComplete,
        TablesAreComing, SuperuserIsComing, DefaultRoleIsComing, ScriptSeeds, Resetting,
        Goto, catalog
<1>1. CASE Lifespan(w)
  BY <1>1 DEF Lifespan
<1>2. CASE Look(w)
  BY <1>2 DEF Look
<1>3. CASE FindSuperuser(w)
  BY <1>3 DEF FindSuperuser
<1>4. CASE AddSuperuser(w)
  BY <1>4 DEF AddSuperuser
<1>5. CASE FindDefaultRole(w)
  BY <1>5 DEF FindDefaultRole
<1>6. CASE AddDefaultRole(w)
  BY <1>6 DEF AddDefaultRole
<1>7. CASE Respawn(w)
  BY <1>7 DEF Respawn, Forget
<1>8. ASSUME NEW a \in Accounts, Register(w, a) PROVE SeedInv'
  BY <1>8 DEF Register
<1> QED
  BY <1>1, <1>2, <1>3, <1>4, <1>5, <1>6, <1>7, <1>8

LEMMA SeedStep == ASSUME Base, SeedInv, [Next]_vars PROVE SeedInv'
<1>1. CASE UNCHANGED vars
  BY <1>1 DEF vars, catalog, SeedInv, ResetIsComplete, TablesAreComing, SuperuserIsComing,
     DefaultRoleIsComing, ScriptSeeds
<1> QED
  BY <1>1, SeedScript, SeedDrop, SeedCreate, SeedWorker DEF Next, ScriptStep, WorkerStep

\* A worker serves with all tables and seeds unless another one of its start is
\* still at the reset or failed at it, a commit was reported to have failed, or
\* an earlier reset was cut short (main.py:36-47, run_app.sh:4-10).
THEOREM ServingIsSeededHolds == Spec => []ServingIsSeeded
<1>1. Init => SeedInv
  BY DEF Init, SeedInv, ResetIsComplete, ScriptSeeds
<1>2. ASSUME Base, CauseInv, SeedInv PROVE ServingIsSeeded
  <2> SUFFICES ASSUME NEW w \in Workers, pc[w] = "serving",
                      config.reset \/ config.app_mode # "dev",
                      ~OthersReset
               PROVE  /\ Seeds \subseteq rows \cup swallowed
                      /\ tables = Tables \/ (rebuilt /\ ~config.reset)
    BY DEF ServingIsSeeded
  <2>1. CASE config.reset
    <3>1. \A v \in Workers : pc[v] \notin Resetting \cup {"boot_error"}
      BY <2>1 DEF OthersReset
    <3>2. TablesAreComing /\ SuperuserIsComing /\ DefaultRoleIsComing
      BY <1>2, <2>1 DEF SeedInv, ResetIsComplete
    <3> QED
      BY <3>1, <3>2 DEF TablesAreComing, SuperuserIsComing, DefaultRoleIsComing, Resetting, Seeds
  <2>2. CASE ~config.reset
    <3>1. script = "gunicorn" /\ config.app_mode # "dev"
      BY <1>2, <2>2 DEF Base, ScriptBeforeWorkers
    <3> QED
      BY <1>2, <2>2, <3>1 DEF SeedInv, ScriptSeeds, CauseInv, CatalogIsExplained, ScriptMigrates
  <2> QED
    BY <2>1, <2>2
<1> QED
  BY <1>1, <1>2, BaseInit, BaseStep, CauseInit, CauseStep, SeedStep, PTL DEF Spec

=============================================================================
