# A verification of ydb-orm

`@ycforge/ydb-orm` is an Active Record ORM for YDB in TypeScript, with NestJS modules, schema
sync, migrations, transactions, retries and field encryption. This directory holds TLA+ models of
the parts of it that are stateful, concurrent or that must survive failures, the TLC runs that check
them on small instances, and TLAPS proofs of what matters most. `PROJECT.json` says which
definition models which lines (`map`), which runs check what (`runs`), which bug each property would
notice (`mutants`), what is hard to test in this code (`hazards`) and what is proved (`theorems`).

Every action is a piece of code between two `await`s, or a statement the database executes; a
definition keeps the name of the function it models. Definitions that begin with a comment `Mutant`
are wrong on purpose: each is the version of the definition after it that a plausible bug would
give, and the property named in `mutants` fails with it.

## 1. Inventory

| component | state | operations | interacts with | hard |
|---|---|---|---|---|
| migration runner (`migrations/migration-runner.ts`) | rows of `ydb_migrations`, the database schema, a snapshot and a position per call | `run`, `revert`, `markMigrationApplied`, `removeMigrationRecord` | other processes through the table alone | interleaving of deployments, death between row and DDL, clocks, stale snapshots |
| bookkeeping (`ensureMigrationsTable`, `migration-bookkeeping.ts`) | table shape, cached promise | create, describe, add columns, read snapshot | runner, readiness check | concurrent upgrades, cached failures, reading while upgrading |
| readiness check (`migration-check.ts`) | none | `evaluateMigrationCheck` | bookkeeping, loader | foretelling what other code would do |
| loader, commands (`migration-loader.ts`, `cli/cli.ts`, `cli/migration-verify.ts`) | files | load, hash, `migration:run`, `migration:check`, exit codes, JSON report | readiness check, runner | three commands that must mean the same by "ready" |
| generator (`migration-generator.ts`) | none | `planMigration`, render | schema check | statement order of up and down |
| schema sync (`schema/schema-sync.ts`) | tables, a plan per replica | `sync`, `verify`, `diffSchemas` | NestJS bootstrap, CLI | check-then-alter by replicas of different versions |
| retry policy and query (`core/retry.ts`, `core/retry-executor.ts`) | attempt, signal, shared promise | `then`, `idempotent`, `cancel`, `runWithRetry` | the SDK's own retry loop | loops that multiply, cancellation in every window, unknown outcomes |
| transactions (`transaction/`) | context per asynchronous chain, attempt, last failure | `runInTransaction`, nesting, joining, `resolveOperationExecutor` | SDK retry, retry policy, persistence | contexts that leak, attempts that mix, nesting over databases |
| configurations (`core/orm-scope.ts`, `core/standalone.ts`, `entity/entity-runtime.ts`, `repository/repository-resolver.ts`, `nest/`) | owners of entities, runtimes, slots, drivers | `configureEntities`, `forRootAsync`, `forFeature`, bootstrap, shutdown | schema sync, transactions | one step of several failing, two applications in a process |
| entity persistence (`persistence/entity-persistence.ts`) | instances, pending ciphertexts, rows | save, insert, update, insertMany, updateBy, delete, find, lazy decryption | encryption and validation providers, hooks, transactions | awaits between reading an instance and writing it, batches |
| declared model (`decorators/relation.decorators.ts`, `metadata/validate-entity.ts`, `relations/resolve-join-table.ts`, `cli/metadata-dump.ts`) | metadata of classes | validate, build schemas, resolve a join table, dump | schema sync, relations | four readers of one declaration that must agree |
| relations (`relations/entity-relations.ts`) | instances being hydrated | `loadRelations`, eager paths, many-to-many | persistence, transactions | order of hooks along a path, chunks, shared instances, other clients writing between the queries |
| filters (`buildWhere` and after it in `persistence/entity-persistence.ts`, `query/query-builder.ts`) | the accumulated filter of a chain; a parameter context per query | `where`, `orWhere`, `andWhereJson*`, `buildWhere`, `updateBy`, `deleteBy` | every read and bulk write | conditions that overwrite each other, shared parameter names, filters that say nothing |
| values, validation provider, diagrams, code generation, prompts | mostly none | pure or I/O | all | numeric edges |

What makes each correct: a migration is applied once, in order, by one process, never blindly twice,
and the table tells the truth about the database; a failed deployment can always be brought to its
end; the readiness verdict is what a run would do; a table considered ready is ready; a query not
known to be safe is sent once, the loops do not multiply, and everyone who awaits it hears the truth;
a transaction's operations go to its current attempt and to nobody else's; every entity has one owner,
and while a configuration runs nothing else rewires its entities; a synchronised table stays good
for its replica; a generated migration runs, and runs back; what is stored encrypted can be decrypted
and is found by the text that is in it; a filter selects, updates and deletes the rows it describes
and no other; an entity has one row however often its insert is tried, and a list that is refused in part is
not written at all; what validation accepts can be built, read and dumped, alike from both sides of a relation;
and a find gives every row of its paths one instance, whose hook fires once, after those beneath it.

## 2. Plan

1. *(done)* Migrations: matching, runner with its abstract life cycle, bookkeeping, readiness.
2. *(done)* Queries under a policy; transactions.
3. *(done)* Configurations of a process; schema sync and migration plans.
4. *(done)* Encrypted entities under overlapping calls; filters, and the chains that build them.
5. *(done)* The declared model and its readers; relations: eager loading along paths with chunks of IN,
   deferred `afterFind`, instances shared between owners, other clients in between.
6. *(done)* The writes: `insertMany`'s batches and groups, hooks, validation, failures and the call made again;
   `beforeRemove` between find and delete. The migration commands and their exit codes.
7. *(left)* Cancellation, timeouts and a failing commit in transactions; the finders and setters of Active Record.
8. Proofs: *(done)* the runner with the order of its runs, the readiness verdict, the table and its upgrade, queries,
   transactions, configurations, schema sync and migration plans, encrypted entities, writes, what readers make of a
   declared model, and relations: the instances, the hooks and the whole graph.

## 3. Modules

| module | models | composes |
|---|---|---|
| `MigrationMatching` | how a file is matched with a row, statuses, the readiness verdict (pure) | |
| `MigrationRunner` | processes that run, revert, repair, fail and die over one table | `MigrationMatching`; refines `MigrationLifecycle` |
| `MigrationLifecycle` | the life a migration is promised, abstractly | |
| `MigrationCommands` | the loader, the verdict, the exit codes and the report of the commands (pure) | `MigrationMatching` |
| `MigrationReadiness` | the commands against what `run()` would do, in reachable tables | `MigrationRunner`, `MigrationCommands` |
| `Bookkeeping` | the creation and upgrade of the table, the snapshot | |
| `RetryPolicy` | error kinds, who retries what | |
| `PolicyQuery` | one query under a policy, on an SDK that retries | `RetryPolicy` |
| `TransactionManager` | nested transactions of several tasks and databases | `RetryPolicy` |
| `Configurations` | scopes, runtimes, core modules and applications of a process | |
| `SchemaCheck` | schema comparison, sync plan, migration plan, what the database accepts (pure) | |
| `SchemaSync` | replicas that call `sync()` at start | `SchemaCheck` |
| `EntityPersistence` | encrypted rows, instances with pending lazy ciphertexts, overlapping calls | |
| `EntityWrites` | save, insert, insertMany, delete with hooks and validation, one statement at a time | |
| `EntityModel` | what decorators declare, join tables and how they are resolved (pure) | |
| `EntityValidation` | validation at startup, expected schemas, metadata:dump (pure) | `EntityModel` |
| `RelationLoading` | find() with eager paths, loadRelations(), beside other clients | `EntityValidation` |
| `WhereClause` | a filter, the condition and parameters built from it, their meaning in SQL (pure) | |
| `QueryBuilder` | the filter a chain accumulates, against what its calls say | `WhereClause` |
| `MC*` | instances for TLC | |
| `*Proofs` | theorems about the module they are named after; `MigrationRunnerProofs` also about `MigrationReadiness`, `RelationLoadingProofs` about the declared model, `SchemaSyncProofs` about migration plans; `RetryProofs` about `PolicyQuery` and `TransactionManager` | |

**Migrations.** `table` is `ydb_migrations`: rows by id, and `older`, the order in which
`ORDER BY timestamp, id` gives them. A write stamps its row with the writer's clock: after every other
row, or anywhere for a process in `Drifting`. `schema` is what up() and down() have done to the
database, `absent`, `partial` or `present`, and nobody in the code can read it. The labels of `pc` are the
awaits of `run` and `revert`. `Abort` is a failure or a death at any of them, before or after the
statement took effect. An operator repairs: looks at a `started` row, finishes or undoes its migration by hand
and records that, as `RECOVERY_HINT` says. Nothing tells him whether the row was left behind or belongs to a process
at work, and neither call asks; `hasty` remembers, as history, the rows that were resolved under somebody's hands.

**Bookkeeping.** Rows are one bit (is one `started`), columns are those newer than the first
release. Runners without a driver cannot describe and probe instead. A report remembers, as history, whether a row was
`started` when the table was described (`before`) and when it was selected (`was`).

**Queries.** The SDK retries inside one attempt of the policy; the code lets it announce its retry,
captures the error and aborts it. `made` and `effects` count what reached the database and took effect there.

**Transactions.** A task has a stack of calls; the context is that of the innermost, or inherited from the
task that started it. The SDK's execute() invokes the body, commits, rolls back or invokes it again.

**Configurations.** One action is a piece of code without an await. Runtimes keep where the executor, the
settings and the cached repository came from. NestJS runs every provider once, and its shutdown
hooks only for an application that started.

**Schema.** A schema and a table have one shape. A replica describes a table once, computes all its
statements and runs them; the database accepts or rejects each according to the table of that moment.
TTL intervals are whole seconds, which is what DescribeTable reports.

**Encrypted entities.** A ciphertext is the text in it and the key of the row whose AAD it was made with;
encrypting the bytes of a ciphertext gives a text that is `Garbled`. `inst` are the entities the application
holds, `pending` their entries of `lazyPendingCiphertext`. A save is a record in `call` that goes from field to
field of `encryptEntity` (`EncryptMore`: the code up to the next await of the provider, with the copy of the
entity taken at its first step and the pending ciphertexts looked up at each), then writes. Instances that
are assigned to, given another key, found again, decrypted or saved by other calls change between those steps, without
any restriction; `UpdateBy` and `Delete` are other writers. `spoken` is history: what the application last gave a field or found in
it, and which fields it assigned while they were being decrypted.

**Writes.** A record in `call` is a save(), insert(), insertMany() or delete() in its phase; `done` counts the
entities a phase has dealt with. Hooks run entity by entity and validation stops at the first refused; then all
copies are made, and batches of `BatchSize` are written, each grouped by the columns its entities have
defined (`Groups`), each group by one UPSERT. What an entity would be refused for is its `flaw`. A failed
insertMany() keeps its list so that the application can make it again.

**Declared model.** `m.of[C]` is what the decorators of a class say. `EntityValidation` has the issues of
`validateEntityMetadataIssues` by code, what `buildExpectedSchemas` builds or throws for, and what
`metadata:dump` prints or refuses; names are opaque, so a default column name tells table and key apart.

**Relations.** `heap` are the instances of one call, `op` is where it is: the path, the level (`Descend`), the
chunk of IN values. `Deferred` keeps the instances whose `afterFind` waits for the levels beneath them (`Unwind`).
`via` remembers in which transaction an instance's hook ran. Other clients update, remove, link and unlink between the queries.

**Migration commands.** A directory is a list of files with what the loader looks at: is it code, its name,
its content, its exports, and what the migration declares. `CheckExitCode` and `BuildJsonReport` are the two
answers of `migration:check`.

**Filters.** `WhereClause` translates `buildWhereNode` and what it calls into a condition tree with parameters
named as the code names them (column, counter, suffix), so two conditions can meet in one parameter as
they could in the code; `Eval` is SQL's three-valued logic. `QueryBuilder` keeps the filter of a chain and, as
history, its calls; `Matches` says what a filter means without SQL, parameters or context. The rendered text is not
modelled: its parentheses give the tree.

## 4. Runs

| run | asks | expects |
|---|---|---|
| `run_concurrent` | two deploying processes with old and new lists of files, an operator in haste, a drifting clock, two faults: one applier per migration, in order, and in the end all applied | pass |
| `run_revert` | two processes that run and repair, in haste too, one of them reverting: the table is truthful, work is marked, up() starts clean, each migration lives the promised life | pass |
| `check_foretells` | directories that gain, lose, rename, copy and edit files, tables with old rows, and two processes, one of which reverts and repairs: do the exit code and the report foretell the run? | pass |
| `ensure_upgrade` | three runners upgrade any historical table while a reader reads | pass |
| `query_policy` | a query, two subscribers, cancellation anywhere | pass |
| `transactions` | two requests and a task, two databases, nesting, joining, both retry loops | pass |
| `configurations` | an application, its successor with a second configuration, and `configureEntities()` | pass |
| `schema_sync` | two replicas of any two versions on any of eight databases; every version's migration plan in every state | pass |
| `encrypted_rows` | an entity saved, decrypted, assigned and given another key under two overlapping calls, beside bulk writes, over two keys: what is stored, can it be read, is it found? | pass |
| `entity_writes` | two overlapping calls on three entities in batches of two, hooks, validation, an enum, a failing statement: one row each, nothing of a refused list, what is written is what is there, and in the end it is | pass |
| `relations` | some three thousand declared models; eager loading and `loadRelations()` in chunks of one with another client writing: do all readers agree, is the graph whole, do hooks fire once and in order? | pass |
| `where_filters` | chains of three calls over fourteen filters: does the SQL select, and do bulk writes touch, what was said? | pass |

Where the code does not do what it says of itself, the property that is about it names the case, says what happens in it,
and is checked with the case in the instance, so that it also shows that nothing else goes wrong:

* `RowsReadable` and `StoresWhatWasSaid`: a `decryptField` that ends while the entity is being saved makes the saved copy look like
  plaintext, and the ciphertext is encrypted again (entity-persistence.ts:509, 2202: `Overtaken`). What is then read back is
  the bytes of a ciphertext. An entity saved under a new key keeps lazy ciphertexts of the old one, which do not open there
  (`Misfit`). And a decryption writes its plaintext over whatever was assigned meanwhile (`raced`). None of this reaches an
  eager column (`EagerReadable`).
* `IndexFaithful`: an unchanged lazy field is passed through "as-is", since "no re-encryption or blind-index
  recalculation is needed" (entity-persistence.ts:472-475); where the row has changed since it was read, the old ciphertext stands
  beside the index of the new text (`PutsBack`), until the column is written with a text or null.
* `VerdictForetellsRun`: a `started` row whose name or hash belongs only to files that other rows match is hidden from
  `computeMigrationStatuses` (`Hidden`; migration-runner.ts:257), so migration:check may say ready while migration:run refuses. Two processes
  come to it, or one with a directory that holds a file with the name of one migration and the content of another (`<<F(nA, h2)>>`). Where
  no file is renamed, edited or copied and nobody reverts, no row is hidden (`NothingHidden`).
* The properties of the runner: `markMigrationApplied` and `removeMigrationRecord` resolve a `started` row without asking whether
  a process is at it (migration-runner.ts:551-565), and `run` advises them in the same words for either (438-445). The
  migration may then be applied twice and its row lie, against "double application is impossible" (migration-runner.ts:286-288). The
  properties are about the rows outside `hasty`, which that must not touch; the refinement
  forfeits the row's life (`Meddle`), and `OrderedApplication` is about deployments without haste.
* `StartedReported`, in `UpgradeSafe`: a check that described the table before an upgrade and selects after it reads no `state`
  (migration-bookkeeping.ts:71) and takes a `started` row for applied, though only one claimed in between.
* `ChainMeans`: query-builder.ts:66-69 says repeated calls append to the conditions; a second condition on a column, or a
  second `$or`, replaces the first (`Required`).
* `BulkTouchesMatching`: where the filter of `updateBy()` compares a column for equality that `updateBy()` sets by itself (the
  update date of an optimistic lock, a blind index), the parameter is bound to the new value (`Shared`;
  entity-persistence.ts:2025-2028). A filter that names an encrypted field and its index column side by side has one parameter for both
  (`NamesIndexTwice`; :759, :840), and is left out of both properties.

Others are outside the instances, and one line of a cfg (or naming the other property) shows them:

* `OwnDatabase` in `transactions.cfg` fails: an ambient transaction serves the operations of entities of any
  configuration, while README_EN.md:347 promises that the setting of one does not affect another.
* `CrashSafe` and `NoDoubleApplication` fail with `Reverter = {p, q}` in `run_revert.cfg`: application is
  exclusive for processes that run (README_EN.md:1103 and migration-runner.ts:286-288), not once two
  of them may revert.
* `NoSecondTransaction` in `transactions.cfg` fails with `Task = {t}`, `Root = {t}`, `MaxTrx = 3`, `MaxDepth <- Deeper`: transaction.manager.ts:242-245
  says a second transaction on one database is refused; the comparison is with the innermost context only.
* `NoZombie` fails in `configurations.cfg`: README_EN.md:238 says a failed `forFeature` leaves no entity behind; each
  provider rolls back its own entity only.
* `WritesWhatIsThere` fails with `UpdateDate = {y}` in `entity_writes.cfg`, where the hooks set `y`: a save() that overlaps an
  insert of the same entity dates it between the hook and the statement, and the insert writes that date.

Two more observations. The comment at `core-module-registry.ts:42-46` says DDL races between
replicas are resolved by describing before DDL; in `SchemaSync` replicas do reject each other's
statements (`DdlRejected` fires without any fault) and the loser's bootstrap throws, which only a restart
repairs: that is what `EventuallySynced` shows. And the comment at `orm-scope.ts:79-85` says the default
scope is never released, while `dispose` releases it with the default NestJS configuration, including
entities that `configureEntities()` put there.

Of writes and relations, which no property of the project excludes because the code promises nothing else:

* A save() of an entity whose insert failed takes the update branch, for the uuid is on it already, and finds no row; an
  insertMany() that fails in a later batch leaves the earlier ones written. Only the same call made
  again is right, which is what `OneRowPerEntity` and `EventuallyStored` show. An enum value that cannot be
  converted is found only when its batch is bound, after earlier batches were written.
* Validation and reads ignore `inverseSide`, which only the dump uses: of two many-to-many relations between one pair of
  classes, the side without @JoinTable reads the first table that leads back while the dump names the right one
  (`TablesAgree` is about one), and a class with an `inverseSide` that is no property access is accepted and cannot be dumped.
* A many-to-many relation of a class with itself is always rejected. The same @JoinTable on both sides,
  mirrored, is equivalent for sync and reads and rejected by validation.
* The inverse the dump prints for a one-to-many may be a one-to-one, whose own inverse is another one-to-one: `InversesPair` is
  about the other pairs.
* A class with one join table on two relations passes validation, and the second cannot be read; a join table
  named like an entity's table passes too (schema-sync.ts:360-369 compares the tables of entities only). `OneTableEach` leaves out both.
  Equal custom names of the two join columns are not noticed either, and give a table with one column; `TwoColumns` leaves them out of `AcceptedIsReadable`.
* Two eager paths with a common first segment load it twice; a later, shorter one replaces the instances that carry
  the rest of the first. `LoadsTheGraph` is about paths of which none does that (`PathsKeep`).
* A class with decorators that is missing from the configuration is not validated. A many-to-many relation to or from one may have
  no table, and eager loading passes over it without a word, the property undefined: `LoadsTheGraph` is about models whose
  classes are all configured (`Complete`).
* Relations read one column of a composite key. An eager relation to one whose foreign keys are all null leaves the property
  undefined, where the comment in entity-relations.ts says null.
* The guard against hydrating an instance twice (entity-persistence.ts:1408-1414) never filters: each instance
  it is asked about has just been made by the same call of `hydrate`.

**Bounds, and why they are enough.** Two files are needed for an order, two processes for a race, an
operator beside them, and two faults for a failure of the repair of a failure; a third process adds no new
pair. Old and new lists of files differ by one entry. Three attempts let the policy retry after a retry;
two subscribers let one join late. Two databases, three levels and two transactions give every order
of nesting that the comparison with the innermost context tells apart (its failure needs three
levels). Three cores cover the same name twice in sequence and two names at once; two entities let one of
two fail. Six versions and eight databases are chosen so that each branch of the comparison occurs:
renames with and without an index, a TTL or a blind index around them, types, keys and index columns that
differ, a second table after a refused first. Of encrypted entities one instance, an eager and a lazy column, both with an index,
one plaintext, two keys and two calls are what an overlap, a change of key and a stale instance need (the other writers are
`UpdateBy` and `Delete`); with one plaintext texts still differ from null, from nothing and from a garbled one. `Bounded` keeps the overlaps
small: while both calls are on there is one row, and while both are saves one key; the theorems have no such bound. One row may be
resolved in haste beside two runs, each of the two once beside a revert, and none in `check_foretells`, where the fault of one process is what leaves
rows behind. Three calls make a chain with an OR before and after an AND; the filters have every
operator that the pipeline treats differently, each logical form at both levels, each kind of relation and the forms that are refused;
users have NULL in each column that may be NULL. Three entities in batches of two make a full and a short batch with
one group or two; six uuids let two calls and a second try take fresh ones; one fault lets any
step fail once. Three classes are what a conflict outside a relation needs, with each kind of join table, key, TTL
and column on either side; for the loading two classes with two rows each, chunks of one, paths of three levels that
return to their class, and one write of another client put a change between any two queries. Ten directories have each reason of the
loader to refuse and each kind of match. In these instances each action of the next-state relations fires.

**Deadlock** is checked except where the system stops by itself: a settled query, replicas that are all
synchronised, a chain at its bound, relations loaded, writes done after the last request.

**Fairness.** `MigrationRunner`: a scheduled process goes on (weak fairness of its steps); each list of files is
run again and again, which a deployment pipeline does (strong, because another run may hold a `started`
row at any moment); and somebody follows `RECOVERY_HINT`. `Bookkeeping`: a pending call goes on, and a
call that threw is made again. `PolicyQuery`: the database answers, timers fire, promises are delivered; nobody
is obliged to cancel. `EntityWrites`: a call goes on, and an insertMany() that failed is made again. `SchemaSync`: sync() goes on, and the supervisor starts a failed replica again.
Faults are never fair and are bounded.

## 5. Proofs

TLAPS proves these for every value of the constants. `MigrationRunnerProofs` assumes `SerialReverts`,
that at most one process reverts: section 4 says how to see that without it the claim is false. Operators may be hasty, any
number of times: what is claimed is about the rows outside `hasty`.

* `MigrationRunnerProofs`. `IInv` is the conjunction of `TypeOK`; `Placed` (where a process is determines
  what it holds); `Exclusive` (no two hold one row); `Marked` (a held row is `started`); `Allowed` (who is
  where); `Reached` (what schema each label implies); and `Ledger` (what a row says of the schema); `Exclusive`, `Marked`, `Reached` and `Ledger` are about the rows not resolved in haste. None of the four safety properties is inductive
  alone: that a claim by INSERT excludes others needs that every holder's row exists, which needs that only its
  holder or an operator who waits for an interrupted row deletes it. `TypeCorrect`, `OneApplier`,
  `TruthfulLedger`, `MarkerSeen`, `FreshStart` and `SafeCrash` (the last two together) follow from it, and `Refinement` maps each step to a step
  of `MigrationLifecycle` or a stutter.
  `OrderedRuns` says that up() of an entry is called only when every entry before it is applied and nobody is at it. That
  the run found an entry matched says nothing about later states: the row it matched may be another process's, be repaired,
  or be joined by a newer one that the code prefers. So `Ordering` adds: rows with a hash are under
  the key INSERT gives them and `byChronology` is an order (`WellKept`); a row in work has a hash and shares its name with no old
  row (`Inserted`); and of each running process that what its snapshot matched is done now, its list is done
  up to its position, and its claim is on the entry at that position (`Snapshot`, `Passed`, `Claimed`). It assumes that
  nobody reverts (a revert beside a run takes away what the run has passed), that all files have hashes (`Hashed`),
  and of the initial tables what the runner itself leaves (`Kept`): an order, hashes under their keys, and
  rows without a hash, which old releases wrote and which are found by name, of files that are not renamed.
  `run_concurrent.cfg` satisfies all three.
  The last section is about migration:check. `VerdictHolds` needs of the initial tables only the order and the
  keys (`Tidy`, kept by every step, reverts and haste included): every `started` row then either is reported, as an orphan or with its
  file, or is hidden; with none hidden, verdict, exit code, report and run go case by case, and with one hidden the run refuses, which is the
  exception the property names. `NothingHidden` adds that each `started` row is of a file (`FromFile`), so with names and hashes that go
  together (`Unedited`) and nobody reverting no other row can match it. The directories of `check_foretells.cfg` are edited
  and renamed on purpose.
* `BookkeepingProofs`. `EnsureIsRight`: a resolved promise means both columns. The invariant adds what each
  label implies about columns already seen, and that columns are never lost. `UpgradeIsSafe` adds that a runner with
  a driver never probes and looks for a column again only if it is there or a query failed, that
  a reader that chose its query after seeing both columns finds both, and that a row is `started` only in a table that has both
  (`StartedInWhole`), so that none was when a table was described as an old one.
* `RetryProofs`, of a query under a policy: `QueryTypeCorrect`, `FailSafe`, `AttemptsDoNotMultiply`, `Honesty`,
  `SharedOutcome` and `NoCallAfterEnd`, from an invariant (`QueryIInv`) that relates calls to attempts, and the mark to both.
  Of transactions, `IInv` is the conjunction of `TypeOK`; `Stacked` (each call is in a good state, and all but the
  innermost of a task are in their bodies); `Sole` (no two calls have one transaction open); and `Inherited`
  (a context a task was started with is of its own chain). `AttemptsNeverMultiply`, `IsolatedContexts` and `EndedByOwner` are each
  not inductive alone: that a body meets its own attempt's open transaction needs that no other call, of this task or
  another, can end it. They hold for any tasks, databases and depth.
* `ConfigurationsProofs`. `IInv` is the conjunction of `TypeOK`; `Held` (a core between claim and end has its slot, its settings
  and, from its compilation on, an open driver to itself, and no two with slots have one name); `Owning` and `Members` (who may own,
  and that both books say so); `Fresh` (no repository outlives its executor); and `Attached` (what a provider wired stays wired
  until its application fails or ends). `BooksAreRight` and `WiredWhileRunning` follow; `FailuresAreUndone` says
  that the several steps of a claim, undone when one throws, add up to none.
* `SchemaSyncProofs`. `IInv` is the conjunction of `TypeOK`, `Plans`, and of each replica `Synced` (what it wants is in the tables
  behind it) and `Planned` (what it wants of the table it is at is there or made by a statement it has left). A replica decides on
  a description that others make stale; that its plan stays good needs that tables only grow (`Grown`), which is also what
  `NothingIsDropped` says, and that a rejected statement throws. What it wants excludes a TTL on which replicas differ. From
  `SyncedForGood`: no lock is needed for what sync() promised to stay true.
  Versions are what `buildExpectedTableSchema` accepts and tables what YDB describes: keys and indexes are on columns
  that are there (`VersionAssumption`, `InitialAssumption`).
  `MigrationsRun` is about `planMigration`, for every version and every table the database may come to hold: unless a column
  of another type is in the way, no statement of up() is rejected and nothing is missing after it but the
  column of a likely rename; and where up() was accepted, down() gives back that very table. A direction is a fold of the database over a
  list. The fold is shown equal to a run, a sequence of tables each made by an accepted statement from the last (of two
  functions that differ there would be a first difference), and the runs of the parts of a plan, columns, indexes and TTL, are composed
  (`Along`). What is between is described exactly (`Altered`: the table with some of the missing columns, some of the
  indexes, and the TTL or not yet), so that each statement is accepted because what it needs was added
  before it, and down() meets the same tables backwards. It needs that columns an index or a TTL stands on
  are never taken for likely renames.
* `EntityPersistenceProofs`. `Inv` is the conjunction of `TypeOK`; `Held` (a call's instance is not
  forgotten); `TableSound` (eager columns are readable); `InstanceSound` of every instance (it holds a ciphertext only in a lazy field and
  only where it has it pending, and each field shows what was last said of it unless it was raced); and `CallSound` of every call: a save
  has made of each field it has come to what its copy and the pending entry gave (`Settled`), and a decryption will give the text that
  was last said. What was pending at a field's turn may not be when the call writes; an entry never comes back,
  which is why a field that still has it at the end had it all along, and why the only garbled fields are the `Overtaken` ones. From it follow
  `Readable`, `EagerReadable`, `Printable`, `Faithful` and `Stores`, with no assumption on what the application does nor on
  which fields are lazy or searchable.
* `EntityWritesProofs`. `IInv` is the conjunction of `TypeOK`; `KeysApart` (two entities have no uuid in common);
  `RowsOwned` (a row is under the uuid of the entity it was inserted for); and `CallsOK`: what a call in each phase has behind it,
  the entities with uuids, those refused for nothing, copies that are of its list, and every entity either stored, in
  the groups that are left of its batch, or in a later one. `OneRow` alone is not inductive: a second row is kept away
  only because a call's copies carry uuids that stay those of their entities (`Grown`: a uuid, once put, stays).
  `Refused` and `HooksAfter` come from `CallsOK`, for lists, batches and numbers of calls of any size.
  `WritesTheCopies` needs `WInv` besides: lists without repetitions, what hooks set still on the entities when they are copied
  (which needs that hooks do not set the update date: section 4), and groups whose copies all have the same columns, since an UPSERT
  takes the columns of its first row.
* `RelationLoadingProofs`, of the loading. `IInv` is the conjunction of `RowsOK` (a well-formed model and finite tables of its classes)
  and, while a call is on, of its heap and its position: `HeapOK` (instances are of declared classes, have their relations and hold only
  instances that are there); `LevelsOK` (the levels the path has descended are of one class each, without two instances
  of a row, and apart); `HooksOK` (no level has been hooked, and what holds an instance that is not is a level above it);
  `ContextOK` (each level knows the transaction of the find); `FetchedOK` (what is being loaded is of this load alone, and one
  instance per row); and `BatchesOK` (one load, one batch: instances of a row in one batch are one, and two owners share nothing through
  a one-to-many). `OneInstance`, `HookedOnlyOnce`, `HookedLast` and `HooksInTransaction` follow, for graphs, paths, chunks and
  writes of other clients of any number. None is inductive alone: that an instance is hooked only once needs that it is on no
  level when it is reached again, and that it is hooked last needs that what it holds unhooked is beneath it on its path.
  What an instance reaches is a recursive function; `ReachExists` shows by a least counterexample that it is what it says.
  Of the declared model: `Declarable` is what the decorators let through and is all that is assumed (`DeclaredModel`).
  `ConflictsSeen`: two differing declarations of a join table, on whatever classes, are refused by sync and by every read of that table.
  `AcceptedReadable`: what validation accepts declares nothing that cannot be built; if sync accepts it too, every many-to-many relation
  reads a table that sync creates, by columns it has and of the types of the keys, and the dump prints it. `SidesAgreed`: both
  sides of a relation read one table from its two ends, the one the dump names. Each leaves out what its property names
  (section 4). The readers go through lists of classes in their orders and keep or refuse as they go; the proof reduces each
  to the set of all declarations (`Whole`): a list is refused iff two of its declarations clash, whatever the order.
  `WholeGraph` puts the two together: a find() nobody writes beside ends with every row of every eager path, for any accepted model, rows,
  owners, paths and chunk size. `GInv` adds to `IInv` what has been loaded so far: every instance is a row and holds of each
  relation nothing yet or just what is related to its row (`StoredOK`); of each root some number of paths is behind (`OnPath`), each
  complete to its end (`Trail`) unless its first relation was loaded again since; and of the relation being loaded, the rows are there
  for the values that were asked for and the links for the owners that were (`ReadOK`). A trail stays complete because
  an instance on it has been hooked, or waits for it, and nothing is loaded onto such an instance (`HookedLast`); and that an owner with
  nothing to ask for has nothing related needs that an accepted many-to-many relation has a table (`ReadTable`), by
  the lemmas of `AcceptedReadable`. The path that replaced others repeats them (`PathsKeep`), so that the last of them carries
  them all (`LastPath`). It supposes `SetsApart`, that undefined and null are no sets of instances: a hypothesis of
  the theorem, since TLC does not evaluate whether a model value is a subset of the numbers.

Assumptions on constants are named in the modules that declare them and evaluated by the runs. Besides types they say: what
a hook sets is a value and not undefined (`HookAssumption`), directories load into the lists that processes run
(`DirectoriesAssumption`), and None, Unset and the like are none of the values they stand beside, nor keys of rows.

Only model-checked:

* liveness (`EventuallyUpToDate`, `EventuallyEnsured`, `EveryoneHears`, `EventuallySynced`, `EventuallyStored`), which the
  prover does not do under fairness;
* filters (`ClauseSelects`, `ChainMeans`, `BulkTouchesMatching`), whose trees are built and evaluated by recursion
  over trees of any depth. Recursive functions of a number and folds of a list, as in migration plans and in what an instance reaches,
  are within reach: the prover has no induction over them, but a first number at which a claim fails is a
  set with a least element. A tree has no such number that the definitions of a module for TLC state.

## 6. Not modelled

* Of entity persistence: aggregates, JSON path reads, and the mapping of values to and from YDB types. Encrypted
  columns and batches are in different modules: in `EntityWrites` the provider only answers or fails.
* The order of the rows of a relation, which no query asks for; relations to a class with a composite key beyond its first column;
  a `where` of the caller's on a relation (there is none).
* A join column name that two different pairs of table and key share (`a_b` + `c`, `a` + `b_c`).
* Hooks that themselves load or write (their transaction is in `InTransaction`, what they do is not).
* Inheritance of decorators.
* Both AAD formats are one: with `aadReadFallback` a row written under either is read.
* Columns named like a generated parameter (`age_0_gt`), which could meet one.
* In transactions: `options.signal`, `timeout`, and a commit that fails with a transient status under the
  policy (the SDK's second invocation is then refused without a last failure).
* The rendering of migration files, prompts, code generation, diagrams, printing and logging of the CLI: I/O and text.
* TTL intervals with a fraction of a second, which never equal what the database reports; the unit of a TTL on a
  numeric column and the types that need one.
* A task started inside a transaction that joins it and is not awaited may outlive it. The model has such tasks, and where their operations
  go (`ContextsIsolated`), but no property says what becomes of their joined call: transaction.manager.ts:264-289 does not ask whether the transaction is
  still open.
