# dbmask: a verification project

TLA+ models of dbmask (`src/dbmask/`), their TLC runs and TLAPS proofs. dbmask
rewrites a restored copy of a production database in place: every configured
column is masked deterministically under a project secret, batch by batch, with
the progress of the run kept in the database itself. What has to be right is
mostly what no unit test reaches: a process killed between two statements, a
second process in the same minute, a statement MySQL refuses half way through a
batch, a resume under another config.

## 1. Inventory

| part | source | state | operations | what makes it correct |
|---|---|---|---|---|
| CLI | `cli.py`, `errors.py` | config file, exit code, one engine | `init check mask pump verify` | refusals come before logins and writes; a dry run writes nothing; the exit code has a cause |
| Config | `config.py` | none (a parsed `MaskPlan`) | `load_plan`, `config_hash` | anything not understood is refused; the hash changes with the meaning |
| Introspection | `introspect.py` | none (a `SchemaModel`) | `database_name`, `connect`, `introspect` | every failure is `E_CONNECT`; dbmask's own tables are left out |
| Preflight | `drift.py` | search state of `_find_cycle` | `check_database_name`, `find_findings` | a plan found clean can be masked without breaking keys, types, lengths, joins |
| Drafting | `emit.py` | the config file | `propose`, `render_config`, `write_config` | a reviewed file is not overwritten; the draft passes `check` |
| Value generation | `strategies.py` | LRU cache, Faker instance | `mask` | a mask depends on secret, rule and value alone; unique masks stay apart |
| In-place runner | `runner_mask.py` | cursor, totals | `mask_plan`, `_mask_table`, `_start_run` | no row masked twice, none left behind, resume exact |
| Bookkeeping | `audit.py` | `dbmask_audit`, `dbmask_progress` | `ensure_tables`, `insert_run`, `finish_run`, `upsert_progress`, ... | progress commits with its batch; a completed run is final |
| Dialects | `dialects.py` | session lock | `advisory_lock`, `batch_select`, `update_batch` | one runner; no lock survives its session |
| Report | `report.py` | report file | `write_report` | whole or absent |
| Logging | `logging.py` | none | `log_event`, `scrub_*` | no cell value, no password (not a matter of state) |
| pump, verify | `cli.py` | none | option checks only | not implemented yet |

How they interact: a command of the CLI loads the plan, checks secret, URL and
database name, connects, introspects, compares (`find_findings`), and for `mask`
hands a connection to `mask_plan`, which uses the bookkeeping and the dialect's
lock on that one connection and asks the strategy engine for every cell. Two
invocations share nothing but the database (rows, two tables, the advisory lock)
and the config file. Nothing runs in threads, there are no callbacks.

What is hard: everything shared through the database is read and written in
separate statements by processes that may die between any two (guards, lock,
run row, batch, progress, commit, status); the two dialects differ in what a
refused statement leaves in the transaction and in what a second read sees; the
cache and the Faker instance are shared by all columns; config and schema change
between `check` and `mask`. `PROJECT.json` lists each of these hazards at its line.

## 2. Modules

| module | models | role |
|---|---|---|
| `MaskRun` | `mask_plan` with `audit.py` and `dialects.py` | one action per statement or group the process cannot be seen between |
| `MaskRunProps` | | type invariant, invariants, action and liveness properties, the refinement |
| `MaskOnce` | | the abstract promise: original rows are masked once, under one key, until none is left |
| `MCMaskRun` | | instances for TLC |
| `MaskRunProofs`, `MaskRunSafetyProofs` | | proofs for every value of the constants |
| `MaskRunPromiseProofs` | | proofs of what the guards and the lock are worth, and of the refinement |
| `StrategyEngine`, `MCStrategyEngine` | `strategies.StrategyEngine` | value generation through one cache |
| `StrategyEngineProofs` | | proofs for every rule, cell and cache size |
| `FkCycle` | `drift._cycle_findings`, `_find_cycle` | the depth-first search, step by step |
| `FkCycleProofs` | | proofs for every graph |
| `Plans` | `config.build_plan`, `emit.propose`, `drift.find_findings` | what a config says and what is wrong with it: operators without state |
| `ConfigFile` | `emit.write_config` | inits that write one config by way of one temporary file |
| `Preflight`, `MCPreflight` | `init`, `check` and `mask` from draft to masked rows | composes `Plans`, `ConfigFile` and `FkCycle` with what the strategies make of a cell and what a database accepts |
| `ConfigFileProofs`, `PreflightProofs` | | proofs for every number of inits, every schema, config, row and faker |
| `MaskCli` | `cli.py` with the files it calls | the five commands from options to exit code |
| `MaskCliProofs` | | proofs for every number of edits, migrations and refusals |

### MaskRun

A process is an invocation of `mask_plan` on a connection of its own that starts
a transaction at its first statement. The committed database is `value`, `audit`,
`progress`, `tablesExist`; the open transaction of a process is `written` (rows it
has updated) and `txFailed`; `holder` is the set of sessions that hold the advisory
lock. `pc` names the place in the source:

| `pc` | source | actions |
|---|---|---|
| `ensure`, `create` | `ensure_tables`, `create_all(checkfirst)` | `LookForTables`, `CreateTables`, `CreateTablesRefused` (another process was faster) |
| `guard`, `guardIncomplete` | `_preflight_guards`, the `--resume` guard | `PreflightCompleted`, `PreflightIncomplete` (READ COMMITTED: two views), `PreflightSnapshot` (REPEATABLE READ: one), `ResumeGuard` |
| `lock` | `advisory_lock` | `TryLock` |
| `start` | `_start_run` and the commit | `ContinueRun`, `NewRun`, `StartMismatch` |
| `load` | `read_progress` | `LoadProgress` |
| `open`, `select` | `_mask_table`, `batch_select` | `OpenTable`, `SelectBatch`, `TableDone`, `KeylessSelectFails` |
| `update` | `update_batch` | `UpdateBatch`, `UpdateFails` |
| `save` | `json.dumps`, `upsert_progress`, commit | `SaveBatch`, `UpsertFails`, `KeyNotSerializable` |
| `open` past the last table | `finish_run`, commit | `FinishRun` |
| `failed` | the `except` block | `MarkFailed`, `MarkFailedFails` |
| `release` | the `finally` of `advisory_lock` | `ReleaseLock` |

`Die` is a killed process or a lost session at any of them. A row's content is the
sequence of keys (config hash and secret) it was masked under, so that masking a
mask can be told from masking. Tables are numbers in alphabetical order, rows
numbers in key order, `cursor` is `last_pk` with the count so far. A masking
without a primary key never passes the preflight, so a `Keyless` table has only
`keep` columns.

`fresh` and `staleStart` are history: whether a process that starts a run has
seen `dbmask_audit` as it is at that moment. Several properties are claimed unless
`staleStart`, because the guards are evaluated before the lock is taken; the
run `race` shows what happens then, and `NothingLeftBehind`, `SingleRunner` and
`CompletedIsFinal` are claimed and proved without the exception.

`MaskRun` gives `mask_plan` a plain connection. The command's `engine.begin()`
block stops it after its first commit; that is `MaskCli`'s matter (run `clean_mask`).

### StrategyEngine

One action per way through `mask`: `MaskPlain` (keep, null, NULL), `MaskTemplate`,
`MaskFixed` (redact, hash), `MaskHit` and `MaskMiss` of the cache, and `Restart`, the
construction of a new engine, which may have another cache size. Cells of several
tables are masked in any order, each once. HMAC is injective and Faker an
arbitrary function of the seed that may repeat itself. `fake_phone` and
`fake_address` go the way of `fake_name`.

### FkCycle

The recursion is written out: `path` holds the calls of `visit` that have not
returned, `reached` how far the loop of each has come. `CloseCycle` is the return
of a cycle through all of them. `MCPreflight` compares `NoCycle`, the definition the
search is measured against, with the community module's `HasCycle`. The search is
run as a part of `check`, in `Preflight`.

### Plans

A config is a function from columns to lines (a strategy and its options) and a set of
joins; a schema is a record of what `introspect` reads. `Loads` and `BuildPlan` are
`build_plan`, `Propose` and `DraftLine` are `propose` and `_value`, and a finding is a
pair of its kind and its subject: `Drift`, `KeylessFindings`, `ColumnFindings`,
`TemplateFindings`, `JoinFindings`. Their severities, order and wording are left out.

### ConfigFile

Paths lead to files, so that an init which has opened the temporary file goes on writing
to it after another has renamed it. `Look` is `path.exists()`, `Open`, `Begins` and `Completes`
are the three things `write_text` does to the disk (truncate, a part, all of it), `Rename` is
`replace()`, `GivesUp` the `OSError` handler, and `Dies` is possible at every step. A text
cut off at a table's end is still TOML, with fewer columns; one cut off in a line is not.
`overlapped` is history: two inits have been between the look and the rename at once.

### Preflight

The operator invokes `init` (twice at once), edits the config (sets or deletes a line, adds a join),
and somebody migrates the schema. Then `Check` reports all findings, its search for cycles
step by step, and `Pass` is the preflight of `mask`. `Write` is the run: every content the
database accepts before it (`Legal`: no NULL in NOT NULL columns, unique indexes and foreign keys
hold) and every faker, with `MaskRows` what `_mask_table` makes of the rows. A migration may come
between the two: references, joins and originals are claimed wherever the statements still meet
the columns they name (`Met`), the fit only where the schema is the one the preflight saw
(`Written`). The properties compare `after` with `before` and ask the database's own operators (`NotNullHolds`,
`LengthHolds`, `UniqueHolds`, `ReferenceHolds`) what they say of the masked rows; these know
nothing of findings. A cell is the set of parts its text is put together from, each
with its origin (`row` text, digest, provider's value, suffix), so that an original that got
through is seen as one.

### MaskCli

`pc` is the step of the command, `job` its options. Config and schema are compared
by version, and a schema may be `keyless` (a masked table without a primary key) or
`cyclic`: the findings that the modes of `find_findings` tell apart. Between
any two steps the operator may edit the config (`EditConfig`) or the schema may be
migrated (`Migrate`). `write_config` is two steps, the look for the file and its
replacement. `Guards` is the first statement after the commit inside the
`begin()` block, which SQLAlchemy 2 refuses. A `url` leads to the database by a dialect dbmask
supports (`good`) or by another (`other`: mariadb, say), which every command goes along with until
`RequireSupported`, the first thing `mask_plan` does. `drafted` and `passed` are history: init
drafted the config; check was clean with these URLs; and neither config nor schema has changed since.

## 3. Runs

| run | instance | shows |
|---|---|---|
| `resume` | 1 process, PostgreSQL, tables of 3 and 2 rows, batches of 2, 2 configs, 2 secrets, 2 refusals, 2 deaths | `mask_plan` implements `MaskOnce`; no row masked twice; a completed run is whole and counts right over several attempts; repeated `--resume` completes it |
| `two` | 2 processes, PostgreSQL, every interleaving, 2 refusals, 2 deaths | one runner; unless a process starts on stale guards, batch and progress commit together and nothing is touched after a completed run |
| `hostile` | 2 processes, MySQL, every interleaving, 2 configs, 2 refusals, 1 death | a completed run is final and its count right; nothing is left behind, whatever is committed in part |
| `uuid` | 2 processes, PostgreSQL, a second table with keys JSON refuses | a run that can never complete: every invocation ends and frees the lock, nothing is left behind, and no row of another table is masked twice |
| `keyless` | 2 processes, MySQL, a second table without a key | a run whose second select is refused every time: every invocation ends and frees the lock |
| `race` | 2 processes, no failure | `MaskedOnce` is violated: finding 1 |
| `partial` | 1 process, MySQL, one refused row | `BatchAtomicity` is violated: finding 2 |
| `masking` | 3 generated columns of 2 rows, a cell of every other kind, cache sizes 0 and 1, one restart | joins survive, case variants converge, unique masks stay apart |
| `plans` | 8 shops of 2 tables, 3 of them with a migration, 24 edits, 3 inits or edits; every foreign key graph over 3 tables; 2 inits at once; 2 rows, 6 contents, 2 fakers | what a clean preflight lets through is accepted by the database, keeps its references and joins and leaves no original; the draft is clean; the config is never half-written and only replaced by force; a reported cycle is one, where none is reported there is none, and check answers |
| `commands` | any sequence of invocations, 2 edits or migrations, 1 refused call | logins only to databases the plan names, refusals without a trace, a clean check holds for the mask after it, a draft fits its database |
| `dry_run` | no refused call | `DryRunWritesNothing` is violated: finding 3 |
| `clean_mask` | no refused call | `FailureHasCause` is violated: finding 4 |

Bounds. Two tables with a full and a partial batch reach every boundary of the
batch loop (first, last full, last partial, empty select, table change) and, with
deaths, every place to resume from. Two processes suffice for the interleavings
because everything between them goes through one lock and one audit table; the
third would repeat the role of the second. `MaxRuns = 2` and `MaxMasks = 2` stop new
invocations once a second run or a second mask of a row has happened, which
is where the properties decide. The bounds on failures and deaths let one hit the
handler of another. A cache of one entry evicts at every second value. Three tables
hold a self-reference, a two- and a three-cycle, and a cycle behind a path. The
commands need the schema and the config to change at most once each between two
invocations. In `plans` the address column has the length 77 of a `fake_email` with a suffix, 76,
64 (without) and 18 (redact only), is or is not nullable and under a unique index, also one of an
expression or of two columns, or referred to by a foreign key; the budgets are the code's own
numbers. One row that has a NULL, two that differ in case and two that are distinct are what
uniqueness and joins can tell apart; a faker that returns one value for all is the
worst for uniqueness, one that tells all texts apart the worst for joins. Three changes
are an init, an edit and a join, or two inits that overlap and an edit of what they
left; five of the shops and all graphs have fewer. Deadlock is checked where the system never stops
(`MaskRun`, `MaskCli`, `Preflight`); cells that are all masked do stop.

Fairness. A process in `mask_plan` goes on (`WF` of its own steps; not of
refusals, deaths or invocations). `ResumeCompletes` is about an operator who repeats
`--resume` with the run's own config and secret whenever it is possible to
(`SF`: an attempt of his may be interrupted by another that is refused). A `check` that has
begun its search goes on with it (`WF` of `Search` and `Report`: plain recursion). Nothing is
assumed of edits, inits, migrations or refusals.

### Findings

1. `race`: `mask_plan` evaluates its guards before it takes the lock and
   `_start_run` does not ask again for completed runs. A process whose guards ran
   before another's run, and whose lock comes after it, masks every row twice; one that
   gets the lock when that other has died or failed continues its run without `--resume` and masks
   the rows recorded in it again (`ContinueRun` with a `LoadProgress` that loads nothing).
2. `partial`: the `except` block commits what a refused `executemany` left in the
   transaction on MySQL, without the progress of it; `--resume` masks those rows again.
3. `dry_run`: `mask --dry-run` goes on to the real run after printing the plan.
4. `clean_mask`: `mask_plan` commits inside its caller's `engine.begin()` block, and the
   next statement fails: the command cannot mask.

Seen while modelling, part of the models, and without a run of their own:

- a key `json.dumps` refuses (UUID, Decimal, date) fails a batch after its update, and the `except`
  block commits the batch without progress, so that `--resume` masks it again, although
  `docs/architecture.md:287` says "resume never re-masks a committed row" (`KeyNotSerializable`;
  `OnceWhereKeysFit` has the other tables untouched by it);
- a table of `keep` columns without a primary key fails at its second select in every
  attempt (`KeylessSelectFails`);
- a refused UPDATE ends with `E_INTERNAL`, which `docs/api-contracts.md` has as `E_MASK`
  (`UpdateFails`);
- `--resume` on a fresh database creates the bookkeeping tables before it refuses;
- `unique = true` adds nothing to a template, and two case variants in a case-sensitive
  unique index get one `fake_email` mask: `SuffixSeparates` is stated for what the code
  tells apart;
- `init` drafts a config that `check` refuses where a flagged column is in a table without a
  primary key or where foreign keys are cyclic: `DraftFitsDatabase` excludes both;
- `check` does not ask for the dialect, `mask_plan` refuses all but two (`RequireSupported`): by the
  URL of a third a clean `check` is followed by a `mask` that ends with `E_CONFIG`, although
  `docs/api-contracts.md:92` says that "`check` passing means `mask`/`pump` will get past preflight";
  `CheckedMeansPreflight` is claimed of the two;
- a config saved between the two steps of `write_config` is overwritten without `--force`, and of
  two inits without it that overlap the second replaces the config of the first
  (`ReplacedByForce` excepts inits that overlap);
- all inits of a config share one temporary path: one may truncate the file another has written and
  is about to rename, and the config is then half-written, for good if the first is killed
  (`ConfigWhole` excepts inits that overlap);
- a masked unique column that is no primary key may be what a foreign key refers to: `check` has
  no finding, and `init` drafts it if its name is flagged, although `docs/architecture.md:297` says
  referential integrity "cannot be broken by masking"; `ReferencesSurvive` excepts it;
- `unique = true` on a template is what `check` asks for under a unique index, and the engine
  ignores it; a template has no length budget; equal templates on the two sides of a join
  pass although they read different rows: `PlanFits` and `JoinsSurvive` except templates;
- a draft of a schema without tables, or of one with a PostgreSQL table without columns, is
  refused by `load_plan`: `DraftIsClean` excepts the first, the schemas of `Plans` have no table
  of the second kind;
- a mask meets the schema as it is when it writes, not as the preflight saw it: a column added in
  between is not masked (`OriginalsGone` speaks of the columns of the config then), and a unique
  index, a NOT NULL or a foreign key added in between may refuse what is masked.

## 4. Proofs

For every value of the constants, from the named assumptions of the modules alone
(`DialectAssumption` to `BoundsAssumption` of `MaskRun`; `RuleAssumption` to `BoundsAssumption`
of `StrategyEngine`; `NumTablesAssumption`, `InitsAssumption`, `HistoriesAssumption`,
`EditsAssumption`, `ContentsAssumption`, `MaxChangesAssumption` of `ConfigFile`, `FkCycle` and
`Preflight`; `BoundsAssumption` of `MaskCli`), and from the conditions in the table.

| theorem | states | where |
|---|---|---|
| `TypeCorrect` | `[]TypeOK` | any processes, tables, rows, batch size, dialect, configs |
| `OneRunner` | `[]SingleRunner` | |
| `NoRowLeftBehind` | `[]NothingLeftBehind` | |
| `CompletedStays` | `CompletedIsFinal` | |
| `MaskedStays` | `MaskedForGood` | |
| `CompletedCounts` | `[]CompletedCountsRows` | |
| `BatchesAtomic` | `[]BatchAtomicity` | no `Unserializable` table, and PostgreSQL or a MySQL that refuses no statement |
| `MaskedAtMostOnce` | `[](MaskedOnce \/ staleStart)` | the same |
| `WholeRuns` | `[]CompletedIsWhole` | the same |
| `PromiseKeptUnlessStale` | `KeepsPromise`: `MaskRun` implements `MaskOnce` | the same, any processes, as long as none starts on stale guards |
| `PromiseKept` | `KeepsPromise` | the same, one process |
| `CycleIsReal`, `NoCycleMissed` | `[]ReportedIsCycle`, `[]ClearedHasNone` of `FkCycle` | any graph |
| `ReportedCycles`, `NoCycleCleared` | the same of `Preflight` | any schemas, migrations, edits |
| `ConfigStaysWhole`, `OnlyForceReplaces` | `[]ConfigWhole`, `ReplacedByForce` | any number of inits |
| `PreflightTypeCorrect` | `[]TypeOK` of `Preflight` | the same |
| `DraftsAreClean` | `[]DraftIsClean` | any schema, options and names of columns |
| `PlansFit` | `[]PlanFits` | any config, rows and faker |
| `ReferencesHold`, `JoinsHold`, `NoOriginalLeft` | `[]ReferencesSurvive`, `[]JoinsSurvive`, `[]OriginalsGone` | the same, whatever is migrated after the preflight |
| `CleanMaskGoesThrough` | no mask fails after a clean preflight, but on what no finding is about (`Excepted`) | any config, rows and faker, the schema of the preflight |
| `EngineTypeCorrect` | `[]TypeOK` of `StrategyEngine` | any rules, cells, texts, cache sizes |
| `JoinHolds`, `VariantsHold`, `SuffixHolds` | `[]JoinSurvives`, `[]VariantsConverge`, `[]SuffixSeparates` | |
| `CliTypeCorrect` | `[]TypeOK` of `MaskCli` | any versions, edits, refusals |
| `LoginsMatched`, `NoTraceLeft` | `[]LoginOnlyToMatched`, `[]RefusalsLeaveNoTrace` | |
| `CheckedHolds` | `[]CheckedMeansPreflight` | check and mask by one URL, of a dialect dbmask supports |
| `DraftHolds` | `[]DraftFitsDatabase` | |

`MaskRunProofs`: `TInv`, the type invariant with `Positions`: where a process is
decides what its variables point at (a run row that exists, a table of the plan, a
cursor short of the last row). The types alone are not inductive, since a step at
`save` writes `progress[run][table]`; one lemma per action shows that it keeps
`TInv`. `BatchEnd` and the rows of a batch have lemmas of their own.

`MaskRunSafetyProofs`: `SingleRunner` is inductive with `TInv`, because a
process enters and leaves the lock's region only with the lock. `NothingLeftBehind`
needs `BeliefsHold`: what a process has in its cursor, in its loaded progress
and in its table position is masked in the committed database, and a batch about to be
recorded has been written by its transaction. Then `Safe == TInv /\ BeliefsHold /\
NothingLeftBehind` is inductive: masking only ever adds to a row's content, so that
no other process can undo a belief, and a cursor moves only with the commit of the
rows it passes. Neither the lock nor the guards occur in the argument, which is why
the theorem holds in the races that make a row masked twice. `CompletedCounts` needs as little:
`CountsHold` says that a cursor, recorded or in a process, has counted the rows it has passed,
and that the sum of a process is the rows of the tables before its own; a resume takes both over
from `dbmask_progress`. That rows are counted right does not say that each was masked once.

`MaskRunPromiseProofs`: `FinalInv` adds to `TInv` and `SingleRunner` that nobody works for
a completed run (`RunsOpen`: who could has the lock, and its own run), that a view of
`dbmask_audit` which is fresh is still right (`Views`: whoever changes it makes all other
views stale), and that without a stale start there is one run (`Orderly`). On PostgreSQL a
failed statement leaves nothing to commit, and where MySQL refuses none there is nothing to
leave, so that `BatchInv` is inductive: rows are masked
exactly as far as the cursors say (`RowsAsRecorded`), and each process that works is right
about them and about what its transaction has written (`Worker`). Finding 2 and the keys
JSON refuses are counterexamples without the two conditions, finding 1 without
`staleStart`. A completed run has no cursor short of a table's end, so that `WholeRuns` follows.
The refinement follows step by step from `PromiseInv`, which adds `NothingLeftBehind` and that no
guards were stale: a batch is a `MaskOnce` step that masks the original
rows of one key, the start and the end of the run are its two others, all else stutters. Of
several processes the one in the lock's region is the one that steps; that one process alone
never starts on stale guards is `AloneInv`, from which `PromiseKept` has no history in it.

`FkCycleProofs`: neither property is inductive. `PathFollows` (each table of the path
refers to the next) makes the reported part of the path a cycle. For the other direction
`LookedAt` says that what a loop has passed is closed or is the table it waits for, so
that a table is closed when all it refers to is; `ClosedIsDone` follows: closed tables
refer to closed tables only and form no cycle, because the table closed last does not
refer to itself and nothing closed before it refers to it. `RootsSeen` has the outer loop
leave no table out.

`ConfigFileProofs`: `FileInv` says who may hold the temporary file. Unless inits overlapped one
at a time is past the look (`Alone`), it alone has the temporary file open, and this is
not the config's (`WritesTemporary`). A text is torn between `Begins` and `Completes` only, which
no rename can meet. `Handles` bounds what is open by who is between the two: an init has at most one
file, and there is always a free one for the next to open: `Files` are more than the inits. `TextsOfFiles` says
where a text comes from: whatever is true of every text an init is given, and of its parts, is
true of every file.

`PreflightProofs`: `PreflightInv` is `FkCycle`'s invariant, `FileInv` with `Handles`, and what the
operator and the commands add. `TextsInv`: every text of a config has joins of its database only, and
a length for every value it redacts with. `RunInv`: a run has
passed a preflight without findings, with the plan and the schema it goes on with, and has
made of the rows what `MaskRows` makes of them; `CheckInv`: the findings of a check are those of
the config and the schema it was begun with. `ReferencesHold`, `JoinsHold` and `NoOriginalLeft` follow
from what the absence of each kind of finding means: every column has a line, key columns are
kept, templates read kept columns, the sides of a join have one rule; and from a masked cell
being a function of rule and content. For `PlansFit` each kind of a column's findings excludes one
way not to fit: redaction or a null under NOT NULL, text in a column of another type, a budget over the
column's length, a column under a unique index whose masks may meet. The length of a cell is a fold over
its parts, but a cell that is no template's has two at most (a value and a suffix), and for a set of so few
the fold is unfolded (`SumsOfParts`); no induction is needed. Under a unique index
the suffix keeps two masks apart where the folded originals are. With `PlansFit` and `ReferencesHold`
together a mask that failed would have been accepted (`HasCause`): `CleanMaskGoesThrough`. `DraftsAreClean` goes
the other way: a drafted line is of one of three kinds (`Proposals`: kept, null, or a generator), is
parsed as it was drafted, and `DraftFindings` has no finding of a column about any of them.

`StrategyEngineProofs`: the invariant is `MasksAreFunction`, that every masked cell is
`Mask(x)`, a function of its rule and its normalized text in which no cache occurs. It holds
because the cache has only what the provider gives for a digest, whatever is evicted
and wherever the engine is built anew. The three properties compare two values of `Mask`.

`MaskCliProofs`: `Places` says what has been asked before each step (the name of the database
before a login, everything before the first write), `KnownIsSo` that what a draft or a
clean check has established is so until an edit or a migration takes it back. `CheckedHolds`
needs the condition on the URL at one step only, `RequireSupported`, which asks for what no check
has asked for.

Model-checked only: what must eventually happen (`InvocationsEnd`, `ResumeCompletes`, `CheckAnswers`:
fairness is out of the provers' reach); `OnceWhereKeysFit`; and `MaskedOnce`, `BatchAtomicity`, `CompletedIsWhole` and
`KeepsPromise` where the conditions of the table fail, as far as they hold there at all. Every
other invariant of the passing runs is stated by a theorem.

## 5. Not modelled

`CreateTables` makes both bookkeeping tables in one step, although MySQL commits each `CREATE TABLE`:
neither is read before both are there, and what is missing the next `create_all` makes. A `[tables]`
section without a table, which `build_plan` accepts and `init` never writes, is not a config of
`Plans`.

Option parsing, wording, colours and layout of output; the types of TOML values and the
sections `project` and `settings` (validation of one input, no state); the reading of the
catalog, its type families and name patterns; `logging.py`; how likely a collision of unique
suffixes is. Generated values are taken to keep to the lengths `strategies.py` declares. `pump` and
`verify` do not exist beyond their option checks, which `MaskCli` has. `report.py` is reached by
no invocation: `mask_plan` fails before it (finding 4).

## 6. Plan

Done, in this order: the runner with its bookkeeping, the cycle search, value generation, the
commands, the findings with the draft and the config file, and the proofs of each.

Next, most important first:

1. What holds of a batch and of a completed run on a MySQL that refuses statements: how often a row may
   be masked after finding 2.
2. `write_report`, once a run of the command can complete.
