------------------------------- MODULE MaskRun -------------------------------
(***************************************************************************)
(* In-place masking: runner_mask.mask_plan with the bookkeeping of         *)
(* audit.py and the advisory lock and batch statements of dialects.py.     *)
(*                                                                         *)
(* Processes are dbmask invocations against one database.  Each calls      *)
(* mask_plan on a connection of its own that opens a transaction at its    *)
(* first statement; the database keeps what was committed.  A statement    *)
(* may fail, a process (or its session) may die anywhere, and an operator  *)
(* may invoke dbmask again, with --resume or without, with the same or     *)
(* another config and secret.                                              *)
(*                                                                         *)
(* A table is its position in the alphabetical order mask_plan walks, a    *)
(* row its position in primary key order, and the content of a row is the  *)
(* sequence of keys (config and secret) it was masked with: the empty      *)
(* sequence is the original row, a second element is a mask of a mask.     *)
(***************************************************************************)
EXTENDS Integers, Sequences, FiniteSets

CONSTANTS
  Procs,           (* dbmask processes that may run at the same time           *)
  Dialect,         (* "postgresql" or "mysql": require_supported's; any other  *)
                   (* is refused before the first statement (MaskCli)          *)
  NumTables,       (* tables of the plan                                       *)
  RowsOf,          (* rows of each table                                       *)
  BatchSize,       (* settings.batch_size                                      *)
  Keyless,         (* tables without a primary key: every column is keep       *)
  Unserializable,  (* tables with a key json.dumps refuses: UUID, Decimal, date *)
  Configs,         (* values of plan.config_hash                               *)
  Secrets,         (* values of secret_fingerprint(secret)                     *)
  MaxRuns,         (* bound: no invocation once this many runs are recorded    *)
  MaxMasks,        (* bound: no invocation once a row was masked this often    *)
  MaxFailures,     (* bound: statements the database refuses                   *)
  MaxCrashes       (* bound: processes killed, or sessions lost                *)

Tables == 1..NumTables

ASSUME DialectAssumption == Dialect \in {"postgresql", "mysql"}
ASSUME TablesAssumption  == /\ NumTables \in Nat
                            /\ RowsOf \in [Tables -> Nat]
ASSUME BatchAssumption   == BatchSize \in Nat \ {0}
ASSUME KeysAssumption    == /\ Keyless \subseteq Tables
                            /\ Unserializable \subseteq Tables \ Keyless
ASSUME InputsAssumption  == Configs # {} /\ Secrets # {}
ASSUME BoundsAssumption  == /\ MaxRuns \in Nat
                            /\ MaxMasks \in Nat
                            /\ MaxFailures \in Nat
                            /\ MaxCrashes \in Nat

Row    == UNION {{t} \X (1..RowsOf[t]) : t \in Tables}
Key    == [config : Configs, secret : Secrets]
Job    == [resume : BOOLEAN, key : Key]
Status == {"running", "completed", "failed"}
Run    == [status : Status, key : Key, rowsMasked : Nat]
Cursor == [last : Nat, done : Nat]      \* ProgressRow; last = 0: no such row
NoCursor == [last |-> 0, done |-> 0]

VARIABLES
  value,        (* committed content of every row                              *)
  audit,        (* dbmask_audit in id order; a run is known by its position    *)
  progress,     (* dbmask_progress: per run, a cursor for every table          *)
  tablesExist,  (* the two bookkeeping tables have been created                *)
  holder,       (* processes whose session holds the advisory lock             *)
  pc,           (* where each process is in mask_plan                          *)
  job,          (* its --resume flag, config hash and secret fingerprint       *)
  run,          (* run_id returned by _start_run                               *)
  table,        (* table _mask_table is at                                     *)
  cursor,       (* last_pk and total_rows of _mask_table                       *)
  saved,        (* progress_dict                                               *)
  sum,          (* total_rows of mask_plan                                     *)
  written,      (* rows updated by the open transaction                        *)
  txFailed,     (* PostgreSQL: the open transaction accepts no more statements *)
  exit,         (* how the last invocation ended                               *)
  failures,     (* statement failures left                                     *)
  crashes,      (* deaths left                                                 *)
  fresh,        (* history: dbmask_audit is as this process's guards saw it    *)
  staleStart    (* history: some process started on guards no longer fresh     *)

database == <<value, audit, progress, tablesExist>>
position == <<run, table, cursor, saved, sum>>
session  == <<written, txFailed>>
budget   == <<failures, crashes>>
system == <<database, holder, pc, job, position, session, exit, budget>>
vars == <<system, fresh, staleStart>>

Init ==
  /\ value = [x \in Row |-> <<>>]
  /\ audit = <<>>
  /\ progress = <<>>
  /\ tablesExist = FALSE
  /\ holder = {}
  /\ pc = [p \in Procs |-> "idle"]
  /\ job = [p \in Procs |-> [resume |-> FALSE, key |-> CHOOSE k \in Key : TRUE]]
  /\ run = [p \in Procs |-> 0]
  /\ table = [p \in Procs |-> 0]
  /\ cursor = [p \in Procs |-> NoCursor]
  /\ saved = [p \in Procs |-> [t \in Tables |-> NoCursor]]
  /\ sum = [p \in Procs |-> 0]
  /\ written = [p \in Procs |-> {}]
  /\ txFailed = [p \in Procs |-> FALSE]
  /\ exit = [p \in Procs |-> "none"]
  /\ failures = MaxFailures
  /\ crashes = MaxCrashes
  /\ fresh = [p \in Procs |-> FALSE]
  /\ staleStart = FALSE

-----------------------------------------------------------------------------
(* What a statement sees and does.                                         *)

Completed == {i \in DOMAIN audit : audit[i].status = "completed"}

Incomplete == {i \in DOMAIN audit : audit[i].status \in {"running", "failed"}}

\* incomplete_run: the newest of them, by id.
IncompleteRun == CHOOSE i \in Incomplete : \A j \in Incomplete : j <= i

\* Mutant: the batch is not cut at the last row.
BatchEnd_Uncut(p) == cursor[p].last + BatchSize

BatchEnd(p) == LET end == cursor[p].last + BatchSize
               IN  IF end <= RowsOf[table[p]] THEN end ELSE RowsOf[table[p]]

\* The rows of p's batch up to the key n.
BatchUpTo(p, n) == {table[p]} \X ((cursor[p].last + 1)..n)

\* What every row holds once p's open transaction is committed.
AfterCommit(p) ==
  [x \in Row |-> IF x \in written[p] THEN Append(value[x], job[p].key) ELSE value[x]]

Step(p, from, to) == pc[p] = from /\ pc' = [pc EXCEPT ![p] = to]

\* The invocation ends without having taken the lock.
Stop(p, from, code) ==
  /\ Step(p, from, "idle")
  /\ exit' = [exit EXCEPT ![p] = code]

-----------------------------------------------------------------------------
(* The operator.                                                           *)

Invoke(p, j) ==
  /\ Len(audit) < MaxRuns
  /\ \A x \in Row : Len(value[x]) < MaxMasks
  /\ Step(p, "idle", "ensure")
  /\ job' = [job EXCEPT ![p] = j]
  /\ exit' = [exit EXCEPT ![p] = "none"]
  /\ UNCHANGED <<database, holder, position, session, budget>>

\* mask_plan(dry_run=True) returns before its first statement.
DryRun(p) ==
  /\ Stop(p, "idle", "ok")
  /\ UNCHANGED <<database, holder, job, position, session, budget>>

-----------------------------------------------------------------------------
(* Before the lock: ensure_tables and the guards.                          *)

LookForTables(p) ==
  /\ Step(p, "ensure", IF tablesExist THEN "guard" ELSE "create")
  /\ UNCHANGED <<database, holder, job, position, session, exit, budget>>

\* Both tables at once: MySQL commits each for itself, but what is missing of them the next
\* create_all makes, and nothing reads one without the other before.
CreateTables(p) ==
  /\ ~tablesExist
  /\ Step(p, "create", "guard")
  /\ tablesExist' = TRUE
  /\ UNCHANGED <<value, audit, progress, holder, job, position, session, exit, budget>>

\* Another process created the tables since this one looked.
CreateTablesRefused(p) ==
  /\ tablesExist
  /\ Stop(p, "create", "E_MASK")
  /\ UNCHANGED <<database, holder, job, position, session, budget>>

Refuse(p, from) ==
  /\ Stop(p, from, "E_SAFETY")
  /\ UNCHANGED <<database, holder, job, position, session, budget>>

Pass(p, from, to) ==
  /\ Step(p, from, to)
  /\ UNCHANGED <<database, holder, job, position, session, exit, budget>>

\* Mutant: a completed run does not refuse another.
PreflightCompleted_Skipped(p) ==
  /\ Dialect = "postgresql"
  /\ ~job[p].resume
  /\ Pass(p, "guard", "guardIncomplete")

\* READ COMMITTED: the two reads of _preflight_guards may see two states.
PreflightCompleted(p) ==
  /\ Dialect = "postgresql"
  /\ ~job[p].resume
  /\ \/ Completed # {} /\ Refuse(p, "guard")
     \/ Completed = {} /\ Pass(p, "guard", "guardIncomplete")

PreflightIncomplete(p) ==
  \/ Incomplete # {} /\ Refuse(p, "guardIncomplete")
  \/ Incomplete = {} /\ Pass(p, "guardIncomplete", "lock")

\* REPEATABLE READ: both see the snapshot the first one takes.
PreflightSnapshot(p) ==
  /\ Dialect = "mysql"
  /\ ~job[p].resume
  /\ \/ Completed \cup Incomplete # {} /\ Refuse(p, "guard")
     \/ Completed \cup Incomplete = {} /\ Pass(p, "guard", "lock")

\* Mutant: --resume is accepted without an incomplete run.
ResumeGuard_Skipped(p) == job[p].resume /\ Pass(p, "guard", "lock")

ResumeGuard(p) ==
  /\ job[p].resume
  /\ \/ Incomplete = {} /\ Refuse(p, "guard")
     \/ Incomplete # {} /\ Pass(p, "guard", "lock")

-----------------------------------------------------------------------------
(* Under the lock: the run row, the progress of an earlier attempt.        *)

\* Mutant: the answer of the lock statement is ignored.
TryLock_Unchecked(p) ==
  /\ Step(p, "lock", "start")
  /\ holder' = holder \cup {p}
  /\ UNCHANGED <<database, job, position, session, exit, budget>>

TryLock(p) ==
  \/ /\ holder # {}
     /\ Refuse(p, "lock")
  \/ /\ holder = {}
     /\ Step(p, "lock", "start")
     /\ holder' = holder \cup {p}
     /\ UNCHANGED <<database, job, position, session, exit, budget>>

\* Mutant: neither the config hash nor the secret fingerprint is compared.
ContinueRun_AnyKey(p) ==
  /\ Incomplete # {}
  /\ Step(p, "start", "load")
  /\ run' = [run EXCEPT ![p] = IncompleteRun]
  /\ UNCHANGED <<database, holder, job, table, cursor, saved, sum, session, exit, budget>>

\* _start_run continues any incomplete run it finds, whatever the --resume flag.
ContinueRun(p) ==
  /\ Incomplete # {}
  /\ audit[IncompleteRun].key = job[p].key
  /\ Step(p, "start", "load")
  /\ run' = [run EXCEPT ![p] = IncompleteRun]
  /\ UNCHANGED <<database, holder, job, table, cursor, saved, sum, session, exit, budget>>

NewRun(p) ==
  /\ Incomplete = {}
  /\ Step(p, "start", "load")
  /\ audit' = Append(audit, [status |-> "running", key |-> job[p].key, rowsMasked |-> 0])
  /\ progress' = Append(progress, [t \in Tables |-> NoCursor])
  /\ run' = [run EXCEPT ![p] = Len(audit) + 1]
  /\ UNCHANGED <<value, tablesExist, holder, job, table, cursor, saved, sum, session, exit,
                 budget>>

\* The config or the secret changed since the incomplete run started.
StartMismatch(p) ==
  /\ Incomplete # {}
  /\ audit[IncompleteRun].key # job[p].key
  /\ Step(p, "start", "release")
  /\ exit' = [exit EXCEPT ![p] = "E_SAFETY"]
  /\ UNCHANGED <<database, holder, job, position, session, budget>>

\* Mutant: --resume starts again from the first row.
LoadProgress_Fresh(p) ==
  /\ Step(p, "load", "open")
  /\ saved' = [saved EXCEPT ![p] = [t \in Tables |-> NoCursor]]
  /\ table' = [table EXCEPT ![p] = 1]
  /\ sum' = [sum EXCEPT ![p] = 0]
  /\ UNCHANGED <<database, holder, job, run, cursor, session, exit, budget>>

LoadProgress(p) ==
  /\ Step(p, "load", "open")
  /\ saved' = [saved EXCEPT ![p] = IF job[p].resume THEN progress[run[p]]
                                   ELSE [t \in Tables |-> NoCursor]]
  /\ table' = [table EXCEPT ![p] = 1]
  /\ sum' = [sum EXCEPT ![p] = 0]
  /\ UNCHANGED <<database, holder, job, run, cursor, session, exit, budget>>

-----------------------------------------------------------------------------
(* _mask_table: one batch after the other.                                 *)

\* Mutant: last_pk survives from one table to the next.
OpenTable_CursorKept(p) ==
  /\ table[p] \in Tables
  /\ Step(p, "open", "select")
  /\ cursor' = [cursor EXCEPT ![p] = IF table[p] = 1 THEN saved[p][1] ELSE @]
  /\ UNCHANGED <<database, holder, job, run, table, saved, sum, session, exit, budget>>

OpenTable(p) ==
  /\ table[p] \in Tables
  /\ Step(p, "open", "select")
  /\ cursor' = [cursor EXCEPT ![p] = saved[p][table[p]]]
  /\ UNCHANGED <<database, holder, job, run, table, saved, sum, session, exit, budget>>

\* Without a key there is nothing to compare with once a batch was read.
KeylessSelect(p) == table[p] \in Keyless /\ cursor[p].last > 0

\* Mutant: an empty result does not end the loop.
SelectBatch_EmptyToo(p) ==
  /\ Pass(p, "select", "update")
  /\ ~KeylessSelect(p)

SelectBatch(p) ==
  /\ Pass(p, "select", "update")
  /\ ~KeylessSelect(p)
  /\ cursor[p].last < RowsOf[table[p]]

TableDone(p) ==
  /\ Step(p, "select", "open")
  /\ ~KeylessSelect(p)
  /\ cursor[p].last >= RowsOf[table[p]]
  /\ sum' = [sum EXCEPT ![p] = @ + cursor[p].done]
  /\ table' = [table EXCEPT ![p] = @ + 1]
  /\ UNCHANGED <<database, holder, job, run, cursor, saved, session, exit, budget>>

\* update_batch: nothing to write where every column is keep.
UpdateBatch(p) ==
  /\ Step(p, "update", "save")
  /\ written' = [written EXCEPT ![p] = IF table[p] \in Keyless THEN {}
                                       ELSE BatchUpTo(p, BatchEnd(p))]
  /\ UNCHANGED <<database, holder, job, position, txFailed, exit, budget>>

\* Mutant: the progress of a batch is committed before its rows are written.
SaveBatch_ProgressFirst(p) ==
  /\ table[p] \notin Unserializable
  /\ Step(p, "save", "select")
  /\ cursor' = [cursor EXCEPT ![p] = [last |-> BatchEnd(p),
                                      done |-> @.done + (BatchEnd(p) - @.last)]]
  /\ progress' = [progress EXCEPT ![run[p]][table[p]] = cursor'[p]]
  /\ UNCHANGED <<value, audit, tablesExist, holder, job, run, table, saved, sum, session, exit,
                 budget>>

\* json.dumps(last_pk), upsert_progress and the commit of the batch.
SaveBatch(p) ==
  /\ table[p] \notin Unserializable
  /\ Step(p, "save", "select")
  /\ cursor' = [cursor EXCEPT ![p] = [last |-> BatchEnd(p),
                                      done |-> @.done + (BatchEnd(p) - @.last)]]
  /\ progress' = [progress EXCEPT ![run[p]][table[p]] = cursor'[p]]
  /\ value' = AfterCommit(p)
  /\ written' = [written EXCEPT ![p] = {}]
  /\ UNCHANGED <<audit, tablesExist, holder, job, run, table, saved, sum, txFailed, exit,
                 budget>>

\* Mutant: the completed status is not committed.
FinishRun_Uncommitted(p) ==
  /\ table[p] \notin Tables
  /\ Step(p, "open", "release")
  /\ exit' = [exit EXCEPT ![p] = "ok"]
  /\ UNCHANGED <<database, holder, job, position, session, budget>>

FinishRun(p) ==
  /\ table[p] \notin Tables
  /\ Step(p, "open", "release")
  /\ audit' = [audit EXCEPT ![run[p]].status = "completed", ![run[p]].rowsMasked = sum[p]]
  /\ exit' = [exit EXCEPT ![p] = "ok"]
  /\ UNCHANGED <<value, progress, tablesExist, holder, job, position, session, budget>>

-----------------------------------------------------------------------------
(* Failures.  Up to _start_run they end the invocation; from read_progress *)
(* on, mask_plan's except block records them and raises them again.        *)

SpendFailure == failures > 0 /\ failures' = failures - 1

EarlyFailure(p) ==
  /\ SpendFailure
  /\ \/ Stop(p, "ensure", "E_MASK")
     \/ Stop(p, "create", "E_MASK")
     \/ Stop(p, "guard", "E_MASK")
     \/ Stop(p, "guardIncomplete", "E_MASK")
     \/ Stop(p, "lock", "E_MASK")
     \/ Step(p, "start", "release") /\ exit' = [exit EXCEPT ![p] = "E_MASK"]
  /\ UNCHANGED <<database, holder, job, position, session, crashes>>

\* Mutant: the transaction goes on after a refused statement, whatever the dialect.
StatementFails_Ignored(p, from, code) ==
  /\ SpendFailure
  /\ Step(p, from, "failed")
  /\ exit' = [exit EXCEPT ![p] = code]
  /\ UNCHANGED <<database, holder, job, position, txFailed, crashes>>

\* A refused statement: PostgreSQL fails the transaction with it, MySQL does not.
StatementFails(p, from, code) ==
  /\ SpendFailure
  /\ Step(p, from, "failed")
  /\ exit' = [exit EXCEPT ![p] = code]
  /\ txFailed' = [txFailed EXCEPT ![p] = Dialect = "postgresql"]
  /\ UNCHANGED <<database, holder, job, position, crashes>>

ReadFails(p) ==
  /\ \/ StatementFails(p, "load", "E_MASK")
     \/ StatementFails(p, "open", "E_MASK") /\ table[p] \notin Tables
     \/ StatementFails(p, "open", "E_INTERNAL") /\ table[p] \in Tables
     \/ StatementFails(p, "select", "E_INTERNAL")
  /\ UNCHANGED written

\* The comparison of two empty tuples is no SQL.
KeylessSelectFails(p) ==
  /\ KeylessSelect(p)
  /\ Step(p, "select", "failed")
  /\ exit' = [exit EXCEPT ![p] = "E_INTERNAL"]
  /\ txFailed' = [txFailed EXCEPT ![p] = Dialect = "postgresql"]
  /\ UNCHANGED <<database, holder, job, position, written, budget>>

\* One UPDATE for the batch (PostgreSQL), or one per row: the rows before the refused
\* one stay in the transaction (MySQL).
UpdateFails(p) ==
  /\ table[p] \notin Keyless
  /\ StatementFails(p, "update", "E_INTERNAL")
  /\ \E n \in cursor[p].last..(BatchEnd(p) - 1) :
       /\ Dialect = "postgresql" => n = cursor[p].last
       /\ written' = [written EXCEPT ![p] = BatchUpTo(p, n)]

UpsertFails(p) ==
  /\ table[p] \notin Unserializable
  /\ StatementFails(p, "save", "E_MASK")
  /\ UNCHANGED written

\* json.dumps raises TypeError: no statement failed, the transaction is sound.
KeyNotSerializable(p) ==
  /\ table[p] \in Unserializable
  /\ Step(p, "save", "failed")
  /\ exit' = [exit EXCEPT ![p] = "E_INTERNAL"]
  /\ UNCHANGED <<database, holder, job, position, session, budget>>

\* except Exception: finish_run(FAILED, 0) and a commit, of whatever is in the transaction.
MarkFailed(p) ==
  /\ ~txFailed[p]
  /\ Step(p, "failed", "release")
  /\ audit' = [audit EXCEPT ![run[p]].status = "failed", ![run[p]].rowsMasked = 0]
  /\ value' = AfterCommit(p)
  /\ written' = [written EXCEPT ![p] = {}]
  /\ UNCHANGED <<progress, tablesExist, holder, job, position, txFailed, exit, budget>>

\* finish_run fails in its turn, on PostgreSQL because the transaction already has.
MarkFailedFails(p) ==
  /\ \/ txFailed[p] /\ UNCHANGED failures
     \/ ~txFailed[p] /\ SpendFailure
  /\ Step(p, "failed", "release")
  /\ exit' = [exit EXCEPT ![p] = "E_MASK"]
  /\ UNCHANGED <<database, holder, job, position, session, crashes>>

\* Mutant: the lock is not given back.
EndSession_LockKept(p) ==
  /\ written' = [written EXCEPT ![p] = {}]
  /\ txFailed' = [txFailed EXCEPT ![p] = FALSE]
  /\ UNCHANGED <<holder, position>>

\* The session loses its open transaction and its lock, the process its variables.
EndSession(p) ==
  /\ holder' = holder \ {p}
  /\ written' = [written EXCEPT ![p] = {}]
  /\ txFailed' = [txFailed EXCEPT ![p] = FALSE]
  /\ run' = [run EXCEPT ![p] = 0]
  /\ table' = [table EXCEPT ![p] = 0]
  /\ cursor' = [cursor EXCEPT ![p] = NoCursor]
  /\ saved' = [saved EXCEPT ![p] = [t \in Tables |-> NoCursor]]
  /\ sum' = [sum EXCEPT ![p] = 0]

\* The finally block of advisory_lock: rollback, then unlock.
ReleaseLock(p) ==
  /\ Step(p, "release", "idle")
  /\ EndSession(p)
  /\ UNCHANGED <<database, job, exit, budget>>

\* Kill, interrupt or network drop: the server rolls back and frees the lock.
Die(p) ==
  /\ crashes > 0
  /\ pc[p] # "idle"
  /\ pc' = [pc EXCEPT ![p] = "idle"]
  /\ crashes' = crashes - 1
  /\ EndSession(p)
  /\ exit' = [exit EXCEPT ![p] = "died"]
  /\ UNCHANGED <<database, job, failures>>

-----------------------------------------------------------------------------

Guards(p) == \/ LookForTables(p) \/ CreateTables(p) \/ CreateTablesRefused(p)
             \/ PreflightCompleted(p) \/ PreflightIncomplete(p) \/ PreflightSnapshot(p)
             \/ ResumeGuard(p)

LockAndStart(p) == \/ TryLock(p) \/ ContinueRun(p) \/ NewRun(p) \/ StartMismatch(p)
                   \/ LoadProgress(p)

MaskTable(p) == \/ OpenTable(p) \/ SelectBatch(p) \/ TableDone(p) \/ UpdateBatch(p)
                \/ SaveBatch(p) \/ FinishRun(p)

Unwind(p) == \/ KeylessSelectFails(p) \/ KeyNotSerializable(p)
             \/ MarkFailed(p) \/ MarkFailedFails(p) \/ ReleaseLock(p)

Fault(p) == \/ EarlyFailure(p) \/ ReadFails(p) \/ UpdateFails(p) \/ UpsertFails(p)
            \/ Die(p)

\* What a process does by itself, once invoked.
Advance(p) == Guards(p) \/ LockAndStart(p) \/ MaskTable(p) \/ Unwind(p)

\* History: from its first guard until it starts, is p's view of dbmask_audit current?
Window == {"guardIncomplete", "lock", "start"}

Remember ==
  /\ fresh' = [p \in Procs |-> /\ pc'[p] \in Window
                               /\ pc[p] \in Window => fresh[p] /\ audit' = audit]
  /\ staleStart' = (staleStart \/ \E p \in Procs : /\ pc[p] = "start" /\ ~fresh[p]
                                                   /\ pc'[p] = "load")

Next == /\ \E p \in Procs : \/ \E j \in Job : Invoke(p, j)
                            \/ DryRun(p)
                            \/ Advance(p)
                            \/ Fault(p)
        /\ Remember

Spec == Init /\ [][Next]_vars

\* A running process keeps running; the operator repeats --resume, with the config and
\* secret of the incomplete run, for as long as there is one.
RepeatResume(p) == /\ Incomplete # {}
                   /\ Invoke(p, [resume |-> TRUE, key |-> audit[IncompleteRun].key])

FairSpec == Spec /\ \A p \in Procs : WF_system(Advance(p)) /\ SF_system(RepeatResume(p))
=============================================================================
