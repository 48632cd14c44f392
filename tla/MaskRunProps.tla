---------------------------- MODULE MaskRunProps ----------------------------
(***************************************************************************)
(* What the in-place masking of MaskRun is asked to guarantee.             *)
(***************************************************************************)
EXTENDS MaskRun

\* Where a process is between taking the advisory lock and giving it back.
Locked == {"start", "load", "open", "select", "update", "save", "failed", "release"}

PC == {"idle", "ensure", "create", "guard", "guardIncomplete", "lock"} \cup Locked

DatabaseOK ==
  /\ value \in [Row -> Seq(Key)]
  /\ audit \in Seq(Run)
  /\ progress \in Seq([Tables -> Cursor])
  /\ Len(progress) = Len(audit)
  /\ tablesExist \in BOOLEAN

ProcessesOK ==
  /\ holder \subseteq Procs
  /\ pc \in [Procs -> PC]
  /\ job \in [Procs -> Job]
  /\ run \in [Procs -> Nat]
  /\ table \in [Procs -> Nat]
  /\ cursor \in [Procs -> Cursor]
  /\ saved \in [Procs -> [Tables -> Cursor]]
  /\ sum \in [Procs -> Nat]
  /\ written \in [Procs -> SUBSET Row]
  /\ txFailed \in [Procs -> BOOLEAN]
  /\ exit \in [Procs -> {"none", "ok", "E_SAFETY", "E_MASK", "E_INTERNAL", "died"}]

BudgetOK ==
  /\ failures \in 0..MaxFailures
  /\ crashes \in 0..MaxCrashes

HistoryOK ==
  /\ fresh \in [Procs -> BOOLEAN]
  /\ staleStart \in BOOLEAN

\* The variables hold values of the shapes the code gives them; every run has its
\* progress, and the rows of an open transaction are rows of the tables.
TypeOK == DatabaseOK /\ ProcessesOK /\ BudgetOK /\ HistoryOK

\* Where a process is decides what its variables point at.
Positions ==
  \A p \in Procs :
    /\ pc[p] \in {"load", "open", "select", "update", "save", "failed"}
         => run[p] \in DOMAIN audit
    /\ pc[p] = "open" => table[p] >= 1
    /\ pc[p] \in {"select", "update", "save"} => table[p] \in Tables
    /\ pc[p] \in {"update", "save"} => cursor[p].last < RowsOf[table[p]]

TInv == DatabaseOK /\ ProcessesOK /\ BudgetOK /\ Positions

\* advisory_lock holds the single-runner lock for the whole run: a process is past its
\* lock statement exactly as long as its session holds the lock, and no two are at once.
SingleRunner ==
  /\ \A p \in Procs : pc[p] \in Locked <=> p \in holder
  /\ \A p, q \in holder : p = q

\* No row is masked twice (architecture, invariant 3).
MaskedOnce == \A x \in Row : Len(value[x]) <= 1

\* What json.dumps refuses is committed without its progress, and masked again by --resume;
\* that stays within the tables with such keys: no other row is masked twice, in whatever
\* attempt and however often a run fails at them.  Claimed unless a process started on
\* guards gone stale.
OnceWhereKeysFit ==
  staleStart \/ \A x \in Row : x[1] \notin Unserializable => Len(value[x]) <= 1

MaskableRow == {x \in Row : x[1] \notin Keyless}

\* No original row is left behind, whatever fails, dies or races: a row that a cursor in
\* dbmask_progress has passed is masked, and so is every row once a run is completed.
NothingLeftBehind ==
  /\ \A i \in DOMAIN progress : \A x \in MaskableRow :
       x[2] <= progress[i][x[1]].last => value[x] # <<>>
  /\ Completed # {} => \A x \in MaskableRow : value[x] # <<>>

\* Why: what a process believes done is done, and a batch about to be recorded is written.
Belief(p) ==
  /\ pc[p] = "save" /\ table[p] \notin Keyless => written[p] = BatchUpTo(p, BatchEnd(p))
  /\ pc[p] \in {"open", "select", "update", "save"} =>
       \A x \in MaskableRow :
         /\ x[2] <= saved[p][x[1]].last => value[x] # <<>>
         /\ x[1] < table[p] => value[x] # <<>>
         /\ pc[p] # "open" /\ x[1] = table[p] /\ x[2] <= cursor[p].last => value[x] # <<>>

BeliefsHold == \A p \in Procs : Belief(p)

\* A batch's UPDATEs and its progress commit together (architecture, invariant 2): what
\* is masked is what the cursors of the only run have passed, all of it under the config
\* and secret of that run.  Claimed unless a process started on guards gone stale.
BatchAtomicity ==
  staleStart \/
  /\ Len(audit) <= 1
  /\ \A x \in Row :
       value[x] = IF /\ audit # <<>>
                     /\ x[1] \notin Keyless
                     /\ x[2] <= progress[1][x[1]].last
                  THEN <<audit[1].key>>
                  ELSE <<>>

\* A run recorded as completed left no row behind and masked every one under its own
\* config and secret.  Claimed unless a process started on guards gone stale.
CompletedIsWhole ==
  staleStart \/
  \A i \in Completed : \A x \in MaskableRow : value[x] = <<audit[i].key>>

\* The rows a completed run reports are the rows of the plan: a row is counted once,
\* however many attempts the run took and whatever raced with it.
CompletedCountsRows == \A i \in Completed : audit[i].rowsMasked = Cardinality(Row)

\* Why: a cursor counts the rows it has passed, in its table, and the sum of a process
\* the rows of the tables before the one it is at.
Counted(c, t) == c.done = c.last /\ c.last <= RowsOf[t]

Before(t) == {x \in Row : x[1] < t}

Counts(p) ==
  /\ \A t \in Tables : Counted(saved[p][t], t)
  /\ pc[p] \in {"select", "update", "save"} => Counted(cursor[p], table[p])
  /\ pc[p] \in {"open", "select", "update", "save"} => sum[p] = Cardinality(Before(table[p]))

CountsHold ==
  /\ \A i \in DOMAIN progress : \A t \in Tables : Counted(progress[i][t], t)
  /\ \A p \in Procs : Counts(p)

\* A completed run's row in dbmask_audit is never written again: no other process can
\* still be working for that run.
CompletedIsFinal ==
  [][\A i \in DOMAIN audit : audit[i].status = "completed" => audit'[i] = audit[i]]_vars

\* The completed-run guard: after a completed run no invocation touches a row or records
\* another run, unless it started on guards gone stale.
MaskedForGood ==
  [][Completed # {} /\ ~staleStart' => UNCHANGED <<value, audit, progress>>]_vars

\* Every invocation comes to an end, and with it the lock is free again.
InvocationsEnd == \A p \in Procs : (pc[p] # "idle") ~> (pc[p] = "idle" /\ p \notin holder)

\* An operator who repeats --resume gets an incomplete run completed.
ResumeCompletes == (Incomplete # {}) ~> (Completed # {} /\ Incomplete = {})

-----------------------------------------------------------------------------
(* The promise of MaskOnce, read off the database.                         *)

Promise == INSTANCE MaskOnce WITH
  Rows     <- MaskableRow,
  Keys     <- {<<k>> : k \in Key},
  Original <- <<>>,
  content  <- [x \in MaskableRow |-> value[x]],
  phase    <- CASE audit = <<>> -> "fresh"
                [] Incomplete # {} -> "masking"
                [] OTHER -> "masked",
  key      <- IF audit = <<>> THEN <<>> ELSE <<audit[1].key>>

\* mask_plan implements the promise: each of its steps is a step of MaskOnce or none.
KeepsPromise == Promise!Spec
=============================================================================
