------------------------ MODULE MaskRunSafetyProofs ------------------------
(***************************************************************************)
(* The single-runner lock, the promise that no original row is left behind *)
(* and the count a completed run reports, proved for every value of the    *)
(* constants of MaskRun: any number of processes, tables and rows, any     *)
(* schedule, any failures.                                                 *)
(***************************************************************************)
EXTENDS MaskRunProofs, FiniteSetTheorems

USE DEF Step, Stop, Refuse, Pass, StatementFails, SpendFailure, database, position, session,
        budget

-----------------------------------------------------------------------------
(* One runner at a time.  Only pc and holder matter.                       *)

\* A step of p to `to` that leaves the lock alone, on one side of the lock statement.
LEMMA LockUntouched ==
  ASSUME ProcessesOK, SingleRunner, NEW p \in Procs, NEW to,
         pc' = [pc EXCEPT ![p] = to], holder' = holder, pc[p] \in Locked <=> to \in Locked
  PROVE  SingleRunner'
BY DEF ProcessesOK, SingleRunner

\* Either p stays on one side of the lock statement, or it takes or ends the lock.
LEMMA LockSteps ==
  ASSUME TInv, NEW p \in Procs,
         (\E j \in Job : Invoke(p, j)) \/ DryRun(p) \/ Advance(p) \/ Fault(p)
  PROVE  \/ \E to : /\ pc' = [pc EXCEPT ![p] = to] /\ holder' = holder
                    /\ pc[p] \in Locked <=> to \in Locked
         \/ TryLock(p) \/ ReleaseLock(p) \/ Die(p)
<1> USE DEF Locked
<1>1. CASE (\E j \in Job : Invoke(p, j)) \/ DryRun(p)
  BY <1>1 DEF Invoke, DryRun
<1>2. CASE LookForTables(p)
  <2>1. /\ holder' = holder /\ pc[p] = "ensure"
        /\ \/ pc' = [pc EXCEPT ![p] = "guard"]
           \/ pc' = [pc EXCEPT ![p] = "create"]
    BY <1>2 DEF LookForTables
  <2> QED
    BY <2>1
<1>3. CASE CreateTables(p) \/ CreateTablesRefused(p)
  BY <1>3 DEF CreateTables, CreateTablesRefused
<1>4. CASE PreflightCompleted(p) \/ PreflightIncomplete(p)
  BY <1>4 DEF PreflightCompleted, PreflightIncomplete
<1>5. CASE PreflightSnapshot(p) \/ ResumeGuard(p)
  BY <1>5 DEF PreflightSnapshot, ResumeGuard
<1>6. CASE ContinueRun(p) \/ NewRun(p) \/ StartMismatch(p) \/ LoadProgress(p)
  BY <1>6 DEF ContinueRun, NewRun, StartMismatch, LoadProgress
<1>7. CASE OpenTable(p) \/ SelectBatch(p) \/ TableDone(p)
  BY <1>7 DEF OpenTable, SelectBatch, TableDone
<1>8. CASE UpdateBatch(p) \/ SaveBatch(p) \/ FinishRun(p)
  BY <1>8 DEF UpdateBatch, SaveBatch, FinishRun
<1>9. CASE KeylessSelectFails(p) \/ KeyNotSerializable(p)
  BY <1>9 DEF KeylessSelectFails, KeyNotSerializable
<1>10. CASE MarkFailed(p) \/ MarkFailedFails(p)
  BY <1>10 DEF MarkFailed, MarkFailedFails
<1>11. CASE EarlyFailure(p)
  BY <1>11 DEF EarlyFailure
<1>12. CASE ReadFails(p) \/ UpdateFails(p) \/ UpsertFails(p)
  BY <1>12 DEF ReadFails, UpdateFails, UpsertFails
<1>13. CASE TryLock(p) \/ ReleaseLock(p) \/ Die(p)
  BY <1>13
<1> QED
  BY <1>1, <1>2, <1>3, <1>4, <1>5, <1>6, <1>7, <1>8, <1>9, <1>10, <1>11, <1>12, <1>13
     DEF Advance, Guards, LockAndStart, MaskTable, Unwind, Fault

LEMMA NextSingleRunner == ASSUME TInv, SingleRunner, Next PROVE SingleRunner'
<1>1. PICK p \in Procs :
        (\E j \in Job : Invoke(p, j)) \/ DryRun(p) \/ Advance(p) \/ Fault(p)
  BY DEF Next
<1>2. CASE \E to : /\ pc' = [pc EXCEPT ![p] = to] /\ holder' = holder
                   /\ pc[p] \in Locked <=> to \in Locked
  BY <1>2, LockUntouched DEF TInv
<1>3. CASE TryLock(p)
  <2>1. CASE holder # {} /\ Refuse(p, "lock")
    BY <2>1, LockUntouched DEF TInv, Locked
  <2>2. CASE holder = {} /\ pc' = [pc EXCEPT ![p] = "start"] /\ holder' = holder \cup {p}
    BY <2>2 DEF TInv, ProcessesOK, SingleRunner, Locked
  <2> QED
    BY <1>3, <2>1, <2>2 DEF TryLock
<1>4. CASE ReleaseLock(p) \/ Die(p)
  <2>1. pc' = [pc EXCEPT ![p] = "idle"] /\ holder' = holder \ {p}
    BY <1>4 DEF ReleaseLock, Die, EndSession
  <2> QED
    BY <2>1 DEF TInv, ProcessesOK, SingleRunner, Locked
<1> QED
  BY <1>1, <1>2, <1>3, <1>4, LockSteps

\* Between its lock statement and its unlock a process holds the lock, and it is alone
\* there, in every instance: nothing between the two can run twice at a time.
THEOREM OneRunner == Spec => []SingleRunner
<1>1. Init => SingleRunner
  BY DEF Init, SingleRunner, Locked
<1>2. TInv /\ SingleRunner /\ [Next]_vars => SingleRunner'
  <2>1. SingleRunner /\ UNCHANGED vars => SingleRunner'
    BY DEF SingleRunner, vars, system
  <2> QED
    BY <2>1, NextSingleRunner
<1> QED
  BY <1>1, <1>2, TInvHolds, PTL DEF Spec

-----------------------------------------------------------------------------
(* Nothing is left behind.                                                 *)

\* Rows only ever gain masks: what is masked stays masked.
Grows == \A x \in Row : value[x] # <<>> => value'[x] # <<>>

\* A step of p leaves the variables of the other processes alone.
OnlyP(p) ==
  \A q \in Procs \ {p} :
    /\ pc'[q] = pc[q] /\ written'[q] = written[q] /\ saved'[q] = saved[q]
    /\ table'[q] = table[q] /\ cursor'[q] = cursor[q]

LEMMA OtherBeliefs ==
  ASSUME NEW p \in Procs, NEW q \in Procs \ {p}, OnlyP(p), Grows, Belief(q)
  PROVE  Belief(q)'
<1>1. /\ pc'[q] = pc[q] /\ written'[q] = written[q] /\ saved'[q] = saved[q]
      /\ table'[q] = table[q] /\ cursor'[q] = cursor[q]
  BY DEF OnlyP
<1>2. BatchUpTo(q, BatchEnd(q))' = BatchUpTo(q, BatchEnd(q))
  BY <1>1 DEF BatchUpTo, BatchEnd
<1> QED
  BY <1>1, <1>2 DEF Belief, Grows, MaskableRow

\* The rows of a step that commits nothing, closes no run and records no progress.
LEMMA QuietStep ==
  ASSUME NothingLeftBehind, UNCHANGED <<value, progress, audit>>
  PROVE  NothingLeftBehind' /\ Grows
BY DEF NothingLeftBehind, Grows, Completed

\* A process outside its walk over the tables believes nothing.
LEMMA NoBelief ==
  ASSUME NEW p \in Procs, pc'[p] \notin {"open", "select", "update", "save"}
  PROVE  Belief(p)'
BY DEF Belief

Safe == TInv /\ BeliefsHold /\ NothingLeftBehind

\* What each step of p has to show.
Keeps(p) == OnlyP(p) /\ Grows /\ Belief(p)' /\ NothingLeftBehind'

LEMMA LoadProgressKeeps == ASSUME Safe, NEW p \in Procs, LoadProgress(p) PROVE Keeps(p)
<1> USE DEF Safe, TInv
<1>1. OnlyP(p) /\ UNCHANGED <<value, progress, audit>>
  BY DEF OnlyP, ProcessesOK, LoadProgress
<1>2. run[p] \in DOMAIN progress
  BY LenProperties DEF DatabaseOK, Positions, LoadProgress
<1>3. /\ pc'[p] = "open" /\ table'[p] = 1
      /\ saved'[p] = IF job[p].resume THEN progress[run[p]] ELSE [t \in Tables |-> NoCursor]
  BY DEF ProcessesOK, LoadProgress
<1>4. ASSUME NEW x \in MaskableRow
      PROVE  /\ x[2] <= saved'[p][x[1]].last => value[x] # <<>>
             /\ ~ (x[1] < 1)
  <2>1. x \in Row /\ x[1] \in Tables /\ x[2] \in 1..RowsOf[x[1]] /\ RowsOf[x[1]] \in Nat
    BY RowIsPair, TablesAssumption DEF MaskableRow
  <2>2. x[1] \in Nat /\ x[1] >= 1 /\ x[2] >= 1 /\ x[2] \in Nat
    BY <2>1, TablesAssumption DEF Tables
  <2>3. CASE job[p].resume
    <3>1. x[2] <= progress[run[p]][x[1]].last => value[x] # <<>>
      BY <1>2 DEF NothingLeftBehind
    <3> QED
      BY <1>3, <2>2, <2>3, <3>1
  <2>4. CASE ~job[p].resume
    BY <1>3, <2>1, <2>2, <2>4 DEF NoCursor
  <2> QED
    BY <2>2, <2>3, <2>4
<1>5. Belief(p)'
  BY <1>1, <1>3, <1>4 DEF Belief, MaskableRow
<1> QED
  BY <1>1, <1>5, QuietStep DEF Keeps

LEMMA OpenTableKeeps == ASSUME Safe, NEW p \in Procs, OpenTable(p) PROVE Keeps(p)
<1> USE DEF Safe, TInv
<1>1. OnlyP(p) /\ UNCHANGED <<value, progress, audit>>
  BY DEF OnlyP, ProcessesOK, OpenTable
<1>2. /\ pc[p] = "open" /\ pc'[p] = "select" /\ saved' = saved /\ table' = table
      /\ cursor'[p] = saved[p][table[p]]
  BY DEF ProcessesOK, OpenTable
<1>3. Belief(p)'
  BY <1>1, <1>2 DEF BeliefsHold, Belief, MaskableRow
<1> QED
  BY <1>1, <1>3, QuietStep DEF Keeps

LEMMA SelectBatchKeeps == ASSUME Safe, NEW p \in Procs, SelectBatch(p) PROVE Keeps(p)
<1> USE DEF Safe, TInv
<1>1. OnlyP(p) /\ UNCHANGED <<value, progress, audit>>
  BY DEF OnlyP, ProcessesOK, SelectBatch
<1>2. /\ pc[p] = "select" /\ pc'[p] = "update"
      /\ saved' = saved /\ table' = table /\ cursor' = cursor
  BY DEF ProcessesOK, SelectBatch
<1>3. Belief(p)'
  BY <1>1, <1>2 DEF BeliefsHold, Belief, MaskableRow
<1> QED
  BY <1>1, <1>3, QuietStep DEF Keeps

\* A table is left when the cursor is at its last row.
LEMMA TableDoneKeeps == ASSUME Safe, NEW p \in Procs, TableDone(p) PROVE Keeps(p)
<1> USE DEF Safe, TInv
<1>1. OnlyP(p) /\ UNCHANGED <<value, progress, audit>>
  BY DEF OnlyP, ProcessesOK, TableDone
<1>2. /\ pc[p] = "select" /\ pc'[p] = "open" /\ saved' = saved
      /\ table'[p] = table[p] + 1 /\ cursor[p].last >= RowsOf[table[p]]
  BY DEF ProcessesOK, TableDone
<1>3. ASSUME NEW x \in MaskableRow
      PROVE  /\ x[2] <= saved[p][x[1]].last => value[x] # <<>>
             /\ x[1] < table[p] + 1 => value[x] # <<>>
  <2>1. /\ x[2] <= saved[p][x[1]].last => value[x] # <<>>
        /\ x[1] < table[p] => value[x] # <<>>
        /\ x[1] = table[p] /\ x[2] <= cursor[p].last => value[x] # <<>>
    BY <1>2 DEF BeliefsHold, Belief
  <2>2. /\ x[1] \in Nat /\ x[2] \in Nat /\ RowsOf[x[1]] \in Nat /\ x[2] <= RowsOf[x[1]]
        /\ table[p] \in Nat /\ cursor[p].last \in Nat
    BY RowIsPair, TablesAssumption DEF MaskableRow, ProcessesOK, Cursor, Tables
  <2>3. x[1] = table[p] => x[2] <= cursor[p].last
    BY <1>2, <2>2
  <2> QED
    BY <2>1, <2>2, <2>3
<1>4. Belief(p)'
  BY <1>1, <1>2, <1>3 DEF Belief, MaskableRow
<1> QED
  BY <1>1, <1>4, QuietStep DEF Keeps

LEMMA UpdateBatchKeeps == ASSUME Safe, NEW p \in Procs, UpdateBatch(p) PROVE Keeps(p)
<1> USE DEF Safe, TInv
<1>1. OnlyP(p) /\ UNCHANGED <<value, progress, audit>>
  BY DEF OnlyP, ProcessesOK, UpdateBatch
<1>2. /\ pc[p] = "update" /\ pc'[p] = "save"
      /\ saved' = saved /\ table' = table /\ cursor' = cursor
      /\ table[p] \notin Keyless => written'[p] = BatchUpTo(p, BatchEnd(p))
  BY DEF ProcessesOK, UpdateBatch
<1>3. BatchUpTo(p, BatchEnd(p))' = BatchUpTo(p, BatchEnd(p))
  BY <1>2 DEF BatchUpTo, BatchEnd
<1>4. Belief(p)'
  BY <1>1, <1>2, <1>3 DEF BeliefsHold, Belief, MaskableRow
<1> QED
  BY <1>1, <1>4, QuietStep DEF Keeps

\* The rows of the batch are in the transaction that records it.
LEMMA SaveBatchKeeps == ASSUME Safe, NEW p \in Procs, SaveBatch(p) PROVE Keeps(p)
<1> USE DEF Safe, TInv
<1> DEFINE end == BatchEnd(p)
<1>1. OnlyP(p) /\ audit' = audit
  BY DEF OnlyP, ProcessesOK, SaveBatch
<1>2. /\ pc[p] = "save" /\ pc'[p] = "select" /\ saved' = saved /\ table' = table
      /\ cursor'[p].last = end
      /\ value' = AfterCommit(p)
      /\ progress' = [progress EXCEPT ![run[p]][table[p]] = cursor'[p]]
  BY DEF ProcessesOK, SaveBatch
<1>3. Grows
  BY <1>2, AfterCommitType DEF Grows
<1>4. ASSUME NEW x \in MaskableRow, x[1] = table[p], x[2] <= end
      PROVE  value'[x] # <<>>
  <2>1. /\ x \in Row /\ x = <<x[1], x[2]>> /\ x[2] \in Nat /\ x[1] \notin Keyless
    BY RowIsPair, TablesAssumption DEF MaskableRow
  <2>2. end \in Nat /\ cursor[p].last \in Nat
    BY <1>2, BatchType DEF ProcessesOK, Cursor
  <2>3. CASE x[2] <= cursor[p].last
    <3>1. value[x] # <<>>
      BY <1>2, <1>4, <2>3 DEF BeliefsHold, Belief
    <3> QED
      BY <1>3, <2>1, <3>1 DEF Grows
  <2>4. CASE x[2] > cursor[p].last
    <3>1. x[2] \in (cursor[p].last + 1)..end
      BY <1>4, <2>1, <2>2, <2>4
    <3>2. x \in BatchUpTo(p, end)
      BY <1>4, <2>1, <3>1 DEF BatchUpTo
    <3>3. x \in written[p]
      BY <1>2, <1>4, <2>1, <3>2 DEF BeliefsHold, Belief
    <3> QED
      BY <1>2, <2>1, <3>3, AfterCommitType
  <2> QED
    BY <2>1, <2>2, <2>3, <2>4
<1>5. Belief(p)'
  <2> SUFFICES ASSUME NEW x \in MaskableRow
               PROVE  /\ x[2] <= saved[p][x[1]].last => value'[x] # <<>>
                      /\ x[1] < table[p] => value'[x] # <<>>
                      /\ x[1] = table[p] /\ x[2] <= end => value'[x] # <<>>
    BY <1>2 DEF Belief, MaskableRow
  <2>1. /\ x[2] <= saved[p][x[1]].last => value[x] # <<>>
        /\ x[1] < table[p] => value[x] # <<>>
    BY <1>2 DEF BeliefsHold, Belief
  <2> QED
    BY <1>3, <1>4, <2>1 DEF Grows, MaskableRow
<1>6. NothingLeftBehind'
  <2>1. ASSUME NEW i \in DOMAIN progress', NEW x \in MaskableRow,
               x[2] <= progress'[i][x[1]].last
        PROVE  value'[x] # <<>>
    <3>1. i \in DOMAIN progress /\ x \in Row /\ x[1] \in Tables
      BY <1>2, RowIsPair DEF MaskableRow
    <3>2. progress[i] \in [Tables -> Cursor] /\ table[p] \in Tables
      <4>1. i \in 1..Len(progress) /\ progress \in Seq([Tables -> Cursor])
        BY <3>1, LenProperties DEF DatabaseOK
      <4> QED
        BY <1>2, <4>1, ElementOfSeq DEF Positions
    <3>3. CASE i = run[p] /\ x[1] = table[p]
      <4>1. progress'[i][x[1]] = cursor'[p]
        BY <1>2, <3>1, <3>2, <3>3
      <4> QED
        BY <1>2, <1>4, <2>1, <3>3, <4>1
    <3>4. CASE ~ (i = run[p] /\ x[1] = table[p])
      <4>1. progress'[i][x[1]] = progress[i][x[1]]
        BY <1>2, <3>1, <3>2, <3>4
      <4>2. value[x] # <<>>
        BY <2>1, <3>1, <4>1 DEF NothingLeftBehind
      <4> QED
        BY <1>3, <3>1, <4>2 DEF Grows
    <3> QED
      BY <3>3, <3>4
  <2>2. Completed' = Completed
    BY <1>1 DEF Completed
  <2> QED
    BY <1>3, <2>1, <2>2 DEF NothingLeftBehind, Grows, MaskableRow
<1> QED
  BY <1>1, <1>3, <1>5, <1>6 DEF Keeps

\* A new run has no progress that anyone could believe.
LEMMA NewRunKeeps == ASSUME Safe, NEW p \in Procs, NewRun(p) PROVE Keeps(p)
<1> USE DEF Safe, TInv
<1> DEFINE new == [status |-> "running", key |-> job[p].key, rowsMasked |-> 0]
           none == [t \in Tables |-> NoCursor]
<1>1. OnlyP(p) /\ value' = value /\ pc'[p] = "load"
  BY DEF OnlyP, ProcessesOK, NewRun
<1>2. audit' = Append(audit, new) /\ progress' = Append(progress, none)
  BY DEF NewRun
<1>3. new.status = "running" /\ \A t \in Tables : none[t].last = 0
  BY DEF NoCursor
<1> HIDE DEF new, none
<1>4. /\ DOMAIN progress = 1..Len(progress) /\ DOMAIN progress' = 1..(Len(progress) + 1)
      /\ \A i \in DOMAIN progress : progress'[i] = progress[i]
      /\ progress'[Len(progress) + 1] = none
      /\ Len(progress) \in Nat
  <2>1. progress \in Seq([Tables -> Cursor]) /\ none \in [Tables -> Cursor]
    BY DEF DatabaseOK, none, NoCursor, Cursor
  <2> QED
    BY <1>2, <2>1, AppendProperties, LenProperties
<1>5. Completed' \subseteq Completed
  <2>1. audit \in Seq(Run) /\ new \in Run
    BY DEF DatabaseOK, ProcessesOK, new, Run, Status, Job
  <2>2. /\ DOMAIN audit = 1..Len(audit) /\ DOMAIN audit' = 1..(Len(audit) + 1)
        /\ \A i \in DOMAIN audit : audit'[i] = audit[i]
        /\ audit'[Len(audit) + 1] = new
        /\ Len(audit) \in Nat
    BY <1>2, <2>1, AppendProperties, LenProperties
  <2> QED
    BY <1>3, <2>2 DEF Completed
<1>6. NothingLeftBehind'
  <2>1. ASSUME NEW i \in DOMAIN progress', NEW x \in MaskableRow,
               x[2] <= progress'[i][x[1]].last
        PROVE  value[x] # <<>>
    <3>1. x[1] \in Tables /\ x[2] \in Nat /\ x[2] >= 1
      BY RowIsPair, TablesAssumption DEF MaskableRow
    <3>2. i \in DOMAIN progress
      BY <1>3, <1>4, <2>1, <3>1
    <3> QED
      BY <1>4, <2>1, <3>2 DEF NothingLeftBehind
  <2> QED
    BY <1>1, <1>5, <2>1 DEF NothingLeftBehind, MaskableRow
<1>7. Grows /\ Belief(p)'
  BY <1>1, NoBelief DEF Grows
<1> QED
  BY <1>1, <1>6, <1>7 DEF Keeps

\* A run is completed by a process that has walked past the last table.
LEMMA FinishRunKeeps == ASSUME Safe, NEW p \in Procs, FinishRun(p) PROVE Keeps(p)
<1> USE DEF Safe, TInv
<1>1. OnlyP(p) /\ UNCHANGED <<value, progress>> /\ pc[p] = "open" /\ pc'[p] = "release"
  BY DEF OnlyP, ProcessesOK, FinishRun
<1>2. ASSUME NEW x \in MaskableRow PROVE value[x] # <<>>
  <2>1. x[1] \in 1..NumTables /\ NumTables \in Nat
    BY RowIsPair, TablesAssumption DEF MaskableRow, Tables
  <2>2. table[p] \in Nat /\ table[p] >= 1 /\ table[p] \notin 1..NumTables
    BY <1>1 DEF ProcessesOK, Positions, FinishRun, Tables
  <2>3. x[1] < table[p]
    BY <2>1, <2>2
  <2> QED
    BY <1>1, <2>3 DEF BeliefsHold, Belief
<1>3. NothingLeftBehind' /\ Grows
  BY <1>1, <1>2 DEF NothingLeftBehind, Grows, MaskableRow
<1>4. Belief(p)'
  BY <1>1, NoBelief
<1> QED
  BY <1>1, <1>3, <1>4 DEF Keeps

\* Marking a run failed commits what the transaction holds, and completes no run.
LEMMA MarkFailedKeeps == ASSUME Safe, NEW p \in Procs, MarkFailed(p) PROVE Keeps(p)
<1> USE DEF Safe, TInv
<1>1. /\ OnlyP(p) /\ progress' = progress /\ pc[p] = "failed" /\ pc'[p] = "release"
      /\ value' = AfterCommit(p)
      /\ audit' = [audit EXCEPT ![run[p]].status = "failed", ![run[p]].rowsMasked = 0]
  BY DEF OnlyP, ProcessesOK, MarkFailed
<1>2. Grows
  BY <1>1, AfterCommitType DEF Grows
<1>3. Completed' \subseteq Completed
  <2>1. run[p] \in DOMAIN audit /\ audit \in Seq(Run)
    BY <1>1 DEF Positions, DatabaseOK
  <2>2. audit[run[p]] \in Run
    BY <2>1, ElementOfSeq, LenProperties
  <2>3. DOMAIN audit' = DOMAIN audit
    BY <1>1
  <2>4. audit'[run[p]].status = "failed"
    BY <1>1, <2>1, <2>2 DEF Run
  <2>5. \A i \in DOMAIN audit : i # run[p] => audit'[i] = audit[i]
    BY <1>1
  <2> QED
    BY <2>3, <2>4, <2>5 DEF Completed
<1>4. NothingLeftBehind'
  BY <1>1, <1>2, <1>3 DEF NothingLeftBehind, Grows, MaskableRow
<1>5. Belief(p)'
  BY <1>1, NoBelief
<1> QED
  BY <1>1, <1>2, <1>4, <1>5 DEF Keeps

\* The other steps commit nothing and leave p outside its walk.
LEMMA QuietKeeps ==
  ASSUME Safe, NEW p \in Procs,
         /\ UNCHANGED <<value, progress, audit>>
         /\ OnlyP(p)
         /\ pc'[p] \notin {"open", "select", "update", "save"}
  PROVE  Keeps(p)
BY QuietStep, NoBelief DEF Safe, Keeps

LEMMA StepKeeps ==
  ASSUME Safe, NEW p \in Procs,
         (\E j \in Job : Invoke(p, j)) \/ DryRun(p) \/ Advance(p) \/ Fault(p)
  PROVE  Keeps(p)
<1> DEFINE Quiet == /\ UNCHANGED <<value, progress, audit>>
                    /\ OnlyP(p)
                    /\ pc'[p] \notin {"open", "select", "update", "save"}
<1>0. Quiet => Keeps(p)
  BY QuietKeeps
<1>1. CASE (\E j \in Job : Invoke(p, j)) \/ DryRun(p)
  BY <1>0, <1>1 DEF Invoke, DryRun, OnlyP, Safe, TInv, ProcessesOK
<1>2. CASE LookForTables(p)
  BY <1>0, <1>2 DEF LookForTables, OnlyP, Safe, TInv, ProcessesOK
<1>3. CASE CreateTables(p) \/ CreateTablesRefused(p)
  BY <1>0, <1>3 DEF CreateTables, CreateTablesRefused, OnlyP, Safe, TInv, ProcessesOK
<1>4. CASE PreflightCompleted(p) \/ PreflightIncomplete(p)
  BY <1>0, <1>4 DEF PreflightCompleted, PreflightIncomplete, OnlyP, Safe, TInv, ProcessesOK
<1>5. CASE PreflightSnapshot(p) \/ ResumeGuard(p)
  BY <1>0, <1>5 DEF PreflightSnapshot, ResumeGuard, OnlyP, Safe, TInv, ProcessesOK
<1>6. CASE TryLock(p)
  BY <1>0, <1>6 DEF TryLock, OnlyP, Safe, TInv, ProcessesOK
<1>7. CASE ContinueRun(p) \/ StartMismatch(p)
  BY <1>0, <1>7 DEF ContinueRun, StartMismatch, OnlyP, Safe, TInv, ProcessesOK
<1>8. CASE KeylessSelectFails(p) \/ KeyNotSerializable(p)
  BY <1>0, <1>8 DEF KeylessSelectFails, KeyNotSerializable, OnlyP, Safe, TInv, ProcessesOK
<1>9. CASE MarkFailedFails(p)
  BY <1>0, <1>9 DEF MarkFailedFails, OnlyP, Safe, TInv, ProcessesOK
<1>10. CASE ReleaseLock(p) \/ Die(p)
  BY <1>0, <1>10 DEF ReleaseLock, Die, EndSession, OnlyP, Safe, TInv, ProcessesOK
<1>11. CASE EarlyFailure(p)
  BY <1>0, <1>11 DEF EarlyFailure, OnlyP, Safe, TInv, ProcessesOK
<1>12. CASE ReadFails(p) \/ UpsertFails(p)
  BY <1>0, <1>12 DEF ReadFails, UpsertFails, OnlyP, Safe, TInv, ProcessesOK
<1>13. CASE UpdateFails(p)
  BY <1>0, <1>13 DEF UpdateFails, OnlyP, Safe, TInv, ProcessesOK
<1> QED
  BY <1>1, <1>2, <1>3, <1>4, <1>5, <1>6, <1>7, <1>8, <1>9, <1>10, <1>11, <1>12, <1>13,
     NewRunKeeps, LoadProgressKeeps, OpenTableKeeps, SelectBatchKeeps, TableDoneKeeps,
     UpdateBatchKeeps, SaveBatchKeeps, FinishRunKeeps, MarkFailedKeeps
     DEF Advance, Guards, LockAndStart, MaskTable, Unwind, Fault

LEMMA NextSafe == ASSUME Safe, Next PROVE Safe'
<1>1. PICK p \in Procs :
        (\E j \in Job : Invoke(p, j)) \/ DryRun(p) \/ Advance(p) \/ Fault(p)
  BY DEF Next
<1>2. Keeps(p)
  BY <1>1, StepKeeps
<1>3. \A q \in Procs \ {p} : Belief(q)'
  BY <1>2, OtherBeliefs DEF Safe, BeliefsHold, Keeps
<1> QED
  BY <1>2, <1>3, NextType DEF Safe, BeliefsHold, Keeps

\* Whatever fails, dies or races, and whatever the dialect: no cursor recorded in
\* dbmask_progress has passed an original row, and no run is recorded as completed while
\* an original row is left.  It needs neither the lock nor the guards.
THEOREM NoRowLeftBehind == Spec => []NothingLeftBehind
<1>1. Init => Safe
  <2>1. Init => BeliefsHold
    BY DEF Init, BeliefsHold, Belief
  <2>2. Init => NothingLeftBehind
    BY DEF Init, NothingLeftBehind, Completed
  <2> QED
    BY <2>1, <2>2, InitType DEF Safe
<1>2. Safe /\ [Next]_vars => Safe'
  <2>1. ASSUME Safe, UNCHANGED vars PROVE Safe'
    <3>1. \A p \in Procs : BatchUpTo(p, BatchEnd(p))' = BatchUpTo(p, BatchEnd(p))
      BY <2>1 DEF BatchUpTo, BatchEnd, vars, system
    <3>2. BeliefsHold'
      BY <2>1, <3>1 DEF Safe, BeliefsHold, Belief, vars, system
    <3>3. NothingLeftBehind'
      BY <2>1 DEF Safe, NothingLeftBehind, Completed, vars, system
    <3> QED
      BY <2>1, <3>2, <3>3, Stutter DEF Safe
  <2> QED
    BY <2>1, NextSafe
<1>3. Safe => NothingLeftBehind
  BY DEF Safe
<1> QED
  BY <1>1, <1>2, <1>3, PTL DEF Spec

-----------------------------------------------------------------------------
(* A completed run counts every row once.                                  *)

LEMMA RowFinite == IsFiniteSet(Row)
<1> DEFINE rows == [t \in Tables |-> {t} \X (1..RowsOf[t])]
           parts == {{t} \X (1..RowsOf[t]) : t \in Tables}
<1>1. IsFiniteSet(Tables)
  BY TablesAssumption, FS_Interval DEF Tables
<1>2. rows \in Surjection(Tables, parts)
  BY Zenon DEF Surjection
<1>3. IsFiniteSet(parts)
  <2> HIDE DEF rows, parts
  <2> QED
    BY <1>1, <1>2, FS_Surjection
<1>4. ASSUME NEW t \in Tables PROVE IsFiniteSet({t} \X (1..RowsOf[t]))
  <2>1. IsFiniteSet(1..RowsOf[t])
    BY TablesAssumption, FS_Interval
  <2> QED
    BY <2>1, FS_Singleton, FS_Product
<1>5. \A part \in parts : IsFiniteSet(part)
  BY <1>4
<1>6. Row = UNION parts
  BY DEF Row
<1> HIDE DEF parts
<1> QED
  BY <1>3, <1>5, <1>6, FS_UNION

\* Nothing is before the first table, and everything before the place after the last.
LEMMA BeforeEnds ==
  /\ Cardinality(Before(1)) = 0
  /\ \A n \in Nat \ Tables : n >= 1 => Before(n) = Row
<1>1. \A x \in Row : x[1] \in 1..NumTables
  BY RowIsPair DEF Tables
<1>2. Before(1) = {}
  BY <1>1, TablesAssumption DEF Before
<1>3. ASSUME NEW n \in Nat \ Tables, n >= 1 PROVE Before(n) = Row
  BY <1>1, <1>3, TablesAssumption DEF Before, Tables
<1> QED
  BY <1>2, <1>3, FS_EmptySet

\* A table adds its rows to those of the tables before it.
LEMMA BeforeNext ==
  ASSUME NEW t \in Tables
  PROVE  Cardinality(Before(t + 1)) = Cardinality(Before(t)) + RowsOf[t]
<1> DEFINE here == {t} \X (1..RowsOf[t])
<1>1. t \in Nat /\ RowsOf[t] \in Nat /\ \A x \in Row : x[1] \in Nat
  BY RowIsPair, TablesAssumption DEF Tables
<1>2. IsFiniteSet(here) /\ Cardinality(here) = RowsOf[t]
  <2>1. IsFiniteSet(1..RowsOf[t]) /\ Cardinality(1..RowsOf[t]) = RowsOf[t]
    <3>1. 1 \in Int /\ RowsOf[t] \in Int
      BY <1>1
    <3>2. /\ IsFiniteSet(1..RowsOf[t])
          /\ Cardinality(1..RowsOf[t]) = IF 1 > RowsOf[t] THEN 0 ELSE RowsOf[t] - 1 + 1
      BY <3>1, FS_Interval, Zenon
    <3> QED
      BY <1>1, <3>2
  <2>2. IsFiniteSet({t}) /\ Cardinality({t}) = 1
    BY FS_Singleton
  <2> QED
    BY <1>1, <2>1, <2>2, FS_Product
<1>3. IsFiniteSet(Before(t)) /\ Cardinality(Before(t)) \in Nat
  BY RowFinite, FS_Subset, FS_CardinalityType DEF Before
<1>4. \A x \in Row : x[1] = t <=> x \in here
  BY RowIsPair
<1>5. here \subseteq Row
  BY RowIsPair
<1>6. Before(t + 1) = Before(t) \cup here
  BY <1>1, <1>4, <1>5 DEF Before
<1>7. Before(t) \cap here = {}
  BY <1>1 DEF Before
<1> HIDE DEF here
<1>8. Cardinality(Before(t) \cap here) = 0
  BY <1>7, FS_EmptySet
<1>9. Cardinality(Before(t) \cup here)
        = Cardinality(Before(t)) + Cardinality(here) - Cardinality(Before(t) \cap here)
  BY <1>2, <1>3, FS_Union
<1>10. Cardinality(Before(t + 1)) = Cardinality(Before(t)) + RowsOf[t] - 0
  BY <1>2, <1>6, <1>8, <1>9, Zenon
<1> QED
  BY <1>1, <1>3, <1>10

Walk == {"open", "select", "update", "save"}

Countable == TInv /\ CountsHold /\ CompletedCountsRows

NoCursors == [t \in Tables |-> NoCursor]

OthersCount(p) ==
  \A q \in Procs \ {p} :
    /\ pc'[q] = pc[q] /\ saved'[q] = saved[q] /\ table'[q] = table[q]
    /\ cursor'[q] = cursor[q] /\ sum'[q] = sum[q]

\* A step of p outside its walk, which closes no run and records no progress.
NoCount(p) == /\ UNCHANGED <<progress, audit>>
              /\ pc'[p] \notin Walk
              /\ saved'[p] \in {saved[p], NoCursors}

LEMMA CountKinds ==
  ASSUME TInv, NEW p \in Procs,
         (\E j \in Job : Invoke(p, j)) \/ DryRun(p) \/ Advance(p) \/ Fault(p)
  PROVE  /\ OthersCount(p)
         /\ \/ NoCount(p)
            \/ NewRun(p) \/ LoadProgress(p) \/ OpenTable(p) \/ SelectBatch(p) \/ TableDone(p)
            \/ UpdateBatch(p) \/ SaveBatch(p) \/ FinishRun(p) \/ MarkFailed(p)
<1> USE DEF TInv, ProcessesOK, OthersCount, NoCount, Walk
<1>1. CASE (\E j \in Job : Invoke(p, j)) \/ DryRun(p)
  BY <1>1 DEF Invoke, DryRun
<1>2. CASE LookForTables(p)
  BY <1>2 DEF LookForTables
<1>3. CASE CreateTables(p) \/ CreateTablesRefused(p)
  BY <1>3 DEF CreateTables, CreateTablesRefused
<1>4. CASE PreflightCompleted(p) \/ PreflightIncomplete(p)
  BY <1>4 DEF PreflightCompleted, PreflightIncomplete
<1>5. CASE PreflightSnapshot(p) \/ ResumeGuard(p)
  BY <1>5 DEF PreflightSnapshot, ResumeGuard
<1>6. CASE TryLock(p)
  BY <1>6 DEF TryLock
<1>7. CASE ContinueRun(p) \/ StartMismatch(p)
  BY <1>7 DEF ContinueRun, StartMismatch
<1>8. CASE KeylessSelectFails(p) \/ KeyNotSerializable(p) \/ MarkFailedFails(p)
  BY <1>8 DEF KeylessSelectFails, KeyNotSerializable, MarkFailedFails
<1>9. CASE ReleaseLock(p) \/ Die(p)
  BY <1>9 DEF ReleaseLock, Die, EndSession, NoCursors
<1>10. CASE EarlyFailure(p)
  BY <1>10 DEF EarlyFailure
<1>11. CASE ReadFails(p)
  BY <1>11 DEF ReadFails
<1>12. CASE UpdateFails(p) \/ UpsertFails(p)
  BY <1>12 DEF UpdateFails, UpsertFails
<1>13. CASE NewRun(p) \/ LoadProgress(p)
  BY <1>13 DEF NewRun, LoadProgress
<1>14. CASE OpenTable(p) \/ SelectBatch(p) \/ TableDone(p)
  BY <1>14 DEF OpenTable, SelectBatch, TableDone
<1>15. CASE UpdateBatch(p) \/ SaveBatch(p)
  BY <1>15 DEF UpdateBatch, SaveBatch
<1>16. CASE FinishRun(p) \/ MarkFailed(p)
  BY <1>16 DEF FinishRun, MarkFailed
<1> QED
  BY <1>1, <1>2, <1>3, <1>4, <1>5, <1>6, <1>7, <1>8, <1>9, <1>10, <1>11, <1>12, <1>13, <1>14,
     <1>15, <1>16 DEF Advance, Guards, LockAndStart, MaskTable, Unwind, Fault

\* What a step of p that leaves the runs alone has to show.
LEMMA CountsKept ==
  ASSUME Countable, NEW p \in Procs, OthersCount(p), UNCHANGED <<progress, audit>>, Counts(p)'
  PROVE  CountsHold' /\ CompletedCountsRows'
<1>1. \A q \in Procs \ {p} : Counts(q)'
  BY DEF Countable, CountsHold, OthersCount, Counts, Before
<1>2. CompletedCountsRows'
  BY DEF Countable, CompletedCountsRows, Completed
<1> QED
  BY <1>1, <1>2 DEF Countable, CountsHold

\* Cursors that have not moved count nothing.
LEMMA NoCursorCounts == \A t \in Tables : NoCursors[t] = NoCursor /\ Counted(NoCursor, t)
BY TablesAssumption DEF NoCursors, NoCursor, Counted

LEMMA NoCountKept ==
  ASSUME Countable, NEW p \in Procs, OthersCount(p), NoCount(p)
  PROVE  CountsHold' /\ CompletedCountsRows'
<1>1. \A t \in Tables : Counted(saved'[p][t], t)
  BY NoCursorCounts DEF NoCount, Countable, CountsHold, Counts
<1>2. Counts(p)'
  BY <1>1 DEF NoCount, Walk, Counts, Counted
<1> QED
  BY <1>2, CountsKept DEF NoCount

LEMMA LoadProgressCounts ==
  ASSUME Countable, NEW p \in Procs, OthersCount(p), LoadProgress(p)
  PROVE  CountsHold' /\ CompletedCountsRows'
<1> USE DEF Countable, TInv
<1>1. /\ UNCHANGED <<progress, audit>>
      /\ pc'[p] = "open" /\ table'[p] = 1 /\ sum'[p] = 0
      /\ saved'[p] = IF job[p].resume THEN progress[run[p]] ELSE NoCursors
  BY DEF ProcessesOK, LoadProgress, NoCursors
<1>2. run[p] \in DOMAIN progress
  BY LenProperties DEF DatabaseOK, Positions, LoadProgress
<1>3. \A t \in Tables : Counted(saved'[p][t], t)
  BY <1>1, <1>2, NoCursorCounts DEF CountsHold
<1>4. Counts(p)'
  <2>1. sum'[p] = Cardinality(Before(table'[p]))
    BY <1>1, BeforeEnds
  <2> QED
    BY <1>1, <1>3, <2>1 DEF Counts, Counted, Before
<1> QED
  BY <1>1, <1>4, CountsKept

\* The moves within a table: the sum waits for the end of it.
LEMMA WithinTableCounts ==
  ASSUME Countable, NEW p \in Procs, OthersCount(p),
         OpenTable(p) \/ SelectBatch(p) \/ UpdateBatch(p)
  PROVE  CountsHold' /\ CompletedCountsRows'
<1> USE DEF Countable, TInv
<1>1. /\ UNCHANGED <<progress, audit, saved, table, sum>>
      /\ pc[p] \in Walk /\ pc'[p] \in Walk \ {"open"}
      /\ \/ pc[p] # "open" /\ cursor' = cursor
         \/ pc[p] = "open" /\ table[p] \in Tables /\ cursor'[p] = saved[p][table[p]]
  BY DEF ProcessesOK, OpenTable, SelectBatch, UpdateBatch, Walk
<1>2. Counts(p)
  BY DEF CountsHold
<1>3. Counted(cursor'[p], table[p])
  BY <1>1, <1>2 DEF Counts, Walk
<1>4. Counts(p)'
  BY <1>1, <1>2, <1>3 DEF Counts, Counted, Before, Walk
<1> QED
  BY <1>1, <1>4, CountsKept

\* The end of a table: its cursor has counted all of it.
LEMMA TableDoneCounts ==
  ASSUME Countable, NEW p \in Procs, OthersCount(p), TableDone(p)
  PROVE  CountsHold' /\ CompletedCountsRows'
<1> USE DEF Countable, TInv
<1>1. /\ UNCHANGED <<progress, audit, saved>>
      /\ pc[p] = "select" /\ pc'[p] = "open"
      /\ cursor[p].last >= RowsOf[table[p]]
      /\ sum'[p] = sum[p] + cursor[p].done /\ table'[p] = table[p] + 1
  BY DEF ProcessesOK, TableDone
<1>2. Counts(p) /\ table[p] \in Tables
  BY <1>1 DEF CountsHold, Positions
<1>3. cursor[p].done = RowsOf[table[p]]
  <2>1. cursor[p].done = cursor[p].last /\ cursor[p].last <= RowsOf[table[p]]
    BY <1>1, <1>2 DEF Counts, Counted
  <2>2. cursor[p].last \in Nat /\ RowsOf[table[p]] \in Nat
    BY <1>2, TablesAssumption DEF ProcessesOK, Cursor
  <2> QED
    BY <1>1, <2>1, <2>2
<1>4. sum'[p] = Cardinality(Before(table'[p]))
  BY <1>1, <1>2, <1>3, BeforeNext DEF Counts
<1>5. Counts(p)'
  BY <1>1, <1>2, <1>4 DEF Counts, Counted, Before
<1> QED
  BY <1>1, <1>5, CountsKept

\* A batch adds as many rows as it moves the cursor, and stays within its table.
LEMMA SaveBatchCounts ==
  ASSUME Countable, NEW p \in Procs, OthersCount(p), SaveBatch(p)
  PROVE  CountsHold' /\ CompletedCountsRows'
<1> USE DEF Countable, TInv
<1>1. /\ UNCHANGED <<audit, saved, table, sum>>
      /\ pc[p] = "save" /\ pc'[p] = "select"
      /\ cursor'[p] = [last |-> BatchEnd(p), done |-> cursor[p].done + (BatchEnd(p) - cursor[p].last)]
      /\ progress' = [progress EXCEPT ![run[p]][table[p]] = cursor'[p]]
  BY DEF ProcessesOK, SaveBatch
<1>2. Counts(p) /\ table[p] \in Tables
  BY <1>1 DEF CountsHold, Positions
<1>3. Counted(cursor'[p], table[p])
  <2>1. cursor[p].done = cursor[p].last /\ cursor[p].last \in Nat
    BY <1>1, <1>2 DEF Counts, Counted, ProcessesOK, Cursor
  <2>2. BatchEnd(p) \in Nat /\ BatchEnd(p) <= RowsOf[table[p]]
    BY <1>1, BatchType
  <2> QED
    BY <1>1, <2>1, <2>2 DEF Counted
<1>4. ASSUME NEW i \in DOMAIN progress', NEW t \in Tables
      PROVE  Counted(progress'[i][t], t)
  <2>1. i \in DOMAIN progress /\ progress[i] \in [Tables -> Cursor]
    BY <1>1, LenProperties, ElementOfSeq DEF DatabaseOK
  <2>2. progress'[i][t] = IF i = run[p] /\ t = table[p] THEN cursor'[p] ELSE progress[i][t]
    BY <1>1, <1>2, <2>1
  <2> QED
    BY <1>3, <2>1, <2>2 DEF CountsHold
<1>5. Counts(p)'
  BY <1>1, <1>2, <1>3 DEF Counts, Counted, Before
<1>6. \A q \in Procs \ {p} : Counts(q)'
  BY DEF CountsHold, OthersCount, Counts, Before
<1>7. CompletedCountsRows'
  BY <1>1 DEF CompletedCountsRows, Completed
<1> QED
  BY <1>4, <1>5, <1>6, <1>7 DEF CountsHold, Counted

LEMMA NewRunCounts ==
  ASSUME Countable, NEW p \in Procs, OthersCount(p), NewRun(p)
  PROVE  CountsHold' /\ CompletedCountsRows'
<1> USE DEF Countable, TInv
<1> DEFINE new == [status |-> "running", key |-> job[p].key, rowsMasked |-> 0]
<1>1. /\ audit' = Append(audit, new) /\ progress' = Append(progress, NoCursors)
      /\ UNCHANGED <<saved, table, cursor, sum>> /\ pc'[p] = "load"
  BY DEF ProcessesOK, NewRun, NoCursors
<1>2. audit \in Seq(Run) /\ new \in Run /\ progress \in Seq([Tables -> Cursor])
      /\ NoCursors \in [Tables -> Cursor]
  BY DEF DatabaseOK, ProcessesOK, Run, Status, Job, NoCursors, NoCursor, Cursor
<1>3. new.status = "running"
  OBVIOUS
<1> HIDE DEF new
<1>4. /\ Len(audit) \in Nat /\ DOMAIN audit = 1..Len(audit) /\ DOMAIN audit' = 1..(Len(audit) + 1)
      /\ \A i \in DOMAIN audit : audit'[i] = audit[i]
      /\ audit'[Len(audit) + 1] = new
  BY <1>1, <1>2, AppendProperties, LenProperties
<1>5. /\ Len(progress) \in Nat /\ DOMAIN progress = 1..Len(progress)
      /\ DOMAIN progress' = 1..(Len(progress) + 1)
      /\ \A i \in DOMAIN progress : progress'[i] = progress[i]
      /\ progress'[Len(progress) + 1] = NoCursors
  BY <1>1, <1>2, AppendProperties, LenProperties
<1>6. CompletedCountsRows'
  <2> SUFFICES ASSUME NEW i \in DOMAIN audit', audit'[i].status = "completed"
               PROVE  audit'[i].rowsMasked = Cardinality(Row)
    BY DEF CompletedCountsRows, Completed
  <2>1. i \in DOMAIN audit
    BY <1>3, <1>4
  <2> QED
    BY <1>4, <2>1 DEF CompletedCountsRows, Completed
<1>7. \A i \in DOMAIN progress' : \A t \in Tables : Counted(progress'[i][t], t)
  BY <1>5, NoCursorCounts DEF CountsHold
<1>8. Counts(p)'
  BY <1>1 DEF CountsHold, Counts, Counted
<1>9. \A q \in Procs \ {p} : Counts(q)'
  BY DEF CountsHold, OthersCount, Counts, Before
<1> QED
  BY <1>6, <1>7, <1>8, <1>9 DEF CountsHold, Counted

\* A run is closed as completed by a process that has summed up all tables.
LEMMA CloseRunCounts ==
  ASSUME Countable, NEW p \in Procs, OthersCount(p), FinishRun(p) \/ MarkFailed(p)
  PROVE  CountsHold' /\ CompletedCountsRows'
<1> USE DEF Countable, TInv
<1>1. /\ UNCHANGED <<progress, saved, table, cursor, sum>> /\ pc'[p] = "release"
      /\ run[p] \in DOMAIN audit
  BY DEF ProcessesOK, Positions, FinishRun, MarkFailed
<1>2. audit[run[p]] \in Run
  BY <1>1, ElementOfSeq, LenProperties DEF DatabaseOK
<1>3. \/ audit' = [audit EXCEPT ![run[p]].status = "failed", ![run[p]].rowsMasked = 0]
      \/ /\ audit' = [audit EXCEPT ![run[p]].status = "completed", ![run[p]].rowsMasked = sum[p]]
         /\ sum[p] = Cardinality(Row)
  <2>1. CASE MarkFailed(p)
    BY <2>1 DEF MarkFailed
  <2>2. CASE FinishRun(p)
    <3>1. table[p] \in Nat \ Tables /\ table[p] >= 1 /\ pc[p] = "open"
      BY <2>2 DEF ProcessesOK, Positions, FinishRun
    <3>2. sum[p] = Cardinality(Before(table[p]))
      BY <3>1 DEF CountsHold, Counts
    <3> QED
      BY <2>2, <3>1, <3>2, BeforeEnds DEF FinishRun
  <2> QED
    BY <2>1, <2>2
<1>4. /\ DOMAIN audit' = DOMAIN audit
      /\ audit'[run[p]].status = "completed" => audit'[run[p]].rowsMasked = Cardinality(Row)
      /\ \A i \in DOMAIN audit : i # run[p] => audit'[i] = audit[i]
  BY <1>1, <1>2, <1>3 DEF Run
<1>5. CompletedCountsRows'
  BY <1>4 DEF CompletedCountsRows, Completed
<1>6. Counts(p)'
  BY <1>1 DEF CountsHold, Counts, Counted
<1>7. \A q \in Procs \ {p} : Counts(q)'
  BY DEF CountsHold, OthersCount, Counts, Before
<1> QED
  BY <1>1, <1>5, <1>6, <1>7 DEF CountsHold, Counted

\* The rows_masked of a completed run is the number of rows of the plan, on both dialects,
\* over any number of attempts, and also for a run that should not have been started.
THEOREM CompletedCounts == Spec => []CompletedCountsRows
<1>1. Init => CountsHold /\ CompletedCountsRows
  <2> SUFFICES ASSUME Init PROVE CountsHold /\ CompletedCountsRows
    OBVIOUS
  <2>1. \A p \in Procs : Counts(p)
    BY NoCursorCounts DEF Init, Counts, NoCursors
  <2> QED
    BY <2>1 DEF Init, CountsHold, CompletedCountsRows, Completed
<1>2. Countable /\ [Next]_vars => CountsHold' /\ CompletedCountsRows'
  <2>1. ASSUME Countable, UNCHANGED vars PROVE CountsHold' /\ CompletedCountsRows'
    BY <2>1 DEF Countable, CountsHold, Counts, Counted, Before, CompletedCountsRows, Completed,
                vars, system
  <2>2. ASSUME Countable, Next PROVE CountsHold' /\ CompletedCountsRows'
    <3>1. PICK p \in Procs :
            (\E j \in Job : Invoke(p, j)) \/ DryRun(p) \/ Advance(p) \/ Fault(p)
      BY <2>2 DEF Next
    <3> QED
      BY <2>2, <3>1, CountKinds, NoCountKept, NewRunCounts, LoadProgressCounts,
         WithinTableCounts, TableDoneCounts, SaveBatchCounts, CloseRunCounts DEF Countable
  <2> QED
    BY <2>1, <2>2
<1> QED
  BY <1>1, <1>2, TInvHolds, PTL DEF Spec, Countable
=============================================================================
