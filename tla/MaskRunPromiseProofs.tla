------------------------ MODULE MaskRunPromiseProofs ------------------------
(***************************************************************************)
(* What the lock and the guards before it are worth: the row of a          *)
(* completed run is final, and where no process starts on stale guards     *)
(* nothing is touched after it, no row is masked twice, and mask_plan      *)
(* implements MaskOnce.                                                    *)
(***************************************************************************)
EXTENDS MaskRunSafetyProofs

USE DEF Step, Stop, Refuse, Pass, StatementFails, SpendFailure, database, position, session,
        budget

\* Where a process works for the run it has started or continued.
Active == {"load", "open", "select", "update", "save", "failed"}

\* No process works for a completed run.
RunsOpen == \A p \in Procs : pc[p] \in Active => audit[run[p]].status # "completed"

\* What the guards of p, which is at the place `at`, have let through.
View(p, at) ==
  /\ job[p].resume => Incomplete # {}
  /\ ~job[p].resume => Completed = {}
  /\ ~job[p].resume /\ at \in {"lock", "start"} => Incomplete = {}

\* A view that is fresh is so still.
Views == \A p \in Procs : pc[p] \in Window /\ fresh[p] => View(p, pc[p])

\* Without a stale start there is one run, and nobody works when it is completed.
Orderly ==
  ~staleStart => /\ Len(audit) <= 1
                 /\ Completed # {} => \A p \in Procs : pc[p] \notin Active

FinalInv == TInv /\ SingleRunner /\ RunsOpen /\ Views /\ Orderly

-----------------------------------------------------------------------------
(* What a step does to the runs.                                           *)

OthersStay(p) ==
  \A q \in Procs \ {p} : pc'[q] = pc[q] /\ job'[q] = job[q] /\ run'[q] = run[q]

\* A step that changes neither rows nor runs: it starts no work, and enters or keeps to the
\* window between guards and start only with a right view.
Aside(p) ==
  /\ UNCHANGED <<value, audit, progress>>
  /\ pc'[p] \in Active => pc[p] \in Active /\ run'[p] = run[p]
  /\ pc'[p] \in Window =>
       /\ job'[p] = job[p]
       /\ pc[p] \notin Window => View(p, pc'[p])
       /\ pc[p] \in Window /\ View(p, pc[p]) => View(p, pc'[p])

LEMMA StepKinds ==
  ASSUME TInv, NEW p \in Procs,
         (\E j \in Job : Invoke(p, j)) \/ DryRun(p) \/ Advance(p) \/ Fault(p)
  PROVE  /\ OthersStay(p)
         /\ \/ Aside(p)
            \/ ContinueRun(p) \/ NewRun(p) \/ SaveBatch(p) \/ FinishRun(p) \/ MarkFailed(p)
<1> USE DEF TInv, ProcessesOK, OthersStay, Aside, Active, Window, View
<1>1. CASE (\E j \in Job : Invoke(p, j)) \/ DryRun(p)
  BY <1>1 DEF Invoke, DryRun
<1>2. CASE LookForTables(p)
  BY <1>2 DEF LookForTables
<1>3. CASE CreateTables(p) \/ CreateTablesRefused(p)
  BY <1>3 DEF CreateTables, CreateTablesRefused
<1>4. CASE PreflightCompleted(p)
  BY <1>4 DEF PreflightCompleted
<1>5. CASE PreflightIncomplete(p)
  BY <1>5 DEF PreflightIncomplete
<1>6. CASE PreflightSnapshot(p)
  BY <1>6 DEF PreflightSnapshot
<1>7. CASE ResumeGuard(p)
  BY <1>7 DEF ResumeGuard
<1>8. CASE TryLock(p)
  BY <1>8 DEF TryLock
<1>9. CASE StartMismatch(p) \/ LoadProgress(p)
  BY <1>9 DEF StartMismatch, LoadProgress
<1>10. CASE OpenTable(p) \/ SelectBatch(p) \/ TableDone(p) \/ UpdateBatch(p)
  BY <1>10 DEF OpenTable, SelectBatch, TableDone, UpdateBatch
<1>11. CASE KeylessSelectFails(p) \/ KeyNotSerializable(p) \/ MarkFailedFails(p)
  BY <1>11 DEF KeylessSelectFails, KeyNotSerializable, MarkFailedFails
<1>12. CASE ReleaseLock(p) \/ Die(p)
  BY <1>12 DEF ReleaseLock, Die, EndSession
<1>13. CASE EarlyFailure(p)
  BY <1>13 DEF EarlyFailure
<1>14. CASE ReadFails(p)
  BY <1>14 DEF ReadFails
<1>15. CASE UpdateFails(p) \/ UpsertFails(p)
  BY <1>15 DEF UpdateFails, UpsertFails
<1>16. CASE ContinueRun(p) \/ NewRun(p)
  BY <1>16 DEF ContinueRun, NewRun
<1>17. CASE SaveBatch(p) \/ FinishRun(p) \/ MarkFailed(p)
  BY <1>17 DEF SaveBatch, FinishRun, MarkFailed
<1> QED
  BY <1>1, <1>2, <1>3, <1>4, <1>5, <1>6, <1>7, <1>8, <1>9, <1>10, <1>11, <1>12, <1>13, <1>14,
     <1>15, <1>16, <1>17 DEF Advance, Guards, LockAndStart, MaskTable, Unwind, Fault

\* No two processes work at a time.
LEMMA OneWorks ==
  ASSUME SingleRunner, NEW p \in Procs, NEW q \in Procs, pc[p] \in Active \cup {"start"},
         pc[q] \in Active \cup {"start"}
  PROVE  p = q
BY DEF SingleRunner, Active, Locked

\* Views outlast the steps of others that leave the runs alone; where the runs change, no
\* view stays fresh.
LEMMA ViewsKept ==
  ASSUME TInv, Views, NEW p \in Procs, OthersStay(p), Remember,
         audit' = audit \/ pc'[p] \notin Window,
         pc'[p] \in Window =>
           /\ job'[p] = job[p]
           /\ pc[p] \notin Window => View(p, pc'[p])
           /\ pc[p] \in Window /\ View(p, pc[p]) => View(p, pc'[p])
  PROVE  Views'
<1> SUFFICES ASSUME NEW q \in Procs, pc'[q] \in Window, fresh'[q]
             PROVE  View(q, pc[q])'
  BY DEF Views
<1>1. pc[q] \in Window => fresh[q] /\ audit' = audit
  BY DEF Remember
<1>2. CASE q = p
  <2>1. View(p, pc'[p])
    BY <1>1, <1>2 DEF Views
  <2>2. audit' = audit /\ job'[p] = job[p]
    BY <1>2
  <2> QED
    BY <1>2, <2>1, <2>2 DEF View, Completed, Incomplete
<1>3. CASE q # p
  <2>1. pc'[q] = pc[q] /\ job'[q] = job[q]
    BY <1>3 DEF OthersStay
  <2>2. audit' = audit /\ View(q, pc[q])
    BY <1>1, <2>1 DEF Views
  <2> QED
    BY <2>1, <2>2 DEF View, Completed, Incomplete
<1> QED
  BY <1>2, <1>3

\* A process that starts with no stale start after it has a fresh view.
LEMMA FreshStart ==
  ASSUME Views, Remember, ~staleStart', NEW p \in Procs, pc[p] = "start", pc'[p] = "load"
  PROVE  ~staleStart /\ View(p, "start")
BY DEF Remember, Views, Window

-----------------------------------------------------------------------------
(* The invariant.                                                          *)

\* What a run's row becomes, and that the others stay.
LEMMA ClosedRow ==
  ASSUME TInv, NEW p \in Procs, pc[p] \in Active, NEW status, NEW n,
         audit' = [audit EXCEPT ![run[p]].status = status, ![run[p]].rowsMasked = n]
  PROVE  /\ Len(audit') = Len(audit) /\ DOMAIN audit' = DOMAIN audit /\ run[p] \in DOMAIN audit
         /\ audit'[run[p]].status = status
         /\ \A i \in DOMAIN audit : i # run[p] => audit'[i] = audit[i]
<1>1. run[p] \in DOMAIN audit /\ audit \in Seq(Run)
  BY DEF TInv, Positions, DatabaseOK, Active
<1>2. audit[run[p]] \in Run
  BY <1>1, ElementOfSeq, LenProperties
<1>3. DOMAIN audit' = DOMAIN audit /\ \A i \in DOMAIN audit : i # run[p] => audit'[i] = audit[i]
  OBVIOUS
<1>4. audit'[run[p]].status = status
  BY <1>1, <1>2 DEF Run
<1>5. Len(audit') = Len(audit)
  OBVIOUS
<1> QED
  BY <1>1, <1>3, <1>4, <1>5

\* NewRun, seen from the runs there were.
LEMMA NewRow ==
  ASSUME TInv, NEW p \in Procs, NewRun(p)
  PROVE  /\ Len(audit) \in Nat /\ DOMAIN audit = 1..Len(audit)
         /\ DOMAIN audit' = 1..(Len(audit) + 1) /\ Len(audit') = Len(audit) + 1
         /\ \A i \in DOMAIN audit : audit'[i] = audit[i]
         /\ audit'[Len(audit) + 1] = [status |-> "running", key |-> job[p].key, rowsMasked |-> 0]
<1> DEFINE new == [status |-> "running", key |-> job[p].key, rowsMasked |-> 0]
<1>1. audit \in Seq(Run) /\ new \in Run
  BY DEF TInv, DatabaseOK, ProcessesOK, Run, Status, Job
<1>2. audit' = Append(audit, new)
  BY DEF NewRun
<1> HIDE DEF new
<1>3. /\ Len(audit) \in Nat /\ DOMAIN audit = 1..Len(audit)
      /\ DOMAIN audit' = 1..(Len(audit) + 1) /\ Len(audit') = Len(audit) + 1
      /\ \A i \in DOMAIN audit : audit'[i] = audit[i]
      /\ audit'[Len(audit) + 1] = new
  BY <1>1, <1>2, AppendProperties, LenProperties
<1> QED
  BY <1>3 DEF new

\* The newest incomplete run is one.
LEMMA ContinuedRow ==
  ASSUME TInv, NEW p \in Procs, ContinueRun(p)
  PROVE  run'[p] \in Incomplete /\ audit' = audit
<1>1. audit \in Seq(Run) /\ run'[p] = IncompleteRun /\ Incomplete # {} /\ audit' = audit
  BY DEF TInv, DatabaseOK, ProcessesOK, ContinueRun
<1> QED
  BY <1>1, IncompleteRunType DEF TInv

\* Where no run is completed or incomplete there is none.
LEMMA NoRunYet ==
  ASSUME TInv, Completed = {}, Incomplete = {}
  PROVE  Len(audit) = 0 /\ audit = <<>>
<1>1. audit \in Seq(Run)
  BY DEF TInv, DatabaseOK
<1>2. Len(audit) \in Nat /\ DOMAIN audit = 1..Len(audit)
  BY <1>1, LenProperties
<1>3. \A i \in DOMAIN audit : audit[i].status \in {"running", "failed", "completed"}
  <2>1. \A i \in DOMAIN audit : audit[i] \in Run
    BY <1>1, <1>2, ElementOfSeq
  <2> QED
    BY <2>1 DEF Run, Status
<1>4. DOMAIN audit = {}
  BY <1>3 DEF Completed, Incomplete
<1>5. Len(audit) = 0
  BY <1>2, <1>4
<1> QED
  BY <1>1, <1>5, EmptySeq

LEMMA AsideFinal ==
  ASSUME FinalInv, NEW p \in Procs, OthersStay(p), Aside(p), Remember
  PROVE  RunsOpen' /\ Views' /\ Orderly'
<1>1. audit' = audit
  BY DEF Aside
<1>2. \A q \in Procs : pc'[q] \in Active => pc[q] \in Active /\ run'[q] = run[q]
  BY DEF Aside, OthersStay
<1>3. RunsOpen'
  BY <1>1, <1>2 DEF FinalInv, RunsOpen
<1>4. Views'
  BY <1>1, ViewsKept DEF FinalInv, Aside
<1>5. Completed' = Completed /\ (~staleStart' => ~staleStart)
  BY <1>1 DEF Completed, Remember
<1>6. Orderly'
  BY <1>1, <1>2, <1>5 DEF FinalInv, Orderly
<1> QED
  BY <1>3, <1>4, <1>6

LEMMA SaveFinal ==
  ASSUME FinalInv, NEW p \in Procs, OthersStay(p), SaveBatch(p), Remember
  PROVE  RunsOpen' /\ Views' /\ Orderly'
<1>1. audit' = audit /\ run' = run /\ pc[p] = "save" /\ pc'[p] = "select"
  BY DEF SaveBatch, FinalInv, TInv, ProcessesOK
<1>2. \A q \in Procs : pc'[q] \in Active => pc[q] \in Active /\ run'[q] = run[q]
  BY <1>1 DEF OthersStay, Active
<1>3. RunsOpen'
  BY <1>1, <1>2 DEF FinalInv, RunsOpen
<1>4. Views'
  BY <1>1, ViewsKept DEF FinalInv, Window
<1>5. Completed' = Completed /\ (~staleStart' => ~staleStart)
  BY <1>1 DEF Completed, Remember
<1>6. Orderly'
  BY <1>1, <1>2, <1>5 DEF FinalInv, Orderly
<1> QED
  BY <1>3, <1>4, <1>6

LEMMA ContinueFinal ==
  ASSUME FinalInv, NEW p \in Procs, OthersStay(p), ContinueRun(p), Remember
  PROVE  RunsOpen' /\ Views' /\ Orderly'
<1>1. pc[p] = "start" /\ pc'[p] = "load"
  BY DEF ContinueRun, FinalInv, TInv, ProcessesOK
<1>2. run'[p] \in Incomplete /\ audit' = audit
  BY ContinuedRow DEF FinalInv
<1>3. RunsOpen'
  BY <1>1, <1>2 DEF FinalInv, RunsOpen, OthersStay, Incomplete
<1>4. Views'
  BY <1>1, <1>2, ViewsKept DEF FinalInv, Window
<1>5. Orderly'
  <2> SUFFICES ASSUME ~staleStart'
               PROVE  Len(audit) <= 1 /\ Completed = {}
    BY <1>2 DEF Orderly, Completed
  <2>1. ~staleStart /\ Len(audit) <= 1
    BY <1>1, FreshStart DEF FinalInv, Orderly
  <2>2. audit \in Seq(Run) /\ Len(audit) \in Nat /\ DOMAIN audit = 1..Len(audit)
    BY LenProperties DEF FinalInv, TInv, DatabaseOK
  <2>3. \A i \in DOMAIN audit : i = run'[p]
    BY <1>2, <2>1, <2>2 DEF Incomplete
  <2> QED
    BY <1>2, <2>1, <2>3 DEF Completed, Incomplete
<1> QED
  BY <1>3, <1>4, <1>5

LEMMA NewFinal ==
  ASSUME FinalInv, NEW p \in Procs, OthersStay(p), NewRun(p), Remember
  PROVE  RunsOpen' /\ Views' /\ Orderly'
<1>1. /\ pc[p] = "start" /\ pc'[p] = "load" /\ Incomplete = {}
      /\ run'[p] = Len(audit) + 1
  BY DEF NewRun, FinalInv, TInv, ProcessesOK
<1>2. /\ Len(audit) \in Nat /\ DOMAIN audit = 1..Len(audit)
      /\ DOMAIN audit' = 1..(Len(audit) + 1) /\ Len(audit') = Len(audit) + 1
      /\ \A i \in DOMAIN audit : audit'[i] = audit[i]
      /\ audit'[Len(audit) + 1] = [status |-> "running", key |-> job[p].key, rowsMasked |-> 0]
  BY NewRow DEF FinalInv
<1>3. RunsOpen'
  <2> SUFFICES ASSUME NEW q \in Procs, pc'[q] \in Active
               PROVE  audit'[run'[q]].status # "completed"
    BY DEF RunsOpen
  <2>1. CASE q = p
    BY <1>1, <1>2, <2>1
  <2>2. CASE q # p
    BY <1>1, <2>2, OneWorks DEF OthersStay, FinalInv
  <2> QED
    BY <2>1, <2>2
<1>4. Views'
  BY <1>1, ViewsKept DEF FinalInv, Window
<1>5. Orderly'
  <2> SUFFICES ASSUME ~staleStart'
               PROVE  Len(audit') <= 1 /\ Completed' = {}
    BY DEF Orderly
  <2>1. View(p, "start")
    BY <1>1, FreshStart DEF FinalInv
  <2>2. Completed = {}
    BY <1>1, <2>1 DEF View
  <2>3. Len(audit) = 0
    BY <1>1, <2>2, NoRunYet DEF FinalInv
  <2> QED
    BY <1>2, <2>3 DEF Completed
<1> QED
  BY <1>3, <1>4, <1>5

\* FinishRun and MarkFailed: p closes its run and works no more.
LEMMA CloseFinal ==
  ASSUME FinalInv, NEW p \in Procs, OthersStay(p), FinishRun(p) \/ MarkFailed(p), Remember
  PROVE  RunsOpen' /\ Views' /\ Orderly'
<1>1. pc[p] \in {"open", "failed"} /\ pc'[p] = "release"
  BY DEF FinishRun, MarkFailed, FinalInv, TInv, ProcessesOK
<1>2. pc[p] \in Active
  BY <1>1 DEF Active
<1>3. \A q \in Procs : pc'[q] \notin Active
  <2> SUFFICES ASSUME NEW q \in Procs, pc'[q] \in Active
               PROVE  FALSE
    OBVIOUS
  <2>1. q # p
    BY <1>1 DEF Active
  <2>2. pc[q] \in Active
    BY <2>1 DEF OthersStay
  <2> QED
    BY <1>2, <2>1, <2>2, OneWorks DEF FinalInv
<1>4. Views'
  BY <1>1, ViewsKept DEF FinalInv, Window
<1>5. Len(audit') = Len(audit)
  BY <1>2, ClosedRow DEF FinishRun, MarkFailed, FinalInv
<1>6. Orderly'
  BY <1>3, <1>5 DEF FinalInv, Orderly, Remember
<1> QED
  BY <1>3, <1>4, <1>6 DEF RunsOpen

LEMMA FinalInvHolds == Spec => []FinalInv
<1>1. Init => RunsOpen /\ Views /\ Orderly
  <2> SUFFICES ASSUME Init PROVE RunsOpen /\ Views /\ Orderly
    OBVIOUS
  <2>1. Len(audit) = 0
    BY DEF Init
  <2> QED
    BY <2>1 DEF Init, RunsOpen, Views, Orderly, Active, Window
<1>2. FinalInv /\ [Next]_vars => RunsOpen' /\ Views' /\ Orderly'
  <2>1. ASSUME FinalInv, UNCHANGED vars PROVE RunsOpen' /\ Views' /\ Orderly'
    BY <2>1 DEF FinalInv, vars, system, RunsOpen, Views, View, Orderly, Completed, Incomplete
  <2>2. ASSUME FinalInv, Next PROVE RunsOpen' /\ Views' /\ Orderly'
    <3>1. PICK p \in Procs :
            (\E j \in Job : Invoke(p, j)) \/ DryRun(p) \/ Advance(p) \/ Fault(p)
      BY <2>2 DEF Next
    <3>2. OthersStay(p) /\ Remember
      BY <2>2, <3>1, StepKinds DEF Next, FinalInv
    <3> QED
      BY <2>2, <3>1, <3>2, StepKinds, AsideFinal, SaveFinal, ContinueFinal, NewFinal, CloseFinal
         DEF FinalInv
  <2> QED
    BY <2>1, <2>2
<1> QED
  BY <1>1, <1>2, TInvHolds, OneRunner, PTL DEF Spec, FinalInv

-----------------------------------------------------------------------------
(* The theorems.                                                           *)

\* The row of a completed run in dbmask_audit is never written again, whatever is killed,
\* refused or started on stale guards: who could write it has the lock, and another run.
THEOREM CompletedStays == Spec => CompletedIsFinal
<1>1. ASSUME FinalInv, Next
      PROVE  \A i \in DOMAIN audit : audit[i].status = "completed" => audit'[i] = audit[i]
  <2>1. PICK p \in Procs :
          (\E j \in Job : Invoke(p, j)) \/ DryRun(p) \/ Advance(p) \/ Fault(p)
    BY <1>1 DEF Next
  <2>2. CASE Aside(p) \/ ContinueRun(p) \/ SaveBatch(p)
    BY <2>2 DEF Aside, ContinueRun, SaveBatch
  <2>3. CASE NewRun(p)
    BY <1>1, <2>3, NewRow DEF FinalInv
  <2>4. CASE FinishRun(p) \/ MarkFailed(p)
    <3>1. pc[p] \in Active
      BY <2>4 DEF FinishRun, MarkFailed, Active
    <3>2. \A i \in DOMAIN audit : i # run[p] => audit'[i] = audit[i]
      BY <1>1, <2>4, <3>1, ClosedRow DEF FinishRun, MarkFailed, FinalInv
    <3> QED
      BY <1>1, <3>1, <3>2 DEF FinalInv, RunsOpen
  <2> QED
    BY <1>1, <2>1, <2>2, <2>3, <2>4, StepKinds DEF FinalInv
<1>2. FinalInv /\ [Next]_vars =>
        [\A i \in DOMAIN audit : audit[i].status = "completed" => audit'[i] = audit[i]]_vars
  BY <1>1
<1> QED
  BY <1>2, FinalInvHolds, PTL DEF Spec, CompletedIsFinal

\* Once a run is completed no row, no run and no progress is touched, unless a process
\* starts on guards that a run has overtaken.
THEOREM MaskedStays == Spec => MaskedForGood
<1>1. ASSUME FinalInv, Next, Completed # {}, ~staleStart'
      PROVE  UNCHANGED <<value, audit, progress>>
  <2>1. PICK p \in Procs :
          (\E j \in Job : Invoke(p, j)) \/ DryRun(p) \/ Advance(p) \/ Fault(p)
    BY <1>1 DEF Next
  <2>2. ~staleStart /\ Remember
    BY <1>1 DEF Next, Remember
  <2>3. pc[p] \notin Active
    BY <1>1, <2>2 DEF FinalInv, Orderly
  <2>4. ~NewRun(p)
    <3> SUFFICES ASSUME NewRun(p) PROVE FALSE
      OBVIOUS
    <3>1. pc[p] = "start" /\ pc'[p] = "load" /\ Incomplete = {}
      BY <1>1 DEF NewRun, FinalInv, TInv, ProcessesOK
    <3>2. View(p, "start")
      BY <1>1, <2>2, <3>1, FreshStart DEF FinalInv
    <3> QED
      BY <1>1, <3>1, <3>2 DEF View
  <2>5. ~SaveBatch(p) /\ ~FinishRun(p) /\ ~MarkFailed(p)
    BY <2>3 DEF SaveBatch, FinishRun, MarkFailed, Active
  <2> QED
    BY <1>1, <2>1, <2>4, <2>5, StepKinds DEF FinalInv, Aside, ContinueRun
<1>2. FinalInv /\ [Next]_vars =>
        [Completed # {} /\ ~staleStart' => UNCHANGED <<value, audit, progress>>]_vars
  BY <1>1
<1> QED
  BY <1>2, FinalInvHolds, PTL DEF Spec, MaskedForGood

-----------------------------------------------------------------------------
(* Batches and their progress.  With keys that json.dumps takes, and on    *)
(* PostgreSQL, where a refused statement ends the transaction, or where no *)
(* statement is refused.                                                   *)

\* The rows are as the progress of the only run has them.
RowsAsRecorded ==
  \A x \in Row :
    value[x] = IF /\ audit # <<>>
                  /\ x[1] \notin Keyless
                  /\ x[2] <= progress[1][x[1]].last
               THEN <<audit[1].key>>
               ELSE <<>>

\* Who works works for that run, knows its progress, and has in its transaction what the
\* next progress will record, or cannot commit.
Worker(p) ==
  /\ pc[p] \in Active => run[p] = 1 /\ audit[1].key = job[p].key
  /\ pc[p] = "load" /\ ~job[p].resume => progress[1] = [t \in Tables |-> NoCursor]
  /\ pc[p] = "open" => \A t \in Tables : t >= table[p] => saved[p][t] = progress[1][t]
  /\ pc[p] \in {"select", "update", "save"} =>
       /\ cursor[p] = progress[1][table[p]]
       /\ \A t \in Tables : t > table[p] => saved[p][t] = progress[1][t]
  /\ pc[p] = "save" => written[p] = IF table[p] \in Keyless THEN {} ELSE BatchUpTo(p, BatchEnd(p))
  /\ pc[p] \notin {"save", "failed", "release"} => written[p] = {}
  /\ pc[p] = "failed" => txFailed[p] \/ written[p] = {}

BatchInv == ~staleStart => RowsAsRecorded /\ \A p \in Procs : Worker(p)

\* Where this is so.
Sound == Unserializable = {} /\ (Dialect = "postgresql" \/ MaxFailures = 0)

\* A step leaves the session and the position of the other processes alone.
OnlyItself(p) ==
  \A q \in Procs \ {p} :
    /\ written'[q] = written[q] /\ txFailed'[q] = txFailed[q] /\ table'[q] = table[q]
    /\ cursor'[q] = cursor[q] /\ saved'[q] = saved[q]

LEMMA OtherWorkers ==
  ASSUME NEW p \in Procs, NEW q \in Procs \ {p}, OthersStay(p), OnlyItself(p), Worker(q),
         UNCHANGED <<audit, progress>> \/ pc[q] \notin Active
  PROVE  Worker(q)'
<1>1. /\ pc'[q] = pc[q] /\ job'[q] = job[q] /\ run'[q] = run[q]
      /\ written'[q] = written[q] /\ txFailed'[q] = txFailed[q] /\ table'[q] = table[q]
      /\ cursor'[q] = cursor[q] /\ saved'[q] = saved[q]
  BY DEF OthersStay, OnlyItself
<1>2. BatchUpTo(q, BatchEnd(q))' = BatchUpTo(q, BatchEnd(q))
  BY <1>1 DEF BatchUpTo, BatchEnd
<1>3. CASE UNCHANGED <<audit, progress>>
  BY <1>1, <1>2, <1>3 DEF Worker
<1>4. CASE pc[q] \notin Active
  BY <1>1, <1>4 DEF Worker, Active
<1> QED
  BY <1>3, <1>4

LEMMA OneRun ==
  ASSUME TInv, Len(audit) <= 1, NEW p \in Procs, pc[p] \in Active
  PROVE  /\ run[p] = 1 /\ DOMAIN audit = {1} /\ DOMAIN progress = {1} /\ audit # <<>>
         /\ progress[1] \in [Tables -> Cursor]
<1>1. run[p] \in DOMAIN audit /\ audit \in Seq(Run)
  BY DEF TInv, Positions, DatabaseOK, Active
<1>2. DOMAIN audit = 1..Len(audit) /\ Len(audit) \in Nat
  BY <1>1, LenProperties
<1>3. Len(audit) = 1 /\ run[p] = 1
  BY <1>1, <1>2
<1>4. progress \in Seq([Tables -> Cursor]) /\ Len(progress) = 1
  BY <1>3 DEF TInv, DatabaseOK
<1>5. DOMAIN progress = 1..1
  BY <1>4, LenProperties
<1>6. progress[1] \in [Tables -> Cursor]
  <2>1. 1 \in 1..Len(progress)
    BY <1>4
  <2> QED
    BY <1>4, <2>1, ElementOfSeq
<1> QED
  BY <1>2, <1>3, <1>5, <1>6

\* What a step of p has to show: of the rows, and of itself.
LEMMA AsideWorker ==
  ASSUME FinalInv, ~staleStart, Sound, NEW p \in Procs, Worker(p), Aside(p),
         Advance(p) \/ Fault(p), ~SaveBatch(p)
  PROVE  Worker(p)'
<1> USE DEF FinalInv, TInv, ProcessesOK, Sound
<1>0. Sound /\ failures \in Int /\ (MaxFailures = 0 => ~SpendFailure)
  BY BoundsAssumption DEF BudgetOK
<1>1. CASE pc'[p] \notin Active
  <2>1. CASE pc'[p] = "release" \/ ReleaseLock(p) \/ Die(p)
    BY <1>1, <2>1 DEF Worker, Active, ReleaseLock, Die, EndSession
  <2>2. CASE Guards(p) \/ TryLock(p)
    BY <1>1, <2>2 DEF Guards, LookForTables, CreateTables, CreateTablesRefused,
         PreflightCompleted, PreflightIncomplete, PreflightSnapshot, ResumeGuard, TryLock, Worker,
         Active
  <2>3. CASE EarlyFailure(p)
    BY <1>1, <2>3 DEF EarlyFailure, Worker, Active
  <2>4. CASE ContinueRun(p) \/ NewRun(p) \/ StartMismatch(p) \/ LoadProgress(p) \/ MaskTable(p)
    BY <1>1, <2>1, <2>4 DEF ContinueRun, NewRun, StartMismatch, LoadProgress, MaskTable, OpenTable,
         SelectBatch, TableDone, UpdateBatch, SaveBatch, FinishRun, Active
  <2>5. CASE \/ KeylessSelectFails(p) \/ KeyNotSerializable(p) \/ MarkFailed(p)
             \/ MarkFailedFails(p) \/ ReadFails(p) \/ UpdateFails(p) \/ UpsertFails(p)
    BY <1>1, <2>1, <2>5 DEF KeylessSelectFails, KeyNotSerializable, MarkFailed, MarkFailedFails,
         ReadFails, UpdateFails, UpsertFails, Active
  <2> QED
    BY <2>1, <2>2, <2>3, <2>4, <2>5 DEF Advance, LockAndStart, Unwind, Fault
<1>2. CASE pc'[p] \in Active
  <2>0. /\ pc[p] \in Active /\ run'[p] = run[p] /\ UNCHANGED <<value, audit, progress>>
        /\ run[p] = 1 /\ progress[1] \in [Tables -> Cursor] /\ DOMAIN progress = {1}
    BY <1>2, OneRun DEF Aside, Orderly
  <2>1. CASE LoadProgress(p)
    <3>1. /\ pc[p] = "load" /\ pc'[p] = "open" /\ job' = job /\ written' = written
          /\ saved'[p] = IF job[p].resume THEN progress[1] ELSE [t \in Tables |-> NoCursor]
      BY <2>0, <2>1 DEF LoadProgress
    <3>2. saved'[p] = progress[1]
      BY <3>1 DEF Worker
    <3> QED
      BY <2>0, <3>1, <3>2 DEF Worker
  <2>2. CASE OpenTable(p)
    <3>1. /\ pc[p] = "open" /\ pc'[p] = "select" /\ job' = job /\ saved' = saved
          /\ written' = written
          /\ table' = table /\ cursor'[p] = saved[p][table[p]] /\ table[p] \in Tables
      BY <2>2 DEF OpenTable
    <3>2. \A t \in Tables : t >= table[p] => saved[p][t] = progress[1][t]
      BY <3>1 DEF Worker
    <3>3. table[p] >= table[p] /\ \A t \in Tables : t > table[p] => t >= table[p]
      BY <3>1 DEF Tables
    <3> QED
      BY <2>0, <3>1, <3>2, <3>3 DEF Worker
  <2>3. CASE SelectBatch(p)
    BY <2>0, <2>3 DEF SelectBatch, Worker
  <2>4. CASE TableDone(p)
    <3>1. /\ pc[p] = "select" /\ pc'[p] = "open" /\ job' = job /\ saved' = saved
          /\ written' = written
          /\ table'[p] = table[p] + 1
      BY <2>4 DEF TableDone
    <3>2. \A t \in Tables : t >= table[p] + 1 => t > table[p]
      BY DEF Tables
    <3> QED
      BY <2>0, <3>1, <3>2 DEF Worker
  <2>5. CASE UpdateBatch(p)
    <3>1. /\ pc[p] = "update" /\ pc'[p] = "save" /\ job' = job /\ saved' = saved
          /\ table' = table /\ cursor' = cursor
          /\ written'[p] = IF table[p] \in Keyless THEN {} ELSE BatchUpTo(p, BatchEnd(p))
      BY <2>5 DEF UpdateBatch
    <3>2. BatchUpTo(p, BatchEnd(p))' = BatchUpTo(p, BatchEnd(p))
      BY <3>1 DEF BatchUpTo, BatchEnd
    <3> QED
      BY <2>0, <3>1, <3>2 DEF Worker
  <2>6. CASE ReadFails(p) \/ UpdateFails(p) \/ UpsertFails(p) \/ KeylessSelectFails(p)
    <3>1. pc'[p] = "failed" /\ job' = job /\ (txFailed'[p] = TRUE \/ written'[p] = {})
      <4>1. CASE Dialect = "postgresql"
        BY <2>6, <4>1 DEF ReadFails, UpdateFails, UpsertFails, KeylessSelectFails
      <4>2. CASE MaxFailures = 0
        <5>1. KeylessSelectFails(p)
          BY <1>0, <2>6, <4>2 DEF ReadFails, UpdateFails, UpsertFails
        <5> QED
          BY <5>1 DEF KeylessSelectFails, Worker
      <4> QED
        BY <4>1, <4>2
    <3> QED
      BY <2>0, <3>1 DEF Worker
  <2>7. CASE \/ KeyNotSerializable(p) \/ MarkFailed(p) \/ MarkFailedFails(p) \/ ReleaseLock(p)
             \/ EarlyFailure(p) \/ Die(p) \/ FinishRun(p)
    BY <1>2, <2>7 DEF KeyNotSerializable, MarkFailed, MarkFailedFails, ReleaseLock, EarlyFailure,
                      Die, FinishRun, Active
  <2>8. CASE Guards(p) \/ TryLock(p) \/ ContinueRun(p) \/ NewRun(p) \/ StartMismatch(p)
    BY <2>0, <2>8 DEF Guards, LookForTables, CreateTables, CreateTablesRefused,
         PreflightCompleted, PreflightIncomplete, PreflightSnapshot, ResumeGuard, TryLock,
         ContinueRun, NewRun, StartMismatch, Active
  <2> QED
    BY <2>1, <2>2, <2>3, <2>4, <2>5, <2>6, <2>7, <2>8
       DEF Advance, LockAndStart, MaskTable, Unwind, Fault
<1> QED
  BY <1>1, <1>2

\* An operator's call leaves p at no work.
LEMMA InvokedWorker ==
  ASSUME TInv, NEW p \in Procs, Worker(p), (\E j \in Job : Invoke(p, j)) \/ DryRun(p)
  PROVE  Worker(p)' /\ UNCHANGED <<value, audit, progress>>
BY DEF TInv, ProcessesOK, Invoke, DryRun, Worker, Active

\* With a view that is fresh only --resume continues a run, the only one there is.
LEMMA ContinueWorker ==
  ASSUME FinalInv, ~staleStart, NEW p \in Procs, Worker(p), ContinueRun(p), View(p, "start")
  PROVE  Worker(p)' /\ UNCHANGED <<value, audit, progress>>
<1> USE DEF FinalInv, TInv, ProcessesOK
<1>1. /\ pc'[p] = "load" /\ job' = job /\ UNCHANGED <<value, audit, progress>>
      /\ run'[p] = IncompleteRun /\ Incomplete # {} /\ audit[IncompleteRun].key = job[p].key
      /\ written'[p] = {}
  BY DEF ContinueRun, Worker
<1>2. IncompleteRun \in DOMAIN audit
  BY <1>1, IncompleteRunType
<1>3. DOMAIN audit = 1..Len(audit) /\ Len(audit) \in Nat /\ Len(audit) <= 1
  BY LenProperties DEF DatabaseOK, Orderly
<1>4. IncompleteRun = 1
  BY <1>2, <1>3
<1> QED
  BY <1>1, <1>4 DEF Worker, View, Active

\* A run begins where nothing is masked.
LEMMA NewWorker ==
  ASSUME FinalInv, ~staleStart, RowsAsRecorded, NEW p \in Procs, Worker(p), NewRun(p),
         View(p, "start")
  PROVE  Worker(p)' /\ RowsAsRecorded'
<1> DEFINE none == [t \in Tables |-> NoCursor]
<1>1. /\ pc'[p] = "load" /\ job' = job /\ value' = value /\ Incomplete = {}
      /\ run'[p] = Len(audit) + 1 /\ progress' = Append(progress, none)
      /\ written'[p] = {}
  BY DEF NewRun, FinalInv, TInv, ProcessesOK, Worker
<1>2. Len(audit) = 0 /\ audit = <<>>
  BY <1>1, NoRunYet DEF FinalInv, View
<1>3. run'[p] = 1 /\ audit'[1].key = job[p].key
  <2>1. audit'[Len(audit) + 1] = [status |-> "running", key |-> job[p].key, rowsMasked |-> 0]
    BY NewRow DEF FinalInv
  <2>2. Len(audit) + 1 = 1
    BY <1>2
  <2>3. audit'[1] = [status |-> "running", key |-> job[p].key, rowsMasked |-> 0]
    BY <2>1, <2>2
  <2> QED
    BY <1>1, <2>2, <2>3
<1>4. progress'[1] = none
  <2>1. progress \in Seq([Tables -> Cursor]) /\ none \in [Tables -> Cursor] /\ Len(progress) = 0
    BY <1>2 DEF FinalInv, TInv, DatabaseOK, NoCursor, Cursor
  <2> HIDE DEF none
  <2> QED
    BY <1>1, <2>1, AppendProperties
<1>5. Worker(p)'
  BY <1>1, <1>3, <1>4 DEF Worker, Active
<1>6. ASSUME NEW x \in Row
      PROVE  value'[x] = <<>> /\ ~(x[2] <= progress'[1][x[1]].last)
  <2>1. x[1] \in Tables /\ x[2] \in Nat /\ x[2] >= 1
    BY RowIsPair, TablesAssumption
  <2>2. progress'[1][x[1]].last = 0
    BY <1>4, <2>1 DEF NoCursor
  <2> QED
    BY <1>1, <1>2, <2>1, <2>2 DEF RowsAsRecorded
<1>7. RowsAsRecorded'
  BY <1>6 DEF RowsAsRecorded
<1> QED
  BY <1>5, <1>7

\* The commit of a batch: its rows gain the run's key, and its progress passes them.
LEMMA SaveWorker ==
  ASSUME FinalInv, ~staleStart, RowsAsRecorded, NEW p \in Procs, Worker(p), SaveBatch(p)
  PROVE  Worker(p)' /\ RowsAsRecorded'
<1> USE DEF FinalInv, TInv, ProcessesOK
<1> DEFINE t == table[p]
           end == BatchEnd(p)
<1>1. /\ pc[p] = "save" /\ pc'[p] = "select" /\ audit' = audit /\ run' = run /\ job' = job
      /\ table' = table /\ saved' = saved /\ value' = AfterCommit(p)
      /\ cursor'[p].last = end /\ written'[p] = {}
      /\ progress' = [progress EXCEPT ![run[p]][table[p]] = cursor'[p]]
  BY DEF SaveBatch
<1>2. /\ run[p] = 1 /\ DOMAIN progress = {1} /\ audit # <<>> /\ progress[1] \in [Tables -> Cursor]
      /\ t \in Tables
  BY <1>1, OneRun DEF Active, Orderly, Positions
<1>3. /\ progress'[1][t] = cursor'[p]
      /\ \A u \in Tables : u # t => progress'[1][u] = progress[1][u]
  BY <1>1, <1>2
<1>4. /\ audit[1].key = job[p].key /\ cursor[p] = progress[1][t]
      /\ \A u \in Tables : u > t => saved[p][u] = progress[1][u]
      /\ written[p] = IF t \in Keyless THEN {} ELSE BatchUpTo(p, end)
  BY <1>1 DEF Worker, Active
<1>5. Worker(p)'
  <2>1. \A u \in Tables : u > t => saved[p][u] = progress'[1][u]
    BY <1>2, <1>3, <1>4 DEF Tables
  <2> HIDE DEF t
  <2>2. cursor'[p] = progress'[1][t] /\ t = table'[p]
    BY <1>1, <1>3 DEF t
  <2> QED
    BY <1>1, <1>2, <1>4, <2>1, <2>2 DEF Worker, Active
<1>6. end \in Nat /\ cursor[p].last \in Nat /\ cursor[p].last < end
  BY <1>1, BatchType DEF Cursor
<1>7. ASSUME NEW x \in Row
      PROVE  value'[x] = IF x[1] \notin Keyless /\ x[2] <= progress'[1][x[1]].last
                         THEN <<audit[1].key>> ELSE <<>>
  <2>1. x = <<x[1], x[2]>> /\ x[1] \in Tables /\ x[2] \in Nat
    BY RowIsPair, TablesAssumption
  <2>2. value'[x] = IF x \in written[p] THEN Append(value[x], job[p].key) ELSE value[x]
    BY <1>1 DEF AfterCommit
  <2>3. value[x] = IF x[1] \notin Keyless /\ x[2] <= progress[1][x[1]].last
                   THEN <<audit[1].key>> ELSE <<>>
    BY <1>2 DEF RowsAsRecorded
  <2>4. x \in BatchUpTo(p, end) <=> x[1] = t /\ cursor[p].last < x[2] /\ x[2] <= end
    <3>1. x[2] \in (cursor[p].last + 1)..end <=> cursor[p].last < x[2] /\ x[2] <= end
      BY <1>6, <2>1
    <3> QED
      BY <2>1, <3>1 DEF BatchUpTo
  <2>5. CASE x[1] # t \/ x[1] \in Keyless
    <3>1. x \notin written[p]
      BY <1>4, <2>4, <2>5
    <3> QED
      BY <1>3, <2>1, <2>2, <2>3, <2>5, <3>1
  <2>6. CASE x[1] = t /\ x[1] \notin Keyless
    <3>1. x \in written[p] <=> cursor[p].last < x[2] /\ x[2] <= end
      BY <1>4, <2>4, <2>6
    <3>2. progress[1][x[1]].last = cursor[p].last /\ progress'[1][x[1]].last = end
      BY <1>1, <1>3, <1>4, <2>6
    <3>3. CASE x \in written[p]
      <4>1. value[x] = <<>>
        BY <1>6, <2>1, <2>3, <3>1, <3>2, <3>3
      <4>2. value'[x] = <<audit[1].key>>
        BY <1>4, <2>2, <3>3, <4>1
      <4> QED
        BY <2>6, <3>1, <3>2, <3>3, <4>2
    <3>4. CASE x \notin written[p]
      BY <1>6, <2>1, <2>2, <2>3, <2>6, <3>1, <3>2, <3>4
    <3> QED
      BY <3>3, <3>4
  <2> QED
    BY <2>5, <2>6
<1>8. RowsAsRecorded'
  BY <1>1, <1>2, <1>7 DEF RowsAsRecorded
<1> QED
  BY <1>5, <1>8

\* The run is closed under its key, and nothing is committed with it.
LEMMA CloseWorker ==
  ASSUME FinalInv, ~staleStart, RowsAsRecorded, NEW p \in Procs, Worker(p),
         FinishRun(p) \/ MarkFailed(p)
  PROVE  /\ Worker(p)' /\ RowsAsRecorded' /\ value' = value
         /\ DOMAIN audit' = {1} /\ audit'[1].key = audit[1].key
         /\ MarkFailed(p) => audit'[1].status = "failed"
<1> USE DEF FinalInv, TInv, ProcessesOK
<1>1. pc[p] \in {"open", "failed"} /\ pc'[p] = "release" /\ progress' = progress
  BY DEF FinishRun, MarkFailed
<1>2. PICK status \in {"completed", "failed"}, n \in {sum[p], 0} :
        /\ audit' = [audit EXCEPT ![run[p]].status = status, ![run[p]].rowsMasked = n]
        /\ MarkFailed(p) => status = "failed"
  BY DEF FinishRun, MarkFailed
<1>3. value' = value
  <2>1. CASE FinishRun(p)
    BY <2>1 DEF FinishRun
  <2>2. CASE MarkFailed(p)
    <3>1. written[p] = {} /\ value' = AfterCommit(p)
      BY <2>2 DEF MarkFailed, Worker
    <3>2. value' = [x \in Row |-> value[x]]
      BY <3>1 DEF AfterCommit
    <3> QED
      BY <3>2 DEF DatabaseOK
  <2> QED
    BY <2>1, <2>2
<1>4. run[p] = 1 /\ DOMAIN audit = {1} /\ audit # <<>>
  BY <1>1, OneRun DEF Active, Orderly
<1>5. /\ audit'[1].key = audit[1].key /\ DOMAIN audit' = {1}
      /\ MarkFailed(p) => audit'[1].status = "failed"
  <2>1. audit[1] \in Run
    <3>1. audit \in Seq(Run) /\ 1 \in 1..Len(audit)
      BY <1>4, LenProperties DEF DatabaseOK
    <3> QED
      BY <3>1, ElementOfSeq
  <2> QED
    BY <1>2, <1>4, <2>1 DEF Run
<1>6. audit' # <<>>
  <2>1. 1 \in DOMAIN audit' /\ 1 \notin DOMAIN <<>>
    BY <1>5
  <2> QED
    BY <2>1
<1>7. RowsAsRecorded'
  BY <1>1, <1>3, <1>4, <1>5, <1>6 DEF RowsAsRecorded
<1>8. Worker(p)'
  BY <1>1 DEF Worker, Active
<1> QED
  BY <1>3, <1>5, <1>7, <1>8

LEMMA OnlyItselfMoves ==
  ASSUME TInv, NEW p \in Procs,
         (\E j \in Job : Invoke(p, j)) \/ DryRun(p) \/ Advance(p) \/ Fault(p)
  PROVE  OnlyItself(p)
<1> USE DEF TInv, ProcessesOK, OnlyItself
<1>1. CASE (\E j \in Job : Invoke(p, j)) \/ DryRun(p)
  BY <1>1 DEF Invoke, DryRun
<1>2. CASE Guards(p)
  BY <1>2 DEF Guards, LookForTables, CreateTables, CreateTablesRefused, PreflightCompleted,
       PreflightIncomplete, PreflightSnapshot, ResumeGuard
<1>3. CASE LockAndStart(p)
  BY <1>3 DEF LockAndStart, TryLock, ContinueRun, NewRun, StartMismatch, LoadProgress
<1>4. CASE MaskTable(p)
  BY <1>4 DEF MaskTable, OpenTable, SelectBatch, TableDone, UpdateBatch, SaveBatch, FinishRun
<1>5. CASE KeylessSelectFails(p) \/ KeyNotSerializable(p) \/ MarkFailed(p) \/ MarkFailedFails(p)
  BY <1>5 DEF KeylessSelectFails, KeyNotSerializable, MarkFailed, MarkFailedFails
<1>6. CASE ReleaseLock(p) \/ Die(p)
  BY <1>6 DEF ReleaseLock, Die, EndSession
<1>7. CASE EarlyFailure(p) \/ ReadFails(p) \/ UpsertFails(p)
  BY <1>7 DEF EarlyFailure, ReadFails, UpsertFails
<1>8. CASE UpdateFails(p)
  BY <1>8 DEF UpdateFails
<1> QED
  BY <1>1, <1>2, <1>3, <1>4, <1>5, <1>6, <1>7, <1>8 DEF Advance, Unwind, Fault

LEMMA NextBatch ==
  ASSUME FinalInv, BatchInv, Sound, Next
  PROVE  BatchInv'
<1> SUFFICES ASSUME ~staleStart'
             PROVE  RowsAsRecorded' /\ \A q \in Procs : Worker(q)'
  BY DEF BatchInv
<1>1. ~staleStart /\ Remember /\ RowsAsRecorded /\ \A q \in Procs : Worker(q)
  BY DEF Next, Remember, BatchInv
<1>2. PICK p \in Procs :
        (\E j \in Job : Invoke(p, j)) \/ DryRun(p) \/ Advance(p) \/ Fault(p)
  BY DEF Next
<1>3. OthersStay(p) /\ OnlyItself(p)
  BY <1>2, StepKinds, OnlyItselfMoves DEF FinalInv
\* Where rows or runs change, p is at work or starts, and nobody else is.
<1>4. ASSUME pc[p] \in Active \cup {"start"}
      PROVE  \A q \in Procs \ {p} : Worker(q)'
  <2>1. \A q \in Procs \ {p} : pc[q] \notin Active
    BY <1>4, OneWorks DEF FinalInv
  <2> QED
    BY <1>1, <1>3, <2>1, OtherWorkers
<1>5. UNCHANGED <<value, audit, progress>> => RowsAsRecorded'
  BY <1>1 DEF RowsAsRecorded
<1>6. UNCHANGED <<audit, progress>> => \A q \in Procs \ {p} : Worker(q)'
  BY <1>1, <1>3, OtherWorkers
<1>7. CASE (\E j \in Job : Invoke(p, j)) \/ DryRun(p)
  BY <1>1, <1>5, <1>6, <1>7, InvokedWorker DEF FinalInv
<1>8. CASE ContinueRun(p)
  <2>1. View(p, "start")
    BY <1>1, <1>8, FreshStart DEF ContinueRun, FinalInv, TInv, ProcessesOK
  <2> QED
    BY <1>1, <1>5, <1>6, <1>8, <2>1, ContinueWorker
<1>9. CASE NewRun(p)
  <2>1. pc[p] = "start" /\ View(p, "start")
    BY <1>1, <1>9, FreshStart DEF NewRun, FinalInv, TInv, ProcessesOK
  <2> QED
    BY <1>1, <1>4, <1>9, <2>1, NewWorker
<1>10. CASE SaveBatch(p)
  <2>1. pc[p] \in Active
    BY <1>10 DEF SaveBatch, Active
  <2> QED
    BY <1>1, <1>4, <1>10, <2>1, SaveWorker
<1>11. CASE FinishRun(p) \/ MarkFailed(p)
  <2>1. pc[p] \in Active
    BY <1>11 DEF FinishRun, MarkFailed, Active
  <2> QED
    BY <1>1, <1>4, <1>11, <2>1, CloseWorker
<1>12. CASE Aside(p) /\ ~SaveBatch(p) /\ (Advance(p) \/ Fault(p))
  BY <1>1, <1>5, <1>6, <1>12, AsideWorker DEF Aside
<1> QED
  BY <1>2, <1>7, <1>8, <1>9, <1>10, <1>11, <1>12, StepKinds DEF FinalInv

LEMMA BatchInvHolds == ASSUME Sound PROVE Spec => []BatchInv
<1>1. Init => BatchInv
  <2> SUFFICES ASSUME Init PROVE BatchInv
    OBVIOUS
  <2> QED
    BY DEF Init, BatchInv, RowsAsRecorded, Worker, Active
<1>2. FinalInv /\ BatchInv /\ [Next]_vars => BatchInv'
  <2>1. ASSUME FinalInv, BatchInv, UNCHANGED vars PROVE BatchInv'
    <3>1. UNCHANGED <<value, audit, progress, pc, job, run, table, cursor, saved, written, txFailed,
                      staleStart>>
      BY <2>1 DEF vars, system
    <3>2. \A p \in Procs : BatchUpTo(p, BatchEnd(p))' = BatchUpTo(p, BatchEnd(p))
      BY <3>1 DEF BatchUpTo, BatchEnd
    <3>3. RowsAsRecorded => RowsAsRecorded'
      BY <3>1 DEF RowsAsRecorded
    <3>4. \A p \in Procs : Worker(p) => Worker(p)'
      BY <3>1, <3>2 DEF Worker
    <3> QED
      BY <2>1, <3>1, <3>3, <3>4 DEF BatchInv
  <2> QED
    BY <2>1, NextBatch
<1> QED
  BY <1>1, <1>2, FinalInvHolds, PTL DEF Spec

\* With keys that can be recorded, on PostgreSQL whatever is killed or refused and on MySQL
\* whatever is killed, a batch and its progress are committed together: what is masked is
\* what the cursors of the only run have passed, under its own config and secret, until a
\* process starts on stale guards.
THEOREM BatchesAtomic ==
  ASSUME Unserializable = {}, Dialect = "postgresql" \/ MaxFailures = 0
  PROVE  Spec => []BatchAtomicity
<1>1. Sound
  BY DEF Sound
<1>2. Spec => []BatchInv
  BY <1>1, BatchInvHolds
<1>3. FinalInv /\ BatchInv => BatchAtomicity
  BY DEF FinalInv, Orderly, BatchInv, RowsAsRecorded, BatchAtomicity
<1> QED
  BY <1>2, <1>3, FinalInvHolds, PTL

\* There no row is masked twice either, until a process starts on stale guards.
THEOREM MaskedAtMostOnce ==
  ASSUME Unserializable = {}, Dialect = "postgresql" \/ MaxFailures = 0
  PROVE  Spec => [](MaskedOnce \/ staleStart)
<1>1. Sound
  BY DEF Sound
<1>2. Spec => []BatchInv
  BY <1>1, BatchInvHolds
<1>3. ASSUME RowsAsRecorded PROVE MaskedOnce
  <2>1. \A k : Len(<<k>>) = 1 /\ Len(<<>>) = 0
    OBVIOUS
  <2>2. \A x \in Row : value[x] = <<audit[1].key>> \/ value[x] = <<>>
    BY <1>3 DEF RowsAsRecorded
  <2>3. ASSUME NEW x \in Row PROVE Len(value[x]) <= 1
    <3> DEFINE n == Len(value[x])
    <3>1. n = 1 \/ n = 0
      BY <2>1, <2>2
    <3> HIDE DEF n
    <3>2. n <= 1
      BY <3>1
    <3> QED
      BY <3>2 DEF n
  <2> QED
    BY <2>3 DEF MaskedOnce
<1>4. BatchInv => MaskedOnce \/ staleStart
  BY <1>3 DEF BatchInv
<1> QED
  BY <1>2, <1>4, PTL

\* There a completed run has masked every row, under its own config and secret.
THEOREM WholeRuns ==
  ASSUME Unserializable = {}, Dialect = "postgresql" \/ MaxFailures = 0
  PROVE  Spec => []CompletedIsWhole
<1>1. Sound
  BY DEF Sound
<1>2. Spec => []BatchInv
  BY <1>1, BatchInvHolds
<1>3. ASSUME FinalInv, BatchInv, NothingLeftBehind, ~staleStart,
             NEW i \in Completed, NEW x \in MaskableRow
      PROVE  value[x] = <<audit[i].key>>
  <2>1. DOMAIN audit = 1..Len(audit) /\ Len(audit) \in Nat /\ i \in DOMAIN audit
    BY <1>3, LenProperties DEF FinalInv, TInv, DatabaseOK, Completed
  <2>2. i = 1
    BY <1>3, <2>1 DEF FinalInv, Orderly
  <2>3. value[x] # <<>>
    BY <1>3 DEF NothingLeftBehind
  <2> QED
    BY <1>3, <2>2, <2>3 DEF BatchInv, RowsAsRecorded, MaskableRow
<1>4. FinalInv /\ BatchInv /\ NothingLeftBehind => CompletedIsWhole
  BY <1>3 DEF CompletedIsWhole
<1> QED
  BY <1>2, <1>4, FinalInvHolds, NoRowLeftBehind, PTL

-----------------------------------------------------------------------------
(* One process at a time: its guards are never stale.                      *)

Alone == \A p, q \in Procs : p = q

AloneInv == ~staleStart /\ \A p \in Procs : pc[p] \in Window => fresh[p]

LEMMA AloneInvHolds == ASSUME Alone PROVE Spec => []AloneInv
<1>1. Init => AloneInv
  BY DEF Init, AloneInv, Window
<1>2. FinalInv /\ AloneInv /\ [Next]_vars => AloneInv'
  <2>1. ASSUME FinalInv, AloneInv, UNCHANGED vars PROVE AloneInv'
    BY <2>1 DEF AloneInv, vars, system
  <2>2. ASSUME FinalInv, AloneInv, Next PROVE AloneInv'
    <3>1. PICK p \in Procs :
            (\E j \in Job : Invoke(p, j)) \/ DryRun(p) \/ Advance(p) \/ Fault(p)
      BY <2>2 DEF Next
    <3>2. pc'[p] \in Window => audit' = audit
      <4>1. CASE Aside(p) \/ ContinueRun(p) \/ SaveBatch(p)
        BY <4>1 DEF Aside, ContinueRun, SaveBatch
      <4>2. CASE NewRun(p) \/ FinishRun(p) \/ MarkFailed(p)
        BY <2>2, <4>2 DEF NewRun, FinishRun, MarkFailed, Window, FinalInv, TInv, ProcessesOK
      <4> QED
        BY <2>2, <3>1, <4>1, <4>2, StepKinds DEF FinalInv
    <3>3. \A q \in Procs : q = p
      BY <3>1 DEF Alone
    <3>4. Remember
      BY <2>2 DEF Next
    <3>5. \A q \in Procs : pc'[q] \in Window => fresh'[q]
      BY <2>2, <3>2, <3>3, <3>4 DEF AloneInv, Remember
    <3>6. ~staleStart'
      BY <2>2, <3>4 DEF AloneInv, Remember, Window
    <3> QED
      BY <3>5, <3>6 DEF AloneInv
  <2> QED
    BY <2>1, <2>2
<1> QED
  BY <1>1, <1>2, FinalInvHolds, PTL DEF Spec

-----------------------------------------------------------------------------
(* Where no guards are stale, dbmask keeps the promise of MaskOnce.        *)

\* What MaskOnce sees of the database.
Content == [x \in MaskableRow |-> value[x]]

Phase == CASE audit = <<>> -> "fresh"
           [] Incomplete # {} -> "masking"
           [] OTHER -> "masked"

RunKey == IF audit = <<>> THEN <<>> ELSE <<audit[1].key>>

Original == {x \in MaskableRow : Content[x] = <<>>}

BeginStep == /\ Phase = "fresh" /\ Phase' = "masking"
             /\ RunKey' \in {<<k>> : k \in Key} /\ Content' = Content

MaskStep == /\ Phase = "masking" /\ Phase' = Phase /\ RunKey' = RunKey
            /\ \E batch \in (SUBSET Original) \ {{}} :
                 Content' = [x \in MaskableRow |-> IF x \in batch THEN RunKey ELSE Content[x]]

CompleteStep == /\ Phase = "masking" /\ Phase' = "masked" /\ Original = {}
                /\ Content' = Content /\ RunKey' = RunKey

StutterStep == Content' = Content /\ Phase' = Phase /\ RunKey' = RunKey

PromiseInv == FinalInv /\ BatchInv /\ ~staleStart /\ NothingLeftBehind

LEMMA WorkIsMasking ==
  ASSUME PromiseInv, NEW p \in Procs, pc[p] \in Active
  PROVE  Phase = "masking" /\ RunKey = <<audit[1].key>>
<1>1. run[p] = 1 /\ DOMAIN audit = {1} /\ audit # <<>> /\ audit[1].status # "completed"
  BY OneRun DEF PromiseInv, FinalInv, Orderly, RunsOpen
<1>2. audit \in Seq(Run) /\ 1 \in 1..Len(audit)
  BY <1>1, LenProperties DEF PromiseInv, FinalInv, TInv, DatabaseOK
<1>3. audit[1] \in Run
  BY <1>2, ElementOfSeq
<1>4. 1 \in Incomplete
  BY <1>1, <1>3 DEF Run, Status, Incomplete
<1> QED
  BY <1>1, <1>4 DEF Phase, RunKey

LEMMA NewIsBegin ==
  ASSUME PromiseInv, NEW p \in Procs, NewRun(p), Remember, ~staleStart'
  PROVE  BeginStep
<1> USE DEF PromiseInv, FinalInv
<1>1. pc[p] = "start" /\ pc'[p] = "load" /\ Incomplete = {} /\ value' = value /\ job[p].key \in Key
  BY DEF NewRun, TInv, ProcessesOK, Job
<1>2. audit = <<>> /\ Len(audit) = 0
  <2>1. View(p, "start")
    BY <1>1, FreshStart
  <2> QED
    BY <1>1, <2>1, NoRunYet DEF View
<1>3. 1 \in DOMAIN audit' /\ audit'[1] = [status |-> "running", key |-> job[p].key, rowsMasked |-> 0]
  <2>1. /\ DOMAIN audit' = 1..(Len(audit) + 1)
        /\ audit'[Len(audit) + 1] = [status |-> "running", key |-> job[p].key, rowsMasked |-> 0]
    BY NewRow
  <2>2. Len(audit) + 1 = 1
    BY <1>2
  <2>3. 1 \in DOMAIN audit'
    BY <2>1, <2>2
  <2> QED
    BY <2>1, <2>2, <2>3
<1>4. audit' # <<>>
  <2>1. 1 \notin DOMAIN <<>>
    OBVIOUS
  <2> QED
    BY <1>3, <2>1
<1>5. Incomplete' # {}
  BY <1>3 DEF Incomplete
<1>6. Phase = "fresh" /\ Phase' = "masking"
  <2>1. Phase = "fresh"
    BY <1>1, <1>2 DEF Phase
  <2>2. Phase' = "masking"
    BY <1>4, <1>5 DEF Phase
  <2> QED
    BY <2>1, <2>2
<1>7. RunKey' = <<job[p].key>>
  BY <1>3, <1>4 DEF RunKey
<1>8. Content' = Content
  BY <1>1 DEF Content, MaskableRow
<1> QED
  BY <1>1, <1>6, <1>7, <1>8 DEF BeginStep

LEMMA SaveIsMask ==
  ASSUME PromiseInv, NEW p \in Procs, SaveBatch(p)
  PROVE  MaskStep \/ StutterStep
<1> USE DEF PromiseInv, FinalInv, TInv, ProcessesOK
<1>1. /\ pc[p] = "save" /\ audit' = audit /\ value' = AfterCommit(p)
  BY DEF SaveBatch
<1>2. Phase = "masking" /\ RunKey = <<audit[1].key>>
  BY <1>1, WorkIsMasking DEF Active
<1>3. Phase' = Phase /\ RunKey' = RunKey
  BY <1>1 DEF Phase, RunKey, Incomplete
<1>4. RowsAsRecorded /\ Worker(p)
  BY DEF BatchInv
<1>5. /\ audit[1].key = job[p].key /\ cursor[p] = progress[1][table[p]] /\ table[p] \in Tables
      /\ written[p] = IF table[p] \in Keyless THEN {} ELSE BatchUpTo(p, BatchEnd(p))
  BY <1>1, <1>4 DEF Worker, Active, Positions
<1>6. \A x \in Row : value'[x] = IF x \in written[p] THEN Append(value[x], job[p].key) ELSE value[x]
  BY <1>1 DEF AfterCommit
<1>7. CASE table[p] \in Keyless
  <2>1. Content' = Content
    BY <1>5, <1>6, <1>7 DEF Content, MaskableRow
  <2> QED
    BY <1>3, <2>1 DEF StutterStep
<1>8. CASE table[p] \notin Keyless
  <2>1. /\ BatchEnd(p) \in Nat /\ cursor[p].last \in Nat /\ cursor[p].last < BatchEnd(p)
        /\ BatchUpTo(p, BatchEnd(p)) \in SUBSET Row
    BY <1>1, BatchType DEF Cursor
  <2>2. written[p] = BatchUpTo(p, BatchEnd(p))
    BY <1>5, <1>8
  <2>3. ASSUME NEW x \in written[p]
        PROVE  x \in MaskableRow /\ value[x] = <<>>
    <3>1. x \in Row /\ x[1] = table[p] /\ x[2] \in (cursor[p].last + 1)..BatchEnd(p)
      BY <2>1, <2>2 DEF BatchUpTo
    <3>2. ~(x[2] <= progress[1][x[1]].last)
      BY <1>5, <2>1, <3>1
    <3> QED
      BY <1>4, <1>8, <3>1, <3>2 DEF RowsAsRecorded, MaskableRow
  <2>4. written[p] # {}
    <3>1. cursor[p].last + 1 \in (cursor[p].last + 1)..BatchEnd(p)
      BY <2>1
    <3>2. <<table[p], cursor[p].last + 1>> \in written[p]
      BY <2>2, <3>1 DEF BatchUpTo
    <3> QED
      BY <3>2
  <2>5. written[p] \in (SUBSET Original) \ {{}}
    <3>1. \A x \in MaskableRow : Content[x] = value[x]
      BY DEF Content
    <3>2. \A x \in written[p] : x \in Original
      BY <2>3, <3>1 DEF Original
    <3> QED
      BY <2>4, <3>2
  <2>6. \A x \in MaskableRow : value'[x] = IF x \in written[p] THEN RunKey ELSE value[x]
    <3>1. \A k : Append(<<>>, k) = <<k>>
      OBVIOUS
    <3> QED
      BY <1>2, <1>5, <1>6, <2>3, <3>1 DEF MaskableRow
  <2>7. Content' = [x \in MaskableRow |-> IF x \in written[p] THEN RunKey ELSE Content[x]]
    BY <2>6 DEF Content, MaskableRow
  <2> QED
    BY <1>2, <1>3, <2>5, <2>7 DEF MaskStep
<1> QED
  BY <1>7, <1>8

LEMMA FinishIsComplete ==
  ASSUME PromiseInv, NothingLeftBehind', NEW p \in Procs, FinishRun(p)
  PROVE  CompleteStep
<1> USE DEF PromiseInv, FinalInv, TInv, ProcessesOK
<1>1. pc[p] = "open" /\ value' = value
  BY DEF FinishRun
<1>2. Phase = "masking" /\ RunKey = <<audit[1].key>>
  BY <1>1, WorkIsMasking DEF Active
<1>3. run[p] = 1 /\ DOMAIN audit = {1} /\ audit # <<>>
  BY <1>1, OneRun DEF Orderly, Active
<1>4. audit' = [audit EXCEPT ![1].status = "completed", ![1].rowsMasked = sum[p]]
  BY <1>3 DEF FinishRun
<1>5. DOMAIN audit' = {1} /\ audit'[1].status = "completed" /\ audit'[1].key = audit[1].key
  <2>1. audit[1] \in Run
    <3>1. audit \in Seq(Run) /\ 1 \in 1..Len(audit)
      BY <1>3, LenProperties DEF DatabaseOK
    <3> QED
      BY <3>1, ElementOfSeq
  <2> QED
    BY <1>3, <1>4, <2>1 DEF Run
<1>6. audit' # <<>>
  <2>1. 1 \in DOMAIN audit' /\ 1 \notin DOMAIN <<>>
    BY <1>5
  <2> QED
    BY <2>1
<1>7. Incomplete' = {} /\ 1 \in Completed'
  BY <1>5 DEF Incomplete, Completed
<1>8. Phase' = "masked" /\ RunKey' = RunKey
  BY <1>2, <1>5, <1>6, <1>7 DEF Phase, RunKey
<1>9. \A x \in MaskableRow : value[x] # <<>>
  BY <1>1, <1>7 DEF NothingLeftBehind, MaskableRow
<1>10. Original = {} /\ Content' = Content
  BY <1>1, <1>9 DEF Original, Content, MaskableRow
<1> QED
  BY <1>2, <1>8, <1>10 DEF CompleteStep

\* A run that is marked failed is still the run, and still masking.
LEMMA MarkIsNone ==
  ASSUME PromiseInv, NEW p \in Procs, MarkFailed(p)
  PROVE  StutterStep
<1> USE DEF PromiseInv, FinalInv
<1>1. pc[p] \in Active
  BY DEF MarkFailed, Active
<1>2. Phase = "masking" /\ RunKey = <<audit[1].key>>
  BY <1>1, WorkIsMasking
<1>3. /\ value' = value /\ DOMAIN audit' = {1} /\ audit'[1].key = audit[1].key
      /\ audit'[1].status = "failed"
  BY CloseWorker DEF BatchInv
<1>4. audit' # <<>> /\ 1 \in Incomplete'
  <2>1. 1 \in DOMAIN audit' /\ 1 \notin DOMAIN <<>>
    BY <1>3
  <2> QED
    BY <1>3, <2>1 DEF Incomplete
<1> QED
  BY <1>2, <1>3, <1>4 DEF StutterStep, Content, Phase, RunKey, MaskableRow

\* With keys that can be recorded, on PostgreSQL through any refusals, deaths and resumes and
\* on MySQL through any deaths and resumes, and among any number of processes: as long as none
\* of them starts on stale guards, mask_plan implements MaskOnce.  Every step masks some of
\* the original rows under the key of the run, or begins or completes it, or is no step.
THEOREM PromiseKeptUnlessStale ==
  ASSUME Unserializable = {}, Dialect = "postgresql" \/ MaxFailures = 0
  PROVE  Spec /\ []~staleStart => KeepsPromise
<1>1. Spec => []BatchInv
  <2>1. Sound
    BY DEF Sound
  <2> QED
    BY <2>1, BatchInvHolds
<1>2. Init => Promise!Init
  <2> SUFFICES ASSUME Init PROVE Promise!Init
    OBVIOUS
  <2>1. Content = [x \in MaskableRow |-> <<>>] /\ Phase = "fresh" /\ RunKey = <<>>
    <3>1. value = [x \in Row |-> <<>>] /\ audit = <<>>
      BY DEF Init
    <3>2. Content = [x \in MaskableRow |-> <<>>]
      BY <3>1 DEF Content, MaskableRow
    <3>3. DOMAIN audit = {}
      BY <3>1
    <3>4. Incomplete = {}
      BY <3>3 DEF Incomplete
    <3> QED
      BY <3>1, <3>2, <3>4 DEF Phase, RunKey
  <2> QED
    BY <2>1 DEF Promise!Init, Content, Phase, RunKey
<1>3. ASSUME PromiseInv, PromiseInv', Next
      PROVE  BeginStep \/ MaskStep \/ CompleteStep \/ StutterStep
  <2>1. PICK p \in Procs :
          (\E j \in Job : Invoke(p, j)) \/ DryRun(p) \/ Advance(p) \/ Fault(p)
    BY <1>3 DEF Next
  <2>2. Remember /\ ~staleStart' /\ ~staleStart
    BY <1>3 DEF Next, PromiseInv
  <2>3. CASE Aside(p) \/ ContinueRun(p)
    <3>1. UNCHANGED <<value, audit>>
      BY <2>3 DEF Aside, ContinueRun
    <3> QED
      BY <3>1 DEF StutterStep, Content, Phase, RunKey, MaskableRow, Incomplete
  <2> QED
    BY <1>3, <2>1, <2>2, <2>3, StepKinds, NewIsBegin, SaveIsMask, FinishIsComplete, MarkIsNone
       DEF PromiseInv, FinalInv
<1>4. BeginStep => Promise!Next
  BY DEF BeginStep, Content, Phase, RunKey, Promise!Next, Promise!Begin
<1>5. MaskStep => Promise!Next
  BY DEF MaskStep, Original, Content, Phase, RunKey, Promise!Next, Promise!MaskRows, Promise!Fresh
<1>6. CompleteStep => Promise!Next
  BY DEF CompleteStep, Original, Content, Phase, RunKey, Promise!Next, Promise!Complete,
         Promise!Fresh
<1>7. StutterStep => UNCHANGED Promise!promise
  BY DEF StutterStep, Content, Phase, RunKey, Promise!promise
<1>8. UNCHANGED vars => StutterStep
  BY DEF vars, system, StutterStep, Content, Phase, RunKey, MaskableRow, Incomplete
<1>9. PromiseInv /\ PromiseInv' /\ [Next]_vars => [Promise!Next]_(Promise!promise)
  BY <1>3, <1>4, <1>5, <1>6, <1>7, <1>8
<1>10. Spec /\ []~staleStart => []PromiseInv
  BY <1>1, FinalInvHolds, NoRowLeftBehind, PTL DEF PromiseInv
<1> QED
  BY <1>2, <1>9, <1>10, PTL DEF Spec, KeepsPromise, Promise!Spec

\* One process at a time has no stale guards: it implements MaskOnce.
THEOREM PromiseKept ==
  ASSUME Unserializable = {}, Dialect = "postgresql" \/ MaxFailures = 0,
         \A p, q \in Procs : p = q
  PROVE  Spec => KeepsPromise
<1>1. Spec => []AloneInv
  <2>1. Alone
    BY DEF Alone
  <2> QED
    BY <2>1, AloneInvHolds
<1>2. Spec /\ []~staleStart => KeepsPromise
  BY PromiseKeptUnlessStale
<1> QED
  BY <1>1, <1>2, PTL DEF AloneInv
=============================================================================
