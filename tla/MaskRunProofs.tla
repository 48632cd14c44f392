--------------------------- MODULE MaskRunProofs ---------------------------
(***************************************************************************)
(* What MaskRun guarantees for every value of its constants, proved.       *)
(***************************************************************************)
EXTENDS MaskRunProps, TLAPS, WellFoundedInduction, SequenceTheorems


\* A row is a table and a position in it.
LEMMA RowIsPair ==
  /\ \A t \in Tables : \A r \in 1..RowsOf[t] : <<t, r>> \in Row
  /\ \A x \in Row : /\ x = <<x[1], x[2]>>
                    /\ x[1] \in Tables
                    /\ x[2] \in 1..RowsOf[x[1]]
BY DEF Row

\* A sequence with one element replaced.
LEMMA ReplaceOne ==
  ASSUME NEW S, NEW seq \in Seq(S), NEW i \in 1..Len(seq), NEW e \in S,
         NEW new, new = [seq EXCEPT ![i] = e]
  PROVE  /\ new \in Seq(S)
         /\ Len(new) = Len(seq)
         /\ DOMAIN new = DOMAIN seq
         /\ \A j \in DOMAIN seq : new[j] = IF j = i THEN e ELSE seq[j]
<1>1. /\ new \in Seq(S) /\ Len(new) = Len(seq)
      /\ \A j \in 1..Len(seq) : new[j] = IF j = i THEN e ELSE seq[j]
  BY ExceptSeq
<1>2. DOMAIN new = 1..Len(new) /\ DOMAIN seq = 1..Len(seq)
  BY <1>1, LenProperties
<1> QED
  BY <1>1, <1>2

\* The newest of some run rows exists.
LEMMA NewestExists ==
  ASSUME NEW n \in Nat, NEW S \in SUBSET (1..n), S # {}
  PROVE  \E i \in S : \A j \in S : j <= i
<1> DEFINE D == {n - i : i \in S}
           Less == {ss \in Nat \X Nat : ss[1] < ss[2]}
<1>1. D \subseteq Nat /\ D # {}
  <2>1. \A i \in S : n - i \in Nat
    OBVIOUS
  <2>2. PICK i \in S : TRUE
    OBVIOUS
  <2>3. n - i \in D
    OBVIOUS
  <2> QED
    BY <2>1, <2>3
<1>2. IsWellFoundedOn(Less, Nat)
  BY NatLessThanWellFounded DEF OpToRel
<1>3. PICK d \in D : \A e \in D : ~ (<<e, d>> \in Less)
  <2> HIDE DEF D, Less
  <2> QED
    BY <1>1, <1>2, WFMin
<1>4. PICK i \in S : d = n - i
  OBVIOUS
<1>5. \A j \in S : n - i <= n - j
  <2> TAKE j \in S
  <2>1. n - j \in D /\ n - j \in Nat /\ n - i \in Nat
    OBVIOUS
  <2>2. ~ (<<n - j, n - i>> \in Less)
    BY <1>3, <1>4, <2>1
  <2> QED
    BY <2>1, <2>2
<1> QED
  BY <1>5

\* incomplete_run returns a row of dbmask_audit.
LEMMA IncompleteRunType ==
  ASSUME DatabaseOK, Incomplete # {}
  PROVE  IncompleteRun \in Incomplete /\ Incomplete \subseteq DOMAIN audit
<1>1. Len(audit) \in Nat /\ DOMAIN audit = 1..Len(audit)
  BY LenProperties DEF DatabaseOK
<1>2. Incomplete \in SUBSET (1..Len(audit))
  BY <1>1 DEF Incomplete
<1>3. \E i \in Incomplete : \A j \in Incomplete : j <= i
  BY <1>1, <1>2, NewestExists
<1> QED
  BY <1>1, <1>2, <1>3 DEF IncompleteRun

\* Committing appends the key to the rows of the transaction and changes no other.
LEMMA AfterCommitType ==
  ASSUME DatabaseOK, ProcessesOK, NEW p \in Procs
  PROVE  /\ AfterCommit(p) \in [Row -> Seq(Key)]
         /\ \A x \in Row : /\ value[x] # <<>> => AfterCommit(p)[x] # <<>>
                           /\ x \in written[p] => AfterCommit(p)[x] # <<>>
<1>1. job[p].key \in Key
  BY DEF ProcessesOK, Job
<1>2. \A x \in Row : /\ value[x] \in Seq(Key)
                     /\ Append(value[x], job[p].key) \in Seq(Key)
                     /\ Append(value[x], job[p].key) # <<>>
  BY <1>1, AppendProperties DEF DatabaseOK
<1> QED
  BY <1>2 DEF AfterCommit

\* A batch lies within its table.
LEMMA BatchType ==
  ASSUME TInv, NEW p \in Procs, pc[p] \in {"update", "save"}
  PROVE  /\ BatchEnd(p) \in Nat
         /\ cursor[p].last < BatchEnd(p)
         /\ BatchEnd(p) <= RowsOf[table[p]]
         /\ \A n \in Nat : n <= BatchEnd(p) => BatchUpTo(p, n) \in SUBSET Row
<1>1. /\ table[p] \in Tables /\ cursor[p].last \in Nat /\ RowsOf[table[p]] \in Nat
      /\ cursor[p].last < RowsOf[table[p]]
  BY TablesAssumption DEF TInv, ProcessesOK, Positions, Cursor
<1>2. /\ BatchEnd(p) \in Nat
      /\ cursor[p].last < BatchEnd(p)
      /\ BatchEnd(p) <= RowsOf[table[p]]
  BY <1>1, BatchAssumption DEF BatchEnd
<1>3. ASSUME NEW n \in Nat, n <= BatchEnd(p), NEW x \in BatchUpTo(p, n)
      PROVE  x \in Row
  <2>1. PICK r \in (cursor[p].last + 1)..n : x = <<table[p], r>>
    BY <1>3 DEF BatchUpTo
  <2>2. r \in 1..RowsOf[table[p]]
    BY <1>1, <1>2, <1>3
  <2> QED
    BY <1>1, <2>1, <2>2, RowIsPair
<1> QED
  BY <1>2, <1>3
-----------------------------------------------------------------------------
(* Every step keeps TInv.  First the steps that need more than their text.  *)

USE DEF Step, Stop, Refuse, Pass, StatementFails, SpendFailure, database, position, session,
        budget

LEMMA ContinueRunType == ASSUME TInv, NEW p \in Procs, ContinueRun(p) PROVE TInv'
<1>1. IncompleteRun \in DOMAIN audit /\ IncompleteRun \in Nat
  BY IncompleteRunType, LenProperties DEF TInv, DatabaseOK, ContinueRun
<1> QED
  BY <1>1 DEF TInv, DatabaseOK, ProcessesOK, BudgetOK, Positions, PC, Locked, ContinueRun

LEMMA NewRunType == ASSUME TInv, NEW p \in Procs, NewRun(p) PROVE TInv'
<1> DEFINE new == [status |-> "running", key |-> job[p].key, rowsMasked |-> 0]
           none == [t \in Tables |-> NoCursor]
<1>1. new \in Run /\ none \in [Tables -> Cursor]
  BY DEF TInv, ProcessesOK, Job, Run, Status, Cursor, NoCursor
<1>2. /\ audit \in Seq(Run) /\ progress \in Seq([Tables -> Cursor])
      /\ Len(audit) = Len(progress) /\ Len(audit) \in Nat
      /\ DOMAIN audit = 1..Len(audit)
  BY LenProperties DEF TInv, DatabaseOK
<1>3. /\ audit' = Append(audit, new) /\ progress' = Append(progress, none)
      /\ run' = [run EXCEPT ![p] = Len(audit) + 1]
  BY DEF NewRun
<1> HIDE DEF new, none
<1>4. /\ audit' \in Seq(Run) /\ progress' \in Seq([Tables -> Cursor])
      /\ Len(audit') = Len(audit) + 1 /\ Len(progress') = Len(progress) + 1
  BY <1>1, <1>2, <1>3, AppendProperties
<1>5. DOMAIN audit' = 1..(Len(audit) + 1)
  BY <1>4, LenProperties
<1>6. DatabaseOK'
  BY <1>2, <1>4 DEF TInv, DatabaseOK, NewRun
<1>7. ProcessesOK' /\ BudgetOK'
  BY <1>2, <1>3 DEF TInv, ProcessesOK, BudgetOK, PC, Locked, NewRun
<1>8. Positions'
  BY <1>2, <1>3, <1>5 DEF TInv, ProcessesOK, Positions, PC, Locked, NewRun
<1> QED
  BY <1>6, <1>7, <1>8 DEF TInv

LEMMA LoadProgressType == ASSUME TInv, NEW p \in Procs, LoadProgress(p) PROVE TInv'
<1>1. progress[run[p]] \in [Tables -> Cursor]
  <2>1. run[p] \in DOMAIN audit
    BY DEF TInv, Positions, LoadProgress
  <2>2. run[p] \in 1..Len(progress)
    BY <2>1, LenProperties DEF TInv, DatabaseOK
  <2> QED
    BY <2>2, ElementOfSeq DEF TInv, DatabaseOK
<1>2. [t \in Tables |-> NoCursor] \in [Tables -> Cursor]
  BY DEF NoCursor, Cursor
<1>3. saved' \in [Procs -> [Tables -> Cursor]]
  BY <1>1, <1>2 DEF TInv, ProcessesOK, LoadProgress
<1> QED
  BY <1>3 DEF TInv, DatabaseOK, ProcessesOK, BudgetOK, Positions, PC, Locked, LoadProgress

LEMMA TableDoneType == ASSUME TInv, NEW p \in Procs, TableDone(p) PROVE TInv'
<1>1. cursor[p].done \in Nat /\ sum[p] \in Nat /\ table[p] \in Nat
  BY DEF TInv, ProcessesOK, Cursor
<1> QED
  BY <1>1 DEF TInv, DatabaseOK, ProcessesOK, BudgetOK, Positions, PC, Locked, TableDone

LEMMA UpdateBatchType == ASSUME TInv, NEW p \in Procs, UpdateBatch(p) PROVE TInv'
<1>1. BatchUpTo(p, BatchEnd(p)) \in SUBSET Row
  BY BatchType DEF UpdateBatch
<1>2. written' \in [Procs -> SUBSET Row]
  BY <1>1 DEF TInv, ProcessesOK, UpdateBatch
<1> QED
  BY <1>2 DEF TInv, DatabaseOK, ProcessesOK, BudgetOK, Positions, PC, Locked, UpdateBatch

LEMMA SaveBatchType == ASSUME TInv, NEW p \in Procs, SaveBatch(p) PROVE TInv'
<1> DEFINE next == [last |-> BatchEnd(p), done |-> cursor[p].done + (BatchEnd(p) - cursor[p].last)]
<1>1. /\ next \in Cursor
      /\ table[p] \in Tables
      /\ run[p] \in 1..Len(progress)
      /\ pc[p] = "save"
  <2>1. cursor[p].last \in Nat /\ cursor[p].done \in Nat
    BY DEF TInv, ProcessesOK, Cursor
  <2>2. next \in Cursor
    BY <2>1, BatchType DEF Cursor, SaveBatch
  <2> QED
    BY <2>2, LenProperties DEF TInv, DatabaseOK, Positions, SaveBatch
<1>2. cursor' = [cursor EXCEPT ![p] = next]
  BY DEF SaveBatch
<1> HIDE DEF next
<1>3. cursor' \in [Procs -> Cursor] /\ cursor'[p] \in Cursor
  BY <1>1, <1>2 DEF TInv, ProcessesOK
<1>4. progress' \in Seq([Tables -> Cursor]) /\ Len(progress') = Len(progress)
  <2> DEFINE row == [progress[run[p]] EXCEPT ![table[p]] = cursor'[p]]
  <2>1. progress \in Seq([Tables -> Cursor])
    BY DEF TInv, DatabaseOK
  <2>2. row \in [Tables -> Cursor]
    BY <1>1, <1>3, <2>1, ElementOfSeq
  <2>3. progress' = [progress EXCEPT ![run[p]] = row]
    BY DEF SaveBatch
  <2> HIDE DEF row
  <2> QED
    BY <1>1, <2>1, <2>2, <2>3, ExceptSeq
<1>5. value' \in [Row -> Seq(Key)]
  BY AfterCommitType DEF TInv, SaveBatch
<1>6. DatabaseOK'
  BY <1>4, <1>5 DEF TInv, DatabaseOK, SaveBatch
<1>7. ProcessesOK' /\ BudgetOK'
  BY <1>3 DEF TInv, ProcessesOK, BudgetOK, PC, Locked, SaveBatch
<1>8. Positions'
  BY <1>1 DEF TInv, ProcessesOK, Positions, PC, Locked, SaveBatch
<1> QED
  BY <1>6, <1>7, <1>8 DEF TInv

\* Closing a run changes its status and count, and leaves every run where it is.
LEMMA CloseRunType ==
  ASSUME DatabaseOK, NEW i \in DOMAIN audit, NEW s \in Status, NEW n \in Nat,
         audit' = [audit EXCEPT ![i].status = s, ![i].rowsMasked = n]
  PROVE  audit' \in Seq(Run) /\ Len(audit') = Len(audit) /\ DOMAIN audit' = DOMAIN audit
<1> DEFINE closed == [[audit[i] EXCEPT !.status = s] EXCEPT !.rowsMasked = n]
<1>1. audit \in Seq(Run) /\ i \in 1..Len(audit)
  BY LenProperties DEF DatabaseOK
<1>2. audit[i] \in Run
  BY <1>1, ElementOfSeq
<1>3. closed \in Run
  BY <1>2 DEF Run
<1>4. audit' = [audit EXCEPT ![i] = closed]
  BY <1>1
<1> HIDE DEF closed
<1>5. \A new : new = [audit EXCEPT ![i] = closed]
        => new \in Seq(Run) /\ Len(new) = Len(audit) /\ DOMAIN new = DOMAIN audit
  BY <1>1, <1>3, ReplaceOne
<1> QED
  BY <1>4, <1>5

LEMMA FinishRunType == ASSUME TInv, NEW p \in Procs, FinishRun(p) PROVE TInv'
<1>1. audit' \in Seq(Run) /\ Len(audit') = Len(audit) /\ DOMAIN audit' = DOMAIN audit
  <2>1. run[p] \in DOMAIN audit /\ "completed" \in Status /\ sum[p] \in Nat
    BY DEF TInv, ProcessesOK, Positions, Status, FinishRun
  <2> QED
    BY <2>1, CloseRunType DEF TInv, FinishRun
<1> QED
  BY <1>1 DEF TInv, DatabaseOK, ProcessesOK, BudgetOK, Positions, PC, Locked, FinishRun

LEMMA MarkFailedType == ASSUME TInv, NEW p \in Procs, MarkFailed(p) PROVE TInv'
<1>1. audit' \in Seq(Run) /\ Len(audit') = Len(audit) /\ DOMAIN audit' = DOMAIN audit
  <2>1. run[p] \in DOMAIN audit /\ "failed" \in Status /\ 0 \in Nat
    BY DEF TInv, ProcessesOK, Positions, Status, MarkFailed
  <2> QED
    BY <2>1, CloseRunType DEF TInv, MarkFailed
<1>2. value' \in [Row -> Seq(Key)]
  BY AfterCommitType DEF TInv, MarkFailed
<1> QED
  BY <1>1, <1>2 DEF TInv, DatabaseOK, ProcessesOK, BudgetOK, Positions, PC, Locked, MarkFailed

LEMMA EarlyFailureType == ASSUME TInv, NEW p \in Procs, EarlyFailure(p) PROVE TInv'
<1>1. /\ failures' \in 0..MaxFailures
      /\ \/ pc' = [pc EXCEPT ![p] = "idle"]
         \/ pc' = [pc EXCEPT ![p] = "release"]
      /\ exit' = [exit EXCEPT ![p] = "E_MASK"]
      /\ UNCHANGED <<database, holder, job, position, session, crashes>>
  BY BoundsAssumption DEF TInv, BudgetOK, EarlyFailure
<1> QED
  BY <1>1 DEF TInv, DatabaseOK, ProcessesOK, BudgetOK, Positions, PC, Locked

\* A refused statement leaves the budget and the transaction's flag well-formed.
LEMMA StatementFailsType ==
  ASSUME TInv, NEW p \in Procs, NEW from, NEW code, StatementFails(p, from, code)
  PROVE  failures' \in 0..MaxFailures /\ txFailed' \in [Procs -> BOOLEAN]
<1>1. failures' \in 0..MaxFailures
  BY BoundsAssumption DEF TInv, BudgetOK
<1>2. (Dialect = "postgresql") \in BOOLEAN
  OBVIOUS
<1> QED
  BY <1>1, <1>2 DEF TInv, ProcessesOK

LEMMA ReadFailsType == ASSUME TInv, NEW p \in Procs, ReadFails(p) PROVE TInv'
<1>1. PICK from \in {"load", "open", "select"}, code \in {"E_MASK", "E_INTERNAL"} :
        StatementFails(p, from, code)
  BY DEF ReadFails
<1>2. failures' \in 0..MaxFailures /\ txFailed' \in [Procs -> BOOLEAN]
  BY <1>1, StatementFailsType
<1>3. /\ pc[p] = from /\ pc' = [pc EXCEPT ![p] = "failed"]
      /\ exit' = [exit EXCEPT ![p] = code]
      /\ UNCHANGED <<database, holder, job, position, written, crashes>>
  BY <1>1 DEF ReadFails
<1> QED
  BY <1>2, <1>3 DEF TInv, DatabaseOK, ProcessesOK, BudgetOK, Positions, PC, Locked

LEMMA UpdateFailsType == ASSUME TInv, NEW p \in Procs, UpdateFails(p) PROVE TInv'
<1>1. /\ failures' \in 0..MaxFailures
      /\ pc[p] = "update" /\ pc' = [pc EXCEPT ![p] = "failed"]
      /\ exit' = [exit EXCEPT ![p] = "E_INTERNAL"]
      /\ txFailed' \in [Procs -> BOOLEAN]
      /\ UNCHANGED <<database, holder, job, position, crashes>>
  BY BoundsAssumption DEF TInv, BudgetOK, ProcessesOK, UpdateFails
<1>2. written' \in [Procs -> SUBSET Row]
  <2>1. PICK n \in cursor[p].last..(BatchEnd(p) - 1) :
          written' = [written EXCEPT ![p] = BatchUpTo(p, n)]
    BY DEF UpdateFails
  <2>2. cursor[p].last \in Nat
    BY DEF TInv, ProcessesOK, Cursor
  <2>3. n \in Nat /\ n <= BatchEnd(p)
    BY <1>1, <2>2, BatchType
  <2>4. BatchUpTo(p, n) \in SUBSET Row
    BY <1>1, <2>3, BatchType
  <2> QED
    BY <2>1, <2>4 DEF TInv, ProcessesOK
<1> QED
  BY <1>1, <1>2 DEF TInv, DatabaseOK, ProcessesOK, BudgetOK, Positions, PC, Locked

LEMMA UpsertFailsType == ASSUME TInv, NEW p \in Procs, UpsertFails(p) PROVE TInv'
<1>1. failures' \in 0..MaxFailures /\ txFailed' \in [Procs -> BOOLEAN]
  BY StatementFailsType DEF UpsertFails
<1> QED
  BY <1>1 DEF TInv, DatabaseOK, ProcessesOK, BudgetOK, Positions, PC, Locked, UpsertFails

LEMMA EndSessionType ==
  ASSUME TInv, NEW p \in Procs, EndSession(p)
  PROVE  /\ holder' \subseteq Procs
         /\ run' \in [Procs -> Nat] /\ table' \in [Procs -> Nat]
         /\ cursor' \in [Procs -> Cursor] /\ saved' \in [Procs -> [Tables -> Cursor]]
         /\ sum' \in [Procs -> Nat]
         /\ written' \in [Procs -> SUBSET Row] /\ txFailed' \in [Procs -> BOOLEAN]
<1>1. NoCursor \in Cursor /\ [t \in Tables |-> NoCursor] \in [Tables -> Cursor]
  BY DEF NoCursor, Cursor
<1> QED
  BY <1>1 DEF TInv, ProcessesOK, EndSession

LEMMA DieType == ASSUME TInv, NEW p \in Procs, Die(p) PROVE TInv'
<1>1. crashes' \in 0..MaxCrashes
  BY BoundsAssumption DEF TInv, BudgetOK, Die
<1>2. /\ holder' \subseteq Procs
      /\ run' \in [Procs -> Nat] /\ table' \in [Procs -> Nat]
      /\ cursor' \in [Procs -> Cursor] /\ saved' \in [Procs -> [Tables -> Cursor]]
      /\ sum' \in [Procs -> Nat]
      /\ written' \in [Procs -> SUBSET Row] /\ txFailed' \in [Procs -> BOOLEAN]
  BY EndSessionType DEF Die
<1>3. /\ pc' = [pc EXCEPT ![p] = "idle"] /\ exit' = [exit EXCEPT ![p] = "died"]
      /\ UNCHANGED <<database, job, failures>>
      /\ \A q \in Procs : q # p => run'[q] = run[q] /\ table'[q] = table[q]
                                   /\ cursor'[q] = cursor[q]
  BY DEF TInv, ProcessesOK, Die, EndSession
<1>4. Positions'
  BY <1>3 DEF TInv, ProcessesOK, Positions
<1> QED
  BY <1>1, <1>2, <1>3, <1>4 DEF TInv, DatabaseOK, ProcessesOK, BudgetOK, PC, Locked

LEMMA NextType == ASSUME TInv, Next PROVE TInv'
<1> SUFFICES ASSUME NEW p \in Procs,
                    \/ \E j \in Job : Invoke(p, j)
                    \/ DryRun(p)
                    \/ Advance(p)
                    \/ Fault(p)
             PROVE  TInv'
  BY DEF Next
<1> USE DEF TInv, DatabaseOK, ProcessesOK, BudgetOK, Positions, PC, Locked
<1>1. CASE \E j \in Job : Invoke(p, j)
  BY <1>1, BoundsAssumption DEF Invoke
<1>2. CASE DryRun(p)
  BY <1>2, BoundsAssumption DEF DryRun
<1>3. CASE LookForTables(p)
  BY <1>3, BoundsAssumption DEF LookForTables
<1>4. CASE CreateTables(p)
  BY <1>4, BoundsAssumption DEF CreateTables
<1>5. CASE CreateTablesRefused(p)
  BY <1>5, BoundsAssumption DEF CreateTablesRefused
<1>6. CASE PreflightCompleted(p)
  BY <1>6, BoundsAssumption DEF PreflightCompleted
<1>7. CASE PreflightIncomplete(p)
  BY <1>7, BoundsAssumption DEF PreflightIncomplete
<1>8. CASE PreflightSnapshot(p)
  BY <1>8, BoundsAssumption DEF PreflightSnapshot
<1>9. CASE ResumeGuard(p)
  BY <1>9, BoundsAssumption DEF ResumeGuard
<1>10. CASE TryLock(p)
  BY <1>10, BoundsAssumption DEF TryLock
<1>11. CASE ContinueRun(p)
  BY <1>11, ContinueRunType
<1>12. CASE NewRun(p)
  BY <1>12, NewRunType
<1>13. CASE StartMismatch(p)
  BY <1>13, BoundsAssumption DEF StartMismatch
<1>14. CASE LoadProgress(p)
  BY <1>14, LoadProgressType
<1>15. CASE OpenTable(p)
  BY <1>15, BoundsAssumption DEF OpenTable
<1>16. CASE SelectBatch(p)
  BY <1>16, BoundsAssumption DEF SelectBatch
<1>17. CASE TableDone(p)
  BY <1>17, TableDoneType
<1>18. CASE UpdateBatch(p)
  BY <1>18, UpdateBatchType
<1>19. CASE SaveBatch(p)
  BY <1>19, SaveBatchType
<1>20. CASE FinishRun(p)
  BY <1>20, FinishRunType
<1>21. CASE KeylessSelectFails(p)
  BY <1>21, BoundsAssumption DEF KeylessSelectFails
<1>22. CASE KeyNotSerializable(p)
  BY <1>22, BoundsAssumption DEF KeyNotSerializable
<1>23. CASE MarkFailed(p)
  BY <1>23, MarkFailedType
<1>24. CASE MarkFailedFails(p)
  BY <1>24, BoundsAssumption DEF MarkFailedFails
<1>25. CASE ReleaseLock(p)
  BY <1>25, EndSessionType, BoundsAssumption DEF EndSession, ReleaseLock
<1>26. CASE EarlyFailure(p)
  BY <1>26, EarlyFailureType
<1>27. CASE ReadFails(p)
  BY <1>27, ReadFailsType
<1>28. CASE UpdateFails(p)
  BY <1>28, UpdateFailsType
<1>29. CASE UpsertFails(p)
  BY <1>29, UpsertFailsType
<1>30. CASE Die(p)
  BY <1>30, DieType
<1> QED
  BY <1>1, <1>2, <1>3, <1>4, <1>5, <1>6, <1>7, <1>8, <1>9, <1>10, <1>11, <1>12, <1>13, <1>14, <1>15, <1>16, <1>17, <1>18, <1>19, <1>20, <1>21, <1>22, <1>23, <1>24, <1>25, <1>26, <1>27, <1>28, <1>29, <1>30
     DEF Advance, Guards, LockAndStart, MaskTable, Unwind, Fault

-----------------------------------------------------------------------------
(* Type correctness.                                                       *)

LEMMA InitType == Init => TInv /\ HistoryOK
<1> SUFFICES ASSUME Init PROVE TInv /\ HistoryOK
  OBVIOUS
<1> DEFINE some == CHOOSE k \in Key : TRUE
           none == [t \in Tables |-> NoCursor]
<1>1. some \in Key
  <2>1. PICK c \in Configs, s \in Secrets : TRUE
    BY InputsAssumption
  <2>2. [config |-> c, secret |-> s] \in Key
    BY DEF Key
  <2> QED
    BY <2>2
<1>2. [resume |-> FALSE, key |-> some] \in Job
  BY <1>1 DEF Job
<1>3. NoCursor \in Cursor /\ none \in [Tables -> Cursor]
  BY DEF NoCursor, Cursor
<1> HIDE DEF some, none
<1>4. DatabaseOK
  <2>1. <<>> \in Seq(Key) /\ <<>> \in Seq(Run) /\ <<>> \in Seq([Tables -> Cursor])
    BY EmptySeq
  <2> QED
    BY <2>1 DEF Init, DatabaseOK
<1>5. job \in [Procs -> Job] /\ saved \in [Procs -> [Tables -> Cursor]]
  BY <1>2, <1>3 DEF Init, some, none
<1>6. ProcessesOK /\ Positions
  BY <1>3, <1>5 DEF Init, ProcessesOK, Positions, PC
<1>7. BudgetOK
  BY BoundsAssumption DEF Init, BudgetOK
<1>8. HistoryOK
  BY DEF Init, HistoryOK
<1> QED
  BY <1>4, <1>6, <1>7, <1>8 DEF TInv

LEMMA HistoryType == HistoryOK /\ [Next]_vars => HistoryOK'
  BY DEF HistoryOK, Next, Remember, vars

LEMMA Stutter == TInv /\ UNCHANGED vars => TInv'
  BY DEF TInv, DatabaseOK, ProcessesOK, BudgetOK, Positions, vars, system

\* The auxiliary invariant behind all that follows.
THEOREM TInvHolds == Spec => []TInv
<1>1. Init => TInv
  BY InitType
<1>2. TInv /\ [Next]_vars => TInv'
  BY NextType, Stutter
<1> QED
  BY <1>1, <1>2, PTL DEF Spec

\* In every reachable state of every instance the variables have their types.
THEOREM TypeCorrect == Spec => []TypeOK
<1>1. Init => HistoryOK
  BY InitType
<1>2. TInv /\ HistoryOK => TypeOK
  BY DEF TInv, TypeOK
<1> QED
  BY <1>1, <1>2, HistoryType, TInvHolds, PTL DEF Spec
=============================================================================
