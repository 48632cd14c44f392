-------------------------- MODULE PreflightProofs --------------------------
(***************************************************************************)
(* What holds of Preflight for any schemas, migrations, edits, inits, rows *)
(* and fakers.                                                             *)
(***************************************************************************)
EXTENDS Preflight, FkCycleProofs, ConfigFileProofs

Versions ==
  /\ database \in DOMAIN Histories
  /\ version \in 1..Len(Histories[database]) /\ seen \in 1..Len(Histories[database])

\* A run goes on with the config and the schema that its preflight found clean; what it
\* found and wrote is as Write has it.
Cleared ==
  Loads(Read.lines) /\ FindFindings(Plan, Seen, "mask") = {}

Ran ==
  /\ before \in Legal(Live)
  /\ \/ after = Stored(before) /\ ~(DOMAIN Read.lines \subseteq DOMAIN Live.columns)
     \/ \E faker \in Fakers : after = MaskRows(before, faker)

\* Where a run fails a statement names no column of the schema, or is refused.
HasCause ==
  DOMAIN Read.lines \subseteq DOMAIN Live.columns => ~Accepts(Live, after)

RunInv ==
  /\ pc \in {"passed", "masked", "failed"} => Cleared
  /\ pc \in {"masked", "failed"} => Ran
  /\ pc = "failed" => HasCause

\* And a check goes on with those it begins with, of which only cycles are added to the findings.
CheckInv ==
  /\ pc = "invalid" => ~Loads(Read.lines)
  /\ pc \in {"search", "checked"} =>
       \A f \in findings : f \in FindFindings(Plan, Seen, "all") \/ f[1] = "cycle"

\* A config or a draft has joins that an operator may add, and values to redact with that
\* have a length.
IsKnown(text) ==
  /\ text.joins \subseteq Joins[database]
  /\ \A c \in DOMAIN text.lines : HasLength(text.lines[c])

TextsInv ==
  /\ \A f \in Files : IsKnown(file[f])
  /\ \A i \in Inits : IsKnown(writer[i].text)

\* What an invocation leaves alone until it comes to it.
Fields ==
  /\ seen \in 1..version
  /\ pc \in {"idle", "invalid", "search", "checked", "refused", "passed", "masked", "failed"}
  /\ pc \notin {"search", "checked", "refused"} => findings = {}
  /\ pc # "search" /\ pc # "checked" => refers = NoTables
  /\ DOMAIN before = DOMAIN after /\ (pc \notin {"masked", "failed"} => before = <<>>)
  /\ changes \in 0..MaxChanges[database]

\* The invariant: of the search, of the config file and its texts, of a run and of a check.
PreflightInv == Inv /\ FileInv /\ Handles /\ TextsInv /\ Versions /\ Fields /\ RunInv /\ CheckInv

-----------------------------------------------------------------------------

LEMMA SchemasAre == Versions => IsSchema(Live) /\ IsSchema(Seen)
BY HistoriesAssumption DEF Versions, Live, Seen

LEMMA SearchStarts == SearchInit => Inv
BY InitInv, NumTablesAssumption

\* Every search begins as SearchInit has it.
LEMMA FreshSearchInv ==
  ASSUME NEW graph \in [Tables -> SUBSET Tables], FreshSearch(graph)
  PROVE  Inv'
<1>1. SearchInit'
  BY DEF FreshSearch, SearchInit
<1>2. SearchInit' => Inv'
  BY SearchStarts, PTL
<1> QED
  BY <1>1, <1>2

LEMMA InitPreflightInv == Init => PreflightInv
<1> SUFFICES ASSUME Init PROVE PreflightInv
  OBVIOUS
<1>1. NoTables \in [Tables -> SUBSET Tables]
  BY DEF NoTables
<1>2. Inv
  BY <1>1, InitInv, NumTablesAssumption DEF Init, SearchInit
<1>3. FileInv
  BY InitFileInv DEF Init
<1>4. Versions
  BY HistoriesAssumption DEF Init, Versions
<1>5. RunInv
  BY DEF Init, RunInv
<1>6. CheckInv
  BY DEF Init, CheckInv
<1>7. Handles
  BY InitHandles DEF Init
<1>8. TextsInv
  <2>1. IsKnown(NoText)
    BY DEF IsKnown, NoText
  <2> QED
    BY <2>1 DEF Init, FileInit, AtRest, TextsInv
<1>9. Fields
  BY MaxChangesAssumption DEF Init, Fields
<1> QED
  BY <1>2, <1>3, <1>4, <1>5, <1>6, <1>7, <1>8, <1>9 DEF PreflightInv

-----------------------------------------------------------------------------
(* The search.                                                             *)

LEMMA ReferencesAreTables ==
  ASSUME Versions
  PROVE  [t \in Tables |-> References(Live, t)] \in [Tables -> SUBSET Tables]
BY SchemasAre DEF IsSchema, References

LEMMA NextKeepsInv ==
  ASSUME PreflightInv, [Next]_vars
  PROVE  Inv'
<1>1. CASE UNCHANGED searchVars
  BY <1>1, StepKeepsInv, NumTablesAssumption DEF PreflightInv
<1>2. CASE Search
  BY <1>2, StepKeepsInv, NumTablesAssumption DEF PreflightInv, Search
<1>3. CASE Check
  BY <1>3, ReferencesAreTables, FreshSearchInv DEF PreflightInv, Check
<1>4. CASE Return
  <2>1. NoTables \in [Tables -> SUBSET Tables]
    BY DEF NoTables
  <2> QED
    BY <1>4, <2>1, FreshSearchInv DEF Return
<1>5. CASE InvokeInit \/ EditConfig
  BY <1>5, <1>1 DEF InvokeInit, EditConfig, Changes
<1>6. CASE InitStep \/ Migrate \/ Reject \/ Report \/ Pass \/ Write
  BY <1>6, <1>1 DEF InitStep, Migrate, Reject, Report, Pass, Write
<1>7. CASE UNCHANGED vars
  BY <1>7, <1>1 DEF vars
<1> QED
  BY <1>2, <1>3, <1>4, <1>5, <1>6, <1>7 DEF Next, Invocation

-----------------------------------------------------------------------------
(* The config file.                                                        *)

LEMMA SameFiles ==
  ASSUME FileInv, UNCHANGED fileVars
  PROVE  FileInv'
<1>1. UNCHANGED <<config, temporary, file, writer, overlapped>>
  BY DEF fileVars
<1>2. Shapes'
  BY <1>1 DEF FileInv, Shapes
<1>3. ~overlapped => Alone' /\ WritesTemporary'
  BY <1>1 DEF FileInv, Alone, WritesTemporary
<1> QED
  BY <1>1, <1>2, <1>3 DEF FileInv

LEMMA NextKeepsFileInv ==
  ASSUME PreflightInv, [Next]_vars
  PROVE  FileInv'
<1>1. CASE UNCHANGED fileVars
  BY <1>1, SameFiles DEF PreflightInv
<1>2. CASE InvokeInit
  <2>1. PICK i \in Inits, force \in BOOLEAN : Start(i, Draft(Live), force)
    BY <1>2 DEF InvokeInit
  <2>2. IsText(Draft(Live)) /\ ~Draft(Live).torn
    BY DEF IsText, Draft
  <2> QED
    BY <2>1, <2>2, StartKeepsFileInv DEF PreflightInv
<1>3. CASE InitStep
  BY <1>3, WriterStepKeepsFileInv DEF PreflightInv, InitStep
<1>4. CASE EditConfig
  <2>1. \E lines, joins : Edited(lines, joins)
    BY <1>4 DEF EditConfig
  <2>2. config # 0 /\ UNCHANGED <<config, temporary, writer, overlapped>>
    BY <1>4 DEF EditConfig
  <2> QED
    BY <2>1, <2>2, EditKeepsFileInv DEF PreflightInv, Edited
<1>5. CASE Migrate \/ Reject \/ Check \/ Search \/ Report \/ Pass \/ Write \/ Return
  BY <1>5, <1>1 DEF Migrate, Reject, Check, Search, Report, Pass, Write, Return
<1>6. CASE UNCHANGED vars
  BY <1>6, <1>1 DEF vars
<1> QED
  BY <1>2, <1>3, <1>4, <1>5, <1>6 DEF Next, Invocation

LEMMA NextKeepsHandles ==
  ASSUME PreflightInv, [Next]_vars
  PROVE  Handles'
<1>0. Shapes /\ Handles
  BY DEF PreflightInv, FileInv
<1>1. CASE UNCHANGED <<config, temporary, writer>>
  BY <1>0, <1>1 DEF Handles
<1>2. CASE InvokeInit
  BY <1>0, <1>2, StartKeepsHandles DEF InvokeInit
<1>3. CASE InitStep
  BY <1>0, <1>3, WriterStepKeepsHandles DEF InitStep
<1>4. CASE EditConfig
  BY <1>1, <1>4 DEF EditConfig
<1>5. CASE Migrate \/ Reject \/ Check \/ Search \/ Report \/ Pass \/ Write \/ Return
  BY <1>5, <1>1 DEF Migrate, Reject, Check, Search, Report, Pass, Write, Return, fileVars
<1>6. CASE UNCHANGED vars
  BY <1>6, <1>1 DEF vars, fileVars
<1> QED
  BY <1>2, <1>3, <1>4, <1>5, <1>6 DEF Next, Invocation

\* A part of a text that is known is known.
LEMMA PartsAreKnown ==
  ASSUME NEW text, IsKnown(text), NEW part \in Parts(text)
  PROVE  IsKnown(part)
<1>1. CASE part \in {NoText, [NoText EXCEPT !.torn = TRUE]}
  <2>1. part.joins = {} /\ part.lines = <<>>
    BY <1>1 DEF NoText
  <2> QED
    BY <2>1 DEF IsKnown
<1>2. CASE part = CutInLine
  <2>1. /\ part.joins = {}
        /\ part.lines = [c \in {<<0, "">>} |-> [strategy |-> "", options |-> <<>>]]
    BY <1>2 DEF CutInLine, NoText
  <2>2. ASSUME NEW c \in DOMAIN part.lines PROVE HasLength(part.lines[c])
    <3>1. \E strategy : part.lines[c] = [strategy |-> strategy, options |-> <<>>]
      BY <2>1
    <3>2. PICK strategy : part.lines[c] = [strategy |-> strategy, options |-> <<>>]
      BY <3>1
    <3>3. part.lines[c].options = <<>> /\ DOMAIN <<>> = {}
      BY <3>2
    <3> QED
      BY <3>3 DEF HasLength
  <2> QED
    BY <2>1, <2>2 DEF IsKnown
<1>3. CASE part \in CutAtTable(text)
  <2>1. /\ part.joins = {}
        /\ \E t : part.lines = [c \in {d \in DOMAIN text.lines : d[1] < t} |-> text.lines[c]]
    BY <1>3 DEF CutAtTable, NoText
  <2> QED
    BY <2>1 DEF IsKnown
<1> QED
  BY <1>1, <1>2, <1>3 DEF Parts

LEMMA DraftRuleIs ==
  ASSUME NEW strategy, NEW unique
  PROVE  /\ DraftRule(strategy, unique).strategy = strategy
         /\ DraftRule(strategy, unique).value \in {"", "MASKED"}
         /\ unique /\ strategy \notin {"keep", "null"} => DraftRule(strategy, unique).unique
BY DEF DraftRule

LEMMA DraftIsKnown == IsKnown(Draft(Live))
<1> SUFFICES ASSUME NEW c \in DOMAIN Live.columns
             PROVE  HasLength(DraftLine(Propose(Live, c)))
  BY DEF Draft, IsKnown
<1> DEFINE rule == Propose(Live, c)
           line == DraftLine(rule)
<1>1. rule.value \in {"", "MASKED"}
  BY DraftRuleIs DEF Propose
<1> HIDE DEF rule
<1>2. "value" \in DOMAIN line.options => rule.value # "" /\ line.options["value"] = rule.value
  <2> DEFINE keys == {k \in {"value", "unique"} :
                        (k = "value" /\ rule.value # "") \/ (k = "unique" /\ rule.unique)}
             options == [key \in keys |-> IF key = "value" THEN rule.value ELSE TRUE]
  <2>1. line.options = options
    BY Zenon DEF DraftLine
  <2>2. DOMAIN options = keys /\ ("value" \in keys => options["value"] = rule.value)
    BY Zenon
  <2>3. "value" \in keys => rule.value # ""
    BY "value" # "unique"
  <2> HIDE DEF line, keys, options
  <2> QED
    BY <2>1, <2>2, <2>3
<1> HIDE DEF line
<1>3. "value" \in DOMAIN line.options => line.options["value"] = "MASKED"
  BY <1>1, <1>2
<1>4. HasLength(line)
  BY <1>3, EditsAssumption DEF HasLength
<1> QED
  BY <1>4 DEF line, rule

LEMMA NextKeepsTextsInv ==
  ASSUME PreflightInv, [Next]_vars
  PROVE  TextsInv'
<1>0. /\ Shapes /\ Handles /\ TextsInv /\ Versions /\ database' = database
  BY DEF PreflightInv, FileInv, Next, Invocation, InvokeInit, InitStep, EditConfig, Migrate, Changes,
     Reject, Check, Search, Report, Pass, Write, Return, vars, planVars
<1> DEFINE Known(text) ==
             /\ text.joins \subseteq Joins[database]
             /\ \A c \in DOMAIN text.lines : HasLength(text.lines[c])
<1>1. TextsInv' <=> /\ \A f \in Files : Known(file'[f])
                    /\ \A i \in Inits : Known(writer'[i].text)
  BY <1>0 DEF TextsInv, IsKnown
<1>2. TextsInv <=> /\ \A f \in Files : Known(file[f])
                   /\ \A i \in Inits : Known(writer[i].text)
  BY DEF TextsInv, IsKnown
<1>3. \A text : Known(text) <=> IsKnown(text)
  BY DEF IsKnown
<1> HIDE DEF Known
<1>4. CASE UNCHANGED <<file, writer>>
  BY <1>0, <1>1, <1>2, <1>4
<1>5. CASE InvokeInit
  <2>1. PICK i \in Inits, force \in BOOLEAN : Start(i, Draft(Live), force)
    BY <1>5 DEF InvokeInit
  <2>2. /\ file' = file /\ writer'[i].text = Draft(Live)
        /\ \A j \in Inits \ {i} : writer'[j] = writer[j]
    BY <1>0, <2>1 DEF Start, Shapes
  <2> QED
    BY <1>0, <1>1, <1>2, <1>3, <2>2, DraftIsKnown
<1>6. CASE InitStep
  <2>1. PICK i \in Inits : WriterStep(i)
    BY <1>6 DEF InitStep
  <2>2. ASSUME NEW part \in Parts(writer[i].text) PROVE Known(part)
    BY <1>0, <1>3, PartsAreKnown DEF TextsInv
  <2>3. Known(NoText)
    BY <2>2 DEF Parts
  <2> QED
    BY <1>0, <1>1, <1>2, <2>1, <2>2, <2>3, TextsOfFiles, TextsOfWriters
<1>7. CASE EditConfig
  <2>1. PICK lines, joins :
          /\ file' = [file EXCEPT ![config].lines = lines, ![config].joins = joins]
          /\ joins \subseteq Joins[database]
          /\ \A c \in DOMAIN lines : HasLength(lines[c])
    <3>1. IsKnown(Read)
      <4>1. IsKnown(NoText)
        BY DEF IsKnown, NoText
      <4> QED
        BY <1>0, <4>1 DEF Read, Handles, TextsInv
    <3>2. \A edit \in Edits[database] : HasLength(edit[2])
      BY <1>0, EditsAssumption DEF Versions
    <3>3. PICK lines, joins :
            /\ file' = [file EXCEPT ![config].lines = lines, ![config].joins = joins]
            /\ \/ \E edit \in Edits[database] :
                    /\ lines = [c \in DOMAIN Read.lines \cup {edit[1]} |->
                                 IF c = edit[1] THEN edit[2] ELSE Read.lines[c]]
                    /\ joins = Read.joins
               \/ \E edit \in Edits[database] :
                    /\ lines = [c \in DOMAIN Read.lines \ {edit[1]} |-> Read.lines[c]]
                    /\ joins = Read.joins
               \/ \E join \in Joins[database] :
                    lines = Read.lines /\ joins = Read.joins \cup {join}
      BY <1>7 DEF EditConfig, Edited
    <3>4. joins \subseteq Joins[database]
      BY <3>1, <3>3 DEF IsKnown
    <3>5. ASSUME NEW c \in DOMAIN lines PROVE HasLength(lines[c])
      <4>1. \/ \E edit \in Edits[database] : lines[c] = edit[2]
            \/ c \in DOMAIN Read.lines /\ lines[c] = Read.lines[c]
        BY <3>3
      <4> QED
        BY <3>1, <3>2, <4>1 DEF IsKnown
    <3> QED
      BY <3>3, <3>4, <3>5
  <2>2. \A f \in Files : file'[f] = file[f] \/ (file'[f].lines = lines /\ file'[f].joins = joins)
    BY <1>0, <2>1 DEF Shapes, IsText
  <2>3. ASSUME NEW f \in Files, file'[f].lines = lines, file'[f].joins = joins
        PROVE  Known(file'[f])
    BY <2>1, <2>3 DEF Known
  <2>4. writer' = writer
    BY <1>7 DEF EditConfig
  <2> QED
    BY <1>0, <1>1, <1>2, <2>2, <2>3, <2>4
<1>8. CASE Migrate \/ Reject \/ Check \/ Search \/ Report \/ Pass \/ Write \/ Return
  BY <1>8, <1>4 DEF Migrate, Reject, Check, Search, Report, Pass, Write, Return, fileVars
<1>9. CASE UNCHANGED vars
  BY <1>9, <1>4 DEF vars, fileVars
<1> QED
  BY <1>5, <1>6, <1>7, <1>8, <1>9 DEF Next, Invocation

-----------------------------------------------------------------------------
(* A run.                                                                  *)

LEMMA NextKeepsVersions ==
  ASSUME PreflightInv, [Next]_vars
  PROVE  Versions'
<1>0. Versions /\ 1 \in 1..Len(Histories[database])
  BY HistoriesAssumption DEF PreflightInv, Versions
<1>1. CASE UNCHANGED <<database, version, seen>>
  BY <1>0, <1>1 DEF Versions
<1>2. CASE Migrate
  <2>1. UNCHANGED <<database, seen>> /\ version' \in 1..Len(Histories[database])
    BY <1>0, <1>2, HistoriesAssumption DEF Migrate, Versions
  <2> QED
    BY <1>0, <2>1 DEF Versions
<1>3. CASE Check \/ Pass
  BY <1>0, <1>3 DEF Check, Pass, Versions
<1>4. CASE Return
  BY <1>0, <1>4 DEF Return, Versions
<1>5. CASE InvokeInit \/ EditConfig
  BY <1>5, <1>1 DEF InvokeInit, EditConfig, Changes
<1>6. CASE InitStep \/ Search
  BY <1>6, <1>1 DEF InitStep, Search, planVars
<1>7. CASE Reject \/ Report \/ Write
  BY <1>7, <1>1 DEF Reject, Report, Write
<1>8. CASE UNCHANGED vars
  BY <1>8, <1>1 DEF vars, planVars
<1> QED
  BY <1>2, <1>3, <1>4, <1>5, <1>6, <1>7, <1>8 DEF Next, Invocation

LEMMA NextKeepsFields ==
  ASSUME PreflightInv, [Next]_vars
  PROVE  Fields'
<1>0. /\ Versions /\ Fields /\ version \in Nat /\ 1 \in 1..version
      /\ MaxChanges[database] \in Nat
  BY HistoriesAssumption, MaxChangesAssumption DEF PreflightInv, Versions
<1>1. CASE InvokeInit \/ EditConfig
  BY <1>0, <1>1 DEF InvokeInit, EditConfig, Changes, Fields, searchVars
<1>2. CASE InitStep
  BY <1>0, <1>2 DEF InitStep, planVars, Fields, searchVars
<1>3. CASE Migrate
  BY <1>0, <1>3 DEF Migrate, Fields, searchVars
<1>4. CASE Reject \/ Report
  BY <1>0, <1>4 DEF Reject, Report, Fields, searchVars
<1>5. CASE Check
  BY <1>0, <1>5 DEF Check, Fields
<1>6. CASE Search
  BY <1>0, <1>6 DEF Search, planVars, Fields
<1>7. CASE Pass
  BY <1>0, <1>7 DEF Pass, Fields, searchVars
<1>8. CASE Write
  <2>1. /\ pc = "passed" /\ pc' \in {"masked", "failed"} /\ UNCHANGED <<searchVars, database, version>>
        /\ seen' = seen /\ findings' = findings /\ changes' = changes
    BY <1>8 DEF Write
  <2>2. DOMAIN after' = DOMAIN before'
    BY <1>8 DEF Write, MaskRows, Stored
  <2> QED
    BY <1>0, <2>1, <2>2 DEF Fields, searchVars
<1>9. CASE Return
  BY <1>0, <1>9 DEF Return, FreshSearch, Fields
<1>10. CASE UNCHANGED vars
  BY <1>0, <1>10 DEF vars, planVars, searchVars, Fields
<1> QED
  BY <1>1, <1>2, <1>3, <1>4, <1>5, <1>6, <1>7, <1>8, <1>9, <1>10 DEF Next, Invocation

LEMMA SameReading ==
  ASSUME UNCHANGED <<config, file>>
  PROVE  Read' = Read /\ Plan' = Plan
<1>1. Read' = Read
  BY DEF Read
<1> QED
  BY <1>1 DEF Plan

LEMMA SameCleared ==
  ASSUME Cleared, UNCHANGED <<config, file, database, seen>>
  PROVE  Cleared'
<1>1. Read' = Read /\ Plan' = Plan
  BY SameReading
<1>2. Seen' = Seen
  BY DEF Seen
<1> QED
  BY <1>1, <1>2 DEF Cleared

LEMMA SameRan ==
  ASSUME Ran, UNCHANGED <<config, file, database, version, seen, before, after>>
  PROVE  Ran'
<1>1. Read' = Read /\ Plan' = Plan
  BY SameReading
<1>2. Seen' = Seen /\ Live' = Live
  BY DEF Seen, Live
<1>3. ASSUME NEW faker PROVE MaskRows(before, faker)' = MaskRows(before, faker)
  BY <1>1, <1>2 DEF MaskRows, Rewritten, MaskCell, Rule
<1> QED
  BY <1>1, <1>2, <1>3 DEF Ran

LEMMA NextKeepsRunInv ==
  ASSUME PreflightInv, [Next]_vars
  PROVE  RunInv'
<1>1. CASE UNCHANGED <<config, file, database, version, pc, seen, before, after>>
  <2>1. Read' = Read /\ Live' = Live
    BY <1>1, SameReading DEF Live
  <2>2. HasCause => HasCause'
    BY <1>1, <2>1 DEF HasCause
  <2> QED
    BY <1>1, <2>2, SameCleared, SameRan DEF PreflightInv, RunInv
<1>2. CASE pc' \notin {"passed", "masked", "failed"}
  BY <1>2 DEF RunInv
<1>3. CASE Migrate
  <2>1. pc \in {"idle", "passed"} /\ UNCHANGED <<config, file, database, pc, seen>>
    BY <1>3 DEF Migrate, fileVars
  <2> QED
    BY <2>1, SameCleared DEF PreflightInv, RunInv
<1>4. CASE Pass
  <2>1. UNCHANGED <<config, file, database>> /\ seen' = version /\ Loads(Read.lines)
    BY <1>4 DEF Pass, fileVars
  <2>2. Seen' = Live /\ Read' = Read /\ Plan' = Plan
    BY <2>1, SameReading DEF Seen, Live
  <2>3. pc' = "passed" => FindFindings(Plan, Live, "mask") = {}
    BY <1>4 DEF Pass
  <2>4. pc' \in {"passed", "refused"}
    BY <1>4 DEF Pass
  <2> QED
    BY <2>1, <2>2, <2>3, <2>4 DEF RunInv, Cleared
<1>5. CASE Write
  <2>1. /\ pc = "passed" /\ UNCHANGED <<config, file, database, version, seen>>
        /\ before' \in Legal(Live)
        /\ \/ after' = Stored(before') /\ ~(DOMAIN Read.lines \subseteq DOMAIN Live.columns)
           \/ \E faker \in Fakers : after' = MaskRows(before', faker)
    BY <1>5 DEF Write, fileVars
  <2>2. Cleared'
    BY <2>1, SameCleared DEF PreflightInv, RunInv
  <2>3. Read' = Read /\ Plan' = Plan
    BY <2>1, SameReading
  <2>4. Seen' = Seen /\ Live' = Live
    BY <2>1 DEF Seen, Live
  <2>5. ASSUME NEW faker PROVE MaskRows(before, faker)' = MaskRows(before', faker)
    BY <2>3, <2>4 DEF MaskRows, Rewritten, MaskCell, Rule
  <2>6. Ran'
    BY <2>1, <2>3, <2>4, <2>5 DEF Ran
  <2>7. pc' = "failed" => HasCause'
    <3>1. pc' = "failed" => ~(DOMAIN Read.lines \subseteq DOMAIN Live.columns) \/ ~Accepts(Live, after')
      BY <1>5 DEF Write
    <3> QED
      BY <2>3, <2>4, <3>1 DEF HasCause
  <2> QED
    BY <2>2, <2>6, <2>7 DEF RunInv
<1>6. CASE InvokeInit \/ InitStep \/ EditConfig
  BY <1>2, <1>6 DEF InvokeInit, InitStep, EditConfig, Changes, planVars
<1>7. CASE Reject \/ Check \/ Report \/ Return
  BY <1>2, <1>7 DEF Reject, Check, Report, Return
<1>8. CASE Search
  BY <1>1, <1>8 DEF Search, fileVars, planVars
<1>9. CASE UNCHANGED vars
  BY <1>1, <1>9 DEF vars, fileVars, planVars
<1> QED
  BY <1>3, <1>4, <1>5, <1>6, <1>7, <1>8, <1>9 DEF Next, Invocation

LEMMA NextKeepsCheckInv ==
  ASSUME PreflightInv, [Next]_vars
  PROVE  CheckInv'
<1>1. CASE pc' \notin {"invalid", "search", "checked"}
  BY <1>1 DEF CheckInv
<1>2. CASE UNCHANGED <<config, file, database, pc, seen, findings>>
  <2>1. Read' = Read /\ Plan' = Plan /\ Seen' = Seen
    BY <1>2, SameReading DEF Seen
  <2> QED
    BY <1>2, <2>1 DEF PreflightInv, CheckInv
<1>3. CASE Reject
  <2>1. Read' = Read
    BY <1>3, SameReading DEF Reject, fileVars
  <2> QED
    BY <1>3, <2>1 DEF Reject, CheckInv
<1>4. CASE Check
  <2>1. UNCHANGED <<config, file, database>> /\ seen' = version
    BY <1>4 DEF Check, fileVars
  <2>2. Seen' = Live /\ Plan' = Plan
    BY <2>1, SameReading DEF Seen, Live
  <2> QED
    BY <1>4, <2>2 DEF Check, CheckInv
<1>5. CASE Report
  <2>1. UNCHANGED <<config, file, database, seen>> /\ pc = "search" /\ pc' = "checked"
    BY <1>5 DEF Report, fileVars
  <2>2. Seen' = Seen /\ Plan' = Plan
    BY <2>1, SameReading DEF Seen
  <2>3. \A f \in findings' : f \in findings \/ f[1] = "cycle"
    BY <1>5 DEF Report
  <2> QED
    BY <2>1, <2>2, <2>3 DEF PreflightInv, CheckInv
<1>6. CASE InvokeInit \/ InitStep \/ EditConfig \/ Migrate
  BY <1>1, <1>6 DEF InvokeInit, InitStep, EditConfig, Migrate, Changes, planVars
<1>7. CASE Pass \/ Write \/ Return
  BY <1>1, <1>7 DEF Pass, Write, Return
<1>8. CASE Search
  BY <1>2, <1>8 DEF Search, fileVars, planVars
<1>9. CASE UNCHANGED vars
  BY <1>2, <1>9 DEF vars, fileVars, planVars
<1> QED
  BY <1>3, <1>4, <1>5, <1>6, <1>7, <1>8, <1>9 DEF Next, Invocation

LEMMA PreflightInvHolds == Spec => []PreflightInv
<1>1. Init => PreflightInv
  BY InitPreflightInv
<1>2. PreflightInv /\ [Next]_vars => PreflightInv'
  BY NextKeepsInv, NextKeepsFileInv, NextKeepsHandles, NextKeepsTextsInv, NextKeepsVersions,
     NextKeepsFields, NextKeepsRunInv, NextKeepsCheckInv DEF PreflightInv
<1> QED
  BY <1>1, <1>2, PTL DEF Spec

\* Files, handles and what an invocation has come to stay within their types, whatever
\* overlaps, dies or is edited.
THEOREM PreflightTypeCorrect == Spec => []TypeOK
<1>1. ASSUME PreflightInv PROVE TypeOK
  <2>1. FileTypeOK /\ SearchTypeOK
    BY <1>1, HandlesAreTyped DEF PreflightInv, FileInv, Inv
  <2>2. Read.joins \subseteq Joins[database]
    BY <1>1 DEF PreflightInv, TextsInv, Handles, IsKnown, Read, NoText
  <2> QED
    BY <1>1, <2>1, <2>2 DEF PreflightInv, Versions, Fields, TypeOK
<1> QED
  BY <1>1, PreflightInvHolds, PTL

\* The search for a cycle within check: what it reports is one.
THEOREM ReportedCycles == Spec => []ReportedIsCycle
<1>1. PreflightInv => ReportedIsCycle
  BY DEF PreflightInv, Inv
<1> QED
  BY <1>1, PreflightInvHolds, PTL

\* Where check reports no cycle, there is none among the schema's foreign keys.
THEOREM NoCycleCleared == Spec => []ClearedHasNone
<1>1. PreflightInv => ClearedHasNone
  BY InvClears, NumTablesAssumption DEF PreflightInv
<1> QED
  BY <1>1, PreflightInvHolds, PTL

\* However many inits there are, wherever they die or fail: who loads the config reads a
\* whole text, unless two of them overlapped.
THEOREM ConfigStaysWhole == Spec => []ConfigWhole
<1>1. PreflightInv => ConfigWhole
  BY FileInvIsWhole DEF PreflightInv
<1> QED
  BY <1>1, PreflightInvHolds, PTL

\* Nor does an init replace a config without --force, or by anything but its whole text,
\* unless two of them overlapped.
THEOREM OnlyForceReplaces == Spec => ReplacedByForce
<1> DEFINE Forced == config # 0 /\ config' # config /\ ~overlapped =>
             \E i \in Inits : writer[i].step = "rename" /\ writer[i].force /\ Read' = writer[i].text
<1>1. ASSUME PreflightInv, [Next]_vars PROVE [Forced]_fileVars
  <2>1. CASE UNCHANGED config
    BY <2>1
  <2>2. CASE InitStep
    BY <1>1, <2>2, StepReplacesByForce DEF PreflightInv, InitStep
  <2>3. CASE InvokeInit \/ EditConfig
    BY <2>1, <2>3 DEF InvokeInit, EditConfig, Start
  <2>4. CASE Migrate \/ Reject \/ Check \/ Search \/ Report \/ Pass \/ Write \/ Return
    BY <2>1, <2>4 DEF Migrate, Reject, Check, Search, Report, Pass, Write, Return, fileVars
  <2>5. CASE UNCHANGED vars
    BY <2>1, <2>5 DEF vars, fileVars
  <2> QED
    BY <1>1, <2>2, <2>3, <2>4, <2>5 DEF Next, Invocation
<1>2. PreflightInv /\ [Next]_vars => [Forced]_fileVars
  BY <1>1
<1> QED
  BY <1>2, PreflightInvHolds, PTL DEF Spec, ReplacedByForce

-----------------------------------------------------------------------------
(* What a clean preflight means.                                           *)

LEMMA NoFindings ==
  ASSUME Cleared
  PROVE  /\ Drift(Plan, Seen) = {} /\ ColumnFindings(Plan, Seen) = {}
         /\ TemplateFindings(Plan, Seen) = {} /\ JoinFindings(Plan, Seen) = {}
BY DEF Cleared, FindFindings

\* Every column has a rule, and every rule a column.
LEMMA EveryColumnConfigured ==
  ASSUME Cleared, IsSchema(Seen)
  PROVE  DOMAIN Plan.rules = DOMAIN Seen.columns
<1>1. ASSUME NEW c \in DOMAIN Seen.columns, c \notin DOMAIN Plan.rules PROVE FALSE
  <2>1. c[1] \in Seen.tables
    BY DEF IsSchema
  <2>2. c[1] \in Configured(Plan)
    BY <2>1, NoFindings DEF Drift
  <2>3. <<"not in config", c>> \in Drift(Plan, Seen)
    BY <1>1, <2>2 DEF Drift
  <2> QED
    BY <2>3, NoFindings
<1>2. ASSUME NEW c \in DOMAIN Plan.rules, c \notin DOMAIN Seen.columns PROVE FALSE
  <2>1. c[1] \in Configured(Plan)
    BY DEF Configured
  <2>2. c[1] \in Seen.tables
    BY <2>1, NoFindings DEF Drift
  <2>3. <<"not in schema", c>> \in Drift(Plan, Seen)
    BY <1>2, <2>2 DEF Drift
  <2> QED
    BY <2>3, NoFindings
<1> QED
  BY <1>1, <1>2

\* Keys are kept.
LEMMA KeysAreKept ==
  ASSUME Cleared, NEW c \in Shared(Plan, Seen), c \in KeyColumns(Seen)
  PROVE  Plan.rules[c].strategy = "keep"
<1> SUFFICES ASSUME Plan.rules[c].strategy # "keep" PROVE FALSE
  OBVIOUS
<1>1. \E kind \in {"primary key", "foreign key"} : Hinders(kind, Plan.rules[c], c, Seen)
  BY DEF Hinders
<1>2. \E kind \in ColumnKinds : <<kind, c>> \in ColumnFindings(Plan, Seen)
  BY <1>1 DEF ColumnFindings, ColumnKinds
<1> QED
  BY <1>2, NoFindings

\* What is rewritten is masked, and the rest is kept.
LEMMA RewrittenAreMasked ==
  ASSUME Cleared, IsSchema(Seen), NEW c \in DOMAIN Seen.columns
  PROVE  c \in Rewritten <=> Plan.rules[c].strategy # "keep"
<1>1. c \in Shared(Plan, Seen)
  BY EveryColumnConfigured DEF Shared
<1>2. c \in Seen.primaryKey => Plan.rules[c].strategy = "keep"
  BY <1>1, KeysAreKept DEF KeyColumns
<1> QED
  BY <1>1, <1>2 DEF Rewritten, Masked

\* The rows of a run whose statements met the columns they name.
LEMMA MetRows ==
  ASSUME PreflightInv, Met
  PROVE  /\ Cleared /\ IsSchema(Seen)
         /\ DOMAIN Read.lines = DOMAIN Seen.columns
         /\ DOMAIN before = DOMAIN Live.columns /\ DOMAIN Seen.columns \subseteq DOMAIN before
         /\ Accepts(Live, Stored(before))
         /\ \E faker \in Fakers : after = MaskRows(before, faker)
<1>1. Cleared /\ Ran /\ IsSchema(Seen) /\ DOMAIN Read.lines \subseteq DOMAIN Live.columns
  BY SchemasAre DEF PreflightInv, RunInv, Met
<1>2. DOMAIN Read.lines = DOMAIN Seen.columns
  BY <1>1, EveryColumnConfigured DEF Plan, BuildPlan
<1>3. before \in Legal(Live)
  BY <1>1 DEF Ran
<1>4. DOMAIN before = DOMAIN Live.columns /\ Accepts(Live, Stored(before))
  BY <1>3 DEF Legal
<1> QED
  BY <1>1, <1>2, <1>4 DEF Ran

\* The rows of a run whose preflight saw the schema it wrote to.
LEMMA WrittenRows ==
  ASSUME PreflightInv, Written
  PROVE  /\ Cleared /\ IsSchema(Seen) /\ Live = Seen
         /\ DOMAIN before = DOMAIN Seen.columns
         /\ Accepts(Seen, Stored(before))
         /\ \E faker \in Fakers : after = MaskRows(before, faker)
<1>1. Cleared /\ Ran /\ IsSchema(Seen) /\ Live = Seen
  BY SchemasAre DEF PreflightInv, RunInv, Written, Live, Seen
<1>2. DOMAIN Read.lines = DOMAIN Seen.columns
  BY <1>1, EveryColumnConfigured DEF Plan, BuildPlan
<1>3. before \in Legal(Seen)
  BY <1>1 DEF Ran
<1> QED
  BY <1>1, <1>2, <1>3 DEF Ran, Legal

-----------------------------------------------------------------------------

\* Every foreign key of any schema that a preflight has seen finds its rows after the mask,
\* unless what it refers to is masked and no primary key.
THEOREM ReferencesHold == Spec => []ReferencesSurvive
<1>1. ASSUME PreflightInv PROVE ReferencesSurvive
  <2> SUFFICES ASSUME Met, NEW key \in Live.foreignKeys \cap Seen.foreignKeys,
                      \A c \in DOMAIN key : \/ key[c] \in Seen.primaryKey
                                            \/ Plan.rules[key[c]].strategy = "keep"
               PROVE  ReferenceHolds(key, after)
    BY DEF ReferencesSurvive
  <2>1. PICK faker \in Fakers : after = MaskRows(before, faker)
    BY <1>1, MetRows
  <2>2. /\ Cleared /\ IsSchema(Seen)
        /\ DOMAIN Seen.columns \subseteq DOMAIN before /\ Accepts(Live, Stored(before))
    BY <1>1, MetRows
  <2>3. ReferenceHolds(key, Stored(before))
    BY <2>2 DEF Accepts
  <2>4. ASSUME NEW c \in DOMAIN Seen.columns, c \notin Rewritten, NEW r \in Rows
        PROVE  after[c][r] = Stored(before)[c][r]
    BY <2>1, <2>2, <2>4 DEF MaskRows, Stored
  <2>5. ASSUME NEW c \in DOMAIN key
        PROVE  /\ c \in DOMAIN Seen.columns /\ key[c] \in DOMAIN Seen.columns
               /\ c \notin Rewritten /\ key[c] \notin Rewritten
    <3>1. c \in DOMAIN Seen.columns /\ key[c] \in DOMAIN Seen.columns
      BY <2>2 DEF IsSchema
    <3>2. c \in Shared(Plan, Seen) /\ key[c] \in Shared(Plan, Seen)
      BY <2>2, <3>1, EveryColumnConfigured DEF Shared
    <3>3. c \in KeyColumns(Seen)
      BY DEF KeyColumns, ForeignKeyColumns
    <3>4. Plan.rules[c].strategy = "keep"
      BY <2>2, <3>2, <3>3, KeysAreKept
    <3>5. Plan.rules[key[c]].strategy = "keep"
      BY <2>2, <3>2, KeysAreKept DEF KeyColumns
    <3> QED
      BY <2>2, <3>1, <3>4, <3>5, RewrittenAreMasked
  <2> QED
    BY <2>3, <2>4, <2>5 DEF ReferenceHolds
<1> QED
  BY <1>1, PreflightInvHolds, PTL

\* A declared join is one of two columns under one rule.
LEMMA JoinsAreAlike ==
  ASSUME Cleared, IsSchema(Seen), NEW j \in Plan.joins
  PROVE  /\ {j[1], j[2]} \subseteq DOMAIN Seen.columns
         /\ Plan.rules[j[1]] = Plan.rules[j[2]]
<1>1. <<"join", j>> \notin JoinFindings(Plan, Seen)
  BY NoFindings
<1>2. /\ {j[1], j[2]} \subseteq DOMAIN Seen.columns
      /\ {j[1], j[2]} \subseteq DOMAIN Plan.rules => Plan.rules[j[1]] = Plan.rules[j[2]]
  BY <1>1 DEF JoinFindings
<1> QED
  BY <1>2, EveryColumnConfigured

\* Cells of equal texts are masked equally under equal rules, but for templates.
LEMMA MaskedAlike ==
  ASSUME NEW c, NEW d, NEW r, NEW q, NEW content, NEW faker,
         Plan.rules[c] = Plan.rules[d], content[c][r] = content[d][q],
         Plan.rules[c].strategy # "template"
  PROVE  MaskCell(c, r, content, faker) = MaskCell(d, q, content, faker)
BY DEF MaskCell, Rule

\* Rows of two columns that a join declares and that matched before a mask match after it.
THEOREM JoinsHold == Spec => []JoinsSurvive
<1>1. ASSUME PreflightInv PROVE JoinsSurvive
  <2> SUFFICES ASSUME Met, NEW j \in Read.joins, NEW r \in Rows, NEW q \in Rows,
                      before[j[1]][r] = before[j[2]][q], ~HasTemplate({j[1]})
               PROVE  after[j[1]][r] = after[j[2]][q]
    BY DEF JoinsSurvive
  <2>1. PICK faker \in Fakers : after = MaskRows(before, faker)
    BY <1>1, MetRows
  <2>2. Cleared /\ IsSchema(Seen) /\ DOMAIN Seen.columns \subseteq DOMAIN before
    BY <1>1, MetRows
  <2>3. j \in Plan.joins
    BY DEF Plan, BuildPlan
  <2>4. /\ j[1] \in DOMAIN Seen.columns /\ j[2] \in DOMAIN Seen.columns
        /\ Plan.rules[j[1]] = Plan.rules[j[2]]
    BY <2>2, <2>3, JoinsAreAlike
  <2>5. j[1] \in Rewritten <=> j[2] \in Rewritten
    BY <2>2, <2>4, RewrittenAreMasked
  <2>6. CASE j[1] \notin Rewritten
    BY <2>1, <2>2, <2>4, <2>5, <2>6 DEF MaskRows
  <2>7. CASE j[1] \in Rewritten
    <3>1. j[1] \in DOMAIN Read.lines
      BY <2>2, <2>4, EveryColumnConfigured DEF Plan, BuildPlan
    <3>2. Plan.rules[j[1]].strategy # "template"
      BY <3>1 DEF HasTemplate, Rule
    <3>3. MaskCell(j[1], r, before, faker) = MaskCell(j[2], q, before, faker)
      BY <2>4, <3>2, MaskedAlike
    <3> QED
      BY <2>1, <2>2, <2>4, <2>5, <2>7, <3>3 DEF MaskRows
  <2> QED
    BY <2>6, <2>7
<1> QED
  BY <1>1, PreflightInvHolds, PTL

-----------------------------------------------------------------------------

LEMMA RulesAre ==
  ASSUME Cleared, NEW c \in DOMAIN Plan.rules
  PROVE  Plan.rules[c].strategy \in StrategyNames
BY DEF Cleared, Loads, Accepted, Plan, BuildPlan, ParseRule

\* What a template reads is kept.
LEMMA TemplatesReadKept ==
  ASSUME Cleared, IsSchema(Seen), NEW c \in DOMAIN Seen.columns,
         Plan.rules[c].strategy = "template", NEW p \in Plan.rules[c].template
  PROVE  <<c[1], p>> \in DOMAIN Seen.columns /\ Plan.rules[<<c[1], p>>].strategy = "keep"
<1>1. c \in DOMAIN Plan.rules /\ c[1] \in Seen.tables
  BY EveryColumnConfigured DEF IsSchema
<1>2. Readable(Plan, Seen, <<c[1], p>>)
  BY <1>1, NoFindings DEF TemplateFindings
<1>3. CASE <<c[1], p>> \in Seen.primaryKey
  <2>1. <<c[1], p>> \in DOMAIN Seen.columns /\ <<c[1], p>> \in KeyColumns(Seen)
    BY <1>3 DEF IsSchema, KeyColumns
  <2>2. <<c[1], p>> \in Shared(Plan, Seen)
    BY <2>1, EveryColumnConfigured DEF Shared
  <2> QED
    BY <2>1, <2>2, KeysAreKept
<1>4. CASE <<c[1], p>> \in Shared(Plan, Seen) /\ ~Masked(Plan, <<c[1], p>>)
  BY <1>4 DEF Shared, Masked
<1> QED
  BY <1>2, <1>3, <1>4 DEF Readable

\* A text that a masked cell has from the rows is one a kept column had.
LEMMA MaskedTextsAreKept ==
  ASSUME Cleared, IsSchema(Seen), NEW c \in DOMAIN Seen.columns, NEW r \in Rows, NEW faker,
         Plan.rules[c].strategy # "keep",
         NEW part \in MaskCell(c, r, before, faker), part[1] = "row"
  PROVE  \E d \in DOMAIN Seen.columns :
           Plan.rules[d].strategy = "keep" /\ part[2] \in before[d][r]
<1> DEFINE rule == Plan.rules[c]
<1>1. rule.strategy \in StrategyNames
  BY EveryColumnConfigured, RulesAre
<1>2. CASE rule.strategy = "null"
  BY <1>2 DEF MaskCell, Rule
<1>3. CASE rule.strategy = "template"
  <2>1. PICK text \in before[c][r] : part \in Rendered(rule, c[1], r, before)
    BY <1>3 DEF MaskCell, Rule
  <2>2. part # <<"template", "">>
    <3>1. <<"template", "">>[1] # "row"
      OBVIOUS
    <3> QED
      BY <3>1
  <2>3. PICK p \in rule.template : part \in Original(before[<<c[1], p>>][r])
    BY <2>1, <2>2 DEF Rendered
  <2>4. part[2] \in before[<<c[1], p>>][r]
    BY <2>3 DEF Original
  <2> QED
    BY <1>3, <2>4, TemplatesReadKept
<1>4. CASE rule.strategy \notin {"null", "template"}
  <2>1. PICK text \in before[c][r] :
          part \in {Generated(rule, text, faker)} \cup Suffix(rule, text)
    BY <1>4 DEF MaskCell, Rule
  <2>2. CASE part = Generated(rule, text, faker)
    BY <1>1, <2>2 DEF Generated, StrategyNames
  <2>3. CASE part \in Suffix(rule, text)
    BY <2>3 DEF Suffix
  <2> QED
    BY <2>1, <2>2, <2>3
<1> QED
  BY <1>2, <1>3, <1>4

\* After a mask no configured column has a text that only masked columns held, be it by a
\* template; and there are no others, unless a migration has added some since the preflight.
THEOREM NoOriginalLeft == Spec => []OriginalsGone
<1>1. ASSUME PreflightInv PROVE OriginalsGone
  <2> SUFFICES ASSUME Met
               PROVE  /\ seen = version => DOMAIN after \subseteq DOMAIN Read.lines
                      /\ \A c \in DOMAIN Read.lines, r \in Rows : \A part \in after[c][r] :
                           part[1] = "row" =>
                             \E d \in DOMAIN Read.lines, q \in Rows :
                               Rule(d).strategy = "keep" /\ part[2] \in before[d][q]
    BY DEF OriginalsGone
  <2>1. PICK faker \in Fakers : after = MaskRows(before, faker)
    BY <1>1, MetRows
  <2>2. /\ Cleared /\ IsSchema(Seen) /\ DOMAIN Read.lines = DOMAIN Seen.columns
        /\ DOMAIN before = DOMAIN Live.columns /\ DOMAIN Seen.columns \subseteq DOMAIN before
    BY <1>1, MetRows
  <2>3. seen = version => DOMAIN after \subseteq DOMAIN Read.lines
    BY <2>1, <2>2 DEF MaskRows, Live, Seen
  <2>4. ASSUME NEW c \in DOMAIN Read.lines, NEW r \in Rows, NEW part \in after[c][r], part[1] = "row"
        PROVE  \E d \in DOMAIN Read.lines, q \in Rows :
                 Rule(d).strategy = "keep" /\ part[2] \in before[d][q]
    <3>1. CASE c \notin Rewritten
      <4>1. part \in Original(before[c][r])
        BY <2>1, <2>2, <2>4, <3>1 DEF MaskRows
      <4>2. part[2] \in before[c][r]
        BY <4>1 DEF Original
      <4>3. Plan.rules[c].strategy = "keep"
        BY <2>2, <2>4, <3>1, RewrittenAreMasked
      <4> QED
        BY <2>4, <4>2, <4>3 DEF Rule
    <3>2. CASE c \in Rewritten
      <4>1. part \in MaskCell(c, r, before, faker)
        BY <2>1, <2>2, <2>4, <3>2 DEF MaskRows
      <4>2. Plan.rules[c].strategy # "keep"
        BY <2>2, <2>4, <3>2, RewrittenAreMasked
      <4> QED
        BY <2>2, <2>4, <4>1, <4>2, MaskedTextsAreKept DEF Rule
    <3> QED
      BY <3>1, <3>2
  <2> QED
    BY <2>3, <2>4
<1> QED
  BY <1>1, PreflightInvHolds, PTL

-----------------------------------------------------------------------------
(* What an init drafts.                                                    *)

\* A proposal is one of three kinds.
LEMMA Proposals ==
  ASSUME NEW schema, IsSchema(schema), NEW c \in DOMAIN schema.columns
  PROVE  LET rule == Propose(schema, c)
             column == schema.columns[c]
             unique == UniquelyIndexed(schema, c)
         IN \/ rule = DraftRule("keep", FALSE)
            \/ /\ rule = DraftRule("null", FALSE)
               /\ c \notin KeyColumns(schema) /\ column.nullable
            \/ /\ rule.strategy \in StrategyNames \ {"keep", "null", "template"}
               /\ rule = DraftRule(rule.strategy, unique)
               /\ c \notin KeyColumns(schema) /\ column.text /\ ~Exceeds(rule, column)
<1> DEFINE proposed == StrategyForPattern[schema.columns[c].pii]
           unique == UniquelyIndexed(schema, c)
<1>1. schema.columns[c].pii # "none" => proposed \in StrategyNames \ {"keep", "template"}
  BY DEF IsSchema, StrategyForPattern, StrategyNames
<1>2. \A strategy : DraftRule(strategy, unique).strategy = strategy
  BY DraftRuleIs
<1>3. "redact" \in StrategyNames \ {"keep", "null", "template"}
  BY DEF StrategyNames
<1> HIDE DEF proposed, unique
<1> QED
  BY <1>1, <1>2, <1>3 DEF Propose, proposed, unique

\* What is written of a proposal is what is parsed of it.
LEMMA ParsedAsDrafted ==
  ASSUME NEW strategy \in StrategyNames \ {"template"}, NEW unique \in BOOLEAN
  PROVE  LET rule == DraftRule(strategy, unique)
         IN Accepted(DraftLine(rule)) /\ ParseRule(DraftLine(rule)) = rule
<1> DEFINE rule == DraftRule(strategy, unique)
           line == DraftLine(rule)
<1>1. /\ rule.strategy = strategy /\ rule.template = {}
      /\ rule.value = IF strategy = "redact" THEN "MASKED" ELSE ""
      /\ rule.unique \in BOOLEAN
      /\ rule.unique => strategy \notin {"keep", "null"}
  BY DEF DraftRule
<1>2. rule = [strategy |-> rule.strategy, value |-> rule.value, template |-> rule.template,
             unique |-> rule.unique]
  BY DEF DraftRule
<1> HIDE DEF rule
<1>3. /\ line.strategy = strategy
      /\ DOMAIN line.options = {k \in {"value", "unique"} :
           (k = "value" /\ rule.value # "") \/ (k = "unique" /\ rule.unique)}
      /\ "value" \in DOMAIN line.options => line.options["value"] = rule.value
      /\ "unique" \in DOMAIN line.options => line.options["unique"] = TRUE
  <2> DEFINE keys == {k \in {"value", "unique"} :
                        (k = "value" /\ rule.value # "") \/ (k = "unique" /\ rule.unique)}
             options == [key \in keys |-> IF key = "value" THEN rule.value ELSE TRUE]
  <2>1. line = [strategy |-> rule.strategy, options |-> options]
    BY Zenon DEF DraftLine
  <2>2. line.strategy = strategy /\ line.options = options
    <3> HIDE DEF line, options
    <3> QED
      BY <1>1, <2>1
  <2>3. DOMAIN options = keys
    OBVIOUS
  <2>4. "value" \in keys => options["value"] = rule.value
    BY Zenon
  <2>5. "unique" \in keys => options["unique"] = TRUE
    <3>1. "unique" # "value"
      OBVIOUS
    <3> QED
      BY <3>1, Zenon
  <2> HIDE DEF keys, options
  <2> QED
    BY <2>2, <2>3, <2>4, <2>5 DEF keys
<1> HIDE DEF line
<1>4. DOMAIN line.options \subseteq RuleKeys(strategy)
  BY <1>1, <1>3 DEF RuleKeys
<1>5. Option(line, "value", "") = rule.value
  <2>1. "value" \in DOMAIN line.options <=> rule.value # ""
    BY <1>3
  <2> QED
    BY <1>3, <2>1 DEF Option
<1>6. Option(line, "template", {}) = {}
  BY <1>3 DEF Option
<1>7. Option(line, "unique", FALSE) = rule.unique
  <2>1. CASE rule.unique = TRUE
    <3>1. "unique" \in DOMAIN line.options
      BY <1>3, <2>1
    <3> QED
      BY <1>3, <2>1, <3>1 DEF Option
  <2>2. CASE rule.unique = FALSE
    <3>1. "unique" \notin DOMAIN line.options
      BY <1>3, <2>2
    <3> QED
      BY <2>2, <3>1 DEF Option
  <2> QED
    BY <1>1, <2>1, <2>2
<1>8. Accepted(line)
  <2>1. strategy = "redact" => Option(line, "value", "") # ""
    BY <1>1, <1>5
  <2> QED
    BY <1>3, <1>4, <2>1 DEF Accepted
<1>9. ParseRule(line) = rule
  BY <1>1, <1>2, <1>3, <1>5, <1>6, <1>7 DEF ParseRule
<1> QED
  BY <1>8, <1>9 DEF rule, line

\* The draft of a schema is accepted, and its rules are the proposals.
LEMMA DraftedPlan ==
  ASSUME Versions, Read = Draft(Live)
  PROVE  /\ Live.tables # {} => Loads(Read.lines)
         /\ Plan.joins = {}
         /\ DOMAIN Plan.rules = DOMAIN Live.columns
         /\ \A c \in DOMAIN Live.columns : Plan.rules[c] = Propose(Live, c)
<1> DEFINE lines == [c \in DOMAIN Live.columns |-> DraftLine(Propose(Live, c))]
<1>1. Read.lines = lines /\ Read.joins = {}
  BY DEF Draft
<1>2. ASSUME NEW c \in DOMAIN Live.columns
      PROVE  /\ Accepted(DraftLine(Propose(Live, c)))
             /\ ParseRule(DraftLine(Propose(Live, c))) = Propose(Live, c)
  <2>1. /\ {"keep", "null"} \subseteq StrategyNames \ {"template"}
        /\ UniquelyIndexed(Live, c) \in BOOLEAN
    BY DEF StrategyNames, UniquelyIndexed
  <2>2. \E strategy \in StrategyNames \ {"template"}, unique \in BOOLEAN :
          Propose(Live, c) = DraftRule(strategy, unique)
    BY <2>1, SchemasAre, Proposals
  <2> QED
    BY <2>2, ParsedAsDrafted
<1>3. Live.tables # {} => lines # <<>>
  <2>1. Live.tables # {} => DOMAIN lines # {}
    BY SchemasAre DEF IsSchema
  <2>2. DOMAIN <<>> = {}
    OBVIOUS
  <2> QED
    BY <2>1, <2>2
<1>4. Live.tables # {} => Loads(Read.lines)
  BY <1>1, <1>2, <1>3 DEF Loads
<1> QED
  BY <1>1, <1>2, <1>4 DEF Plan, BuildPlan

\* A check of a draft has nothing to say of a column, a template or a join.
LEMMA DraftFindings ==
  ASSUME Versions, Read = Draft(Live), NEW f \in FindFindings(Plan, Live, "all")
  PROVE  f[1] = "no primary key"
<1>1. IsSchema(Live) /\ DOMAIN Plan.rules = DOMAIN Live.columns /\ Plan.joins = {}
  BY SchemasAre, DraftedPlan
<1>2. Drift(Plan, Live) = {}
  <2>1. Configured(Plan) = Live.tables
    BY <1>1 DEF Configured, IsSchema
  <2> QED
    BY <1>1, <2>1 DEF Drift
<1>3. ASSUME NEW c \in DOMAIN Live.columns
      PROVE  /\ Plan.rules[c].strategy # "template"
             /\ \A kind \in ColumnKinds : ~Hinders(kind, Plan.rules[c], c, Live)
  <2> DEFINE rule == Plan.rules[c]
             column == Live.columns[c]
             unique == UniquelyIndexed(Live, c)
  <2>1. rule = Propose(Live, c)
    BY DraftedPlan
  <2>2. CASE rule = DraftRule("keep", FALSE)
    <3>1. rule.strategy = "keep"
      BY <2>2, DraftRuleIs
    <3> QED
      BY <3>1 DEF Hinders
  <2>3. CASE rule = DraftRule("null", FALSE) /\ c \notin KeyColumns(Live) /\ column.nullable
    <3>1. rule.strategy = "null"
      BY <2>3, DraftRuleIs
    <3> QED
      BY <2>3, <3>1 DEF Hinders, ColumnKinds, KeyColumns
  <2>4. CASE /\ rule.strategy \in StrategyNames \ {"keep", "null", "template"}
             /\ rule = DraftRule(rule.strategy, unique)
             /\ c \notin KeyColumns(Live) /\ column.text /\ ~Exceeds(rule, column)
    <3>1. unique => rule.unique
      <4>1. unique => DraftRule(rule.strategy, unique).unique
        BY <2>4, DraftRuleIs
      <4> QED
        BY <2>4, <4>1, Zenon
    <3> QED
      BY <2>4, <3>1 DEF Hinders, ColumnKinds, KeyColumns
  <2> QED
    BY <1>1, <2>1, <2>2, <2>3, <2>4, Proposals
<1>4. ColumnFindings(Plan, Live) = {}
  BY <1>3 DEF ColumnFindings, Shared
<1>5. TemplateFindings(Plan, Live) = {}
  BY <1>1, <1>3 DEF TemplateFindings
<1>6. JoinFindings(Plan, Live) = {}
  BY <1>1 DEF JoinFindings
<1>7. f \in KeylessFindings(Plan, Live)
  BY <1>2, <1>4, <1>5, <1>6 DEF FindFindings
<1>8. PICK t : f = <<"no primary key", t>>
  BY <1>7 DEF KeylessFindings
<1> QED
  BY <1>8

\* A check finds nothing in what an init has drafted from the schema, for any schema, but
\* for masked tables without primary key and cycles.
THEOREM DraftsAreClean == Spec => []DraftIsClean
<1>1. ASSUME PreflightInv PROVE DraftIsClean
  <2> SUFFICES ASSUME Read = Draft(Live), Live.tables # {}
               PROVE  /\ pc # "invalid"
                      /\ pc = "checked" /\ seen = version
                           => \A f \in findings : f[1] \in {"no primary key", "cycle"}
    BY DEF DraftIsClean
  <2>1. Versions /\ CheckInv
    BY <1>1 DEF PreflightInv
  <2>2. pc # "invalid"
    BY <2>1, DraftedPlan DEF CheckInv
  <2>3. ASSUME pc = "checked", seen = version, NEW f \in findings
        PROVE  f[1] \in {"no primary key", "cycle"}
    <3>1. f \in FindFindings(Plan, Live, "all") \/ f[1] = "cycle"
      BY <2>1, <2>3 DEF CheckInv, Seen, Live
    <3> QED
      BY <2>1, <3>1, DraftFindings
  <2> QED
    BY <2>2, <2>3
<1> QED
  BY <1>1, PreflightInvHolds, PTL

-----------------------------------------------------------------------------
(* What the database accepts.                                              *)

\* The length of a cell of at most two parts.
LEMMA SumsOfParts ==
  ASSUME NEW a, NEW b, PartLength(a) \in Nat, PartLength(b) \in Nat
  PROVE  /\ MapThenSumSet(PartLength, {}) = 0
         /\ MapThenSumSet(PartLength, {a}) = PartLength(a)
         /\ a # b => MapThenSumSet(PartLength, {a, b}) = PartLength(a) + PartLength(b)
<1> DEFINE Picked(s) == CHOOSE x \in s : TRUE
           Sums(S, sum) == sum = [s \in SUBSET S |-> IF s = {} THEN 0 ELSE PartLength(Picked(s)) + sum[s \ {Picked(s)}]]
           Sum(s) == (IF a \in s THEN PartLength(a) ELSE 0) + (IF b \in s /\ b # a THEN PartLength(b) ELSE 0)
<1>1. ASSUME NEW S \in SUBSET {a, b} PROVE MapThenSumSet(PartLength, S) = (CHOOSE sum : Sums(S, sum))[S]
  BY DEF MapThenSumSet, MapThenFoldSet
<1>2. ASSUME NEW S \in SUBSET {a, b} PROVE Sums(S, [s \in SUBSET S |-> Sum(s)])
  <2> DEFINE sum == [s \in SUBSET S |-> Sum(s)]
  <2>1. ASSUME NEW s \in SUBSET S, s # {} PROVE Sum(s) = PartLength(Picked(s)) + sum[s \ {Picked(s)}]
    <3>1. Picked(s) \in s
      BY <2>1
    <3> HIDE DEF Picked
    <3>2. s \ {Picked(s)} \in SUBSET S
      OBVIOUS
    <3>3. sum[s \ {Picked(s)}] = Sum(s \ {Picked(s)})
      BY <3>2
    <3> HIDE DEF sum
    <3>4. Picked(s) = a \/ Picked(s) = b
      BY <3>1
    <3> QED
      BY <3>1, <3>3, <3>4
  <2>2. Sum({}) = 0
    OBVIOUS
  <2> HIDE DEF Sum, Picked
  <2> QED
    BY <2>1, <2>2
<1>3. ASSUME NEW S \in SUBSET {a, b} PROVE \E sum : Sums(S, sum)
  BY <1>2
<1> HIDE DEF Sum
<1>4. ASSUME NEW S \in SUBSET {a, b} PROVE MapThenSumSet(PartLength, S) = Sum(S)
  <2> DEFINE total == CHOOSE sum : Sums(S, sum)
  <2>1. Sums(S, total) /\ MapThenSumSet(PartLength, S) = total[S]
    BY <1>1, <1>3
  <2> HIDE DEF total
  <2>2. total[{}] = 0
    BY <2>1
  <2>3. ASSUME NEW s \in SUBSET S, s # {}
        PROVE  Picked(s) \in s /\ total[s] = PartLength(Picked(s)) + total[s \ {Picked(s)}]
    <3>1. Picked(s) \in s
      BY <2>3
    <3> HIDE DEF Picked
    <3> QED
      BY <2>1, <2>3, <3>1
  <2> HIDE DEF Sums, Picked
  <2>4. ASSUME NEW x \in S PROVE total[{x}] = PartLength(x)
    <3>1. {x} \in SUBSET S /\ {x} # {} /\ PartLength(x) \in Nat
      OBVIOUS
    <3>2. Picked({x}) = x
      BY <2>3, <3>1
    <3>3. total[{x}] = PartLength(x) + total[{x} \ {x}]
      BY <2>3, <3>1, <3>2
    <3>4. {x} \ {x} = {}
      OBVIOUS
    <3> QED
      BY <2>2, <3>1, <3>3, <3>4
  <2>5. CASE S = {}
    BY <2>1, <2>2, <2>5 DEF Sum
  <2>6. ASSUME NEW x \in {a, b}, S = {x} PROVE MapThenSumSet(PartLength, S) = Sum(S)
    <3>1. Sum(S) = PartLength(x)
      BY <2>6 DEF Sum
    <3> QED
      BY <2>1, <2>4, <2>6, <3>1
  <2>7. CASE S = {a, b} /\ a # b
    <3>1. S # {} /\ S \ {a} = {b} /\ S \ {b} = {a} /\ Sum(S) = PartLength(a) + PartLength(b)
      BY <2>7 DEF Sum
    <3>2. total[S] = PartLength(a) + total[{b}] \/ total[S] = PartLength(b) + total[{a}]
      BY <2>3, <2>7, <3>1
    <3>3. total[{a}] = PartLength(a) /\ total[{b}] = PartLength(b)
      BY <2>4, <2>7
    <3> QED
      BY <2>1, <3>1, <3>2, <3>3
  <2> QED
    BY <2>5, <2>6, <2>7
<1>5. Sum({}) = 0 /\ Sum({a}) = PartLength(a) /\ (a # b => Sum({a, b}) = PartLength(a) + PartLength(b))
  BY DEF Sum
<1> QED
  BY <1>4, <1>5

\* A cell held one text at most.
LEMMA OneText ==
  ASSUME PreflightInv, Written, NEW c \in DOMAIN before, NEW r \in Rows,
         NEW v \in before[c][r], NEW w \in before[c][r]
  PROVE  v = w
<1>1. Ran /\ Versions
  BY DEF PreflightInv, RunInv, Written
<1>2. PICK content \in Contents : before = [d \in DOMAIN Live.columns |-> content[d]]
  BY <1>1 DEF Ran, Legal
<1>3. DOMAIN Live.columns \subseteq DOMAIN content
  BY <1>1, ContentsAssumption DEF Versions, Live
<1> QED
  BY <1>2, <1>3, ContentsAssumption

\* A column that is masked is clear of what hinders.
LEMMA MaskedColumns ==
  ASSUME Cleared, IsSchema(Seen), NEW c \in DOMAIN Seen.columns, Plan.rules[c].strategy # "keep"
  PROVE  LET rule == Plan.rules[c] IN
         /\ rule.strategy = "null" => Seen.columns[c].nullable
         /\ rule.strategy # "null" => Seen.columns[c].text /\ ~Exceeds(rule, Seen.columns[c])
         /\ rule.strategy # "null" /\ UniquelyIndexed(Seen, c) => rule.unique
<1>1. c \in Shared(Plan, Seen)
  BY EveryColumnConfigured DEF Shared
<1>2. ASSUME NEW kind \in ColumnKinds PROVE ~Hinders(kind, Plan.rules[c], c, Seen)
  <2>1. <<kind, c>> \notin ColumnFindings(Plan, Seen)
    BY NoFindings
  <2> QED
    BY <1>1, <2>1 DEF ColumnFindings
<1>3. c \notin KeyColumns(Seen)
  BY <1>1, KeysAreKept
<1> QED
  BY <1>2, <1>3 DEF Hinders, ColumnKinds

\* A value is generated within the budget of its rule.
LEMMA GeneratedLength ==
  ASSUME PreflightInv, Cleared, NEW c \in DOMAIN Plan.rules, NEW text, NEW faker,
         Plan.rules[c].strategy \notin {"keep", "null", "template"}
  PROVE  LET rule == Plan.rules[c]
             part == Generated(rule, text, faker)
         IN BaseLength(rule) = {PartLength(part)} /\ PartLength(part) \in Nat
<1> DEFINE rule == Plan.rules[c]
           part == Generated(rule, text, faker)
<1>1. rule.strategy \in {"redact", "hash"} \cup DOMAIN MaxFakeLength
  BY RulesAre DEF StrategyNames, MaxFakeLength
<1>2. CASE rule.strategy = "redact"
  <2>1. Len(rule.value) \in Nat
    <3>1. IsKnown(Read)
      <4>1. IsKnown(NoText)
        BY DEF IsKnown, NoText
      <4> QED
        BY <4>1 DEF PreflightInv, TextsInv, Handles, Read
    <3>2. /\ rule.value = Option(Read.lines[c], "value", "") /\ rule.value # ""
          /\ c \in DOMAIN Read.lines
      BY <1>2 DEF Cleared, Loads, Accepted, Plan, BuildPlan, ParseRule
    <3> QED
      BY <3>1, <3>2 DEF IsKnown, HasLength, Option
  <2>2. part = <<"redact", rule.value>> /\ BaseLength(rule) = {Len(rule.value)}
    BY <1>2 DEF Generated, BaseLength
  <2>3. PartLength(part) = Len(rule.value)
    BY <2>2 DEF PartLength, MaxFakeLength
  <2> QED
    BY <2>1, <2>2, <2>3
<1>3. CASE rule.strategy = "hash"
  BY <1>3 DEF Generated, BaseLength, PartLength, HashLength
<1>4. CASE rule.strategy \in DOMAIN MaxFakeLength
  <2>1. /\ part[1] = rule.strategy /\ rule.strategy \notin {"redact", "hash", "suffix"}
        /\ MaxFakeLength[rule.strategy] \in Nat
    BY <1>4 DEF Generated, MaxFakeLength
  <2>2. PartLength(part) = MaxFakeLength[rule.strategy]
    BY <1>4, <2>1 DEF PartLength
  <2>3. BaseLength(rule) = {MaxFakeLength[rule.strategy]}
    BY <1>4, <2>1 DEF BaseLength
  <2> QED
    BY <2>1, <2>2, <2>3
<1> QED
  BY <1>1, <1>2, <1>3, <1>4

\* What a run has made of a column.
LEMMA WrittenCells ==
  ASSUME PreflightInv, Written
  PROVE  \E faker \in Fakers : \A c \in DOMAIN Seen.columns, r \in Rows :
           LET rule == Plan.rules[c] IN
           /\ rule.strategy = "keep" => after[c][r] = Original(before[c][r])
           /\ rule.strategy = "null" => after[c][r] = {}
           /\ rule.strategy = "template" =>
                after[c][r] = UNION {Rendered(rule, c[1], r, before) : text \in before[c][r]}
           /\ rule.strategy \notin {"keep", "null", "template"} =>
                after[c][r] = UNION {{Generated(rule, text, faker)} \cup Suffix(rule, text) :
                                       text \in before[c][r]}
<1>1. PICK faker \in Fakers : after = MaskRows(before, faker)
  BY WrittenRows
<1>2. Cleared /\ IsSchema(Seen) /\ DOMAIN before = DOMAIN Seen.columns
  BY WrittenRows
<1> SUFFICES ASSUME NEW c \in DOMAIN Seen.columns, NEW r \in Rows
             PROVE  LET rule == Plan.rules[c] IN
                    /\ rule.strategy = "keep" => after[c][r] = Original(before[c][r])
                    /\ rule.strategy # "keep" => after[c][r] = MaskCell(c, r, before, faker)
  BY DEF MaskCell, Rule
<1> QED
  BY <1>1, <1>2, RewrittenAreMasked DEF MaskRows

LEMMA NotNullFits ==
  ASSUME PreflightInv, Written, NEW c \in DOMAIN Seen.columns
  PROVE  NotNullHolds(Seen, c, after)
<1> SUFFICES ASSUME ~Seen.columns[c].nullable, NEW r \in Rows PROVE after[c][r] # {}
  BY DEF NotNullHolds
<1>1. Cleared /\ IsSchema(Seen) /\ DOMAIN before = DOMAIN Seen.columns
  BY WrittenRows
<1>2. PICK text : text \in before[c][r]
  <2>1. NotNullHolds(Seen, c, Stored(before))
    BY WrittenRows DEF Accepts
  <2>2. Stored(before)[c][r] # {}
    BY <2>1 DEF NotNullHolds
  <2> QED
    BY <1>1, <2>2 DEF Stored, Original
<1>3. Plan.rules[c].strategy # "null"
  BY <1>1, MaskedColumns
<1>4. CASE Plan.rules[c].strategy = "keep"
  <2>1. after[c][r] = Original(before[c][r])
    BY <1>4, WrittenCells
  <2> QED
    BY <1>2, <2>1 DEF Original
<1>5. CASE Plan.rules[c].strategy = "template"
  <2>1. after[c][r] = UNION {Rendered(Plan.rules[c], c[1], r, before) : held \in before[c][r]}
    BY <1>5, WrittenCells
  <2>2. <<"template", "">> \in Rendered(Plan.rules[c], c[1], r, before)
    BY DEF Rendered
  <2> QED
    BY <1>2, <2>1, <2>2
<1>6. CASE Plan.rules[c].strategy \notin {"keep", "null", "template"}
  BY <1>2, <1>6, WrittenCells
<1> QED
  BY <1>3, <1>4, <1>5, <1>6

LEMMA TypeFits ==
  ASSUME PreflightInv, Written, NEW c \in DOMAIN Seen.columns
  PROVE  TypeHolds(Seen, c, after)
<1> SUFFICES ASSUME ~Seen.columns[c].text, NEW r \in Rows, NEW part \in after[c][r]
             PROVE  part[1] = "row"
  BY DEF TypeHolds
<1>1. Cleared /\ IsSchema(Seen)
  BY WrittenRows
<1>2. Plan.rules[c].strategy \in {"keep", "null"}
  BY <1>1, MaskedColumns
<1> QED
  BY <1>2, WrittenCells DEF Original

LEMMA LengthFits ==
  ASSUME PreflightInv, Written, NEW c \in DOMAIN Seen.columns, Plan.rules[c].strategy # "template"
  PROVE  LengthHolds(Seen, c, after)
<1> DEFINE rule == Plan.rules[c]
<1> SUFFICES ASSUME NEW r \in Rows, NEW n \in Seen.columns[c].length
             PROVE  MapThenSumSet(PartLength, after[c][r]) <= n
  BY DEF LengthHolds
<1>1. /\ Cleared /\ IsSchema(Seen) /\ n \in Nat
      /\ DOMAIN before = DOMAIN Seen.columns /\ c \in DOMAIN Plan.rules
  BY WrittenRows, EveryColumnConfigured DEF IsSchema
<1>2. MapThenSumSet(PartLength, {}) = 0
  BY SumsOfParts, PartLength(<<"hash", "">>) \in Nat DEF PartLength, HashLength
<1>3. CASE after[c][r] = {}
  BY <1>1, <1>2, <1>3
<1>4. CASE rule.strategy = "keep"
  <2>1. after[c][r] = Stored(before)[c][r]
    BY <1>1, <1>4, WrittenCells DEF Stored
  <2> QED
    BY <2>1, WrittenRows DEF Accepts, LengthHolds
<1>5. CASE rule.strategy \notin {"keep", "null"} /\ after[c][r] # {}
  <2>0. PICK faker \in Fakers :
          after[c][r] = UNION {{Generated(rule, text, faker)} \cup Suffix(rule, text) :
                                 text \in before[c][r]}
    BY <1>5, WrittenCells
  <2>1. PICK text \in before[c][r] : after[c][r] = {Generated(rule, text, faker)} \cup Suffix(rule, text)
    <3>1. PICK text : text \in before[c][r]
      BY <1>5, <2>0
    <3>2. before[c][r] = {text}
      BY <1>1, <3>1, OneText
    <3>3. after[c][r] = {Generated(rule, text, faker)} \cup Suffix(rule, text)
      BY <2>0, <3>2
    <3> QED
      BY <3>1, <3>3
  <2> DEFINE part == Generated(rule, text, faker)
             suffix == <<"suffix", rule.strategy, Normalize(rule.strategy, text)>>
  <2>2. BaseLength(rule) = {PartLength(part)} /\ PartLength(part) \in Nat
    BY <1>1, <1>5, GeneratedLength
  <2>3. PartLength(suffix) = UniqueSuffixCost /\ UniqueSuffixCost = 13
    BY DEF PartLength, UniqueSuffixCost
  <2>4. part # suffix
    <3>1. part[1] # "suffix" /\ suffix[1] = "suffix"
      BY <1>1, RulesAre DEF Generated, StrategyNames
    <3> QED
      BY <3>1
  <2>5. ~Exceeds(rule, Seen.columns[c])
    BY <1>1, <1>5, MaskedColumns
  <2> HIDE DEF part, suffix, rule
  <2>6. CASE rule.unique
    <3>1. MaxOutputLength(rule) = {PartLength(part) + 13}
      BY <2>2, <2>3, <2>6 DEF MaxOutputLength
    <3>2. PartLength(part) + 13 <= n
      BY <1>1, <2>2, <2>5, <3>1 DEF Exceeds
    <3>3. after[c][r] = {part, suffix}
      BY <2>1, <2>6 DEF Suffix, part, suffix
    <3>4. MapThenSumSet(PartLength, {part, suffix}) = PartLength(part) + PartLength(suffix)
      <4>1. PartLength(part) \in Nat /\ PartLength(suffix) \in Nat
        BY <2>2, <2>3
      <4> QED
        BY <2>4, <4>1, SumsOfParts
    <3> QED
      BY <2>3, <3>2, <3>3, <3>4
  <2>7. CASE ~rule.unique
    <3>1. MaxOutputLength(rule) = {PartLength(part)}
      BY <2>2, <2>7 DEF MaxOutputLength
    <3>2. PartLength(part) <= n
      BY <1>1, <2>2, <2>5, <3>1 DEF Exceeds
    <3>3. after[c][r] = {part}
      BY <2>1, <2>7 DEF Suffix, part
    <3> QED
      BY <2>2, <3>2, <3>3, SumsOfParts
  <2> QED
    BY <2>6, <2>7
<1>6. CASE rule.strategy = "null"
  BY <1>3, <1>6, WrittenCells
<1> QED
  BY <1>3, <1>4, <1>5, <1>6

LEMMA UniqueFits ==
  ASSUME PreflightInv, Written, NEW index \in Seen.uniqueIndexes,
         ~HasTemplate(Covered(index)), \A c \in Covered(index) : ~HasCaseVariants(c)
  PROVE  UniqueHolds(index, after)
<1> SUFFICES ASSUME NEW r \in Rows, NEW q \in Rows, r # q
             PROVE  \E c \in Covered(index) :
                      \/ after[c][r] = {} \/ after[c][q] = {}
                      \/ Indexed(index, c, after[c][r]) # Indexed(index, c, after[c][q])
  BY DEF UniqueHolds
<1>1. Cleared /\ IsSchema(Seen) /\ DOMAIN before = DOMAIN Seen.columns
  BY WrittenRows
<1>2. PICK c \in Covered(index) :
        \/ Stored(before)[c][r] = {} \/ Stored(before)[c][q] = {}
        \/ Indexed(index, c, Stored(before)[c][r]) # Indexed(index, c, Stored(before)[c][q])
  BY WrittenRows DEF Accepts, UniqueHolds
<1> DEFINE rule == Plan.rules[c]
<1>3. /\ c \in DOMAIN Seen.columns /\ c \in DOMAIN Read.lines
      /\ Stored(before)[c][r] = Original(before[c][r]) /\ Stored(before)[c][q] = Original(before[c][q])
  BY <1>1, EveryColumnConfigured DEF IsSchema, Stored, Plan, BuildPlan
<1>4. rule.strategy # "template"
  BY <1>3 DEF HasTemplate, Rule
<1>5. CASE rule.strategy = "keep"
  BY <1>2, <1>3, <1>5, WrittenCells
<1>6. CASE rule.strategy = "null"
  BY <1>3, <1>6, WrittenCells
<1>7. CASE rule.strategy \notin {"keep", "null", "template"}
  <2>1. rule.unique
    BY <1>1, <1>3, <1>7, MaskedColumns DEF UniquelyIndexed
  <2>2. PICK faker \in Fakers : \A p \in Rows :
          after[c][p] = UNION {{Generated(rule, text, faker)} \cup Suffix(rule, text) :
                                 text \in before[c][p]}
    BY <1>3, <1>7, WrittenCells
  <2>3. CASE before[c][r] = {} \/ before[c][q] = {}
    BY <2>2, <2>3
  <2>4. CASE before[c][r] # {} /\ before[c][q] # {}
    <3>1. PICK v, w : before[c][r] = {v} /\ before[c][q] = {w}
      <4>1. PICK v, w : v \in before[c][r] /\ w \in before[c][q]
        BY <2>4
      <4>2. before[c][r] = {v} /\ before[c][q] = {w}
        BY <1>1, <1>3, <4>1, OneText
      <4> QED
        BY <4>2
    <3>2. Normalize(rule.strategy, v) # Normalize(rule.strategy, w)
      <4>1. Original({v}) = {<<"row", v>>} /\ Original({w}) = {<<"row", w>>}
        BY DEF Original
      <4>2. v # w
        BY <1>2, <1>3, <3>1, <4>1
      <4>3. rule.strategy = "fake_email" => Folded[v] # Folded[w]
        BY <1>3, <3>1, <4>2 DEF HasCaseVariants, Rule
      <4> QED
        BY <4>2, <4>3 DEF Normalize
    <3> DEFINE Made(text) == {Generated(rule, text, faker)} \cup Suffix(rule, text)
               suffix(text) == <<"suffix", rule.strategy, Normalize(rule.strategy, text)>>
    <3>3. ASSUME NEW text
          PROVE  Suffix(rule, text) = {suffix(text)} /\ Generated(rule, text, faker)[1] \notin {"suffix", "row"}
      BY <1>1, <1>3, <2>1, RulesAre, EveryColumnConfigured DEF Suffix, Generated, StrategyNames
    <3>4. after[c][r] = Made(v) /\ after[c][q] = Made(w)
      BY <2>2, <3>1
    <3>5. suffix(v) \in Made(v) /\ suffix(v) \notin Made(w)
      <4>1. suffix(v) # suffix(w) /\ suffix(v)[1] = "suffix"
        BY <3>2
      <4>2. suffix(v) # Generated(rule, w, faker)
        BY <3>3, <4>1
      <4> HIDE DEF suffix
      <4> QED
        BY <3>3, <4>1, <4>2
    <3>6. ASSUME NEW text, NEW cell, cell = Made(text) PROVE Indexed(index, c, cell) = cell
      <4>1. \A part \in cell : FoldPart(part) = part
        <5>1. suffix(text)[1] = "suffix"
          OBVIOUS
        <5> HIDE DEF suffix
        <5>2. \A part \in cell : part[1] # "row"
          BY <3>3, <3>6, <5>1
        <5> QED
          BY <5>2 DEF FoldPart
      <4> QED
        BY <4>1 DEF Indexed
    <3> HIDE DEF Made, suffix
    <3> QED
      BY <3>4, <3>5, <3>6
  <2> QED
    BY <2>3, <2>4
<1> QED
  BY <1>4, <1>5, <1>6, <1>7

\* What a clean preflight lets through, a database of any schema accepts, whatever the
\* providers return; templates and addresses that differ in case only excepted.
THEOREM PlansFit == Spec => []PlanFits
<1>1. ASSUME PreflightInv PROVE PlanFits
  <2> SUFFICES ASSUME Written
               PROVE  /\ \A c \in DOMAIN Live.columns :
                           /\ NotNullHolds(Live, c, after) /\ TypeHolds(Live, c, after)
                           /\ HasTemplate({c}) \/ LengthHolds(Live, c, after)
                      /\ \A index \in Live.uniqueIndexes :
                           \/ HasTemplate(Covered(index)) \/ \E c \in Covered(index) : HasCaseVariants(c)
                           \/ UniqueHolds(index, after)
    BY DEF PlanFits
  <2>1. Cleared /\ IsSchema(Seen) /\ Live = Seen
    BY <1>1, WrittenRows
  <2>2. ASSUME NEW c \in DOMAIN Live.columns, ~HasTemplate({c}) PROVE LengthHolds(Live, c, after)
    <3>1. c \in DOMAIN Read.lines
      BY <2>1, EveryColumnConfigured DEF Plan, BuildPlan
    <3>2. Plan.rules[c].strategy # "template"
      BY <2>2, <3>1 DEF HasTemplate, Rule
    <3> QED
      BY <1>1, <2>1, <3>2, LengthFits
  <2> QED
    BY <1>1, <2>1, <2>2, NotNullFits, TypeFits, UniqueFits
<1> QED
  BY <1>1, PreflightInvHolds, PTL

-----------------------------------------------------------------------------
(* Both sides together: the statements of a mask.                          *)

\* What no finding is about: a template, an address that has a variant in its own unique
\* index, and a masked column that is referred to and no primary key.
Excepted ==
  \/ HasTemplate(DOMAIN Live.columns)
  \/ \E index \in Live.uniqueIndexes : \E c \in Covered(index) : HasCaseVariants(c)
  \/ \E key \in Live.foreignKeys : \E c \in DOMAIN key :
       key[c] \notin Live.primaryKey /\ Plan.rules[key[c]].strategy # "keep"

\* A mask after a preflight without findings, of the schema that the preflight saw, does not
\* fail on any of its statements but for what no finding is about: whatever the rows are and
\* whatever the providers return, what mask_plan writes is accepted.
THEOREM CleanMaskGoesThrough == Spec => [](pc = "failed" /\ seen = version => Excepted)
<1>1. ASSUME PreflightInv, PlanFits, ReferencesSurvive, pc = "failed", seen = version
      PROVE  Excepted
  <2> SUFFICES ASSUME ~Excepted PROVE FALSE
    OBVIOUS
  <2>1. Written /\ Live = Seen /\ IsSchema(Live)
    BY <1>1, WrittenRows DEF Written
  <2>2. DOMAIN Read.lines = DOMAIN Live.columns
    BY <1>1, <2>1, WrittenRows, EveryColumnConfigured DEF Plan, BuildPlan
  <2>3. Met /\ ~Accepts(Live, after)
    BY <1>1, <2>2 DEF Met, PreflightInv, RunInv, HasCause
  <2>4. ASSUME NEW columns, HasTemplate(columns) PROVE FALSE
    BY <2>2, <2>4 DEF HasTemplate, Excepted
  <2>5. \A c \in DOMAIN Live.columns : /\ NotNullHolds(Live, c, after) /\ TypeHolds(Live, c, after)
                                       /\ LengthHolds(Live, c, after)
    BY <1>1, <2>1, <2>4 DEF PlanFits
  <2>6. \A index \in Live.uniqueIndexes : UniqueHolds(index, after)
    BY <1>1, <2>1, <2>4 DEF PlanFits, Excepted
  <2>7. \A key \in Live.foreignKeys : ReferenceHolds(key, after)
    BY <1>1, <2>1, <2>3 DEF ReferencesSurvive, Excepted
  <2> QED
    BY <2>3, <2>5, <2>6, <2>7 DEF Accepts
<1> QED
  BY <1>1, PreflightInvHolds, PlansFit, ReferencesHold, PTL
=============================================================================
