----------------------------- MODULE Preflight -----------------------------
(***************************************************************************)
(* From dbmask init to the masked rows: inits draft a config (ConfigFile), *)
(* the operator edits it and migrates the schema, check reports every      *)
(* finding, its search for a foreign key cycle step by step (FkCycle), and *)
(* mask, whose preflight has reported none, writes what the rules make of  *)
(* the rows.                                                               *)
(*                                                                         *)
(* The rows are written in one step: how a run is cut into batches,        *)
(* interrupted and resumed is MaskRun's, that its transaction is refused   *)
(* within the command is MaskCli's, and what StrategyEngine shows of a     *)
(* mask, a function of rule and normalized text, is taken from there.      *)
(* A cell is the set of texts its value is put together from, each with    *)
(* where it comes from; NULL is the empty set.                             *)
(***************************************************************************)
EXTENDS FkCycle, ConfigFile, FiniteSetsExt

CONSTANTS
  Histories,  (* for each database, the schemas it is migrated through, in turn *)
  Edits,      (* for each database, pairs of a column and a line for it        *)
  Joins,      (* and the [[verify.joins]] an operator may add                  *)
  Rows,       (* rows of every table                                           *)
  Contents,   (* for every column and row a set of at most one text            *)
  Folded,     (* text.strip().lower(), and lower() in the database             *)
  Fakers,     (* what the providers return for <<strategy, normalized text>>   *)
  MaxChanges  (* bound, for each database: inits and edits of the config       *)

\* Tables without a column, which PostgreSQL has, are left out.
IsSchema(schema) ==
  /\ schema.tables = {c[1] : c \in DOMAIN schema.columns} /\ schema.tables \subseteq Tables
  /\ \A c \in DOMAIN schema.columns : /\ schema.columns[c].length \subseteq Nat
                                      /\ schema.columns[c].pii \in DOMAIN StrategyForPattern \cup {"none"}
  /\ schema.primaryKey \subseteq DOMAIN schema.columns
  /\ \A key \in schema.foreignKeys : \A c \in DOMAIN key : {c, key[c]} \subseteq DOMAIN schema.columns
  /\ \A index \in schema.uniqueIndexes : Covered(index) \subseteq DOMAIN schema.columns

ASSUME HistoriesAssumption ==
  \A d \in DOMAIN Histories :
    /\ Len(Histories[d]) \in Nat \ {0}
    /\ \A i \in 1..Len(Histories[d]) : IsSchema(Histories[d][i])

\* A value to redact with is a text.
HasLength(line) == "value" \in DOMAIN line.options => Len(line.options["value"]) \in Nat

ASSUME EditsAssumption ==
  /\ Len("MASKED") \in Nat
  /\ \A d \in DOMAIN Histories : \A edit \in Edits[d] : HasLength(edit[2])

ASSUME ContentsAssumption ==
  \A content \in Contents :
    /\ \A d \in DOMAIN Histories : \A i \in 1..Len(Histories[d]) :
         DOMAIN Histories[d][i].columns \subseteq DOMAIN content
    /\ \A c \in DOMAIN content, r \in Rows : \A v, w \in content[c][r] : v = w

ASSUME MaxChangesAssumption == MaxChanges \in [DOMAIN Histories -> Nat]

VARIABLES
  database,  (* the database                                                   *)
  version,   (* of its schema                                                  *)
  pc,        (* "idle", what the invocation does, or how it ended              *)
  seen,      (* the version it introspected                                    *)
  findings,  (* what find_findings has come to                                 *)
  before,    (* the rows a mask found                                          *)
  after,     (* the rows it wrote                                              *)
  changes    (* inits and edits still to come                                  *)

planVars == <<database, version, pc, seen, findings, before, after, changes>>
vars == <<searchVars, fileVars, planVars>>

Live == Histories[database][version]
Seen == Histories[database][seen]
Plan == BuildPlan(Read.lines, Read.joins)
Rule(c) == Plan.rules[c]

NoTables == [t \in Tables |-> {}]

Init ==
  /\ database \in DOMAIN Histories /\ version = 1 /\ seen = 1
  /\ pc = "idle" /\ findings = {}
  /\ before = <<>> /\ after = <<>>
  /\ changes = MaxChanges[database]
  /\ FileInit
  /\ refers = NoTables /\ SearchInit

-----------------------------------------------------------------------------
(* What mask makes of a cell: strategies.mask, for a rule and a text.      *)

Normalize(strategy, text) == IF strategy = "fake_email" THEN Folded[text] ELSE text

Suffix(rule, text) ==
  IF rule.unique THEN {<<"suffix", rule.strategy, Normalize(rule.strategy, text)>>} ELSE {}

Generated(rule, text, faker) ==
  IF rule.strategy = "redact" THEN <<"redact", rule.value>>
  ELSE IF rule.strategy = "hash" THEN <<"hash", text>>
  ELSE <<rule.strategy, faker[<<rule.strategy, Normalize(rule.strategy, text)>>]>>

Original(texts) == {<<"row", text>> : text \in texts}

\* What the columns a template reads hold in the row.
Rendered(rule, t, r, content) ==
  {<<"template", "">>}
    \cup UNION {Original(content[<<t, p>>][r]) : p \in rule.template}

\* NULL passes through: there is no text to make anything of.
MaskCell(c, r, content, faker) ==
  LET rule == Rule(c)
  IN IF rule.strategy = "keep" THEN Original(content[c][r])
     ELSE IF rule.strategy = "null" THEN {}
     ELSE IF rule.strategy = "template"
     THEN UNION {Rendered(rule, c[1], r, content) : text \in content[c][r]}
     ELSE UNION {{Generated(rule, text, faker)} \cup Suffix(rule, text) : text \in content[c][r]}

\* The columns the run rewrites: the rules' own but for keep and the primary key.
Rewritten == {c \in Shared(Plan, Seen) : Masked(Plan, c)} \ Seen.primaryKey

MaskRows(content, faker) ==
  [c \in DOMAIN content |->
    [r \in Rows |-> IF c \in Rewritten THEN MaskCell(c, r, content, faker)
                    ELSE Original(content[c][r])]]

-----------------------------------------------------------------------------
(* What the database accepts in the cells of a schema's columns.           *)

PartLength(part) ==
  IF part[1] = "hash" THEN HashLength
  ELSE IF part[1] = "suffix" THEN UniqueSuffixCost
  ELSE IF part[1] \in DOMAIN MaxFakeLength THEN MaxFakeLength[part[1]]  \* at the worst
  ELSE Len(part[2])

NotNullHolds(schema, c, cells) ==
  schema.columns[c].nullable \/ \A r \in Rows : cells[c][r] # {}

TypeHolds(schema, c, cells) ==
  schema.columns[c].text \/ \A r \in Rows : \A part \in cells[c][r] : part[1] = "row"

LengthHolds(schema, c, cells) ==
  \A r \in Rows, n \in schema.columns[c].length : MapThenSumSet(PartLength, cells[c][r]) <= n

FoldPart(part) == IF part[1] = "row" THEN <<"row", Folded[part[2]]>> ELSE part

Indexed(index, c, cell) ==
  IF c \in index.expressions THEN {FoldPart(part) : part \in cell} ELSE cell

\* No two rows agree in all columns; one with a NULL agrees with none.
UniqueHolds(index, cells) ==
  \A r, q \in Rows :
    r # q => \E c \in Covered(index) :
               \/ cells[c][r] = {} \/ cells[c][q] = {}
               \/ Indexed(index, c, cells[c][r]) # Indexed(index, c, cells[c][q])

\* Every row finds the one it refers to, unless there is a NULL in the key.
ReferenceHolds(key, cells) ==
  \A r \in Rows : \/ \E c \in DOMAIN key : cells[c][r] = {}
                  \/ \E q \in Rows : \A c \in DOMAIN key : cells[key[c]][q] = cells[c][r]

Accepts(schema, cells) ==
  /\ \A c \in DOMAIN schema.columns : /\ NotNullHolds(schema, c, cells)
                                      /\ TypeHolds(schema, c, cells)
                                      /\ LengthHolds(schema, c, cells)
  /\ \A index \in schema.uniqueIndexes : UniqueHolds(index, cells)
  /\ \A key \in schema.foreignKeys : ReferenceHolds(key, cells)

\* Cells as they are before a mask.
Stored(content) == [c \in DOMAIN content |-> [r \in Rows |-> Original(content[c][r])]]

\* What a database of the schema may hold.
Legal(schema) ==
  {content \in {[c \in DOMAIN schema.columns |-> all[c]] : all \in Contents} :
     Accepts(schema, Stored(content))}

-----------------------------------------------------------------------------
(* The operator, and dbmask init.                                          *)

\* What an init writes into the config of the schema it has introspected.
Draft(schema) ==
  [lines |-> [c \in DOMAIN schema.columns |-> DraftLine(Propose(schema, c))],
   joins |-> {}, torn |-> FALSE]

Changes ==
  /\ pc = "idle"
  /\ changes > 0 /\ changes' = changes - 1
  /\ UNCHANGED <<searchVars, database, version, pc, seen, findings, before, after>>

InvokeInit == Changes /\ \E i \in Inits, force \in BOOLEAN : Start(i, Draft(Live), force)

\* Check and mask read the config at once when they begin, and none of what they do after
\* depends on it, so that an init need not go on while they do.
InitStep == pc = "idle" /\ (\E i \in Inits : WriterStep(i)) /\ UNCHANGED <<searchVars, planVars>>

Edited(lines, joins) ==
  /\ <<lines, joins>> # <<Read.lines, Read.joins>>
  /\ file' = [file EXCEPT ![config].lines = lines, ![config].joins = joins]

EditConfig ==
  /\ Changes
  /\ config # 0
  /\ \/ \E edit \in Edits[database] :
          Edited([c \in DOMAIN Read.lines \cup {edit[1]} |->
                   IF c = edit[1] THEN edit[2] ELSE Read.lines[c]], Read.joins)
     \/ \E edit \in Edits[database] :
          Edited([c \in DOMAIN Read.lines \ {edit[1]} |-> Read.lines[c]], Read.joins)
     \/ \E join \in Joins[database] : Edited(Read.lines, Read.joins \cup {join})
  /\ UNCHANGED <<config, temporary, writer, overlapped>>

\* At any time, between the preflight of a mask and its writes as well.
Migrate ==
  /\ pc \in {"idle", "passed"}
  /\ version < Len(Histories[database]) /\ version' = version + 1
  /\ UNCHANGED <<searchVars, fileVars, database, pc, seen, findings, before, after, changes>>

-----------------------------------------------------------------------------
(* check and mask.                                                         *)

\* visit and its variables are local to a call.
FreshSearch(graph) ==
  /\ refers' = graph
  /\ state' = [t \in Tables |-> "unseen"]
  /\ path' = <<>>
  /\ reached' = [t \in Tables |-> 0]
  /\ root' = 0
  /\ cycle' = <<>>

\* load_plan raises E_CONFIG.
Reject ==
  /\ pc = "idle" /\ ~Loads(Read.lines) /\ pc' = "invalid"
  /\ UNCHANGED <<searchVars, fileVars, database, version, seen, findings, before, after, changes>>

\* find_findings up to _cycle_findings, which calls _find_cycle.
Check ==
  /\ pc = "idle" /\ Loads(Read.lines) /\ pc' = "search"
  /\ seen' = version
  /\ findings' = FindFindings(Plan, Live, "all")
  /\ UNCHANGED <<fileVars, database, version, before, after, changes>>
  /\ FreshSearch([t \in Tables |-> References(Live, t)])

Search == pc = "search" /\ SearchNext /\ UNCHANGED <<fileVars, planVars>>

Report ==
  /\ pc = "search" /\ pc' = "checked"
  /\ \/ cycle # <<>> /\ findings' = findings \cup {<<"cycle", cycle[1]>>}
     \/ ClearedAll /\ UNCHANGED findings
  /\ UNCHANGED <<searchVars, fileVars, database, version, seen, before, after, changes>>

\* The preflight of mask.
Pass ==
  /\ pc = "idle" /\ Loads(Read.lines)
  /\ seen' = version
  /\ findings' = FindFindings(Plan, Live, "mask")
  /\ pc' = IF findings' = {} THEN "passed" ELSE "refused"
  /\ UNCHANGED <<searchVars, fileVars, database, version, before, after, changes>>

\* The statements select every column of the config, and meet the live schema.
Write ==
  /\ pc = "passed"
  /\ \E content \in Legal(Live), faker \in Fakers :
       /\ before' = content
       /\ \/ /\ DOMAIN Read.lines \subseteq DOMAIN Live.columns
             /\ after' = MaskRows(before', faker)
             /\ pc' = IF Accepts(Live, after') THEN "masked" ELSE "failed"
          \/ /\ ~(DOMAIN Read.lines \subseteq DOMAIN Live.columns)
             /\ after' = Stored(before')
             /\ pc' = "failed"
  /\ UNCHANGED <<searchVars, fileVars, database, version, seen, findings, changes>>

\* Exit; the next mask is for the next restore of the database.
Return ==
  /\ pc \in {"invalid", "checked", "refused", "masked", "failed"} /\ pc' = "idle"
  /\ findings' = {} /\ before' = <<>> /\ after' = <<>> /\ seen' = 1
  /\ FreshSearch(NoTables)
  /\ UNCHANGED <<fileVars, database, version, changes>>

Invocation == Reject \/ Check \/ Search \/ Report \/ Pass \/ Write \/ Return

Next == InvokeInit \/ InitStep \/ EditConfig \/ Migrate \/ Invocation

\* An invocation, once begun, goes on.
Spec == Init /\ [][Next]_vars /\ WF_vars(Search \/ Report)

-----------------------------------------------------------------------------

TypeOK ==
  /\ SearchTypeOK /\ FileTypeOK
  /\ database \in DOMAIN Histories
  /\ version \in 1..Len(Histories[database]) /\ seen \in 1..version
  /\ Read.joins \subseteq Joins[database]
  /\ pc \in {"idle", "invalid", "search", "checked", "refused", "passed", "masked", "failed"}
  /\ pc \notin {"search", "checked", "refused"} => findings = {}
  /\ pc # "search" /\ pc # "checked" => refers = NoTables
  /\ DOMAIN before = DOMAIN after /\ (pc \notin {"masked", "failed"} => before = <<>>)
  /\ changes \in 0..MaxChanges[database]

\* A mask has met the columns it names, in the schema its preflight saw or a later one.
Met == pc \in {"masked", "failed"} /\ DOMAIN Read.lines \subseteq DOMAIN Live.columns

\* The rows were written to the schema the preflight saw.
Written == pc \in {"masked", "failed"} /\ seen = version

HasTemplate(columns) == \E c \in columns \cap DOMAIN Read.lines : Rule(c).strategy = "template"

\* Addresses that differ in case only, which fake_email makes one of.
HasCaseVariants(c) ==
  /\ c \in DOMAIN Read.lines /\ Rule(c).strategy = "fake_email"
  /\ \E r, q \in Rows : \E v \in before[c][r], w \in before[c][q] : v # w /\ Folded[v] = Folded[w]

(* What a clean preflight lets through, the database accepts: no NULL, no text in a column *)
(* of another type, none too long with its suffix, and no duplicate under a unique index,  *)
(* however often a provider repeats itself (_column_findings, max_output_length).  Excepted*)
(* are templates, whose length and uniqueness depend on the rows, and addresses that       *)
(* differ in case only.                                                                    *)
PlanFits ==
  Written =>
    /\ \A c \in DOMAIN Live.columns :
         /\ NotNullHolds(Live, c, after) /\ TypeHolds(Live, c, after)
         /\ HasTemplate({c}) \/ LengthHolds(Live, c, after)
    /\ \A index \in Live.uniqueIndexes :
         \/ HasTemplate(Covered(index)) \/ \E c \in Covered(index) : HasCaseVariants(c)
         \/ UniqueHolds(index, after)

(* Every foreign key the preflight saw finds its row after a mask as before it, unless what *)
(* it refers to is no primary key and masked (a key column under any other strategy than   *)
(* keep is a finding), whatever else is migrated between the preflight and the writes.     *)
ReferencesSurvive ==
  Met => \A key \in Live.foreignKeys \cap Seen.foreignKeys :
    (\A c \in DOMAIN key : key[c] \in Seen.primaryKey \/ Plan.rules[key[c]].strategy = "keep")
    => ReferenceHolds(key, after)

(* Rows of two columns declared as a join matched before the mask match after it, unless   *)
(* templates made them (_join_findings lets only equal rules through), migrated or not.    *)
JoinsSurvive ==
  Met => \A j \in Read.joins : \A r, q \in Rows :
    /\ before[j[1]][r] = before[j[2]][q]
    /\ ~HasTemplate({j[1]})
    => after[j[1]][r] = after[j[2]][q]

(* A text that no kept column held is in no configured column of the masked rows, migrated *)
(* or not: no template copies it out of a masked column (_template_findings).  And no      *)
(* column escapes for want of a line in the config (deny by default, _drift), but for one  *)
(* that a migration adds after the preflight.                                              *)
OriginalsGone ==
  Met =>
    /\ seen = version => DOMAIN after \subseteq DOMAIN Read.lines
    /\ \A c \in DOMAIN Read.lines, r \in Rows : \A part \in after[c][r] :
         part[1] = "row" =>
           \E d \in DOMAIN Read.lines, q \in Rows :
             Rule(d).strategy = "keep" /\ part[2] \in before[d][q]

(* The config init writes is loaded back, and check finds nothing in it, but for what no   *)
(* config can mend: a masked table without primary key and a foreign key cycle (emit.py:65,*)
(* "so `init` output always passes `check`").  A config without a table is never accepted. *)
DraftIsClean ==
  Read = Draft(Live) /\ Live.tables # {} =>
    /\ pc # "invalid"
    /\ pc = "checked" /\ seen = version => \A f \in findings : f[1] \in {"no primary key", "cycle"}

(* A check that is searching comes to an answer.                                           *)
CheckAnswers == (pc = "search") ~> (pc = "checked")
=============================================================================
