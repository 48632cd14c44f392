------------------------------- MODULE Plans -------------------------------
(***************************************************************************)
(* What a config says and what is wrong with it: config.build_plan,        *)
(* emit.propose and drift.find_findings but for its search of cycles, as   *)
(* operators over a config and an introspected schema.                     *)
(*                                                                         *)
(* A column is <<table, name>>.  A schema is a record of                   *)
(*   tables         the tables                                             *)
(*   columns        for each column a record of text and nullable (are its *)
(*                  values text, may they be NULL), length (at most one    *)
(*                  number: none for a type without a length) and pii (the *)
(*                  label of the pattern its name matches, or "none")      *)
(*   primaryKey     the columns of the primary keys                        *)
(*   foreignKeys    functions from columns to the columns they refer to    *)
(*   uniqueIndexes  records of two sets of columns: those indexed and      *)
(*                  those that an indexed expression, a lower(), reads     *)
(*                                                                         *)
(* A line of the config is a record of strategy and options, a function    *)
(* from the option's names; a template is the set of its placeholders,     *)
(* empty when it is malformed.  An option left out is "", FALSE or {}.     *)
(***************************************************************************)
EXTENDS Integers, Sequences

StrategyNames == {"fake_email", "fake_name", "fake_phone", "fake_address",
                  "redact", "null", "hash", "keep", "template"}

\* The options of a strategy, and what a line leaves out.
RuleKeys(strategy) ==
  {key \in {"unique", "value", "template"} :
     \/ key = "unique" /\ strategy \notin {"keep", "null"}
     \/ key = "value" /\ strategy = "redact"
     \/ key = "template" /\ strategy = "template"}

Option(line, key, default) == IF key \in DOMAIN line.options THEN line.options[key] ELSE default

\* template_problems has none.
WellFormed(template) == template # {}

\* _parse_rule has no problem with the line.
Accepted(line) ==
  /\ line.strategy \in StrategyNames
  /\ DOMAIN line.options \subseteq RuleKeys(line.strategy)
  /\ line.strategy = "redact" => Option(line, "value", "") # ""
  /\ line.strategy = "template" => WellFormed(Option(line, "template", {}))

ParseRule(line) ==
  [strategy |-> line.strategy,
   value    |-> Option(line, "value", ""),
   template |-> Option(line, "template", {}),
   unique   |-> Option(line, "unique", FALSE)]

\* build_plan: one bad line and there is no plan, and none without a [tables.<name>.columns].
\* (A [tables] section an operator leaves empty by hand is accepted, and is left out.)
Loads(lines) == lines # <<>> /\ \A c \in DOMAIN lines : Accepted(lines[c])

BuildPlan(lines, joins) ==
  [rules |-> [c \in DOMAIN lines |-> ParseRule(lines[c])], joins |-> joins]

-----------------------------------------------------------------------------
(* What a schema says of a column.                                         *)

ForeignKeyColumns(schema) == UNION {DOMAIN key : key \in schema.foreignKeys}

\* Mutant: foreign keys are left out.
KeyColumns_Primary(schema) == schema.primaryKey

\* The columns v1 requires to keep.
KeyColumns(schema) == schema.primaryKey \cup ForeignKeyColumns(schema)

Covered(index) == index.columns \cup index.expressions

\* unique_indexes_covering is not empty.
UniquelyIndexed(schema, c) == \E index \in schema.uniqueIndexes : c \in Covered(index)

\* The tables a table's foreign keys refer to, as _cycle_findings has them.
References(schema, t) ==
  schema.tables \cap UNION {{key[c][1] : c \in DOMAIN key} :
                             key \in {k \in schema.foreignKeys : \E c \in DOMAIN k : c[1] = t}}

-----------------------------------------------------------------------------
(* The length budget.                                                      *)

MaxFakeLength == [fake_email |-> 64, fake_name |-> 64, fake_phone |-> 32, fake_address |-> 128]
HashLength == 64
UniqueSuffixCost == 13

\* At most one number: a template, keep and null have no ceiling.
BaseLength(rule) ==
  IF rule.strategy = "redact" THEN {Len(rule.value)}
  ELSE IF rule.strategy = "hash" THEN {HashLength}
  ELSE {MaxFakeLength[s] : s \in {rule.strategy} \cap DOMAIN MaxFakeLength}

\* Mutant: the suffix is not counted.
MaxOutputLength_NoSuffix(rule) == BaseLength(rule)

MaxOutputLength(rule) ==
  {n + (IF rule.unique THEN UniqueSuffixCost ELSE 0) : n \in BaseLength(rule)}

Exceeds(rule, column) == \E budget \in MaxOutputLength(rule), n \in column.length : budget > n

-----------------------------------------------------------------------------
(* emit.propose.                                                           *)

StrategyForPattern ==
  [email |-> "fake_email", phone |-> "fake_phone", password |-> "redact", secret |-> "hash",
   ssn |-> "hash", government_id |-> "hash", payment |-> "hash", dob |-> "null",
   address |-> "fake_address", name |-> "fake_name", ip |-> "hash"]

\* Mutant: a draft never asks for a suffix.
DraftRule_NeverUnique(strategy, unique) ==
  [strategy |-> strategy, value |-> IF strategy = "redact" THEN "MASKED" ELSE "",
   template |-> {}, unique |-> FALSE]

DraftRule(strategy, unique) ==
  [strategy |-> strategy,
   value    |-> IF strategy = "redact" THEN "MASKED" ELSE "",
   template |-> {},
   unique   |-> unique /\ strategy \notin {"keep", "null"}]

\* The first strategy that fits: the pattern's own, redact, or keep with a TODO.
Propose(schema, c) ==
  LET column == schema.columns[c]
      unique == UniquelyIndexed(schema, c)
      proposed == StrategyForPattern[column.pii]
      Fits(strategy) == ~Exceeds(DraftRule(strategy, unique), column)
  IN IF c \in KeyColumns(schema) \/ column.pii = "none" THEN DraftRule("keep", FALSE)
     ELSE IF proposed = "null" \/ ~column.text
     THEN DraftRule(IF column.nullable THEN "null" ELSE "keep", FALSE)
     ELSE IF Fits(proposed) THEN DraftRule(proposed, unique)
     ELSE IF Fits("redact") THEN DraftRule("redact", unique)
     ELSE DraftRule("keep", FALSE)

\* _value, the line a proposal is written as.
DraftLine(rule) ==
  [strategy |-> rule.strategy,
   options  |-> [key \in {k \in {"value", "unique"} :
                            (k = "value" /\ rule.value # "") \/ (k = "unique" /\ rule.unique)} |->
                   IF key = "value" THEN rule.value ELSE TRUE]]

-----------------------------------------------------------------------------
(* drift.find_findings: <<kind, subject>> for each finding.                *)

Configured(plan) == {c[1] : c \in DOMAIN plan.rules}

\* Mutant: a configured table's columns are not looked at.
Drift_TablesOnly(plan, schema) ==
  {<<"table not in config", t>> : t \in schema.tables \ Configured(plan)}
    \cup {<<"not in schema", c>> : c \in DOMAIN plan.rules \ DOMAIN schema.columns}

\* Config and schema have the same tables and columns; of a table the config lacks, the
\* columns that look like PII are listed as well.
Drift(plan, schema) ==
  {<<"table not in config", t>> : t \in schema.tables \ Configured(plan)}
    \cup {<<"not in config", c>> :
            c \in {d \in DOMAIN schema.columns \ DOMAIN plan.rules :
                     d[1] \in Configured(plan) \/ schema.columns[d].pii # "none"}}
    \cup {<<"table not in schema", t>> : t \in Configured(plan) \ schema.tables}
    \cup {<<"not in schema", c>> : c \in {d \in DOMAIN plan.rules \ DOMAIN schema.columns :
                                            d[1] \in schema.tables}}

Masked(plan, c) == plan.rules[c].strategy # "keep"

\* The columns the config and the schema both have.
Shared(plan, schema) == DOMAIN plan.rules \cap DOMAIN schema.columns

\* A table that is to be masked in batches by primary key.
KeylessFindings(plan, schema) ==
  {<<"no primary key", t>> :
     t \in {c[1] : c \in {d \in Shared(plan, schema) : Masked(plan, d)}}
             \ {c[1] : c \in schema.primaryKey}}

ColumnKinds == {"primary key", "foreign key", "not null", "type", "length", "unique"}

\* _column_findings, kind by kind.
Hinders(kind, rule, c, schema) ==
  /\ rule.strategy # "keep"
  /\ \/ kind = "primary key" /\ c \in schema.primaryKey
     \/ kind = "foreign key" /\ c \in KeyColumns(schema) \ schema.primaryKey
     \/ /\ c \notin KeyColumns(schema)
        /\ \/ kind = "not null" /\ rule.strategy = "null" /\ ~schema.columns[c].nullable
           \/ /\ rule.strategy # "null"
              /\ \/ kind = "type" /\ ~schema.columns[c].text
                 \/ kind = "length" /\ Exceeds(rule, schema.columns[c])
                 \/ kind = "unique" /\ UniquelyIndexed(schema, c) /\ ~rule.unique

ColumnFindings(plan, schema) ==
  {f \in ColumnKinds \X Shared(plan, schema) : Hinders(f[1], plan.rules[f[2]], f[2], schema)}

\* A column a template may read: a primary key, or one that is kept.
Readable(plan, schema, c) ==
  \/ c \in schema.primaryKey
  \/ c \in Shared(plan, schema) /\ ~Masked(plan, c)

TemplateFindings(plan, schema) ==
  {<<"template", c>> :
     c \in {d \in DOMAIN plan.rules :
              /\ d[1] \in schema.tables
              /\ plan.rules[d].strategy = "template"
              /\ \E p \in plan.rules[d].template : ~Readable(plan, schema, <<d[1], p>>)}}

\* Mutant: the options of the two sides are not compared.
JoinFindings_ByStrategy(plan, schema) ==
  {<<"join", j>> : j \in {k \in plan.joins :
     \/ ~({k[1], k[2]} \subseteq DOMAIN schema.columns)
     \/ /\ {k[1], k[2]} \subseteq DOMAIN plan.rules
        /\ plan.rules[k[1]].strategy # plan.rules[k[2]].strategy}}

\* Both sides exist, and are masked by the same rule.
JoinFindings(plan, schema) ==
  {<<"join", j>> : j \in {k \in plan.joins :
     \/ ~({k[1], k[2]} \subseteq DOMAIN schema.columns)
     \/ {k[1], k[2]} \subseteq DOMAIN plan.rules /\ plan.rules[k[1]] # plan.rules[k[2]]}}

\* A list in the code; only pump and check care for cycles, only mask and check for keys.
FindFindings(plan, schema, mode) ==
  Drift(plan, schema)
    \cup (IF mode \in {"mask", "all"} THEN KeylessFindings(plan, schema) ELSE {})
    \cup ColumnFindings(plan, schema)
    \cup TemplateFindings(plan, schema)
    \cup JoinFindings(plan, schema)
=============================================================================
