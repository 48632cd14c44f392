------------------------------- MODULE MaskCli -------------------------------
(***************************************************************************)
(* The command group of cli.py: one invocation of init, check, mask, pump  *)
(* or verify after another, from its options to its exit code, while the   *)
(* operator edits the config and migrates the database at any time.        *)
(*                                                                         *)
(* A plan and a schema agree or not (their versions), a schema may have a  *)
(* masked table without a primary key or a foreign key cycle: what _drift, *)
(* _compatibility and _cycle_findings report.  mask_plan is followed until *)
(* the session it is given lets it go on; MaskRun has the rest.            *)
(***************************************************************************)
EXTENDS Integers

CONSTANTS
  MaxVersion,   \* versions of the schema; 0 is a database without tables
  MaxChanges,   \* bound: edits and migrations by the operator
  MaxFaults     \* bound: calls the database or the file system refuses

ASSUME BoundsAssumption == MaxVersion \in Nat /\ MaxChanges \in Nat /\ MaxFaults \in Nat

Schema  == [version : 0..MaxVersion, keyless : BOOLEAN, cyclic : BOOLEAN]
Plan    == [version : 0..MaxVersion, pattern : {"none", "other", "matches"}]
NoPlan  == [version |-> 0, pattern |-> "none"]
Config  == {"absent", "invalid", "valid"}

\* Not given; not a URL of a database; this database by a dialect dbmask does not support
\* (mariadb, say); by one of the two it does.
Url     == {"none", "bad", "other", "good"}
Reaches == {"other", "good"}

Commands == {"init", "check", "mask", "pump", "verify"}
Job == [command : Commands,
        secret  : {"bad", "good"},             \* unset or short; at least 32 characters
        url     : Url,
        force   : BOOLEAN,
        dryRun  : BOOLEAN]

Codes == {"E_CONFIG", "E_CONNECT", "E_DRIFT", "E_SAFETY", "E_MASK", "E_INTERNAL"}

VARIABLES
  config,       (* the config file                                             *)
  written,      (* the plan in it                                              *)
  schema,       (* the live schema                                             *)
  bookkeeping,  (* dbmask_audit and dbmask_progress exist                      *)
  pc,           (* what the invocation does next                               *)
  job,          (* its command and options                                     *)
  plan,         (* the plan it loaded                                          *)
  seen,         (* the schema it introspected                                  *)
  loggedIn,     (* it has an engine with a proven connection                   *)
  block,        (* its engine.begin() block: none, open, or committed inside   *)
  exit,         (* "running", "ok" or the code it ended with                   *)
  changes, faults,
  touched,      (* history: what this invocation has written                   *)
  drafted,      (* history: init drafted the config, and neither it nor the    *)
                (* schema has changed since                                    *)
  passed        (* history: the URLs check was clean with, and neither config  *)
                (* nor schema has changed since                                *)

world == <<config, written, schema, bookkeeping>>
vars == <<world, pc, job, plan, seen, loggedIn, block, exit, changes, faults, touched,
          drafted, passed>>

Init ==
  /\ config = "absent" /\ written = NoPlan
  /\ schema \in Schema
  /\ bookkeeping = FALSE
  /\ pc = "idle"
  /\ job \in [command : {"init"}, secret : {"good"}, url : {"good"},
              force : {FALSE}, dryRun : {FALSE}]
  /\ plan = NoPlan
  /\ seen = [version |-> 0, keyless |-> FALSE, cyclic |-> FALSE]
  /\ loggedIn = FALSE /\ block = "none"
  /\ exit = "ok"
  /\ changes = MaxChanges /\ faults = MaxFaults
  /\ touched = {} /\ drafted = FALSE /\ passed = {}

-----------------------------------------------------------------------------
(* How an invocation goes on, and how it ends.                             *)

Go(from, to) == pc = from /\ pc' = to /\ UNCHANGED <<exit, drafted, passed>>

\* A DbmaskError, or the end of the command; engine.dispose() on the way out.
Exit(from, code) ==
  /\ pc = from /\ pc' = "idle"
  /\ exit' = code
  /\ loggedIn' = FALSE /\ block' = "none"
  /\ passed' = IF /\ job.command = "check" /\ code = "ok"
                  /\ config = "valid" /\ plan = written /\ seen = schema
               THEN passed \cup {job.url}
               ELSE passed
  /\ UNCHANGED drafted

Quiet == UNCHANGED <<world, job, plan, seen, changes, touched>>

Fault == faults > 0 /\ faults' = faults - 1

-----------------------------------------------------------------------------
(* The operator.                                                           *)

Invoke(j) ==
  /\ pc = "idle" /\ pc' = IF j.command = "init" THEN "url" ELSE "config"
  /\ job' = j
  /\ j.force => j.command = "init"
  /\ j.dryRun => j.command = "mask"
  /\ exit' = "running"
  /\ touched' = {}
  /\ plan' = NoPlan
  /\ UNCHANGED <<world, seen, loggedIn, block, changes, faults, drafted, passed>>

EditConfig ==
  /\ changes > 0 /\ changes' = changes - 1
  /\ \/ config' \in {"absent", "invalid"} /\ written' = NoPlan
     \/ config' = "valid" /\ written' \in Plan
  /\ <<config', written'>> # <<config, written>>
  /\ drafted' = FALSE /\ passed' = {}
  /\ UNCHANGED <<schema, bookkeeping, pc, job, plan, seen, loggedIn, block, exit, faults, touched>>

Migrate ==
  /\ changes > 0 /\ changes' = changes - 1
  /\ schema' \in Schema \ {schema}
  /\ drafted' = FALSE /\ passed' = {}
  /\ UNCHANGED <<config, written, bookkeeping, pc, job, plan, seen, loggedIn, block, exit,
                 faults, touched>>

-----------------------------------------------------------------------------
(* Before a connection: config, secret, URL and the name of the database.  *)

LoadPlan ==
  /\ \/ config = "valid" /\ Go("config", "secret") /\ plan' = written /\ UNCHANGED <<loggedIn, block>>
     \/ config # "valid" /\ Exit("config", "E_CONFIG") /\ UNCHANGED plan
  /\ UNCHANGED <<world, job, seen, changes, touched, faults>>

LoadSecret ==
  /\ \/ job.secret = "good" /\ Go("secret", "url") /\ UNCHANGED <<loggedIn, block>>
     \/ job.secret = "bad" /\ Exit("secret", "E_CONFIG")
  /\ Quiet /\ UNCHANGED faults

RequireUrl ==
  /\ \/ /\ job.url = "none"
        /\ Exit("url", "E_CONFIG")
     \/ /\ job.url # "none"
        /\ \/ job.command = "init" /\ Go("url", "connect")
           \/ job.command \in {"check", "mask"} /\ Go("url", "name")
           \/ job.command \in {"pump", "verify"} /\ Go("url", "stub")
        /\ UNCHANGED <<loggedIn, block>>
  /\ Quiet /\ UNCHANGED faults

\* pump and verify are not implemented.
NotImplemented == Exit("stub", "E_INTERNAL") /\ Quiet /\ UNCHANGED faults

\* Mutant: without a pattern, or with another one, the name is let through.
CheckDatabaseName_Warns ==
  /\ \/ job.url = "bad" /\ Exit("name", "E_CONFIG")
     \/ /\ job.url \in Reaches
        /\ Go("name", IF job.command = "mask" /\ ~job.dryRun THEN "begin" ELSE "connect")
        /\ UNCHANGED <<loggedIn, block>>
  /\ Quiet /\ UNCHANGED faults

\* database_name, then check_database_name.
CheckDatabaseName ==
  /\ \/ (job.url = "bad" \/ plan.pattern = "none") /\ Exit("name", "E_CONFIG")
     \/ job.url \in Reaches /\ plan.pattern = "other" /\ Exit("name", "E_SAFETY")
     \/ /\ job.url \in Reaches /\ plan.pattern = "matches"
        /\ Go("name", IF job.command = "mask" /\ ~job.dryRun THEN "begin" ELSE "connect")
        /\ UNCHANGED <<loggedIn, block>>
  /\ Quiet /\ UNCHANGED faults

-----------------------------------------------------------------------------
(* read_schema, for init, check and the dry run.                           *)

Connect ==
  /\ pc = "connect"
  /\ \/ /\ job.url \in Reaches
        /\ Go("connect", "introspect") /\ loggedIn' = TRUE
        /\ UNCHANGED <<block, faults>>
     \/ /\ job.url = "bad" /\ UNCHANGED faults
        /\ Exit("connect", "E_CONNECT")
     \/ Fault /\ Exit("connect", "E_CONNECT")
  /\ Quiet

\* Without tables there is nothing to configure; the engine is disposed of in any case.
ReadSchema ==
  /\ pc = "introspect"
  /\ \/ /\ schema.version > 0
        /\ Go("introspect", IF job.command = "init" THEN "write" ELSE "findings")
        /\ seen' = schema
        /\ loggedIn' = FALSE
        /\ UNCHANGED <<block, faults>>
     \/ schema.version = 0 /\ Exit("introspect", "E_CONFIG") /\ UNCHANGED <<seen, faults>>
     \/ Fault /\ Exit("introspect", "E_CONNECT") /\ UNCHANGED seen
  /\ UNCHANGED <<world, job, plan, changes, touched>>

\* Mutant: check looks for what hinders pump only.
Findings_CheckAsPump(mode, live) ==
  \/ plan.version # live.version
  \/ mode = "mask" /\ live.keyless
  \/ mode \in {"pump", "all"} /\ live.cyclic

\* find_findings, reported or not.
Findings(mode, live) ==
  \/ plan.version # live.version
  \/ mode \in {"mask", "all"} /\ live.keyless
  \/ mode \in {"pump", "all"} /\ live.cyclic

Check ==
  /\ job.command = "check"
  /\ \/ Findings("all", seen) /\ Exit("findings", "E_DRIFT")
     \/ ~Findings("all", seen) /\ Exit("findings", "ok")
  /\ Quiet /\ UNCHANGED faults

\* After the plan is printed the command goes on with the real run.
DryRun ==
  /\ job.command = "mask"
  /\ \/ Findings("mask", seen) /\ Exit("findings", "E_DRIFT")
     \/ ~Findings("mask", seen) /\ Go("findings", "begin") /\ UNCHANGED <<loggedIn, block>>
  /\ Quiet /\ UNCHANGED faults

\* write_config looks for the file first.
ConfigExists ==
  /\ \/ /\ config # "absent" /\ ~job.force
        /\ Exit("write", "E_CONFIG")
     \/ /\ config = "absent" \/ job.force
        /\ Go("write", "replace") /\ UNCHANGED <<loggedIn, block>>
  /\ Quiet /\ UNCHANGED faults

\* Mutant: the name of the database is not escaped but dropped.
Draft_EmptyPattern == [version |-> seen.version, pattern |-> ""]

\* Mutant: the pattern is left to the operator.
Draft_NoPattern == [version |-> seen.version, pattern |-> "none"]

\* render_config: every column of the schema, and a pattern this database's name matches.
Draft == [version |-> seen.version, pattern |-> "matches"]

\* The temporary file is written and renamed over the config, whatever is there by now.
ReplaceConfig ==
  \/ /\ Fault
     /\ Exit("replace", "E_CONFIG")
     /\ Quiet
  \/ /\ pc = "replace" /\ pc' = "idle" /\ exit' = "ok"
     /\ config' = "valid" /\ written' = Draft
     /\ touched' = touched \cup {"config"}
     /\ drafted' = (seen = schema)
     /\ passed' = IF <<config, written>> = <<"valid", Draft>> THEN passed ELSE {}
     /\ UNCHANGED <<schema, bookkeeping, job, plan, seen, loggedIn, block, changes, faults>>

-----------------------------------------------------------------------------
(* mask: a connection, engine.begin(), preflight, mask_plan.               *)

Begin ==
  /\ \/ Go("begin", "preflight") /\ loggedIn' = TRUE /\ block' = "open" /\ UNCHANGED faults
     \/ Fault /\ Exit("begin", "E_CONNECT")
  /\ Quiet

\* Mutant: the bookkeeping tables are looked for, and made, before the findings are.
Preflight_AfterTables ==
  /\ pc = "preflight"
  /\ \/ /\ seen' = schema
        /\ \/ Findings("mask", schema) /\ Exit("preflight", "E_DRIFT")
           \/ ~Findings("mask", schema) /\ Go("preflight", "mask_plan") /\ UNCHANGED <<loggedIn, block>>
        /\ UNCHANGED faults
     \/ Fault /\ Exit("preflight", "E_CONNECT") /\ UNCHANGED seen
  /\ bookkeeping' = TRUE
  /\ touched' = IF bookkeeping THEN touched ELSE touched \cup {"bookkeeping"}
  /\ UNCHANGED <<config, written, schema, job, plan, changes>>

\* The schema is introspected anew; find_findings decides on what it sees.
Preflight ==
  /\ pc = "preflight"
  /\ \/ /\ seen' = schema
        /\ \/ Findings("mask", schema) /\ Exit("preflight", "E_DRIFT")
           \/ ~Findings("mask", schema) /\ Go("preflight", "mask_plan") /\ UNCHANGED <<loggedIn, block>>
        /\ UNCHANGED faults
     \/ Fault /\ Exit("preflight", "E_CONNECT") /\ UNCHANGED seen
  /\ UNCHANGED <<world, job, plan, changes, touched>>

\* mask_plan begins with require_supported: before its first statement, after the preflight.
RequireSupported ==
  /\ \/ job.url = "other" /\ Exit("mask_plan", "E_CONFIG")
     \/ job.url # "other" /\ Go("mask_plan", "ensure") /\ UNCHANGED <<loggedIn, block>>
  /\ Quiet /\ UNCHANGED faults

BookkeepingMade ==
  /\ bookkeeping' = TRUE
  /\ touched' = IF bookkeeping THEN touched ELSE touched \cup {"bookkeeping"}

\* ensure_tables and the commit after it, which ends the begin() block from inside.  A
\* refused CREATE TABLE may come after one MySQL has committed.
EnsureTables ==
  /\ \/ /\ Go("ensure", "guards")
        /\ BookkeepingMade
        /\ block' = "committed" /\ UNCHANGED <<loggedIn, faults>>
     \/ /\ Fault
        /\ \E code \in {"E_MASK", "E_INTERNAL"} : Exit("ensure", code)
        /\ BookkeepingMade \/ UNCHANGED <<bookkeeping, touched>>
  /\ UNCHANGED <<config, written, schema, job, plan, seen, changes>>

\* The next statement, a guard's select: SQLAlchemy takes none in a block that has ended
\* before the with statement does, and _guard makes E_MASK of its InvalidRequestError.
Guards ==
  /\ block = "committed"
  /\ Exit("guards", "E_MASK")
  /\ Quiet /\ UNCHANGED faults

-----------------------------------------------------------------------------

Command == \/ LoadPlan \/ LoadSecret \/ RequireUrl \/ NotImplemented \/ CheckDatabaseName
           \/ Connect \/ ReadSchema \/ Check \/ DryRun \/ ConfigExists \/ ReplaceConfig
           \/ Begin \/ Preflight \/ RequireSupported \/ EnsureTables \/ Guards

Next == \/ \E j \in Job : Invoke(j)
        \/ EditConfig \/ Migrate
        \/ Command

Spec == Init /\ [][Next]_vars

-----------------------------------------------------------------------------

TypeOK ==
  /\ config \in Config /\ written \in Plan /\ (config # "valid" => written = NoPlan)
  /\ schema \in Schema /\ seen \in Schema
  /\ bookkeeping \in BOOLEAN /\ loggedIn \in BOOLEAN
  /\ pc \in {"idle", "config", "secret", "url", "stub", "name", "connect", "introspect", "findings",
            "write", "replace", "begin", "preflight", "mask_plan", "ensure", "guards"}
  /\ job \in Job /\ plan \in Plan
  /\ block \in {"none", "open", "committed"}
  /\ exit \in Codes \cup {"running", "ok"}
  /\ (pc = "idle") = (exit # "running")
  /\ changes \in 0..MaxChanges /\ faults \in 0..MaxFaults
  /\ touched \subseteq {"config", "bookkeeping"}
  /\ drafted \in BOOLEAN /\ passed \subseteq Url

(* check and mask hold a connection only to a database whose name the plan they loaded     *)
(* allows, whatever the operator does to the config meanwhile (check_database_name before  *)
(* read_schema and connect, dry run included).                                             *)
LoginOnlyToMatched ==
  loggedIn /\ job.command \in {"check", "mask"} => plan.pattern = "matches"

(* An invocation that ends with a config, connection, drift or safety error has written    *)
(* neither the config nor a table: what is refused is refused before the first write.      *)
RefusalsLeaveNoTrace ==
  exit \in {"E_CONFIG", "E_CONNECT", "E_DRIFT", "E_SAFETY"} => touched = {}

(* After a clean check, and until config or schema change, a mask with the same secret and *)
(* URL is not stopped by the config, by drift or by the name of the database (find_findings*)
(* with mode "all" covers mode "mask"; both introspect for themselves).  Not claimed of a  *)
(* dialect dbmask does not support, which check accepts and mask_plan refuses.             *)
CheckedMeansPreflight ==
  /\ job.url = "good" /\ job.url \in passed
  /\ job.command = "mask" /\ job.secret = "good"
  => exit \notin {"E_CONFIG", "E_DRIFT", "E_SAFETY"}

(* A config init has drafted names this database and every column, so check finds no drift *)
(* between it and a schema without keyless tables and cycles, and does not refuse its name.*)
DraftFitsDatabase ==
  /\ drafted /\ ~schema.keyless /\ ~schema.cyclic
  /\ job.command = "check" /\ job.secret = "good" /\ job.url \in Reaches
  => exit \notin {"E_CONFIG", "E_DRIFT", "E_SAFETY"}

(* api-contracts.md of --dry-run: "Preflight + plan only; no reads or writes of row data"; *)
(* a dry run leaves nothing behind, the bookkeeping tables included.                       *)
DryRunWritesNothing == job.dryRun => touched = {}

(* api-contracts.md: E_MASK is a write-time failure of a run.  An invocation none of whose *)
(* calls was refused does not end with it.                                                 *)
FailureHasCause == faults = MaxFaults => exit # "E_MASK"
=============================================================================
