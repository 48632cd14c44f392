---------------------------- MODULE MaskCliProofs ----------------------------
(***************************************************************************)
(* What holds of the commands for any number of schema versions, edits,    *)
(* migrations and refused calls.                                           *)
(***************************************************************************)
EXTENDS MaskCli, TLAPS

\* What follows from where an invocation is.
Places ==
  /\ loggedIn <=> pc \in {"introspect", "preflight", "mask_plan", "ensure", "guards"}
  /\ pc \in {"write", "replace"} => job.command = "init"
  /\ pc \in {"begin", "preflight", "mask_plan"} => job.command = "mask"
  /\ pc \in {"findings", "write", "replace"} => seen.version > 0
  /\ pc \notin {"idle", "guards"} => touched = {}
  /\ job.command # "init" /\ pc \in {"connect", "introspect", "findings", "begin", "preflight",
                                     "mask_plan", "ensure", "guards"}
       => plan.pattern = "matches"

\* What is known of a config that init has drafted or check has passed; an invocation that
\* has loaded the plan or read the schema since has those.
KnownIsSo ==
  /\ drafted \/ passed # {} =>
       /\ config = "valid" /\ written.pattern = "matches"
       /\ written.version = schema.version /\ schema.version > 0
       /\ job.command # "init" /\ pc \notin {"idle", "config"} => plan = written
       /\ pc \in {"findings", "write", "replace"} => seen = schema
  /\ passed # {} => ~schema.keyless /\ ~schema.cyclic

CliInv ==
  /\ TypeOK /\ Places /\ KnownIsSo
  /\ LoginOnlyToMatched /\ RefusalsLeaveNoTrace /\ CheckedMeansPreflight /\ DraftFitsDatabase

-----------------------------------------------------------------------------

LEMMA InitCliInv == Init => CliInv
<1> SUFFICES ASSUME Init PROVE CliInv
  OBVIOUS
<1>1. NoPlan \in Plan /\ seen \in Schema
  BY BoundsAssumption DEF Init, Plan, NoPlan, Schema
<1>2. job \in Job /\ job.command = "init"
  BY DEF Init, Job, Url, Commands
<1>3. TypeOK
  <2>1. changes \in 0..MaxChanges /\ faults \in 0..MaxFaults
    BY BoundsAssumption DEF Init
  <2> QED
    BY <1>1, <1>2, <2>1 DEF Init, TypeOK, Config
<1>4. Places /\ KnownIsSo
  BY DEF Init, Places, KnownIsSo
<1>5. LoginOnlyToMatched /\ RefusalsLeaveNoTrace /\ CheckedMeansPreflight /\ DraftFitsDatabase
  BY DEF Init, LoginOnlyToMatched, RefusalsLeaveNoTrace, CheckedMeansPreflight, DraftFitsDatabase
<1> QED
  BY <1>3, <1>4, <1>5 DEF CliInv

LEMMA InvokeKeeps ==
  ASSUME CliInv, NEW j \in Job, Invoke(j)
  PROVE  CliInv'
<1>1. TypeOK'
  <2>1. NoPlan \in Plan
    BY BoundsAssumption DEF Plan, NoPlan
  <2>2. pc' \in {"url", "config"} /\ exit' = "running" /\ job' \in Job /\ plan' = NoPlan
    BY DEF Invoke
  <2> QED
    BY <2>1, <2>2 DEF CliInv, TypeOK, Invoke, world
<1>2. Places' /\ KnownIsSo'
  BY DEF CliInv, TypeOK, Places, KnownIsSo, Invoke, world
<1> QED
  BY <1>1, <1>2
     DEF CliInv, TypeOK, Places, Invoke, LoginOnlyToMatched, RefusalsLeaveNoTrace,
         CheckedMeansPreflight, DraftFitsDatabase, world

LEMMA OperatorKeeps ==
  ASSUME CliInv, EditConfig \/ Migrate
  PROVE  CliInv'
<1>1. CASE EditConfig
  <2>1. TypeOK'
    <3>1. changes' \in 0..MaxChanges
      BY <1>1, BoundsAssumption DEF CliInv, TypeOK, EditConfig
    <3>2. NoPlan \in Plan
      BY BoundsAssumption DEF Plan, NoPlan
    <3> QED
      BY <1>1, <3>1, <3>2 DEF CliInv, TypeOK, EditConfig, Config
  <2> QED
    BY <1>1, <2>1
       DEF CliInv, TypeOK, Places, KnownIsSo, EditConfig, LoginOnlyToMatched,
           RefusalsLeaveNoTrace, CheckedMeansPreflight, DraftFitsDatabase
<1>2. CASE Migrate
  <2>1. TypeOK'
    <3>1. changes' \in 0..MaxChanges
      BY <1>2, BoundsAssumption DEF CliInv, TypeOK, Migrate
    <3> QED
      BY <1>2, <3>1 DEF CliInv, TypeOK, Migrate
  <2> QED
    BY <1>2, <2>1
       DEF CliInv, TypeOK, Places, KnownIsSo, Migrate, LoginOnlyToMatched,
           RefusalsLeaveNoTrace, CheckedMeansPreflight, DraftFitsDatabase
<1> QED
  BY <1>1, <1>2

-----------------------------------------------------------------------------
(* How an invocation ends.                                                 *)

\* An end with an error: none that is claimed to leave no trace where there is one, and none
\* that is excluded after a clean check or a draft.
LEMMA ExitKeeps ==
  ASSUME CliInv, NEW from, NEW code \in Codes, Exit(from, code), from # "idle",
         UNCHANGED <<config, written, schema, job>>, seen' \in Schema, plan' = plan,
         bookkeeping' \in BOOLEAN, touched' \subseteq {"config", "bookkeeping"},
         changes' \in 0..MaxChanges, faults' \in 0..MaxFaults,
         code \in {"E_CONFIG", "E_CONNECT", "E_DRIFT", "E_SAFETY"} => touched' = {},
         /\ job.secret = "good"
         /\ \/ job.url = "good" /\ job.url \in passed /\ job.command = "mask"
            \/ /\ drafted /\ job.url \in Reaches /\ job.command = "check"
               /\ ~schema.keyless /\ ~schema.cyclic
         => code \notin {"E_CONFIG", "E_DRIFT", "E_SAFETY"}
  PROVE  CliInv'
<1>1. pc' = "idle" /\ exit' = code /\ loggedIn' = FALSE /\ block' = "none" 
        /\ passed' = passed /\ drafted' = drafted
  BY DEF Exit, Codes
<1>2. TypeOK'
  <2>1. code # "running" /\ code \in Codes \cup {"running", "ok"}
    BY DEF Codes
  <2>2. (pc' = "idle") = (exit' # "running")
    BY <1>1, <2>1
  <2>3. /\ config' = config /\ written' = written /\ schema' = schema /\ job' = job
        /\ passed \subseteq Url /\ drafted \in BOOLEAN
    BY DEF CliInv, TypeOK
  <2> QED
    BY <1>1, <2>1, <2>2, <2>3 DEF CliInv, TypeOK
<1>3. Places'
  BY <1>1 DEF Places
<1>4. KnownIsSo'
  BY <1>1 DEF CliInv, KnownIsSo
<1>5. LoginOnlyToMatched' /\ RefusalsLeaveNoTrace'
  BY <1>1 DEF LoginOnlyToMatched, RefusalsLeaveNoTrace
<1>6. CheckedMeansPreflight'
  BY <1>1 DEF CheckedMeansPreflight
<1>7. DraftFitsDatabase'
  BY <1>1 DEF DraftFitsDatabase
<1> QED
  BY <1>2, <1>3, <1>4, <1>5, <1>6, <1>7 DEF CliInv

\* An invocation that goes on has not ended.
LEMMA RunningKeeps ==
  ASSUME CliInv, exit' = exit, pc # "idle", TypeOK', Places', KnownIsSo'
  PROVE  CliInv'
<1>1. exit' = "running"
  BY DEF CliInv, TypeOK
<1>2. LoginOnlyToMatched'
  BY DEF Places, TypeOK, LoginOnlyToMatched
<1> QED
  BY <1>1, <1>2 DEF CliInv, RefusalsLeaveNoTrace, CheckedMeansPreflight, DraftFitsDatabase

LEMMA FaultType == ASSUME TypeOK, Fault PROVE faults' \in 0..MaxFaults
BY BoundsAssumption DEF TypeOK, Fault

LEMMA LoadPlanKeeps == ASSUME CliInv, LoadPlan PROVE CliInv'
<1>1. CASE config = "valid" /\ Go("config", "secret") /\ plan' = written /\ UNCHANGED <<loggedIn, block>>
  <2>1. TypeOK'
    BY <1>1 DEF CliInv, TypeOK, LoadPlan, Go, world
  <2>2. Places' /\ KnownIsSo'
    BY <1>1 DEF CliInv, Places, KnownIsSo, LoadPlan, Go, world
  <2> QED
    BY <1>1, <2>1, <2>2, RunningKeeps DEF Go
<1>2. CASE config # "valid" /\ Exit("config", "E_CONFIG") /\ UNCHANGED plan
  <2>1. ~drafted /\ passed = {} /\ touched = {}
    BY <1>2 DEF CliInv, TypeOK, Places, KnownIsSo, Exit
  <2> QED
    BY <1>2, <2>1, ExitKeeps DEF LoadPlan, CliInv, TypeOK, Codes, world
<1> QED
  BY <1>1, <1>2 DEF LoadPlan

LEMMA LoadSecretKeeps == ASSUME CliInv, LoadSecret PROVE CliInv'
<1>1. CASE job.secret = "good" /\ Go("secret", "url") /\ UNCHANGED <<loggedIn, block>>
  <2>1. TypeOK'
    BY <1>1 DEF CliInv, TypeOK, LoadSecret, Go, Quiet, world
  <2>2. Places' /\ KnownIsSo'
    BY <1>1 DEF CliInv, Places, KnownIsSo, LoadSecret, Go, Quiet, world
  <2> QED
    BY <1>1, <2>1, <2>2, RunningKeeps DEF Go
<1>2. CASE job.secret = "bad" /\ Exit("secret", "E_CONFIG")
  <2>1. touched = {}
    BY <1>2 DEF CliInv, Places, Exit
  <2> QED
    BY <1>2, <2>1, ExitKeeps DEF LoadSecret, Quiet, CliInv, TypeOK, Codes, world
<1> QED
  BY <1>1, <1>2 DEF LoadSecret

LEMMA RequireUrlKeeps == ASSUME CliInv, RequireUrl PROVE CliInv'
<1>1. CASE job.url = "none" /\ Exit("url", "E_CONFIG")
  <2>1. touched = {}
    BY <1>1 DEF CliInv, Places, Exit
  <2> QED
    BY <1>1, <2>1, ExitKeeps DEF RequireUrl, Reaches, Quiet, CliInv, TypeOK, Codes, world
<1>2. ASSUME NEW to \in {"connect", "name", "stub"}, Go("url", to),
             to = "connect" => job.command = "init", UNCHANGED <<loggedIn, block>>
      PROVE  CliInv'
  <2>1. TypeOK'
    BY <1>2 DEF CliInv, TypeOK, RequireUrl, Go, Quiet, world
  <2>2. Places' /\ KnownIsSo'
    BY <1>2 DEF CliInv, Places, KnownIsSo, RequireUrl, Go, Quiet, world
  <2> QED
    BY <1>2, <2>1, <2>2, RunningKeeps DEF Go
<1> QED
  BY <1>1, <1>2 DEF RequireUrl

LEMMA NotImplementedKeeps == ASSUME CliInv, NotImplemented PROVE CliInv'
<1>1. touched = {}
  BY DEF CliInv, Places, NotImplemented, Exit
<1> QED
  BY <1>1, ExitKeeps DEF NotImplemented, Quiet, CliInv, TypeOK, Codes, world

LEMMA CheckDatabaseNameKeeps == ASSUME CliInv, CheckDatabaseName PROVE CliInv'
<1>1. ASSUME NEW code \in {"E_CONFIG", "E_SAFETY"}, Exit("name", code),
             job.url = "bad" \/ plan.pattern # "matches"
      PROVE  CliInv'
  <2>1. touched = {}
    BY <1>1 DEF CliInv, Places, Exit
  <2>2. (drafted \/ passed # {}) /\ job.command # "init" => plan.pattern = "matches"
    BY <1>1 DEF CliInv, KnownIsSo, Exit
  <2> QED
    BY <1>1, <2>1, <2>2, ExitKeeps
       DEF CheckDatabaseName, Reaches, Quiet, CliInv, TypeOK, Codes, world
<1>2. ASSUME NEW to \in {"begin", "connect"}, Go("name", to),
             to = "begin" => job.command = "mask",
             plan.pattern = "matches", UNCHANGED <<loggedIn, block>>
      PROVE  CliInv'
  <2>1. TypeOK'
    BY <1>2 DEF CliInv, TypeOK, CheckDatabaseName, Go, Quiet, world
  <2>2. Places' /\ KnownIsSo'
    BY <1>2 DEF CliInv, Places, KnownIsSo, CheckDatabaseName, Go, Quiet, world
  <2> QED
    BY <1>2, <2>1, <2>2, RunningKeeps DEF Go
<1> QED
  BY <1>1, <1>2 DEF CheckDatabaseName

LEMMA ConnectKeeps == ASSUME CliInv, Connect PROVE CliInv'
<1>1. CASE Go("connect", "introspect") /\ loggedIn' = TRUE /\ UNCHANGED <<block, faults>>
  <2>1. TypeOK'
    BY <1>1 DEF CliInv, TypeOK, Connect, Go, Quiet, world
  <2>2. Places' /\ KnownIsSo'
    BY <1>1 DEF CliInv, Places, KnownIsSo, Connect, Go, Quiet, world
  <2> QED
    BY <1>1, <2>1, <2>2, RunningKeeps DEF Go
<1>2. CASE Exit("connect", "E_CONNECT") /\ faults' \in 0..MaxFaults
  <2>1. touched = {}
    BY <1>2 DEF CliInv, Places, Exit
  <2> QED
    BY <1>2, <2>1, ExitKeeps DEF Connect, Quiet, CliInv, TypeOK, Codes, world
<1> QED
  BY <1>1, <1>2, FaultType DEF Connect, CliInv, TypeOK

LEMMA ReadSchemaKeeps == ASSUME CliInv, ReadSchema PROVE CliInv'
<1>1. ASSUME NEW to \in {"write", "findings"}, to = "write" <=> job.command = "init",
             schema.version > 0, Go("introspect", to), seen' = schema,
             loggedIn' = FALSE, UNCHANGED <<block, faults>>
      PROVE  CliInv'
  <2>1. TypeOK'
    BY <1>1 DEF CliInv, TypeOK, ReadSchema, Go, world
  <2>2. Places' /\ KnownIsSo'
    BY <1>1 DEF CliInv, Places, KnownIsSo, ReadSchema, Go, world
  <2> QED
    BY <1>1, <2>1, <2>2, RunningKeeps DEF Go
<1>2. CASE schema.version = 0 /\ Exit("introspect", "E_CONFIG") /\ UNCHANGED <<seen, faults>>
  <2>1. touched = {} /\ ~drafted /\ passed = {}
    BY <1>2 DEF CliInv, TypeOK, Places, KnownIsSo, Exit
  <2> QED
    BY <1>2, <2>1, ExitKeeps DEF ReadSchema, CliInv, TypeOK, Codes, world
<1>3. CASE Fault /\ Exit("introspect", "E_CONNECT") /\ UNCHANGED seen
  <2>1. touched = {}
    BY <1>3 DEF CliInv, Places, Exit
  <2> QED
    BY <1>3, <2>1, FaultType, ExitKeeps DEF ReadSchema, CliInv, TypeOK, Codes, world
<1> QED
  BY <1>1, <1>2, <1>3 DEF ReadSchema

\* A clean check adds to what is known.
LEMMA CheckKeeps == ASSUME CliInv, Check PROVE CliInv'
<1>1. CASE Findings("all", seen) /\ Exit("findings", "E_DRIFT")
  <2>1. touched = {}
    BY <1>1 DEF CliInv, Places, Exit
  <2>2. drafted \/ passed # {} => schema.keyless \/ schema.cyclic
    BY <1>1 DEF Check, CliInv, KnownIsSo, Exit, Findings
  <2> QED
    BY <1>1, <2>1, <2>2, ExitKeeps DEF Check, Quiet, CliInv, TypeOK, Codes, world
<1>2. CASE ~Findings("all", seen) /\ Exit("findings", "ok")
  <2>1. /\ pc = "findings" /\ pc' = "idle" /\ exit' = "ok" /\ ~loggedIn' /\ block' = "none"
        /\ UNCHANGED <<config, written, schema, job, plan, touched>>
    BY <1>2 DEF Check, Exit, Quiet, world
  <2>2. TypeOK'
    <3>1. passed' \subseteq Url /\ drafted' = drafted
      BY <1>2 DEF CliInv, TypeOK, Job, Exit
    <3> QED
      BY <1>2, <3>1 DEF CliInv, TypeOK, Check, Exit, Quiet, world
  <2>3. plan.version = seen.version /\ ~seen.keyless /\ ~seen.cyclic /\ seen.version > 0
        /\ plan.pattern = "matches"
    BY <1>2, <2>1 DEF Check, CliInv, TypeOK, Schema, Places, Findings
  <2>4. KnownIsSo'
    <3>1. CASE config = "valid" /\ plan = written /\ seen = schema
      BY <2>1, <2>3, <3>1 DEF KnownIsSo
    <3>2. CASE ~(config = "valid" /\ plan = written /\ seen = schema)
      <4>1. passed' = passed /\ drafted' = drafted
        BY <1>2, <3>2 DEF Exit
      <4> QED
        BY <2>1, <4>1 DEF CliInv, KnownIsSo
    <3> QED
      BY <3>1, <3>2
  <2> QED
    BY <2>1, <2>2, <2>4
       DEF CliInv, Places, LoginOnlyToMatched, RefusalsLeaveNoTrace, CheckedMeansPreflight,
           DraftFitsDatabase
<1> QED
  BY <1>1, <1>2 DEF Check

LEMMA DryRunKeeps == ASSUME CliInv, DryRun PROVE CliInv'
<1>1. CASE Findings("mask", seen) /\ Exit("findings", "E_DRIFT")
  <2>1. touched = {}
    BY <1>1 DEF CliInv, Places, Exit
  <2>2. passed = {} /\ (drafted => schema.keyless)
    BY <1>1 DEF DryRun, CliInv, KnownIsSo, Exit, Findings
  <2> QED
    BY <1>1, <2>1, <2>2, ExitKeeps DEF DryRun, Quiet, CliInv, TypeOK, Codes, world
<1>2. CASE Go("findings", "begin") /\ UNCHANGED <<loggedIn, block>>
  <2>1. TypeOK'
    BY <1>2 DEF CliInv, TypeOK, DryRun, Go, Quiet, world
  <2>2. Places' /\ KnownIsSo'
    BY <1>2 DEF CliInv, Places, KnownIsSo, DryRun, Go, Quiet, world
  <2> QED
    BY <1>2, <2>1, <2>2, RunningKeeps DEF Go
<1> QED
  BY <1>1, <1>2 DEF DryRun

LEMMA ConfigExistsKeeps == ASSUME CliInv, ConfigExists PROVE CliInv'
<1>1. CASE Exit("write", "E_CONFIG")
  <2>1. touched = {} /\ job.command = "init"
    BY <1>1 DEF CliInv, Places, Exit
  <2> QED
    BY <1>1, <2>1, ExitKeeps DEF ConfigExists, Quiet, CliInv, TypeOK, Codes, world
<1>2. CASE Go("write", "replace") /\ UNCHANGED <<loggedIn, block>>
  <2>1. TypeOK'
    BY <1>2 DEF CliInv, TypeOK, ConfigExists, Go, Quiet, world
  <2>2. Places' /\ KnownIsSo'
    BY <1>2 DEF CliInv, Places, KnownIsSo, ConfigExists, Go, Quiet, world
  <2> QED
    BY <1>2, <2>1, <2>2, RunningKeeps DEF Go
<1> QED
  BY <1>1, <1>2 DEF ConfigExists

\* What init has drafted is known from then on; what was is still, if the draft is the same.
LEMMA ReplaceConfigKeeps == ASSUME CliInv, ReplaceConfig PROVE CliInv'
<1>1. CASE Fault /\ Exit("replace", "E_CONFIG") /\ Quiet
  <2>1. touched = {} /\ job.command = "init"
    BY <1>1 DEF CliInv, Places, Exit
  <2> QED
    BY <1>1, <2>1, FaultType, ExitKeeps DEF Quiet, CliInv, TypeOK, Codes, world
<1>2. CASE /\ pc = "replace" /\ pc' = "idle" /\ exit' = "ok"
           /\ config' = "valid" /\ written' = Draft
           /\ touched' = touched \cup {"config"}
           /\ drafted' = (seen = schema)
           /\ passed' = IF <<config, written>> = <<"valid", Draft>> THEN passed ELSE {}
           /\ UNCHANGED <<schema, bookkeeping, job, plan, seen, loggedIn, block, changes, faults>>
  <2>1. job.command = "init" /\ seen.version > 0 /\ ~loggedIn
    BY <1>2 DEF CliInv, TypeOK, Places
  <2>2. Draft \in Plan /\ Draft.version = seen.version /\ Draft.pattern = "matches"
    BY DEF Draft, CliInv, TypeOK, Schema, Plan
  <2>3. passed' \subseteq passed /\ (passed # {} => seen = schema)
    BY <1>2 DEF CliInv, KnownIsSo
  <2>4. TypeOK'
    BY <1>2, <2>2, <2>3 DEF CliInv, TypeOK, Config
  <2>5. KnownIsSo'
    BY <1>2, <2>1, <2>2, <2>3 DEF CliInv, KnownIsSo
  <2>6. Places'
    BY <1>2, <2>1 DEF Places
  <2> QED
    BY <1>2, <2>1, <2>4, <2>5, <2>6
       DEF CliInv, LoginOnlyToMatched, RefusalsLeaveNoTrace, CheckedMeansPreflight, DraftFitsDatabase
<1> QED
  BY <1>1, <1>2 DEF ReplaceConfig

LEMMA BeginKeeps == ASSUME CliInv, Begin PROVE CliInv'
<1>1. CASE Go("begin", "preflight") /\ loggedIn' = TRUE /\ block' = "open" /\ UNCHANGED faults
  <2>1. TypeOK'
    BY <1>1 DEF CliInv, TypeOK, Begin, Go, Quiet, world
  <2>2. Places' /\ KnownIsSo'
    BY <1>1 DEF CliInv, Places, KnownIsSo, Begin, Go, Quiet, world
  <2> QED
    BY <1>1, <2>1, <2>2, RunningKeeps DEF Go
<1>2. CASE Fault /\ Exit("begin", "E_CONNECT")
  <2>1. touched = {}
    BY <1>2 DEF CliInv, Places, Exit
  <2> QED
    BY <1>2, <2>1, FaultType, ExitKeeps DEF Begin, Quiet, CliInv, TypeOK, Codes, world
<1> QED
  BY <1>1, <1>2 DEF Begin

LEMMA PreflightKeeps == ASSUME CliInv, Preflight PROVE CliInv'
<1>1. CASE seen' = schema /\ Findings("mask", schema) /\ Exit("preflight", "E_DRIFT") /\ UNCHANGED faults
  <2>1. touched = {}
    BY <1>1 DEF CliInv, Places, Exit
  <2>2. job.command # "init" => passed = {} /\ (drafted => schema.keyless)
    BY <1>1 DEF CliInv, KnownIsSo, Exit, Findings
  <2> QED
    BY <1>1, <2>1, <2>2, ExitKeeps DEF Preflight, CliInv, TypeOK, Codes, world
<1>2. CASE seen' = schema /\ Go("preflight", "mask_plan") /\ UNCHANGED <<loggedIn, block, faults>>
  <2>1. TypeOK'
    BY <1>2 DEF CliInv, TypeOK, Preflight, Go, world
  <2>2. Places' /\ KnownIsSo'
    BY <1>2 DEF CliInv, Places, KnownIsSo, Preflight, Go, world
  <2> QED
    BY <1>2, <2>1, <2>2, RunningKeeps DEF Go
<1>3. CASE Fault /\ Exit("preflight", "E_CONNECT") /\ UNCHANGED seen
  <2>1. touched = {}
    BY <1>3 DEF CliInv, Places, Exit
  <2> QED
    BY <1>3, <2>1, FaultType, ExitKeeps DEF Preflight, CliInv, TypeOK, Codes, world
<1> QED
  BY <1>1, <1>2, <1>3 DEF Preflight

\* A dialect dbmask does not support is refused although a check by its URL was clean.
LEMMA RequireSupportedKeeps == ASSUME CliInv, RequireSupported PROVE CliInv'
<1>1. CASE job.url = "other" /\ Exit("mask_plan", "E_CONFIG")
  <2>1. touched = {} /\ job.command # "check"
    BY <1>1 DEF CliInv, TypeOK, Places, Exit
  <2> QED
    BY <1>1, <2>1, ExitKeeps DEF RequireSupported, Quiet, CliInv, TypeOK, Codes, world
<1>2. CASE Go("mask_plan", "ensure") /\ UNCHANGED <<loggedIn, block>>
  <2>1. TypeOK'
    BY <1>2 DEF CliInv, TypeOK, RequireSupported, Go, Quiet, world
  <2>2. Places' /\ KnownIsSo'
    BY <1>2 DEF CliInv, Places, KnownIsSo, RequireSupported, Go, Quiet, world
  <2> QED
    BY <1>2, <2>1, <2>2, RunningKeeps DEF Go
<1> QED
  BY <1>1, <1>2 DEF RequireSupported

\* From here on there is something to leave behind.
LEMMA EnsureTablesKeeps == ASSUME CliInv, EnsureTables PROVE CliInv'
<1>1. bookkeeping' \in BOOLEAN /\ touched' \subseteq {"config", "bookkeeping"}
  BY DEF EnsureTables, BookkeepingMade, CliInv, TypeOK
<1>2. CASE Go("ensure", "guards") /\ block' = "committed" /\ UNCHANGED <<loggedIn, faults>>
  <2>1. TypeOK'
    BY <1>1, <1>2 DEF CliInv, TypeOK, EnsureTables, Go
  <2>2. Places' /\ KnownIsSo'
    BY <1>2 DEF CliInv, Places, KnownIsSo, EnsureTables, Go
  <2> QED
    BY <1>2, <2>1, <2>2, RunningKeeps DEF Go
<1>3. ASSUME NEW code \in {"E_MASK", "E_INTERNAL"}, Fault, Exit("ensure", code)
      PROVE  CliInv'
  BY <1>1, <1>3, FaultType, ExitKeeps DEF EnsureTables, CliInv, TypeOK, Codes
<1> QED
  BY <1>2, <1>3 DEF EnsureTables

LEMMA GuardsKeeps == ASSUME CliInv, Guards PROVE CliInv'
BY ExitKeeps DEF Guards, Quiet, CliInv, TypeOK, Codes, world

LEMMA CliInvHolds == Spec => []CliInv
<1>1. ASSUME CliInv, [Next]_vars PROVE CliInv'
  <2>1. CASE UNCHANGED vars
    BY <1>1, <2>1
       DEF vars, world, CliInv, TypeOK, Places, KnownIsSo, LoginOnlyToMatched,
           RefusalsLeaveNoTrace, CheckedMeansPreflight, DraftFitsDatabase
  <2>2. CASE Command
    BY <1>1, <2>2, LoadPlanKeeps, LoadSecretKeeps, RequireUrlKeeps, NotImplementedKeeps,
       CheckDatabaseNameKeeps, ConnectKeeps, ReadSchemaKeeps, CheckKeeps, DryRunKeeps,
       ConfigExistsKeeps, ReplaceConfigKeeps, BeginKeeps, PreflightKeeps, RequireSupportedKeeps,
       EnsureTablesKeeps, GuardsKeeps DEF Command
  <2> QED
    BY <1>1, <2>1, <2>2, InvokeKeeps, OperatorKeeps DEF Next
<1>2. CliInv /\ [Next]_vars => CliInv'
  BY <1>1
<1> QED
  BY <1>2, InitCliInv, PTL DEF Spec

-----------------------------------------------------------------------------
(* The theorems.                                                           *)

\* The variables have their types through any sequence of invocations, edits, migrations
\* and refused calls.
THEOREM CliTypeCorrect == Spec => []TypeOK
<1>1. CliInv => TypeOK
  BY DEF CliInv
<1> QED
  BY <1>1, CliInvHolds, PTL

\* check and mask hold a connection to no database but one whose name the plan they loaded
\* allows, also while the config is edited.
THEOREM LoginsMatched == Spec => []LoginOnlyToMatched
<1>1. CliInv => LoginOnlyToMatched
  BY DEF CliInv
<1> QED
  BY <1>1, CliInvHolds, PTL

\* An invocation that is refused before a run has written neither config nor tables.
THEOREM NoTraceLeft == Spec => []RefusalsLeaveNoTrace
<1>1. CliInv => RefusalsLeaveNoTrace
  BY DEF CliInv
<1> QED
  BY <1>1, CliInvHolds, PTL

\* A clean check holds for the mask by the same URL after it, as long as config and schema
\* stay, except for a dialect dbmask does not support: mask_plan alone asks for that.
THEOREM CheckedHolds == Spec => []CheckedMeansPreflight
<1>1. CliInv => CheckedMeansPreflight
  BY DEF CliInv
<1> QED
  BY <1>1, CliInvHolds, PTL

\* What init drafts, check does not refuse, as long as config and schema stay.
THEOREM DraftHolds == Spec => []DraftFitsDatabase
<1>1. CliInv => DraftFitsDatabase
  BY DEF CliInv
<1> QED
  BY <1>1, CliInvHolds, PTL
=============================================================================
