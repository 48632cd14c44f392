--------------------------- MODULE StrategyEngine ---------------------------
(***************************************************************************)
(* strategies.StrategyEngine: the cells of some columns are masked one     *)
(* after the other, in any order, through one value cache and one Faker    *)
(* instance, by an engine that a restarted dbmask constructs anew.         *)
(*                                                                         *)
(* HMAC-SHA256 is taken to be injective, in the 48 bits of the unique      *)
(* suffix as well: a digest is the message it was taken over.  What Faker  *)
(* makes of a seed is any function whatever, and several seeds may give    *)
(* the same value.  A masked value is the tuple of what it is put together *)
(* from.                                                                   *)
(***************************************************************************)
EXTENDS Integers, Sequences, FiniteSets

CONSTANTS
  Rule,        (* the ColumnRule of each column                                *)
  Cells,       (* columns with the rows of their tables                        *)
  Texts,       (* what a cell may hold, besides NULL                           *)
  Folded,      (* value.strip().lower()                                        *)
  Sources,     (* what the cells may hold to begin with                        *)
  Fakes,       (* what a Faker provider may return                             *)
  Fakers,      (* the functions from seeds to these that a provider may be     *)
  CacheSizes,  (* values of settings.cache_size                                *)
  NULL,
  MaxRestarts  (* bound: engines constructed after the first                   *)

Columns == DOMAIN Rule
Providers == {"fake_email", "fake_name"}    \* fake_phone, fake_address: as fake_name
Strategies == Providers \cup {"keep", "null", "template", "redact", "hash"}

ASSUME RuleAssumption ==
  \A c \in Columns : /\ Rule[c].strategy \in Strategies
                     /\ Rule[c].unique \in BOOLEAN
                     /\ Rule[c].template \in Columns  \* the column a template reads
CacheKey == Providers \X Texts
Entry == [key : CacheKey, fake : Fakes]

ASSUME CellsAssumption ==
  \A x \in Cells : /\ x[1] \in Columns
                   /\ Rule[x[1]].strategy = "template" => <<Rule[x[1]].template, x[2]>> \in Cells
ASSUME TextsAssumption == /\ Texts # {} /\ NULL \notin Texts
                          /\ Folded \in [Texts -> Texts]
ASSUME InputsAssumption == /\ Sources \subseteq [Cells -> Texts \cup {NULL}]
                           /\ Fakers \subseteq [CacheKey -> Fakes]
ASSUME BoundsAssumption == CacheSizes \subseteq Nat /\ MaxRestarts \in Nat

VARIABLES
  source,    (* the cells as they were                                         *)
  masked,    (* the cells masked so far: at most one value each                *)
  faker,     (* what the providers return for a seed                           *)
  seed,      (* state of the shared Faker instance: the digest last seeded     *)
  cache,     (* the OrderedDict, least recently used first                     *)
  capacity,  (* cache_size of this engine                                      *)
  restarts   (* engines that may still be constructed                          *)

inputs == <<source, faker>>
vars == <<source, masked, faker, seed, cache, capacity, restarts>>

Init ==
  /\ source \in Sources
  /\ faker \in Fakers
  /\ masked = [x \in Cells |-> {}]
  /\ seed = CHOOSE d \in CacheKey : TRUE
  /\ cache = <<>>
  /\ capacity \in CacheSizes
  /\ restarts = MaxRestarts

-----------------------------------------------------------------------------
(* The pure part.                                                          *)

RuleOf(x) == Rule[x[1]]

\* Mutant: addresses that differ in case only are different addresses.
Normalize_Exact(family, text) == text

Normalize(family, text) == IF family = "fake_email" THEN Folded[text] ELSE text

Digest(x) == <<RuleOf(x).strategy, Normalize(RuleOf(x).strategy, source[x])>>

\* Mutant: the suffix is left out.
Suffixed_Never(x, value) == value

\* apply_unique_suffix, wherever the suffix is put.
Suffixed(x, value) == IF RuleOf(x).unique THEN value \o <<Digest(x)>> ELSE value

\* NULL passes through every strategy, and "null" makes everything NULL.
PassesThrough(x) == RuleOf(x).strategy \in {"keep", "null"} \/ source[x] = NULL

-----------------------------------------------------------------------------
(* mask, one call.  An unmasked cell is masked.                            *)

Return(x, value) ==
  /\ masked[x] = {}
  /\ masked' = [masked EXCEPT ![x] = {value}]
  /\ UNCHANGED <<inputs, capacity, restarts>>

MaskPlain(x) ==
  /\ PassesThrough(x)
  /\ Return(x, <<IF RuleOf(x).strategy = "null" THEN NULL ELSE source[x]>>)
  /\ UNCHANGED <<seed, cache>>

\* _render_template: what the row holds in the column it reads; the return precedes the
\* unique suffix.
MaskTemplate(x) ==
  /\ ~PassesThrough(x)
  /\ RuleOf(x).strategy = "template"
  /\ Return(x, <<"template", source[<<RuleOf(x).template, x[2]>>]>>)
  /\ UNCHANGED <<seed, cache>>

MaskFixed(x) ==
  /\ ~PassesThrough(x)
  /\ \/ RuleOf(x).strategy = "redact" /\ Return(x, Suffixed(x, <<"redacted">>))
     \/ RuleOf(x).strategy = "hash" /\ Return(x, Suffixed(x, <<Digest(x)>>))
  /\ UNCHANGED <<seed, cache>>

\* Mutant: the cache does not tell the families apart.
Holds_AnyFamily(entry, x) == entry.key[2] = Digest(x)[2]

Holds(entry, x) == entry.key = Digest(x)

Hits(x) == {i \in DOMAIN cache : Holds(cache[i], x)}

Without(i) == SubSeq(cache, 1, i - 1) \o SubSeq(cache, i + 1, Len(cache))

\* The entry becomes the most recently used.
MaskHit(x) ==
  /\ ~PassesThrough(x)
  /\ RuleOf(x).strategy \in Providers
  /\ \E i \in Hits(x) : /\ Return(x, Suffixed(x, <<cache[i].fake>>))
                        /\ cache' = Append(Without(i), cache[i])
  /\ UNCHANGED seed

\* Mutant: nothing is evicted.
Trim_Never(entries) == entries

\* Until it fits, the least recently used entry is evicted.
Trim(entries) ==
  IF Len(entries) <= capacity THEN entries
  ELSE SubSeq(entries, Len(entries) - capacity + 1, Len(entries))

\* Mutant: the provider draws from wherever the instance is.
Provide_Unseeded(x, fake) == fake = faker[seed]

\* _call_provider: the instance is seeded for every value.
Provide(x, fake) == fake = faker[Digest(x)]

MaskMiss(x) ==
  /\ ~PassesThrough(x)
  /\ RuleOf(x).strategy \in Providers
  /\ Hits(x) = {}
  /\ \E fake \in Fakes :
       /\ Provide(x, fake)
       /\ Return(x, Suffixed(x, <<fake>>))
       /\ cache' = IF capacity = 0 THEN cache
                   ELSE Trim(Append(cache, [key |-> Digest(x), fake |-> fake]))
  /\ seed' = Digest(x)

\* dbmask is restarted: a new engine, with a cache and a Faker instance of
\* its own and of whatever size the config now says.
Restart ==
  /\ restarts > 0
  /\ restarts' = restarts - 1
  /\ cache' = <<>>
  /\ capacity' \in CacheSizes
  /\ seed' \in CacheKey
  /\ UNCHANGED <<inputs, masked>>

Next ==
  \/ \E x \in Cells : MaskPlain(x) \/ MaskTemplate(x) \/ MaskFixed(x) \/ MaskHit(x) \/ MaskMiss(x)
  \/ Restart

Spec == Init /\ [][Next]_vars

-----------------------------------------------------------------------------

\* The variables have their types; the cache stays within its size, holds no key twice
\* and only what the provider returns for the key.
TypeOK ==
  /\ source \in [Cells -> Texts \cup {NULL}]
  /\ faker \in [CacheKey -> Fakes]
  /\ seed \in CacheKey
  /\ cache \in Seq(Entry)
  /\ restarts \in 0..MaxRestarts
  /\ capacity \in CacheSizes
  /\ Len(cache) <= capacity
  /\ \A i, j \in DOMAIN cache : cache[i].key = cache[j].key => i = j
  /\ \A i \in DOMAIN cache : cache[i].fake = faker[cache[i].key]

SameRule(c, d) == Rule[c] = Rule[d] /\ Rule[c].strategy # "template"

\* Two cells that held the same text hold the same masked one, in whatever column of the
\* same rule, whatever was masked, cached or evicted between, and across restarts: a
\* logical join survives (architecture, invariant 6).
JoinSurvives ==
  \A x, y \in Cells : \A v \in masked[x], w \in masked[y] :
    SameRule(x[1], y[1]) /\ source[x] = source[y] => v = w

\* Case variants of one address converge on one fake address.
VariantsConverge ==
  \A x, y \in Cells : \A v \in masked[x], w \in masked[y] :
    /\ SameRule(x[1], y[1])
    /\ RuleOf(x).strategy = "fake_email"
    /\ source[x] # NULL /\ source[y] # NULL
    /\ Folded[source[x]] = Folded[source[y]]
    => v = w

Generated(x) == RuleOf(x).strategy \notin {"keep", "null", "template"} /\ source[x] # NULL

\* With unique = true no two values a column told apart are given the same mask, however
\* often the provider repeats itself: values are told apart by their normalized form.
SuffixSeparates ==
  \A x, y \in Cells : \A v \in masked[x], w \in masked[y] :
    /\ x[1] = y[1] /\ RuleOf(x).unique
    /\ Generated(x) /\ Generated(y)
    /\ Digest(x) # Digest(y)
    => v # w
=============================================================================
