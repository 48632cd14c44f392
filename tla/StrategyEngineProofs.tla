------------------------ MODULE StrategyEngineProofs ------------------------
(***************************************************************************)
(* What a cell is masked as, for any rules, cells, texts, providers and    *)
(* cache sizes: a function of the rule and the normalized text.            *)
(***************************************************************************)
EXTENDS StrategyEngine, TLAPS, SequenceTheorems

\* The value of a provider, a digest or the word, before the suffix.
Base(x) ==
  IF RuleOf(x).strategy = "redact" THEN "redacted"
  ELSE IF RuleOf(x).strategy = "hash" THEN Digest(x)
  ELSE faker[Digest(x)]

Mask(x) ==
  IF PassesThrough(x) THEN <<IF RuleOf(x).strategy = "null" THEN NULL ELSE source[x]>>
  ELSE IF RuleOf(x).strategy = "template"
  THEN <<"template", source[<<RuleOf(x).template, x[2]>>]>>
  ELSE Suffixed(x, <<Base(x)>>)

\* No cell is masked as anything else, at whatever time.
MasksAreFunction == \A x \in Cells : masked[x] \subseteq {Mask(x)}

EngineInv == TypeOK /\ DOMAIN masked = Cells /\ MasksAreFunction

-----------------------------------------------------------------------------
(* The cache.                                                              *)

\* What may be in a cache, whatever its size.
CacheRight(c) ==
  /\ c \in Seq(Entry)
  /\ \A i, j \in DOMAIN c : c[i].key = c[j].key => i = j
  /\ \A i \in DOMAIN c : c[i].fake = faker[c[i].key]

LEMMA WithoutFacts ==
  ASSUME cache \in Seq(Entry), NEW i \in DOMAIN cache
  PROVE  /\ Without(i) \in Seq(Entry) /\ Len(Without(i)) = Len(cache) - 1
         /\ \A j \in 1..(Len(cache) - 1) :
              Without(i)[j] = IF j < i THEN cache[j] ELSE cache[j + 1]
<1> DEFINE L == SubSeq(cache, 1, i - 1)
           R == SubSeq(cache, i + 1, Len(cache))
<1>1. Len(cache) \in Nat /\ i \in 1..Len(cache)
  OBVIOUS
<1>2. L \in Seq(Entry) /\ Len(L) = i - 1 /\ \A j \in 1..(i - 1) : L[j] = cache[j]
  BY <1>1
<1>3. R \in Seq(Entry) /\ Len(R) = Len(cache) - i
  BY <1>1
<1>4. \A j \in 1..(Len(cache) - i) : R[j] = cache[i + j]
  BY <1>1
<1> HIDE DEF L, R
<1>5. L \o R \in Seq(Entry) /\ Len(L \o R) = Len(L) + Len(R)
  BY <1>2, <1>3
<1>6. \A j \in 1..(Len(L) + Len(R)) : (L \o R)[j] = IF j <= Len(L) THEN L[j] ELSE R[j - Len(L)]
  BY <1>2, <1>3
<1>7. ASSUME NEW j \in 1..(Len(cache) - 1)
      PROVE  (L \o R)[j] = IF j < i THEN cache[j] ELSE cache[j + 1]
  <2>1. CASE j < i
    BY <1>1, <1>2, <1>3, <1>6, <2>1
  <2>2. CASE ~(j < i)
    <3>1. j - (i - 1) \in 1..(Len(cache) - i) /\ i + (j - (i - 1)) = j + 1
      BY <1>1, <2>2
    <3>2. R[j - (i - 1)] = cache[j + 1]
      BY <1>4, <3>1
    <3>3. (L \o R)[j] = R[j - (i - 1)]
      BY <1>1, <1>2, <1>3, <1>6, <2>2
    <3> QED
      BY <2>2, <3>2, <3>3
  <2> QED
    BY <2>1, <2>2
<1>8. Without(i) = L \o R
  BY DEF Without, L, R
<1>9. Len(L) + Len(R) = Len(cache) - 1
  BY <1>1, <1>2, <1>3
<1> QED
  BY <1>5, <1>7, <1>8, <1>9

\* A hit moves its entry to the end.
LEMMA HitKeepsCache ==
  ASSUME CacheRight(cache), NEW i \in DOMAIN cache
  PROVE  /\ CacheRight(Append(Without(i), cache[i]))
         /\ Len(Append(Without(i), cache[i])) = Len(cache)
<1> DEFINE c == Append(Without(i), cache[i])
           At(j) == IF j = Len(cache) THEN i ELSE IF j < i THEN j ELSE j + 1
<1>1. cache \in Seq(Entry) /\ Len(cache) \in Nat /\ i \in 1..Len(cache) /\ cache[i] \in Entry
  BY DEF CacheRight
<1>2. /\ Without(i) \in Seq(Entry) /\ Len(Without(i)) = Len(cache) - 1
      /\ \A j \in 1..(Len(cache) - 1) : Without(i)[j] = IF j < i THEN cache[j] ELSE cache[j + 1]
  BY <1>1, WithoutFacts
<1>3. c \in Seq(Entry) /\ Len(c) = Len(cache) /\ DOMAIN c = 1..Len(cache)
  BY <1>1, <1>2
<1>4. /\ c[Len(cache)] = cache[i]
      /\ \A j \in 1..(Len(cache) - 1) : c[j] = Without(i)[j]
  BY <1>1, <1>2
<1> HIDE DEF c
<1>5. \A j \in 1..Len(cache) : At(j) \in DOMAIN cache /\ c[j] = cache[At(j)]
  BY <1>1, <1>2, <1>4
<1>6. \A j, k \in 1..Len(cache) : At(j) = At(k) => j = k
  BY <1>1
<1> HIDE DEF At
<1>7. \A j, k \in DOMAIN c : c[j].key = c[k].key => j = k
  <2>1. ASSUME NEW j \in 1..Len(cache), NEW k \in 1..Len(cache), c[j].key = c[k].key
        PROVE  At(j) = At(k)
    <3>1. /\ At(j) \in DOMAIN cache /\ At(k) \in DOMAIN cache
          /\ c[j] = cache[At(j)] /\ c[k] = cache[At(k)]
      BY <1>5
    <3>2. cache[At(j)].key = cache[At(k)].key
      BY <2>1, <3>1
    <3> QED
      BY <3>1, <3>2 DEF CacheRight
  <2> QED
    BY <1>3, <1>6, <2>1
<1>8. ASSUME NEW j \in DOMAIN c PROVE c[j].fake = faker[c[j].key]
  <2>1. At(j) \in DOMAIN cache /\ c[j] = cache[At(j)]
    BY <1>3, <1>5
  <2>2. cache[At(j)].fake = faker[cache[At(j)].key]
    BY <2>1 DEF CacheRight
  <2> QED
    BY <2>1, <2>2
<1> QED
  BY <1>3, <1>7, <1>8 DEF CacheRight, c

\* What a miss adds is the newest entry, and the oldest goes.
LEMMA MissKeepsCache ==
  ASSUME CacheRight(cache), Len(cache) <= capacity, capacity \in Nat \ {0},
         NEW e \in Entry, e.fake = faker[e.key], \A i \in DOMAIN cache : cache[i].key # e.key
  PROVE  CacheRight(Trim(Append(cache, e))) /\ Len(Trim(Append(cache, e))) <= capacity
<1> DEFINE c == Append(cache, e)
<1>1. cache \in Seq(Entry) /\ Len(cache) \in Nat
  BY DEF CacheRight
<1>2. c \in Seq(Entry) /\ Len(c) = Len(cache) + 1 /\ DOMAIN c = 1..(Len(cache) + 1)
  BY <1>1
<1>3. c[Len(cache) + 1] = e /\ \A i \in 1..Len(cache) : c[i] = cache[i]
  BY <1>1
<1> HIDE DEF c
<1>4. \A i, j \in DOMAIN c : c[i].key = c[j].key => i = j
  BY <1>1, <1>2, <1>3 DEF CacheRight
<1>5. \A i \in DOMAIN c : c[i].fake = faker[c[i].key]
  BY <1>1, <1>2, <1>3 DEF CacheRight
<1>6. CASE Len(c) <= capacity
  BY <1>2, <1>4, <1>5, <1>6 DEF CacheRight, Trim, c
<1>7. CASE ~(Len(c) <= capacity)
  <2> DEFINE from == Len(c) - capacity + 1
             t == SubSeq(c, from, Len(c))
  <2>1. from \in 1..Len(c) /\ Len(c) - from + 1 = capacity
    BY <1>1, <1>2, <1>7
  <2>2. t \in Seq(Entry) /\ Len(t) = capacity /\ DOMAIN t = 1..capacity
    BY <1>2, <2>1
  <2>3. \A i \in 1..capacity : t[i] = c[from + i - 1] /\ from + i - 1 \in DOMAIN c
    BY <1>2, <2>1
  <2>4. Trim(c) = t
    BY <1>7 DEF Trim
  <2> HIDE DEF t
  <2>5. \A i, j \in 1..capacity : from + i - 1 = from + j - 1 => i = j
    BY <1>2, <2>1
  <2>6. CacheRight(t)
    BY <1>4, <1>5, <2>2, <2>3, <2>5 DEF CacheRight
  <2> QED
    BY <2>2, <2>4, <2>6 DEF c
<1> QED
  BY <1>6, <1>7

-----------------------------------------------------------------------------
(* The steps.                                                              *)

LEMMA TypeOKIs ==
  TypeOK <=> /\ source \in [Cells -> Texts \cup {NULL}] /\ faker \in [CacheKey -> Fakes]
             /\ seed \in CacheKey /\ restarts \in 0..MaxRestarts /\ capacity \in CacheSizes
             /\ Len(cache) <= capacity /\ CacheRight(cache)
BY DEF TypeOK, CacheRight

\* A cell that is generated for has a digest, and a provider's is a key of the cache.
LEMMA DigestFacts ==
  ASSUME TypeOK, NEW x \in Cells, ~PassesThrough(x)
  PROVE  /\ source[x] \in Texts
         /\ RuleOf(x).strategy \in Providers => Digest(x) \in CacheKey
<1>1. source[x] \in Texts
  BY DEF TypeOK, PassesThrough
<1>2. Normalize(RuleOf(x).strategy, source[x]) \in Texts
  BY <1>1, TextsAssumption DEF Normalize
<1> QED
  BY <1>1, <1>2 DEF Digest, CacheKey

\* A cell is masked as Mask has it; the inputs stay.
LEMMA ReturnFacts ==
  ASSUME EngineInv, NEW x \in Cells, Return(x, Mask(x))
  PROVE  DOMAIN masked' = Cells /\ MasksAreFunction'
<1>1. masked' = [masked EXCEPT ![x] = {Mask(x)}] /\ source' = source /\ faker' = faker
  BY DEF Return, inputs
<1>2. \A y \in Cells : Mask(y)' = Mask(y)
  BY <1>1 DEF Mask, PassesThrough, Suffixed, Base, Digest, RuleOf
<1> QED
  BY <1>1, <1>2 DEF EngineInv, MasksAreFunction

LEMMA UnmaskedKeep ==
  ASSUME EngineInv, UNCHANGED <<source, faker, masked>>
  PROVE  DOMAIN masked' = Cells /\ MasksAreFunction'
<1>1. \A y \in Cells : Mask(y)' = Mask(y)
  BY DEF Mask, PassesThrough, Suffixed, Base, Digest, RuleOf
<1> QED
  BY <1>1 DEF EngineInv, MasksAreFunction

LEMMA InitEngineInv == Init => EngineInv
<1> SUFFICES ASSUME Init PROVE EngineInv
  OBVIOUS
<1>1. CacheKey # {}
  <2>1. PICK text \in Texts : TRUE
    BY TextsAssumption
  <2>2. <<"fake_name", text>> \in CacheKey
    BY <2>1 DEF CacheKey, Providers
  <2> QED
    BY <2>2
<1>2. seed \in CacheKey
  BY <1>1 DEF Init
<1>3. CacheRight(cache) /\ Len(cache) = 0
  BY DEF Init, CacheRight
<1>4. TypeOK
  BY <1>2, <1>3, TypeOKIs, InputsAssumption, BoundsAssumption DEF Init
<1>5. DOMAIN masked = Cells /\ MasksAreFunction
  BY DEF Init, MasksAreFunction
<1> QED
  BY <1>4, <1>5 DEF EngineInv

\* Cells that need no provider.
LEMMA FixedKeepsInv ==
  ASSUME EngineInv, NEW x \in Cells, MaskPlain(x) \/ MaskTemplate(x) \/ MaskFixed(x)
  PROVE  EngineInv'
<1>1. Return(x, Mask(x)) /\ UNCHANGED <<seed, cache>>
  BY DEF MaskPlain, MaskTemplate, MaskFixed, Mask, Base
<1>2. UNCHANGED <<source, faker, seed, cache, capacity, restarts>>
  BY <1>1 DEF Return, inputs
<1>3. TypeOK'
  BY <1>2 DEF EngineInv, TypeOK
<1> QED
  BY <1>1, <1>3, ReturnFacts DEF EngineInv

LEMMA HitKeepsInv ==
  ASSUME EngineInv, NEW x \in Cells, MaskHit(x)
  PROVE  EngineInv'
<1>1. PICK i \in Hits(x) : /\ Return(x, Suffixed(x, <<cache[i].fake>>))
                           /\ cache' = Append(Without(i), cache[i])
  BY DEF MaskHit
<1>2. /\ ~PassesThrough(x) /\ RuleOf(x).strategy \in Providers /\ UNCHANGED seed
      /\ UNCHANGED <<source, faker, capacity, restarts>>
  BY <1>1 DEF MaskHit, Return, inputs
<1>3. TypeOK /\ CacheRight(cache) /\ Len(cache) <= capacity
  BY TypeOKIs DEF EngineInv
<1>4. i \in DOMAIN cache /\ cache[i].key = Digest(x)
  BY <1>1 DEF Hits, Holds
<1>5. cache[i].fake = faker[Digest(x)]
  BY <1>3, <1>4 DEF CacheRight
<1>6. Suffixed(x, <<cache[i].fake>>) = Mask(x)
  BY <1>2, <1>5 DEF Mask, Base, Providers
<1>7. CacheRight(Append(Without(i), cache[i])) /\ Len(Append(Without(i), cache[i])) = Len(cache)
  BY <1>3, <1>4, HitKeepsCache
<1>8. CacheRight(cache)' /\ Len(cache') <= capacity'
  BY <1>1, <1>2, <1>3, <1>7 DEF CacheRight
<1>9. TypeOK'
  BY <1>2, <1>3, <1>8 DEF TypeOK, CacheRight
<1> QED
  BY <1>1, <1>6, <1>9, ReturnFacts DEF EngineInv

LEMMA MissKeepsInv ==
  ASSUME EngineInv, NEW x \in Cells, MaskMiss(x)
  PROVE  EngineInv'
<1>1. PICK fake \in Fakes :
        /\ Provide(x, fake) /\ Return(x, Suffixed(x, <<fake>>))
        /\ cache' = IF capacity = 0 THEN cache
                    ELSE Trim(Append(cache, [key |-> Digest(x), fake |-> fake]))
  BY DEF MaskMiss
<1> DEFINE e == [key |-> Digest(x), fake |-> fake]
<1>2. /\ ~PassesThrough(x) /\ RuleOf(x).strategy \in Providers /\ Hits(x) = {}
      /\ seed' = Digest(x) /\ UNCHANGED <<source, faker, capacity, restarts>>
  BY <1>1 DEF MaskMiss, Return, inputs
<1>3. TypeOK /\ CacheRight(cache) /\ Len(cache) <= capacity /\ capacity \in Nat
  BY TypeOKIs, BoundsAssumption DEF EngineInv
<1>4. Digest(x) \in CacheKey
  BY <1>2, <1>3, DigestFacts
<1>5. fake = faker[Digest(x)]
  BY <1>1 DEF Provide
<1>6. e \in Entry /\ e.key = Digest(x) /\ e.fake = fake
  BY <1>4 DEF Entry
<1>7. \A i \in DOMAIN cache : cache[i].key # Digest(x)
  BY <1>2 DEF Hits, Holds
<1> HIDE DEF e
<1>8. CASE capacity = 0
  <2>1. cache' = cache
    BY <1>1, <1>8
  <2> QED
    <3>1. TypeOK'
      BY <1>2, <1>3, <1>4, <2>1 DEF TypeOK
    <3>2. Suffixed(x, <<fake>>) = Mask(x)
      BY <1>2, <1>5 DEF Mask, Base, Providers
    <3> QED
      BY <1>1, <3>1, <3>2, ReturnFacts DEF EngineInv
<1>9. CASE capacity # 0
  <2>1. cache' = Trim(Append(cache, e))
    BY <1>1, <1>9 DEF e
  <2>2. CacheRight(Trim(Append(cache, e))) /\ Len(Trim(Append(cache, e))) <= capacity
    BY <1>3, <1>5, <1>6, <1>7, <1>9, MissKeepsCache
  <2>3. CacheRight(cache)' /\ Len(cache') <= capacity'
    BY <1>2, <2>1, <2>2 DEF CacheRight
  <2>4. TypeOK'
    BY <1>2, <1>3, <1>4, <2>3 DEF TypeOK, CacheRight
  <2>5. Suffixed(x, <<fake>>) = Mask(x)
    BY <1>2, <1>5 DEF Mask, Base, Providers
  <2> QED
    BY <1>1, <2>4, <2>5, ReturnFacts DEF EngineInv
<1> QED
  BY <1>8, <1>9

LEMMA RestartKeepsInv ==
  ASSUME EngineInv, Restart
  PROVE  EngineInv'
<1>1. UNCHANGED <<source, faker, masked>> /\ cache' = <<>> /\ seed' \in CacheKey
  BY DEF Restart, inputs
<1>2. restarts' \in 0..MaxRestarts /\ capacity' \in CacheSizes /\ 0 <= capacity'
  BY BoundsAssumption DEF Restart, EngineInv, TypeOK
<1>3. TypeOK'
  BY <1>1, <1>2 DEF EngineInv, TypeOK
<1> QED
  BY <1>1, <1>3, UnmaskedKeep DEF EngineInv

LEMMA EngineInvHolds == Spec => []EngineInv
<1>1. Init => EngineInv
  BY InitEngineInv
<1>2. ASSUME EngineInv, [Next]_vars PROVE EngineInv'
  <2>1. CASE UNCHANGED vars
    <3>1. UNCHANGED <<source, masked, faker, seed, cache, capacity, restarts>>
      BY <2>1 DEF vars
    <3>2. TypeOK'
      BY <1>2, <3>1 DEF EngineInv, TypeOK
    <3> QED
      BY <1>2, <3>1, <3>2, UnmaskedKeep DEF EngineInv
  <2> QED
    BY <1>2, <2>1, FixedKeepsInv, HitKeepsInv, MissKeepsInv, RestartKeepsInv DEF Next
<1>3. EngineInv /\ [Next]_vars => EngineInv'
  BY <1>2
<1> QED
  BY <1>1, <1>3, PTL DEF Spec

-----------------------------------------------------------------------------
(* The theorems.                                                           *)

\* In every run, for any cells and any cache size, the variables have their types and the
\* cache is within its size, holds no digest twice and only what the provider gives for it.
THEOREM EngineTypeCorrect == Spec => []TypeOK
<1>1. EngineInv => TypeOK
  BY DEF EngineInv
<1> QED
  BY <1>1, EngineInvHolds, PTL

\* What a cell was masked as is what Mask says of it, whatever order, cache and restarts
\* led there.
LEMMA MaskedIsMask ==
  ASSUME EngineInv, NEW x \in Cells, NEW v \in masked[x]
  PROVE  v = Mask(x)
BY DEF EngineInv, MasksAreFunction

\* A rule's column and the normalized text fix the mask.
LEMMA SameDigestSameMask ==
  ASSUME NEW x \in Cells, NEW y \in Cells, RuleOf(x) = RuleOf(y), Digest(x) = Digest(y),
         ~PassesThrough(x), ~PassesThrough(y), RuleOf(x).strategy # "template"
  PROVE  Mask(x) = Mask(y)
<1>1. Base(x) = Base(y)
  BY DEF Base
<1>2. Suffixed(x, <<Base(x)>>) = Suffixed(y, <<Base(y)>>)
  BY <1>1 DEF Suffixed
<1> QED
  BY <1>2 DEF Mask

\* A logical join survives masking: cells of one text under one rule are masked alike, for
\* every set of rules, cells, texts, providers and cache sizes and every order of calls.
THEOREM JoinHolds == Spec => []JoinSurvives
<1>1. ASSUME EngineInv PROVE JoinSurvives
  <2> SUFFICES ASSUME NEW x \in Cells, NEW y \in Cells,
                      NEW v \in masked[x], NEW w \in masked[y],
                      SameRule(x[1], y[1]), source[x] = source[y]
               PROVE  v = w
    BY DEF JoinSurvives
  <2>1. v = Mask(x) /\ w = Mask(y)
    BY <1>1, MaskedIsMask
  <2>2. RuleOf(x) = RuleOf(y) /\ RuleOf(x).strategy # "template"
    BY DEF SameRule, RuleOf
  <2>3. PassesThrough(x) <=> PassesThrough(y)
    BY <2>2 DEF PassesThrough
  <2>4. CASE PassesThrough(x)
    BY <2>1, <2>2, <2>3, <2>4 DEF Mask
  <2>5. CASE ~PassesThrough(x)
    <3>1. Digest(x) = Digest(y)
      BY <2>2 DEF Digest
    <3> QED
      BY <2>1, <2>2, <2>3, <2>5, <3>1, SameDigestSameMask
  <2> QED
    BY <2>4, <2>5
<1>2. EngineInv => JoinSurvives
  BY <1>1
<1> QED
  BY <1>2, EngineInvHolds, PTL

\* Addresses that differ in case and surrounding blanks only are given one fake address,
\* with fake_email, whenever either is masked.
THEOREM VariantsHold == Spec => []VariantsConverge
<1>1. ASSUME EngineInv PROVE VariantsConverge
  <2> SUFFICES ASSUME NEW x \in Cells, NEW y \in Cells,
                      NEW v \in masked[x], NEW w \in masked[y],
                      SameRule(x[1], y[1]), RuleOf(x).strategy = "fake_email",
                      source[x] # NULL, source[y] # NULL,
                      Folded[source[x]] = Folded[source[y]]
               PROVE  v = w
    BY DEF VariantsConverge
  <2>1. v = Mask(x) /\ w = Mask(y)
    BY <1>1, MaskedIsMask
  <2>2. RuleOf(x) = RuleOf(y) /\ RuleOf(x).strategy = RuleOf(y).strategy
    BY DEF SameRule, RuleOf
  <2>3. ~PassesThrough(x) /\ ~PassesThrough(y)
    BY <2>2 DEF PassesThrough
  <2>4. Digest(x) = Digest(y)
    BY <2>2 DEF Digest, Normalize
  <2> QED
    BY <2>1, <2>2, <2>3, <2>4, SameDigestSameMask
<1>2. EngineInv => VariantsConverge
  BY <1>1
<1> QED
  BY <1>2, EngineInvHolds, PTL

\* A unique column never gives one mask to two texts it tells apart, even where the
\* provider repeats itself: the masks differ in their suffix.
THEOREM SuffixHolds == Spec => []SuffixSeparates
<1>1. ASSUME EngineInv PROVE SuffixSeparates
  <2> SUFFICES ASSUME NEW x \in Cells, NEW y \in Cells,
                      NEW v \in masked[x], NEW w \in masked[y],
                      x[1] = y[1], RuleOf(x).unique, Generated(x), Generated(y),
                      Digest(x) # Digest(y)
               PROVE  v # w
    BY DEF SuffixSeparates
  <2>1. v = Mask(x) /\ w = Mask(y)
    BY <1>1, MaskedIsMask
  <2>2. RuleOf(y) = RuleOf(x)
    BY DEF RuleOf
  <2>3. Mask(x) = <<Base(x)>> \o <<Digest(x)>> /\ Mask(y) = <<Base(y)>> \o <<Digest(y)>>
    BY <2>2 DEF Mask, Suffixed, Generated, PassesThrough
  <2>4. \A a, b : (<<a>> \o <<b>>)[2] = b
    OBVIOUS
  <2>5. Mask(x)[2] = Digest(x) /\ Mask(y)[2] = Digest(y)
    BY <2>3, <2>4
  <2> QED
    BY <2>1, <2>5
<1>2. EngineInv => SuffixSeparates
  BY <1>1
<1> QED
  BY <1>2, EngineInvHolds, PTL
=============================================================================
