--------------------------- MODULE FkCycleProofs ---------------------------
(***************************************************************************)
(* What FkCycle guarantees for every number of tables and every graph of   *)
(* foreign keys, proved.                                                   *)
(***************************************************************************)
EXTENDS FkCycle, TLAPS, SequenceTheorems

\* Each table on the path refers to the next one.
PathFollows == \A i \in 1..(Len(path) - 1) : path[i + 1] \in refers[path[i]]

\* While nothing is found, what the loop of an open table has looked at is closed, but for
\* the table it is waiting for.
LookedAt ==
  cycle = <<>> =>
    \A i \in 1..Len(path) : \A n \in refers[path[i]] :
      n <= reached[path[i]] => state[n] = "closed" \/ (i < Len(path) /\ n = path[i + 1])

\* The loop of a table that was not entered has not begun.
NotBegun == \A t \in Tables : state[t] = "unseen" => reached[t] = 0

\* Closed tables refer to closed tables only, and form no cycle.
ClosedIsDone ==
  /\ \A t \in Tables : state[t] = "closed" => \A n \in refers[t] : state[n] = "closed"
  /\ \A C \in SUBSET {t \in Tables : state[t] = "closed"} :
       C # {} => \E t \in C : refers[t] \cap C = {}

\* The outer loop leaves no table unseen.
RootsSeen == \A t \in Tables : t <= root => state[t] # "unseen"

Inv == /\ SearchTypeOK /\ ReportedIsCycle
       /\ PathFollows /\ LookedAt /\ NotBegun /\ ClosedIsDone /\ RootsSeen

-----------------------------------------------------------------------------

\* The path and its length.
LEMMA PathFacts ==
  ASSUME SearchTypeOK
  PROVE  /\ Len(path) \in Nat
         /\ DOMAIN path = 1..Len(path)
         /\ path = <<>> <=> Len(path) = 0
         /\ \A i \in 1..Len(path) : path[i] \in Tables /\ state[path[i]] = "open"
<1>1. path \in Seq(Tables)
  BY DEF SearchTypeOK
<1>2. Len(path) \in Nat /\ DOMAIN path = 1..Len(path)
  BY <1>1, LenProperties
<1>3. path = <<>> <=> Len(path) = 0
  BY <1>1, EmptySeq
<1>4. \A i \in 1..Len(path) : path[i] \in Tables
  BY <1>1, ElementOfSeq
<1>5. \A i \in 1..Len(path) : state[path[i]] = "open"
  BY <1>2, <1>4 DEF SearchTypeOK
<1> QED
  BY <1>2, <1>3, <1>4, <1>5

\* The table on top of a path that is not empty.
LEMMA TopFacts ==
  ASSUME SearchTypeOK, path # <<>>
  PROVE  /\ Len(path) \in Nat \ {0}
         /\ Top = path[Len(path)] /\ Top \in Tables /\ state[Top] = "open"
<1>1. Len(path) \in Nat \ {0}
  BY PathFacts
<1>2. Len(path) \in 1..Len(path)
  BY <1>1
<1> QED
  BY <1>1, <1>2, PathFacts DEF Top

\* What entering a table does to path and states.
LEMMA EnterFacts ==
  ASSUME SearchTypeOK, NEW t \in Tables, state[t] = "unseen", Enter(t)
  PROVE  /\ path' \in Seq(Tables)
         /\ Len(path') = Len(path) + 1
         /\ DOMAIN path' = 1..(Len(path) + 1)
         /\ \A i \in 1..Len(path) : path'[i] = path[i] /\ path[i] # t
         /\ path'[Len(path) + 1] = t
         /\ state' \in [Tables -> {"unseen", "open", "closed"}]
         /\ \A u \in Tables : state'[u] = IF u = t THEN "open" ELSE state[u]
<1>1. path \in Seq(Tables) /\ path' = Append(path, t)
  BY DEF SearchTypeOK, Enter
<1>2. /\ path' \in Seq(Tables)
      /\ Len(path') = Len(path) + 1
      /\ \A i \in 1..Len(path) : path'[i] = path[i]
      /\ path'[Len(path) + 1] = t
  BY <1>1, AppendProperties
<1>3. DOMAIN path' = 1..(Len(path) + 1)
  BY <1>2, LenProperties
<1>4. \A i \in 1..Len(path) : path[i] # t
  BY PathFacts
<1>5. /\ state' \in [Tables -> {"unseen", "open", "closed"}]
      /\ \A u \in Tables : state'[u] = IF u = t THEN "open" ELSE state[u]
  BY DEF SearchTypeOK, Enter
<1> QED
  BY <1>2, <1>3, <1>4, <1>5

\* What leaving a table does to path and states.
LEMMA LeaveFacts ==
  ASSUME SearchTypeOK, Leave
  PROVE  /\ path # <<>> /\ cycle = <<>>
         /\ path' \in Seq(Tables)
         /\ Len(path') = Len(path) - 1
         /\ DOMAIN path' = 1..(Len(path) - 1)
         /\ \A i \in 1..(Len(path) - 1) : path'[i] = path[i] /\ path[i] # Top
         /\ state' \in [Tables -> {"unseen", "open", "closed"}]
         /\ \A u \in Tables : state'[u] = IF u = Top THEN "closed" ELSE state[u]
<1>1. path # <<>> /\ cycle = <<>> /\ path' = SubSeq(path, 1, Len(path) - 1)
  BY DEF Leave
<1>2. Len(path) \in Nat \ {0} /\ Top = path[Len(path)] /\ Top \in Tables
  BY <1>1, TopFacts
<1>3. \A i \in 1..(Len(path) - 1) : path[i] \in Tables
  BY <1>2, PathFacts
<1>4. /\ path' \in Seq(Tables)
      /\ Len(path') = IF 1 <= Len(path) - 1 THEN (Len(path) - 1) - 1 + 1 ELSE 0
      /\ \A i \in 1..((Len(path) - 1) - 1 + 1) : path'[i] = path[1 + i - 1]
  <2>1. Len(path) - 1 \in Int /\ 1 \in Int
    BY <1>2
  <2> QED
    BY <1>1, <1>3, <2>1, SubSeqProperties
<1>5. Len(path') = Len(path) - 1
  <2> DEFINE k == Len(path)
  <2>1. k \in Nat \ {0} /\ Len(path') = IF 1 <= k - 1 THEN (k - 1) - 1 + 1 ELSE 0
    BY <1>2, <1>4
  <2> HIDE DEF k
  <2>2. Len(path') = k - 1
    BY <2>1
  <2> QED
    BY <2>2 DEF k
<1>6. \A i \in 1..(Len(path) - 1) : path'[i] = path[i]
  BY <1>2, <1>4
<1>7. DOMAIN path' = 1..(Len(path) - 1)
  BY <1>4, <1>5, LenProperties
<1>8. \A i \in 1..(Len(path) - 1) : path[i] # Top
  <2>1. \A i, j \in 1..Len(path) : path[i] = path[j] => i = j
    BY PathFacts DEF SearchTypeOK
  <2> QED
    BY <1>2, <2>1
<1>9. /\ state' \in [Tables -> {"unseen", "open", "closed"}]
      /\ \A u \in Tables : state'[u] = IF u = Top THEN "closed" ELSE state[u]
  BY <1>2 DEF SearchTypeOK, Leave
<1> QED
  BY <1>1, <1>4, <1>5, <1>6, <1>7, <1>8, <1>9

-----------------------------------------------------------------------------
(* The steps that enter a table: from the outer loop, or from another one. *)

\* The stack stays the open tables, each once.
LEMMA EnterStack ==
  ASSUME SearchTypeOK, NEW t \in Tables, state[t] = "unseen", Enter(t)
  PROVE  /\ \A u \in Tables : state'[u] = "open" <=> \E i \in DOMAIN path' : path'[i] = u
         /\ \A i, j \in DOMAIN path' : path'[i] = path'[j] => i = j
<1> DEFINE k == Len(path)
<1>1. /\ k \in Nat
      /\ DOMAIN path = 1..k /\ DOMAIN path' = 1..(k + 1)
      /\ \A i \in 1..k : path'[i] = path[i] /\ path[i] # t
      /\ path'[k + 1] = t
      /\ \A u \in Tables : state'[u] = IF u = t THEN "open" ELSE state[u]
  BY EnterFacts, PathFacts
<1>2. /\ \A u \in Tables : state[u] = "open" <=> \E i \in 1..k : path[i] = u
      /\ \A i, j \in 1..k : path[i] = path[j] => i = j
  BY <1>1 DEF SearchTypeOK
<1> HIDE DEF k
<1>3. ASSUME NEW u \in Tables
      PROVE  state'[u] = "open" <=> \E i \in 1..(k + 1) : path'[i] = u
  <2>1. CASE u = t
    BY <1>1, <2>1
  <2>2. CASE u # t
    <3>1. state'[u] = state[u]
      BY <1>1, <2>2
    <3>2. (\E i \in 1..k : path[i] = u) <=> \E i \in 1..(k + 1) : path'[i] = u
      BY <1>1, <2>2
    <3> QED
      BY <1>2, <3>1, <3>2
  <2> QED
    BY <2>1, <2>2
<1>4. ASSUME NEW i \in 1..(k + 1), NEW j \in 1..(k + 1), path'[i] = path'[j]
      PROVE  i = j
  <2>1. i \in 1..k \/ i = k + 1
    BY <1>1
  <2>2. j \in 1..k \/ j = k + 1
    BY <1>1
  <2> QED
    BY <1>1, <1>2, <1>4, <2>1, <2>2
<1> QED
  BY <1>1, <1>3, <1>4

\* Closed tables are not touched by an entry.
LEMMA EnterClosed ==
  ASSUME SearchTypeOK, ClosedIsDone, NEW t \in Tables, state[t] = "unseen", Enter(t),
         UNCHANGED refers
  PROVE  ClosedIsDone'
<1>1. \A u \in Tables : state'[u] = "closed" <=> state[u] = "closed"
  BY EnterFacts
<1>2. {u \in Tables : state'[u] = "closed"} = {u \in Tables : state[u] = "closed"}
  BY <1>1
<1>3. \A u \in Tables : refers[u] \subseteq Tables
  BY DEF SearchTypeOK
<1> QED
  BY <1>1, <1>2, <1>3 DEF ClosedIsDone

\* The outer loop.
LEMMA VisitRootKeepsInv ==
  ASSUME NumTables \in Nat, Inv, VisitRoot
  PROVE  Inv'
<1>1. /\ cycle = <<>> /\ path = <<>> /\ root < NumTables /\ root' = root + 1
      /\ UNCHANGED <<refers, reached, cycle>>
  BY DEF VisitRoot
<1>2. root \in 0..NumTables /\ root' \in 0..NumTables /\ root' \in Tables
  BY <1>1 DEF Inv, SearchTypeOK, Tables
<1>3. ReportedIsCycle'
  BY <1>1 DEF Inv, ReportedIsCycle
<1>4. CASE state[root'] = "unseen" /\ Enter(root')
  <2>1. SearchTypeOK'
    <3>1. /\ refers' \in [Tables -> SUBSET Tables] /\ reached' \in [Tables -> 0..NumTables]
          /\ cycle' \in Seq(Tables)
      BY <1>1 DEF Inv, SearchTypeOK
    <3> QED
      BY <1>2, <1>4, <3>1, EnterFacts, EnterStack DEF Inv, SearchTypeOK
  <2>2. Len(path) = 0 /\ Len(path') = 1 /\ path'[1] = root'
    BY <1>1, <1>2, <1>4, EnterFacts, PathFacts DEF Inv
  <2>3. PathFollows'
    BY <2>2 DEF PathFollows
  <2>4. LookedAt'
    <3>1. reached'[root'] = 0
      BY <1>1, <1>2, <1>4 DEF Inv, NotBegun
    <3>2. \A n \in refers'[root'] : n \in Tables
      BY <1>1, <1>2 DEF Inv, SearchTypeOK
    <3>3. \A n \in Tables : ~ (n <= 0)
      BY DEF Tables
    <3> QED
      BY <2>2, <3>1, <3>2, <3>3 DEF LookedAt
  <2>5. NotBegun'
    BY <1>1, <1>2, <1>4, EnterFacts DEF Inv, NotBegun
  <2>6. ClosedIsDone'
    BY <1>1, <1>2, <1>4, EnterClosed DEF Inv
  <2>7. RootsSeen'
    <3>1. \A u \in Tables : state'[u] = IF u = root' THEN "open" ELSE state[u]
      BY <1>2, <1>4, EnterFacts DEF Inv
    <3>2. \A u \in Tables : u <= root' => u = root' \/ u <= root
      BY <1>1, <1>2 DEF Tables
    <3> QED
      BY <3>1, <3>2 DEF Inv, RootsSeen
  <2> QED
    BY <1>3, <2>1, <2>3, <2>4, <2>5, <2>6, <2>7 DEF Inv
<1>5. CASE state[root'] # "unseen" /\ UNCHANGED <<state, path>>
  <2>1. SearchTypeOK'
    BY <1>1, <1>2, <1>5 DEF Inv, SearchTypeOK
  <2>2. PathFollows' /\ LookedAt' /\ NotBegun' /\ ClosedIsDone'
    BY <1>1, <1>5 DEF Inv, PathFollows, LookedAt, NotBegun, ClosedIsDone
  <2>3. RootsSeen'
    <3>1. \A u \in Tables : u <= root' => u = root' \/ u <= root
      BY <1>1, <1>2 DEF Tables
    <3> QED
      BY <1>5, <3>1 DEF Inv, RootsSeen
  <2> QED
    BY <1>3, <2>1, <2>2, <2>3 DEF Inv
<1> QED
  BY <1>4, <1>5 DEF VisitRoot

-----------------------------------------------------------------------------
(* The loop of visit. *)

\* What every step of the loop does, whatever it finds.
LEMMA LookAtFacts ==
  ASSUME NumTables \in Nat, Inv, NEW n \in Tables, LookAt(n)
  PROVE  /\ cycle = <<>> /\ path # <<>> /\ UNCHANGED <<refers, root>>
         /\ n \in refers[Top]
         /\ reached' \in [Tables -> 0..NumTables]
         /\ \A t \in Tables : reached'[t] = IF t = Top THEN n ELSE reached[t]
         /\ \A m \in refers[Top] : m <= n => m = n \/ m <= reached[Top]
<1>1. /\ cycle = <<>> /\ path # <<>> /\ UNCHANGED <<refers, root>>
      /\ IsNext(n) /\ reached' = [reached EXCEPT ![Top] = n]
  BY DEF LookAt
<1>2. Top \in Tables
  BY <1>1, TopFacts DEF Inv
<1>3. /\ refers[Top] \subseteq Tables /\ reached \in [Tables -> 0..NumTables]
      /\ n \in 0..NumTables
  BY <1>2 DEF Inv, SearchTypeOK, Tables
<1>4. /\ reached' \in [Tables -> 0..NumTables]
      /\ \A t \in Tables : reached'[t] = IF t = Top THEN n ELSE reached[t]
  BY <1>1, <1>2, <1>3
<1>5. n \in refers[Top] /\ \A m \in refers[Top] : m > reached[Top] => n <= m
  BY <1>1 DEF IsNext, Ahead
<1>6. \A m \in refers[Top] : m <= n => m = n \/ m <= reached[Top]
  <2>1. reached[Top] \in Int /\ n \in Int /\ \A m \in refers[Top] : m \in Int
    BY <1>2, <1>3 DEF Tables
  <2> QED
    BY <1>5, <2>1
<1> QED
  BY <1>1, <1>4, <1>5, <1>6

\* The path from an open neighbour, closed by it, is a cycle.
LEMMA CloseCycleFacts ==
  ASSUME SearchTypeOK, PathFollows, path # <<>>, NEW n \in Tables, n \in refers[Top], CloseCycle(n)
  PROVE  /\ cycle' \in Seq(Tables) /\ cycle' # <<>>
         /\ Len(cycle') >= 2
         /\ cycle'[1] = cycle'[Len(cycle')]
         /\ \A i \in 1..(Len(cycle') - 1) : cycle'[i + 1] \in refers[cycle'[i]]
         /\ \A i, j \in 1..(Len(cycle') - 1) : cycle'[i] = cycle'[j] => i = j
<1> DEFINE k == Len(path)
<1>1. k \in Nat \ {0} /\ Top = path[k] /\ DOMAIN path = 1..k
  BY TopFacts, PathFacts
<1>2. /\ \A i \in 1..k : path[i] \in Tables
      /\ \A i, j \in 1..k : path[i] = path[j] => i = j
      /\ \A i \in 1..(k - 1) : path[i + 1] \in refers[path[i]]
  BY <1>1, PathFacts DEF SearchTypeOK, PathFollows
<1>3. PICK b \in 1..k : path[b] = n /\ cycle' = Append(SubSeq(path, b, k), n)
  BY <1>1 DEF CloseCycle
<1> HIDE DEF k
<1> DEFINE s == SubSeq(path, b, k)
           d == k - b + 1
<1>4. d \in Nat \ {0} /\ b \in Int /\ k \in Int /\ b <= k
  BY <1>1
<1>5. /\ s \in Seq(Tables) /\ Len(s) = d
      /\ \A i \in 1..d : s[i] = path[b + i - 1]
  <2>1. \A i \in b..k : path[i] \in Tables
    BY <1>1, <1>2
  <2>2. /\ s \in Seq(Tables)
        /\ Len(s) = IF b <= k THEN k - b + 1 ELSE 0
        /\ \A i \in 1..(k - b + 1) : s[i] = path[b + i - 1]
    BY <1>4, <2>1, SubSeqProperties
  <2> QED
    BY <1>4, <2>2
<1>6. cycle' = Append(s, n)
  BY <1>3
<1> HIDE DEF s
<1>7. /\ cycle' \in Seq(Tables) /\ cycle' # <<>> /\ Len(cycle') = Len(s) + 1
      /\ \A i \in 1..Len(s) : cycle'[i] = s[i]
      /\ cycle'[Len(s) + 1] = n
  <2>1. s \in Seq(Tables)
    BY <1>5
  <2>2. /\ Append(s, n) \in Seq(Tables) /\ Append(s, n) # <<>>
        /\ Len(Append(s, n)) = Len(s) + 1
        /\ \A i \in 1..Len(s) : Append(s, n)[i] = s[i]
        /\ Append(s, n)[Len(s) + 1] = n
    BY <2>1, AppendProperties
  <2> QED
    BY <1>6, <2>2
<1>8. /\ Len(cycle') = d + 1 /\ cycle'[d + 1] = n
      /\ \A i \in 1..d : cycle'[i] = path[b + i - 1]
  BY <1>5, <1>7
<1>9. Len(cycle') >= 2 /\ Len(cycle') - 1 = d
  BY <1>4, <1>8
<1>10. cycle'[1] = n
  <2>1. 1 \in 1..d /\ b + 1 - 1 = b
    BY <1>4
  <2> QED
    BY <1>3, <1>8, <2>1
<1>11. ASSUME NEW i \in 1..d
       PROVE  cycle'[i + 1] \in refers[cycle'[i]]
  <2>1. CASE i = d
    <3>1. b + i - 1 = k /\ i + 1 = d + 1
      BY <1>4, <2>1
    <3> QED
      BY <1>1, <1>8, <3>1
  <2>2. CASE i # d
    <3>1. /\ i + 1 \in 1..d /\ b + i - 1 \in 1..(k - 1)
          /\ b + (i + 1) - 1 = (b + i - 1) + 1
      BY <1>1, <1>4, <2>2
    <3> QED
      BY <1>2, <1>8, <3>1
  <2> QED
    BY <2>1, <2>2
<1>12. ASSUME NEW i \in 1..d, NEW j \in 1..d, cycle'[i] = cycle'[j]
       PROVE  i = j
  <2>1. b + i - 1 \in 1..k /\ b + j - 1 \in 1..k
    BY <1>1, <1>4
  <2>2. b + i - 1 = b + j - 1
    BY <1>2, <1>8, <1>12, <2>1
  <2> QED
    BY <1>4, <2>2
<1> QED
  BY <1>7, <1>8, <1>9, <1>10, <1>11, <1>12

\* A neighbour that is open.
LEMMA CloseCycleKeepsInv ==
  ASSUME NumTables \in Nat, Inv, NEW n \in Tables, LookAt(n), CloseCycle(n)
  PROVE  Inv'
<1>1. /\ path # <<>> /\ UNCHANGED <<refers, root, path, state>>
      /\ n \in refers[Top] /\ reached' \in [Tables -> 0..NumTables]
      /\ \A t \in Tables : reached'[t] = IF t = Top THEN n ELSE reached[t]
  BY LookAtFacts DEF CloseCycle
<1>2. /\ cycle' \in Seq(Tables) /\ cycle' # <<>> /\ Len(cycle') >= 2
      /\ cycle'[1] = cycle'[Len(cycle')]
      /\ \A i \in 1..(Len(cycle') - 1) : cycle'[i + 1] \in refers[cycle'[i]]
      /\ \A i, j \in 1..(Len(cycle') - 1) : cycle'[i] = cycle'[j] => i = j
  BY <1>1, CloseCycleFacts DEF Inv
<1>3. ReportedIsCycle'
  BY <1>1, <1>2 DEF ReportedIsCycle
<1>4. SearchTypeOK'
  BY <1>1, <1>2 DEF Inv, SearchTypeOK
<1>5. PathFollows' /\ ClosedIsDone' /\ RootsSeen'
  BY <1>1 DEF Inv, PathFollows, ClosedIsDone, RootsSeen
<1>6. LookedAt'
  BY <1>2 DEF LookedAt
<1>7. NotBegun'
  <2>1. state[Top] = "open"
    BY <1>1, TopFacts DEF Inv
  <2> QED
    BY <1>1, <2>1 DEF Inv, NotBegun
<1> QED
  BY <1>3, <1>4, <1>5, <1>6, <1>7 DEF Inv

\* A neighbour not seen before, which visit is called on.
LEMMA EnterKeepsInv ==
  ASSUME NumTables \in Nat, Inv, NEW n \in Tables, LookAt(n),
         state[n] = "unseen", Enter(n), UNCHANGED cycle
  PROVE  Inv'
<1> DEFINE k == Len(path)
<1>1. /\ cycle = <<>> /\ UNCHANGED <<refers, root, cycle>>
      /\ n \in refers[Top] /\ reached' \in [Tables -> 0..NumTables]
      /\ \A t \in Tables : reached'[t] = IF t = Top THEN n ELSE reached[t]
      /\ \A m \in refers[Top] : m <= n => m = n \/ m <= reached[Top]
  BY LookAtFacts
<1>2. k \in Nat \ {0} /\ Top = path[k] /\ Top \in Tables /\ state[Top] = "open"
  BY LookAtFacts, TopFacts DEF Inv
<1>3. /\ Len(path') = k + 1 /\ path'[k + 1] = n
      /\ \A i \in 1..k : path'[i] = path[i] /\ path[i] \in Tables
      /\ \A i, j \in 1..k : path[i] = path[j] => i = j
  BY EnterFacts, PathFacts DEF Inv, SearchTypeOK
<1>4. \A u \in Tables : state'[u] = IF u = n THEN "open" ELSE state[u]
  BY EnterFacts DEF Inv
<1>5. SearchTypeOK'
  <2>1. /\ refers' \in [Tables -> SUBSET Tables] /\ root' \in 0..NumTables
        /\ cycle' \in Seq(Tables)
    BY <1>1 DEF Inv, SearchTypeOK
  <2> QED
    BY <1>1, <2>1, EnterFacts, EnterStack DEF Inv, SearchTypeOK
<1>6. ReportedIsCycle'
  BY <1>1 DEF Inv, ReportedIsCycle
<1>7. PathFollows'
  <2>1. \A i \in 1..(k - 1) : path[i + 1] \in refers[path[i]]
    BY DEF Inv, PathFollows
  <2> HIDE DEF k
  <2>2. ASSUME NEW i \in 1..k
        PROVE  path'[i + 1] \in refers[path'[i]]
    <3>1. CASE i = k
      BY <1>1, <1>2, <1>3, <3>1
    <3>2. CASE i # k
      <4>1. i \in 1..(k - 1) /\ i + 1 \in 1..k
        BY <1>2, <3>2
      <4> QED
        BY <1>3, <2>1, <4>1
    <3> QED
      BY <3>1, <3>2
  <2>3. Len(path') - 1 = k
    BY <1>2, <1>3
  <2> QED
    BY <1>1, <2>2, <2>3 DEF PathFollows
<1>8. LookedAt'
  <2>1. \A i \in 1..k : \A m \in refers[path[i]] :
          m <= reached[path[i]] => state[m] = "closed" \/ (i < k /\ m = path[i + 1])
    BY <1>1 DEF Inv, LookedAt
  <2> HIDE DEF k
  <2>2. \A t \in Tables : refers[t] \subseteq Tables
    BY DEF Inv, SearchTypeOK
  <2>3. \A m \in Tables : state[m] = "closed" => state'[m] = "closed"
    BY <1>4
  <2>4. ASSUME NEW i \in 1..(k + 1), NEW m \in refers[path'[i]], m <= reached'[path'[i]]
        PROVE  state'[m] = "closed" \/ (i < k + 1 /\ m = path'[i + 1])
    <3>1. CASE i = k + 1
      <4>1. path'[i] = n /\ n # Top /\ reached[n] = 0
        BY <1>2, <1>3, <3>1 DEF Inv, NotBegun
      <4>2. m <= 0 /\ m \in Tables
        BY <1>1, <2>2, <2>4, <4>1
      <4> QED
        BY <4>2 DEF Tables
    <3>2. CASE i = k
      <4>1. path'[i] = Top /\ reached'[path'[i]] = n /\ path'[i + 1] = n /\ i < k + 1
        BY <1>1, <1>2, <1>3, <3>2
      <4>2. m = n \/ m <= reached[Top]
        BY <1>1, <2>4, <4>1
      <4>3. ASSUME m <= reached[Top]
            PROVE  state[m] = "closed"
        BY <1>2, <2>1, <2>4, <3>2, <4>1, <4>3
      <4> QED
        BY <1>2, <2>2, <2>3, <2>4, <4>1, <4>2, <4>3
    <3>3. CASE i \in 1..(k - 1)
      <4>1. i \in 1..k /\ i + 1 \in 1..k /\ k \in 1..k /\ i # k /\ i < k + 1
        BY <1>2, <3>3
      <4>2. /\ path'[i] = path[i] /\ path'[i + 1] = path[i + 1] /\ path[i] \in Tables
            /\ path[i] # Top
        BY <1>2, <1>3, <4>1
      <4>3. reached'[path'[i]] = reached[path[i]]
        BY <1>1, <4>2
      <4>4. state[m] = "closed" \/ m = path[i + 1]
        BY <2>1, <2>4, <4>1, <4>2, <4>3
      <4> QED
        BY <2>2, <2>3, <2>4, <4>1, <4>2, <4>4
    <3>4. i = k + 1 \/ i = k \/ i \in 1..(k - 1)
      BY <1>2
    <3> QED
      BY <3>1, <3>2, <3>3, <3>4
  <2> QED
    BY <1>1, <1>3, <2>4 DEF LookedAt
<1>9. NotBegun'
  BY <1>1, <1>2, <1>4 DEF Inv, NotBegun
<1>10. ClosedIsDone'
  BY <1>1, EnterClosed DEF Inv
<1>11. RootsSeen'
  BY <1>1, <1>4 DEF Inv, RootsSeen
<1> QED
  BY <1>5, <1>6, <1>7, <1>8, <1>9, <1>10, <1>11 DEF Inv

\* A neighbour that is closed.
LEMMA PassKeepsInv ==
  ASSUME NumTables \in Nat, Inv, NEW n \in Tables, LookAt(n),
         state[n] = "closed", UNCHANGED <<path, state, cycle>>
  PROVE  Inv'
<1> DEFINE k == Len(path)
<1>1. /\ cycle = <<>> /\ UNCHANGED <<refers, root, cycle, path, state>>
      /\ n \in refers[Top] /\ reached' \in [Tables -> 0..NumTables]
      /\ \A t \in Tables : reached'[t] = IF t = Top THEN n ELSE reached[t]
      /\ \A m \in refers[Top] : m <= n => m = n \/ m <= reached[Top]
  BY LookAtFacts
<1>2. k \in Nat \ {0} /\ Top = path[k] /\ Top \in Tables /\ state[Top] = "open"
  BY LookAtFacts, TopFacts DEF Inv
<1>3. SearchTypeOK'
  BY <1>1 DEF Inv, SearchTypeOK
<1>4. PathFollows' /\ ReportedIsCycle' /\ ClosedIsDone' /\ RootsSeen'
  BY <1>1 DEF Inv, PathFollows, ReportedIsCycle, ClosedIsDone, RootsSeen
<1>5. NotBegun'
  BY <1>1, <1>2 DEF Inv, NotBegun
<1>6. LookedAt'
  <2>1. \A i \in 1..k : \A m \in refers[path[i]] :
          m <= reached[path[i]] => state[m] = "closed" \/ (i < k /\ m = path[i + 1])
    BY <1>1 DEF Inv, LookedAt
  <2>2. \A i \in 1..k : path[i] \in Tables
    BY PathFacts DEF Inv
  <2> HIDE DEF k
  <2>3. ASSUME NEW i \in 1..k, NEW m \in refers[path[i]], m <= reached'[path[i]]
        PROVE  state[m] = "closed" \/ (i < k /\ m = path[i + 1])
    <3>1. CASE path[i] = Top
      <4>1. m = n \/ m <= reached[path[i]]
        BY <1>1, <1>2, <2>3, <3>1
      <4> QED
        BY <2>1, <2>3, <4>1
    <3>2. CASE path[i] # Top
      <4>1. reached'[path[i]] = reached[path[i]]
        BY <1>1, <2>2, <3>2
      <4> QED
        BY <2>1, <2>3, <4>1
    <3> QED
      BY <3>1, <3>2
  <2> QED
    BY <1>1, <2>3 DEF LookedAt, k
<1> QED
  BY <1>3, <1>4, <1>5, <1>6 DEF Inv

\* The loop ends.
LEMMA LeaveKeepsInv ==
  ASSUME NumTables \in Nat, Inv, Leave
  PROVE  Inv'
<1> DEFINE k == Len(path)
<1>1. /\ cycle = <<>> /\ path # <<>> /\ Ahead(Top) = {}
      /\ UNCHANGED <<refers, reached, root, cycle>>
  BY DEF Leave
<1>2. k \in Nat \ {0} /\ Top = path[k] /\ Top \in Tables /\ state[Top] = "open"
  BY <1>1, TopFacts DEF Inv
<1>3. /\ path' \in Seq(Tables) /\ Len(path') = k - 1 /\ DOMAIN path' = 1..(k - 1)
      /\ \A i \in 1..(k - 1) : path'[i] = path[i] /\ path[i] # Top
      /\ state' \in [Tables -> {"unseen", "open", "closed"}]
      /\ \A u \in Tables : state'[u] = IF u = Top THEN "closed" ELSE state[u]
  BY LeaveFacts DEF Inv
<1>4. /\ DOMAIN path = 1..k
      /\ \A u \in Tables : state[u] = "open" <=> \E i \in 1..k : path[i] = u
      /\ \A i, j \in 1..k : path[i] = path[j] => i = j
      /\ \A i \in 1..(k - 1) : path[i + 1] \in refers[path[i]]
      /\ \A i \in 1..k : path[i] \in Tables
  BY PathFacts DEF Inv, SearchTypeOK, PathFollows
<1>5. \A i \in 1..k : \A m \in refers[path[i]] :
        m <= reached[path[i]] => state[m] = "closed" \/ (i < k /\ m = path[i + 1])
  BY <1>1 DEF Inv, LookedAt
<1>6. \A t \in Tables : refers[t] \subseteq Tables /\ reached[t] \in Int
  BY DEF Inv, SearchTypeOK
<1> HIDE DEF k
<1>7. \A m \in refers[Top] : m \in Tables /\ state[m] = "closed"
  <2>1. \A m \in refers[Top] : m \in Tables /\ m <= reached[Top]
    BY <1>1, <1>2, <1>6 DEF Ahead, Tables
  <2> QED
    BY <1>2, <1>5, <2>1
<1>8. SearchTypeOK'
  <2>1. \A u \in Tables : state'[u] = "open" <=> \E i \in 1..(k - 1) : path'[i] = u
    <3>1. ASSUME NEW u \in Tables, state'[u] = "open"
          PROVE  \E i \in 1..(k - 1) : path'[i] = u
      <4>1. u # Top /\ state[u] = "open"
        BY <1>3, <3>1
      <4>2. PICK i \in 1..k : path[i] = u
        BY <1>4, <4>1
      <4>3. i \in 1..(k - 1)
        BY <1>2, <4>1, <4>2
      <4> QED
        BY <1>3, <4>2, <4>3
    <3>2. ASSUME NEW u \in Tables, NEW i \in 1..(k - 1), path'[i] = u
          PROVE  state'[u] = "open"
      <4>1. i \in 1..k /\ path[i] = u /\ u # Top
        BY <1>2, <1>3, <3>2
      <4> QED
        BY <1>3, <1>4, <4>1
    <3> QED
      BY <3>1, <3>2
  <2>2. \A i, j \in 1..(k - 1) : path'[i] = path'[j] => i = j
    <3>1. \A i \in 1..(k - 1) : i \in 1..k
      BY <1>2
    <3> QED
      BY <1>3, <1>4, <3>1
  <2>3. /\ refers' \in [Tables -> SUBSET Tables] /\ reached' \in [Tables -> 0..NumTables]
        /\ root' \in 0..NumTables /\ cycle' \in Seq(Tables)
    BY <1>1 DEF Inv, SearchTypeOK
  <2> QED
    BY <1>3, <2>1, <2>2, <2>3 DEF SearchTypeOK
<1>9. ReportedIsCycle'
  BY <1>1 DEF Inv, ReportedIsCycle
<1>10. PathFollows'
  <2>1. \A i \in 1..((k - 1) - 1) : i \in 1..(k - 1) /\ i + 1 \in 1..(k - 1)
    BY <1>2
  <2> QED
    BY <1>1, <1>3, <1>4, <2>1 DEF PathFollows
<1>11. LookedAt'
  <2>1. ASSUME NEW i \in 1..(k - 1), NEW m \in refers[path[i]], m <= reached[path[i]]
        PROVE  state'[m] = "closed" \/ (i < k - 1 /\ m = path'[i + 1])
    <3>1. i \in 1..k /\ m \in Tables
      BY <1>2, <1>4, <1>6
    <3>2. state[m] = "closed" \/ m = path[i + 1]
      BY <1>5, <2>1, <3>1
    <3>3. CASE state[m] = "closed"
      BY <1>3, <3>1, <3>3
    <3>4. CASE m = path[i + 1] /\ i = k - 1
      <4>1. i + 1 = k
        BY <1>2, <3>4
      <4> QED
        BY <1>2, <1>3, <3>1, <3>4, <4>1
    <3>5. CASE m = path[i + 1] /\ i # k - 1
      <4>1. i < k - 1 /\ i + 1 \in 1..(k - 1)
        BY <1>2, <3>5
      <4> QED
        BY <1>3, <3>5, <4>1
    <3> QED
      BY <3>2, <3>3, <3>4, <3>5
  <2> QED
    BY <1>1, <1>3, <2>1 DEF LookedAt
<1>12. NotBegun'
  BY <1>1, <1>3 DEF Inv, NotBegun
<1>13. ClosedIsDone'
  <2>1. \A t \in Tables : state'[t] = "closed" <=> t = Top \/ state[t] = "closed"
    BY <1>3
  <2>2. \A t \in Tables : state'[t] = "closed" =>
          \A n \in refers[t] : n \in Tables /\ state[n] = "closed"
    BY <1>6, <1>7, <2>1 DEF Inv, ClosedIsDone
  <2>3. ASSUME NEW C \in SUBSET {t \in Tables : state'[t] = "closed"}, C # {}
        PROVE  \E t \in C : refers[t] \cap C = {}
    <3>1. CASE \E t \in C : t # Top
      <4>1. C \ {Top} \in SUBSET {t \in Tables : state[t] = "closed"} /\ C \ {Top} # {}
        BY <2>1, <3>1
      <4>2. PICK t \in C \ {Top} : refers[t] \cap (C \ {Top}) = {}
        BY <4>1 DEF Inv, ClosedIsDone
      <4>3. t \in C /\ Top \notin refers[t]
        BY <1>2, <2>2, <4>2
      <4> QED
        BY <4>2, <4>3
    <3>2. CASE \A t \in C : t = Top
      <4>1. Top \in C /\ Top \notin refers[Top]
        BY <1>2, <1>7, <2>3, <3>2
      <4> QED
        BY <3>2, <4>1
    <3> QED
      BY <3>1, <3>2
  <2> QED
    BY <1>1, <2>1, <2>2, <2>3 DEF ClosedIsDone
<1>14. RootsSeen'
  BY <1>1, <1>3 DEF Inv, RootsSeen
<1> QED
  BY <1>8, <1>9, <1>10, <1>11, <1>12, <1>13, <1>14 DEF Inv

-----------------------------------------------------------------------------

\* The search starts with nothing seen.
LEMMA InitInv ==
  ASSUME NumTables \in Nat, SearchInit
  PROVE  Inv
<1>1. Len(path) = 0 /\ DOMAIN path = {} /\ cycle = <<>>
  BY DEF SearchInit
<1>2. SearchTypeOK
  BY <1>1 DEF SearchInit, SearchTypeOK
<1>3. ReportedIsCycle /\ PathFollows /\ LookedAt
  BY <1>1 DEF ReportedIsCycle, PathFollows, LookedAt
<1>4. \A t \in Tables : state[t] = "unseen" /\ reached[t] = 0
  BY DEF SearchInit
<1>5. NotBegun
  BY <1>4 DEF NotBegun
<1>6. {t \in Tables : state[t] = "closed"} = {}
  BY <1>4
<1>7. ClosedIsDone
  BY <1>4, <1>6 DEF ClosedIsDone
<1>8. RootsSeen
  <2>1. root = 0 /\ \A t \in Tables : ~ (t <= 0)
    BY DEF SearchInit, Tables
  <2> QED
    BY <2>1 DEF RootsSeen
<1> QED
  BY <1>2, <1>3, <1>5, <1>7, <1>8 DEF Inv

\* Every step keeps the invariant.
LEMMA StepKeepsInv ==
  ASSUME NumTables \in Nat, Inv, [SearchNext]_searchVars
  PROVE  Inv'
<1>1. CASE VisitRoot
  BY <1>1, VisitRootKeepsInv
<1>2. CASE Leave
  BY <1>2, LeaveKeepsInv
<1>3. ASSUME NEW n \in Tables, LookAt(n)
      PROVE  Inv'
  BY <1>3, CloseCycleKeepsInv, EnterKeepsInv, PassKeepsInv DEF LookAt
<1>4. CASE UNCHANGED searchVars
  <2>1. UNCHANGED <<refers, state, path, reached, root, cycle>>
    BY <1>4 DEF searchVars
  <2>2. SearchTypeOK'
    BY <2>1 DEF Inv, SearchTypeOK
  <2>3. ReportedIsCycle' /\ PathFollows' /\ NotBegun' /\ RootsSeen'
    BY <2>1 DEF Inv, ReportedIsCycle, PathFollows, NotBegun, RootsSeen
  <2>4. LookedAt' /\ ClosedIsDone'
    BY <2>1 DEF Inv, LookedAt, ClosedIsDone
  <2> QED
    BY <2>2, <2>3, <2>4 DEF Inv
<1> QED
  BY <1>1, <1>2, <1>3, <1>4 DEF SearchNext

\* A search that is over with nothing found has closed every table.
LEMMA InvClears ==
  ASSUME NumTables \in Nat, Inv
  PROVE  ClearedHasNone
<1> SUFFICES ASSUME ClearedAll PROVE NoCycle(refers)
  BY DEF ClearedHasNone
<1>1. path = <<>> /\ root = NumTables
  BY DEF ClearedAll
<1>2. \A t \in Tables : state[t] # "open"
  <2>1. DOMAIN path = {}
    BY <1>1
  <2> QED
    BY <2>1 DEF Inv, SearchTypeOK
<1>3. \A t \in Tables : state[t] # "unseen"
  BY <1>1 DEF Inv, RootsSeen, Tables
<1>4. Tables = {t \in Tables : state[t] = "closed"}
  BY <1>2, <1>3 DEF Inv, SearchTypeOK
<1> QED
  BY <1>4 DEF Inv, ClosedIsDone, NoCycle

\* Every reachable state satisfies the invariant.
LEMMA InvHolds == SearchSpec => []Inv
<1>1. SearchInit => Inv
  BY InitInv, NumTablesAssumption
<1>2. Inv /\ [SearchNext]_searchVars => Inv'
  BY StepKeepsInv, NumTablesAssumption
<1> QED
  BY <1>1, <1>2, PTL DEF SearchSpec

\* For every number of tables and every graph, what _find_cycle returns is a cycle of
\* foreign keys that passes through no table twice.
THEOREM CycleIsReal == SearchSpec => []ReportedIsCycle
<1>1. Inv => ReportedIsCycle
  BY DEF Inv
<1> QED
  BY <1>1, InvHolds, PTL

\* For every number of tables and every graph, there is no cycle where _find_cycle
\* returns None.
THEOREM NoCycleMissed == SearchSpec => []ClearedHasNone
<1>1. Inv => ClearedHasNone
  BY InvClears, NumTablesAssumption
<1> QED
  BY <1>1, InvHolds, PTL
=============================================================================
