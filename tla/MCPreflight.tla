---------------------------- MODULE MCPreflight ----------------------------
(* Users with an address, their orders, joined by it, and every foreign    *)
(* key graph over three tables.                                            *)
EXTENDS Preflight, Graphs

\* NoCycle says what HasCycle of the community modules denies.
ASSUME NoCycleAssumption ==
  \A graph \in [Tables -> SUBSET Tables] :
    NoCycle(graph) <=> ~HasCycle([node |-> Tables,
                                  edge |-> {e \in Tables \X Tables : e[2] \in graph[e[1]]}])

-----------------------------------------------------------------------------

Column(text, nullable, length, pii) ==
  [text |-> text, nullable |-> nullable, length |-> length, pii |-> pii]

Id(t) == <<t, "id">>
email == <<1, "email">>
born  == <<1, "born">>
label == <<1, "label">>
alias == <<1, "name">>
owner == <<2, "owner">>
customer == <<2, "customer">>

Number == Column(FALSE, FALSE, {}, "none")
Code == Column(TRUE, FALSE, {}, "none")
Plain(columns) == [columns |-> columns, expressions |-> {}]
Lowered(columns) == [columns |-> {}, expressions |-> columns]

\* Users and their orders, with the address as the variants have it.
Shop(address, keys, indexes) ==
  [tables |-> {1, 2},
   columns |-> Id(1) :> Code @@ Id(2) :> Number @@ owner :> Code @@ email :> address
            @@ born :> Column(FALSE, TRUE, {}, "dob")
            @@ label :> Column(TRUE, TRUE, {20}, "none")
            @@ customer :> Column(TRUE, TRUE, {80}, "email"),
   primaryKey |-> {Id(1), Id(2)},
   foreignKeys |-> {owner :> Id(1)} \cup keys,
   uniqueIndexes |-> indexes]

Address(nullable, length) == Column(TRUE, nullable, length, "email")

Added(shop) ==
  [shop EXCEPT !.columns = (alias :> Column(TRUE, TRUE, {}, "name")) @@ shop.columns]

Dropped(shop) ==
  [shop EXCEPT !.columns = [c \in DOMAIN shop.columns \ {label} |-> shop.columns[c]],
               !.uniqueIndexes = {}]

Base == Shop(Address(FALSE, {77}), {}, {Plain({email})})

\* The column of addresses at the budget of fake_email with a suffix, one below it, with
\* room for redact only; referred to; and tables that change.
Shops ==
  <<<<Base, Added(Base)>>,
    <<Added(Base), Dropped(Base)>>,
    <<[Base EXCEPT !.primaryKey = {Id(1)}], Base>>,
    <<Shop(Address(FALSE, {76}), {}, {Plain({email})})>>,
    <<Shop(Address(TRUE, {}), {}, {Lowered({email})})>>,
    <<Shop(Address(TRUE, {64}), {}, {})>>,
    <<Shop(Address(TRUE, {18}), {}, {Plain({email, label})})>>,
    <<Shop(Address(TRUE, {80}), {customer :> email}, {Plain({email})})>>>>

\* A table with a key column that refers to the given tables.
Linked(graph) ==
  [tables |-> Tables,
   columns |-> [c \in {Id(t) : t \in Tables} |-> Number],
   primaryKey |-> {Id(t) : t \in Tables},
   foreignKeys |-> UNION {{Id(t) :> Id(u) : u \in graph[t]} : t \in Tables},
   uniqueIndexes |-> {}]

SomeHistories ==
  [d \in ({"shop"} \X DOMAIN Shops) \cup ({"linked"} \X [Tables -> SUBSET Tables]) |->
    IF d[1] = "shop" THEN Shops[d[2]] ELSE <<Linked(d[2])>>]

-----------------------------------------------------------------------------

None == <<>>
Line(strategy, options) == [strategy |-> strategy, options |-> options]

ShopEdits ==
  {<<email, line>> : line \in
     {Line("keep", None), Line("null", None), Line("fake_email", None),
      Line("fake_email", [unique |-> TRUE]), Line("hash", [unique |-> TRUE]),
      Line("redact", [value |-> "XX", unique |-> TRUE]), Line("fake_nmae", None)}}
  \cup {<<customer, line>> : line \in
     {Line("keep", None), Line("fake_email", [unique |-> TRUE]), Line("hash", [unique |-> TRUE]),
      Line("redact", [value |-> "XX", unique |-> TRUE]), Line("redact", None)}}
  \cup {<<label, Line("template", [template |-> {p}])>> : p \in {"id", "email", "lost"}}
  \cup {<<label, Line("template", [template |-> {"id"}, unique |-> TRUE])>>,
        <<label, Line("keep", [unique |-> TRUE])>>,
        <<born, Line("fake_name", None)>>, <<owner, Line("hash", None)>>,
        <<Id(1), Line("null", None)>>}

ShopJoins == {<<email, customer>>, <<email, <<3, "gone">>>>}

\* Only the shops' configs are edited.
SomeEdits == [d \in DOMAIN SomeHistories |-> IF d[1] = "shop" THEN ShopEdits ELSE {}]
SomeJoins == [d \in DOMAIN SomeHistories |-> IF d[1] = "shop" THEN ShopJoins ELSE {}]

\* Three changes: an init or two, and an edit or two of what it wrote.
SomeChanges ==
  [d \in DOMAIN SomeHistories |->
    IF d[1] = "linked" THEN 1 ELSE IF d[2] \in {1, 5, 8} THEN 3 ELSE 2]

SomeRows == {1, 2}

Texts == {"ann", "ANN", "bob", "1", "2", "note", "1970"}
Lower == [t \in Texts |-> IF t = "ANN" THEN "ann" ELSE t]

Held(first, second) == [r \in SomeRows |-> IF r = 1 THEN {first} ELSE {second}]

\* What the addresses of two users and of their orders may be; the rest is the same.
SomeContents ==
  {[c \in {Id(t) : t \in Tables} |-> Held("1", "2")]
     @@ email :> users @@ customer :> orders
     @@ owner :> Held("1", "1") @@ alias :> Held("bob", "bob")
     @@ born :> Held("1970", "1970") @@ label :> Held("note", "note")
     : users \in {Held("ann", "bob"), Held("ann", "ANN"), [Held("ann", "bob") EXCEPT ![1] = {}]},
       orders \in {Held("bob", "ann"), Held("bob", "bob")}}

\* A provider that returns one value for all, and one that tells texts apart.
Seeds == {"fake_email", "fake_name", "fake_phone", "fake_address"} \X Texts
SomeFakers == {[s \in Seeds |-> "same"], [s \in Seeds |-> s[2]]}
=============================================================================
