-------------------------- MODULE MCStrategyEngine --------------------------
(* A column of every kind and two rows, with texts that differ in case only. *)
EXTENDS StrategyEngine, TLC

CONSTANTS email, customer, name, label, note, digest, alice, ALICE, bob, r1, r2, f1, f2

ColumnRule(strategy, unique, from) ==
  [strategy |-> strategy, unique |-> unique, template |-> from]

\* users.email and orders.customer_email, and a name that may hold an address.
SomeRules == email    :> ColumnRule("fake_email", TRUE, email)
         @@ customer :> ColumnRule("fake_email", TRUE, email)
         @@ name     :> ColumnRule("fake_name", FALSE, email)
         @@ label    :> ColumnRule("template", FALSE, note)
         @@ note     :> ColumnRule("redact", TRUE, email)
         @@ digest   :> ColumnRule("hash", FALSE, email)

Lower == alice :> alice @@ ALICE :> alice @@ bob :> bob

\* Three columns with two rows each, and a cell of every other kind.
SomeCells == ({email, customer, name} \X {r1, r2}) \cup ({label, note, digest} \X {r1})

\* What an address column holds in one row the other has in another, in one case or the
\* other, and a name may be an address as well.
JoinedSources ==
  {[x \in SomeCells |-> CASE x = <<email, r2>>    -> e
                         [] x = <<customer, r1>> -> c
                         [] x = <<customer, r2>> -> bob
                         [] x = <<name, r2>>     -> ALICE
                         [] OTHER                -> alice]
     : e \in {ALICE, bob}, c \in {alice, NULL}}

\* A provider that tells some texts apart, and one that goes by family only.
SomeFakers == {[k \in CacheKey |-> IF k[2] = bob THEN f2 ELSE f1],
               [k \in CacheKey |-> IF k[1] = "fake_name" THEN f2 ELSE f1]}
=============================================================================
