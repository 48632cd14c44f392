------------------------------ MODULE FkCycle ------------------------------
(***************************************************************************)
(* drift._find_cycle: the depth-first search for a foreign key cycle, over *)
(* the graph _cycle_findings builds.                                       *)
(*                                                                         *)
(* A table is its position in name order, the order both loops go in.  The *)
(* calls of visit that have not returned are exactly the tables of `path`, *)
(* so that the call stack needs no variable of its own.                    *)
(***************************************************************************)
EXTENDS Integers, Sequences

CONSTANT NumTables   \* tables of the schema

ASSUME NumTablesAssumption == NumTables \in Nat

Tables == 1..NumTables

VARIABLES
  refers,   (* the tables each table's foreign keys refer to, itself perhaps   *)
  state,    (* unseen, open (visit has not returned) or closed                 *)
  path,     (* the open tables, in the order they were entered                 *)
  reached,  (* last neighbour the loop of visit looked at; 0: none             *)
  root,     (* last table the outer loop looked at; 0: none                    *)
  cycle     (* what visit returned; empty: nothing yet                         *)

searchVars == <<refers, state, path, reached, root, cycle>>

SearchInit ==
  /\ refers \in [Tables -> SUBSET Tables]
  /\ state = [t \in Tables |-> "unseen"]
  /\ path = <<>>
  /\ reached = [t \in Tables |-> 0]
  /\ root = 0
  /\ cycle = <<>>

-----------------------------------------------------------------------------

Top == path[Len(path)]

\* The neighbours the loop of visit has still to look at.
Ahead(t) == {n \in refers[t] : n > reached[t]}

\* Mutant: the loop of visit starts over when a call in it returns.
IsNext_FromStart(n) == n \in refers[Top] /\ \A m \in refers[Top] : n <= m

IsNext(n) == n \in Ahead(Top) /\ \A m \in Ahead(Top) : n <= m

\* visit(t) is called.
Enter(t) ==
  /\ state' = [state EXCEPT ![t] = "open"]
  /\ path' = Append(path, t)

\* The outer loop.
VisitRoot ==
  /\ cycle = <<>> /\ path = <<>>
  /\ root < NumTables
  /\ root' = root + 1
  /\ \/ state[root'] = "unseen" /\ Enter(root')
     \/ state[root'] # "unseen" /\ UNCHANGED <<state, path>>
  /\ UNCHANGED <<refers, reached, cycle>>

\* Mutant: the whole path is returned, with what leads to the cycle.
CloseCycle_WholePath(n) ==
  /\ state[n] = "open"
  /\ cycle' = Append(path, n)
  /\ UNCHANGED <<path, state>>

\* Mutant: a table that is still open is taken for one that was closed.
CloseCycle_OpenSkipped(n) == state[n] = "open" /\ UNCHANGED <<path, state, cycle>>

\* The neighbour is open: the path from it is a cycle, returned through every call.
CloseCycle(n) ==
  /\ state[n] = "open"
  /\ \E i \in DOMAIN path : /\ path[i] = n
                            /\ cycle' = Append(SubSeq(path, i, Len(path)), n)
  /\ UNCHANGED <<path, state>>

LookAt(n) ==
  /\ cycle = <<>> /\ path # <<>>
  /\ IsNext(n)
  /\ reached' = [reached EXCEPT ![Top] = n]
  /\ \/ CloseCycle(n)
     \/ state[n] = "unseen" /\ Enter(n) /\ UNCHANGED cycle
     \/ state[n] = "closed" /\ UNCHANGED <<path, state, cycle>>
  /\ UNCHANGED <<refers, root>>

\* Mutant: the table stays open once its neighbours are done.
Leave_Open ==
  /\ cycle = <<>> /\ path # <<>>
  /\ Ahead(Top) = {}
  /\ path' = SubSeq(path, 1, Len(path) - 1)
  /\ UNCHANGED <<refers, state, reached, root, cycle>>

\* The loop of visit ends without a cycle.
Leave ==
  /\ cycle = <<>> /\ path # <<>>
  /\ Ahead(Top) = {}
  /\ path' = SubSeq(path, 1, Len(path) - 1)
  /\ state' = [state EXCEPT ![Top] = "closed"]
  /\ UNCHANGED <<refers, reached, root, cycle>>

SearchNext == VisitRoot \/ (\E n \in Tables : LookAt(n)) \/ Leave

SearchSpec == SearchInit /\ [][SearchNext]_searchVars

-----------------------------------------------------------------------------

\* The variables have their types, and the open tables are those on the path, once each.
SearchTypeOK ==
  /\ refers \in [Tables -> SUBSET Tables]
  /\ state \in [Tables -> {"unseen", "open", "closed"}]
  /\ path \in Seq(Tables)
  /\ reached \in [Tables -> 0..NumTables]
  /\ root \in 0..NumTables
  /\ cycle \in Seq(Tables)
  /\ \A t \in Tables : state[t] = "open" <=> \E i \in DOMAIN path : path[i] = t
  /\ \A i, j \in DOMAIN path : path[i] = path[j] => i = j

\* _find_cycle returned None.
ClearedAll == cycle = <<>> /\ path = <<>> /\ root = NumTables

\* A graph has no cycle when every set of tables has one that refers to none of the set.
NoCycle(graph) == \A C \in SUBSET Tables : C # {} => \E t \in C : graph[t] \cap C = {}

\* A reported cycle is one: it returns to its start, follows foreign keys all the way,
\* and passes through no table twice.
ReportedIsCycle ==
  cycle # <<>> =>
    /\ Len(cycle) >= 2
    /\ cycle[1] = cycle[Len(cycle)]
    /\ \A i \in 1..(Len(cycle) - 1) : cycle[i + 1] \in refers[cycle[i]]
    /\ \A i, j \in 1..(Len(cycle) - 1) : cycle[i] = cycle[j] => i = j

\* Where the search reports nothing there is no cycle: pump can order the tables.
ClearedHasNone == ClearedAll => NoCycle(refers)
=============================================================================
