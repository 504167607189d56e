---------------------------- MODULE GraphPersist ----------------------------
(***************************************************************************)
(* Rebuilding one workspace's materialized graph:                          *)
(*                                                                         *)
(*   graph/persist-data-graph.ts   assemble, compare with the last         *)
(*                                 snapshot, replace when it changed       *)
(*   dal/graph-store.ts            the facts read, the one-transaction     *)
(*                                 replacement, the latest snapshot        *)
(*   crons/graph-rebuild.ts, routes/graph.ts and the projection consumer   *)
(*                                 the callers, which nothing serializes   *)
(*                                                                         *)
(* The graph is a function of the facts and its hash identifies it, so a   *)
(* graph is represented by the facts it was built from.  The facts are     *)
(* read one table after another while writers commit.                      *)
(*                                                                         *)
(* A snapshot is stamped with the time its rebuild STARTED, and the drift  *)
(* anchor is the snapshot with the latest stamp.  Only the order of stamps *)
(* matters: before[w] holds the running rebuilds that started before w,    *)
(* and outdated[w] says that the anchor already carries a later stamp than *)
(* w's own.  Two rebuilds never start in the same millisecond here.        *)
(***************************************************************************)
EXTENDS Naturals

CONSTANTS
    Rebuilders,  \* concurrent callers of persistDataGraph for this workspace
    Tables,      \* how many statements the facts read takes
    Contents,    \* what a table may contain
    MaxChanges,  \* bound: commits of the workspace's writers
    MaxStops     \* bound: rebuilds that reject or die

ASSUME GraphBounds ==
    /\ Tables \in Nat \ {0} /\ MaxChanges \in Nat /\ MaxStops \in Nat
    /\ Contents # {}

TableIds == 1 .. Tables
Graphs == [TableIds -> Contents]
None == [built |-> FALSE]
Built(g) == [built |-> TRUE, from |-> g]

VARIABLES
    tables,    \* the workspace's authoritative tables
    graph,     \* graph_nodes and graph_edges
    anchor,    \* the latest row of graph_snapshots
    phase,     \* where each rebuild is
    next,      \* the table its facts read is at
    read,      \* what it has read
    before,    \* running rebuilds with an earlier stamp
    outdated,  \* the anchor's stamp is later than this rebuild's
    changes,   \* commits so far
    stops      \* rebuilds that rejected or died so far

run == <<phase, next, read, before, outdated>>
graphVars == <<tables, graph, anchor, run, changes, stops>>

Phases == {"idle", "assembling", "comparing", "replacing"}

GraphInit ==
    /\ tables \in Graphs
    /\ graph = None
    /\ anchor = None
    /\ phase = [w \in Rebuilders |-> "idle"]
    /\ next = [w \in Rebuilders |-> 1]
    /\ read = [w \in Rebuilders |-> tables]
    /\ before = [w \in Rebuilders |-> {}]
    /\ outdated = [w \in Rebuilders |-> FALSE]
    /\ changes = 0
    /\ stops = 0

Active == {w \in Rebuilders : phase[w] # "idle"}

(* A writer commits: any tables change at once. *)
Change ==
    /\ changes < MaxChanges
    /\ \E t \in Graphs : t # tables /\ tables' = t
    /\ changes' = changes + 1
    /\ UNCHANGED <<graph, anchor, run, stops>>

WhereItWas(w) == next[w]
(* Every call reads all of the facts anew. *)
FirstTable(w) == 1

(* The caller takes its timestamp and calls persistDataGraph. *)
Start(w) ==
    /\ phase[w] = "idle"
    /\ phase' = [phase EXCEPT ![w] = "assembling"]
    /\ next' = [next EXCEPT ![w] = FirstTable(w)]
    /\ before' = [before EXCEPT ![w] = Active]
    /\ outdated' = [outdated EXCEPT ![w] = FALSE]
    /\ UNCHANGED <<tables, graph, anchor, read, changes, stops>>

(* The read has another statement after the current one. *)
MoreToRead(w) == next[w] < Tables

(* One statement of assembleDataGraphFactsRow. *)
ReadTable(w) ==
    /\ phase[w] = "assembling"
    /\ read' = [read EXCEPT ![w][next[w]] = tables[next[w]]]
    /\ IF MoreToRead(w)
       THEN next' = [next EXCEPT ![w] = @ + 1] /\ UNCHANGED phase
       ELSE phase' = [phase EXCEPT ![w] = "comparing"] /\ UNCHANGED next
    /\ UNCHANGED <<tables, graph, anchor, before, outdated, changes, stops>>

(* The end of w's call: nothing started before it any more. *)
Finish(w) ==
    /\ phase' = [phase EXCEPT ![w] = "idle"]
    /\ before' = [x \in Rebuilders |-> before[x] \ {w}]

Drift(w) == IF anchor = None THEN "new"
            ELSE IF anchor.from = read[w] THEN "fresh" ELSE "changed"
DriftNewOnly(w) == IF anchor = None THEN "new" ELSE "fresh"
driftOf(w) == Drift(w)

Compare(w) ==
    /\ phase[w] = "comparing"
    /\ IF driftOf(w) = "fresh"
       THEN Finish(w)
       ELSE phase' = [phase EXCEPT ![w] = "replacing"] /\ UNCHANGED before
    /\ UNCHANGED <<tables, graph, anchor, next, read, outdated, changes, stops>>

AppendSnapshot(w) == anchor' = IF outdated[w] THEN anchor ELSE Built(read[w])
AppendFirstSnapshot(w) == anchor' = IF anchor # None THEN anchor ELSE Built(read[w])
(* The snapshot row: it becomes the anchor unless a later stamp is there. *)
InsertSnapshot(w) == AppendSnapshot(w)

(* Drop, insert and append the snapshot, in one transaction. *)
ReplaceWorkspaceGraph(w) ==
    /\ phase[w] = "replacing"
    /\ graph' = Built(read[w])
    /\ InsertSnapshot(w)
    /\ outdated' = [x \in Rebuilders |->
                      outdated[x] \/ (~outdated[w] /\ x \in before[w])]
    /\ Finish(w)
    /\ UNCHANGED <<tables, next, read, changes, stops>>

(* A statement rejects or the invocation dies. *)
RebuildFails(w) ==
    /\ stops < MaxStops /\ stops' = stops + 1
    /\ phase[w] # "idle"
    /\ Finish(w)
    /\ UNCHANGED <<tables, graph, anchor, next, read, outdated, changes>>

RebuildStep(w) ==
    Start(w) \/ ReadTable(w) \/ Compare(w) \/ ReplaceWorkspaceGraph(w)

GraphNext ==
    \/ Change
    \/ \E w \in Rebuilders : RebuildStep(w) \/ RebuildFails(w)

GraphSpec == GraphInit /\ [][GraphNext]_graphVars

(* Rebuilds keep being requested and a running one goes on to its end: in  *)
(* an operator workspace by the hourly cron, elsewhere by the projection   *)
(* consumer as long as governed writes come.                               *)
GraphFairSpec == GraphSpec /\ \A w \in Rebuilders : WF_graphVars(RebuildStep(w))

-----------------------------------------------------------------------------
(* Every variable has its type. *)
GraphTypeOK ==
    /\ tables \in Graphs
    /\ graph = None \/ \E g \in Graphs : graph = Built(g)
    /\ anchor = None \/ \E g \in Graphs : anchor = Built(g)
    /\ phase \in [Rebuilders -> Phases]
    /\ next \in [Rebuilders -> TableIds]
    /\ read \in [Rebuilders -> Graphs]
    /\ before \in [Rebuilders -> SUBSET Rebuilders]
    /\ outdated \in [Rebuilders -> BOOLEAN]
    /\ changes \in Nat /\ stops \in Nat

(* What a rebuild has read so far is what the tables hold now: no writer   *)
(* has committed into what it read since it read it.                       *)
ReadsAgree(w) ==
    /\ phase[w] = "assembling" =>
          \A i \in TableIds : i < next[w] => read[w][i] = tables[i]
    /\ phase[w] \in {"comparing", "replacing"} => read[w] = tables

(* The stored graph is the projection of the tables, the anchor says so,   *)
(* and no running rebuild is about to bring back something older.          *)
Converged ==
    /\ graph = Built(tables) /\ anchor = graph
    /\ \A w \in Rebuilders : ReadsAgree(w)

(* A graph that has converged stays so while the writers are quiet,        *)
(* however rebuilds overlap and fail: assemble, compare and replace.       *)
ConvergenceStays == [][Converged /\ tables' = tables => Converged']_graphVars

(* Once the writers are quiet the drift anchor becomes, and stays, the     *)
(* projection of the authoritative tables, whatever torn reads, failed and *)
(* overlapping rebuilds came before: the latest snapshot goes by the time  *)
(* its rebuild started.                                                    *)
AnchorConverges == <>[](anchor = Built(tables))

(* No rebuild is about to install its graph over the graph of one that     *)
(* started after it.                                                       *)
InOrder == \A w \in Rebuilders : phase[w] = "replacing" => ~outdated[w]

(* So does the stored graph, as long as overlapping rebuilds install in    *)
(* the order they started.  One that installs over a later start leaves    *)
(* its graph under the later one's anchor, and every rebuild after it      *)
(* compares with that anchor and skips the write.                          *)
GraphConverges == []InOrder => <>[](graph = Built(tables))
=============================================================================
