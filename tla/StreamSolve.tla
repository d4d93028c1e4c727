----------------------------- MODULE StreamSolve ----------------------------
(***************************************************************************)
(* The stream planner of the code generator.                               *)
(*                                                                         *)
(* StreamSolver.solve cuts the call graph into levels; every level is the  *)
(* list of the calls whose producers are all in earlier levels.            *)
(* MLIRCodeGen.generate_codengen_streamlist then lays call number s of     *)
(* every level into stream s, puts a barrier sync_t before level t in      *)
(* every stream, and removes the barriers that no producer-consumer pair   *)
(* of two different streams needs.                                         *)
(*                                                                         *)
(* A call is named by its position in graph.keys(), the order in which     *)
(* find_max_for_this_level lists the calls of a level.  A barrier tag is   *)
(* appended to, and removed from, all streams together, so the lists are   *)
(* represented by the level and the stream of each call and the set of     *)
(* tags that are still in the lists; StreamList rebuilds the list.         *)
(***************************************************************************)
EXTENDS Dependence, Integers, FiniteSets, Sequences

CONSTANTS
  Calls,    \* the calls, numbered in the order of graph.keys()
  Graphs    \* the call graphs the planner may be given

ASSUME CallsAssumption == Calls \subseteq Nat /\ IsFiniteSet(Calls) /\ Calls # {}

ASSUME GraphsAssumption ==
  \A G \in Graphs : G \in [Calls -> SUBSET Calls] /\ Acyclic(G)

VARIABLES
  graph,    \* the direct inputs of every call (build_graph)
  g,        \* solve's graph: the calls not yet placed and their inputs
  level,    \* the level of every placed call
  steps,    \* len(streamlist): the number of levels so far
  syncs,    \* the tags t with sync_t in the stream lists
  tag,      \* the tag the pruning loop examines next
  pc

vars == <<graph, g, level, steps, syncs, tag, pc>>

-----------------------------------------------------------------------------
(* The stream of a placed call: its index in the list of its level.        *)
Stream(c) == Cardinality({d \in DOMAIN level : level[d] = level[c] /\ d < c})

(* max_stream_number *)
Streams == {Stream(c) : c \in DOMAIN level} \cup {0}

(* The calls of stream s between sync_t and the next tag in the list.      *)
After(s, t) ==
  {c \in DOMAIN level :
     /\ Stream(c) = s
     /\ level[c] >= t
     /\ \A u \in syncs : ~(t < u /\ u <= level[c])}

(* A slip in Before: only the level next to the tag is looked at.          *)
BeforeOneLevel(s, t) == {c \in DOMAIN level : Stream(c) = s /\ level[c] = t - 1}

(* The calls of stream s between the previous tag in the list and sync_t.  *)
Before(s, t) ==
  {c \in DOMAIN level :
     /\ Stream(c) = s
     /\ level[c] < t
     /\ \A u \in syncs : ~(level[c] < u /\ u < t)}

IsConsumerProcuce(mine, other) == \E a \in mine : graph[a] \cap other # {}

(* A slip in Needed: a stream is compared with itself too.                 *)
NeededWithinStream(t) ==
  \E my, other \in Streams : IsConsumerProcuce(After(my, t), Before(other, t))

(* FLAG = 1 at the end of the loops over have_tag_list.                    *)
Needed(t) ==
  \E my, other \in Streams :
    my # other /\ IsConsumerProcuce(After(my, t), Before(other, t))

-----------------------------------------------------------------------------
Init ==
  /\ graph \in Graphs
  /\ g = [n \in Calls |-> find_father(graph, n)]
  /\ level = [n \in {} |-> 0]
  /\ steps = 0
  /\ syncs = {}
  /\ tag = 0
  /\ pc = "solve"

(* A slip in FindMaxForThisLevel: a call with one input left is ready.     *)
FindMaxOneLeft ==
  /\ pc = "solve"
  /\ DOMAIN g # {}
  /\ LET ready == {n \in DOMAIN g : Cardinality(g[n]) <= 1}
     IN  /\ level' = [n \in DOMAIN level \cup ready |->
                        IF n \in ready THEN steps ELSE level[n]]
         /\ g' = [n \in DOMAIN g \ ready |-> g[n] \ ready]
  /\ steps' = steps + 1
  /\ UNCHANGED <<graph, syncs, tag, pc>>

(* A slip in FindMaxForThisLevel: the placed calls stay in the inputs of   *)
(* the others.                                                             *)
FindMaxKeepsInputs ==
  /\ pc = "solve"
  /\ DOMAIN g # {}
  /\ LET ready == {n \in DOMAIN g : g[n] = {}}
     IN  /\ ready # {}
         /\ level' = [n \in DOMAIN level \cup ready |->
                        IF n \in ready THEN steps ELSE level[n]]
         /\ g' = [n \in DOMAIN g \ ready |-> g[n]]
  /\ steps' = steps + 1
  /\ UNCHANGED <<graph, syncs, tag, pc>>

(* One turn of solve's while loop: find_max_for_this_level.  isStencilNode *)
(* holds for every call: from_mlir calls stencil operators only, and       *)
(* GroupOp.fuse tags what it fuses "fuse_...".                             *)
FindMaxForThisLevel ==
  /\ pc = "solve"
  /\ DOMAIN g # {}
  /\ LET ready == {n \in DOMAIN g : g[n] = {}}
     IN  /\ level' = [n \in DOMAIN level \cup ready |->
                        IF n \in ready THEN steps ELSE level[n]]
         /\ g' = [n \in DOMAIN g \ ready |-> g[n] \ ready]
  /\ steps' = steps + 1
  /\ UNCHANGED <<graph, syncs, tag, pc>>

(* A slip in Layout: a tag before the first level too.                     *)
LayoutFirstTag ==
  /\ pc = "solve"
  /\ DOMAIN g = {}
  /\ syncs' = 0 .. steps - 1
  /\ tag' = 1
  /\ pc' = "prune"
  /\ UNCHANGED <<graph, g, level, steps>>

(* All calls are placed: the stream lists are built, a tag before every    *)
(* level but the first.                                                    *)
Layout ==
  /\ pc = "solve"
  /\ DOMAIN g = {}
  /\ syncs' = 1 .. steps - 1
  /\ tag' = 1
  /\ pc' = "prune"
  /\ UNCHANGED <<graph, g, level, steps>>

(* One turn of the loop over the tags, pass (b).                           *)
PruneTag ==
  /\ pc = "prune"
  /\ tag < steps
  /\ syncs' = IF Needed(tag) THEN syncs ELSE syncs \ {tag}
  /\ tag' = tag + 1
  /\ UNCHANGED <<graph, g, level, steps, pc>>

(* Pass (a): a tag found in one list only is removed.                      *)
PruneSingle ==
  /\ pc = "prune"
  /\ tag >= steps
  /\ syncs' = IF Cardinality(Streams) = 1 THEN {} ELSE syncs
  /\ pc' = "done"
  /\ UNCHANGED <<graph, g, level, steps, tag>>

Next == FindMaxForThisLevel \/ Layout \/ PruneTag \/ PruneSingle

Spec == Init /\ [][Next]_vars /\ WF_vars(Next)
-----------------------------------------------------------------------------
TypeOK ==
  /\ graph \in [Calls -> SUBSET Calls]
  /\ g \in [DOMAIN g -> SUBSET Calls] /\ DOMAIN g \subseteq Calls
  /\ level \in [Calls \ DOMAIN g -> 0 .. steps - 1]
  /\ steps \in Nat
  /\ syncs \subseteq 1 .. steps - 1
  /\ tag \in Nat
  /\ pc \in {"solve", "prune", "done"}

(* Every producer is in an earlier level than its consumer: what solve     *)
(* promises to the layout, whatever the order of graph.keys().             *)
Stratified ==
  \A b \in DOMAIN level : \A a \in graph[b] :
    a \in DOMAIN level /\ level[a] < level[b]

(* A barrier that is still in the lists stands between a and b.            *)
SeparatedBy(t, a, b) == t \in syncs /\ level[a] < t /\ t <= level[b]

(* The pruning loses no order: a consumer in another stream than its       *)
(* producer still waits at a barrier that follows the producer.            *)
CrossStreamSeparated ==
  pc = "done" =>
    \A b \in Calls : \A a \in graph[b] :
      Stream(a) # Stream(b) => \E t \in syncs : SeparatedBy(t, a, b)

(* The pruning is complete: every barrier left is the only one between     *)
(* some producer and a consumer of it in another stream.                   *)
NoRedundantSync ==
  pc = "done" =>
    \A t \in syncs : \E b \in Calls : \E a \in graph[b] :
      /\ Stream(a) # Stream(b)
      /\ \A u \in syncs : SeparatedBy(u, a, b) <=> u = t

(* The while loop of solve and the loop over the tags end.                 *)
Terminates == <>(pc = "done")
=============================================================================
