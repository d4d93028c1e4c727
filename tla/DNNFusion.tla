------------------------------ MODULE DNNFusion -----------------------------
(***************************************************************************)
(* DNNFusion.partition: the calls of a relay function are put into groups, *)
(* each grown from the last call left towards its producers, as long as    *)
(* the mapping types of the operators allow it.                            *)
(*                                                                         *)
(* A call is named by its position in post_dfs_order.  An operator without *)
(* a registered pattern has pattern "None".                                *)
(***************************************************************************)
EXTENDS Dependence, Integers, FiniteSets, SequencesExt

CONSTANTS
  Calls,    \* the calls, numbered in post_dfs_order
  Bodies    \* the functions: the calls among the arguments of every call,
            \* in order, and the patterns

MappingType ==
  {"OneToOne", "OneToMany", "ManyToMany", "Reorganize", "Shuffle", "Tuple", "Opaque", "Parallel", "None"}

IsBody(f) ==
  /\ f \in [args : [Calls -> Seq(Calls)], pattern : [Calls -> MappingType]]
  /\ \A c \in Calls : \A d \in ToSet(f.args[c]) : d < c

ASSUME BodiesAssumption == Calls \subseteq Nat /\ IsFiniteSet(Calls) /\ \A f \in Bodies : IsBody(f)

VARIABLES
  body,
  depend_relations, \* topo_sort: the calls to add, with the producers to wait for
  new_call_group,  \* topo_sort: the calls added
  call_group,      \* the calls without a group, in topological order once sorted
  sub_group,       \* the group that grows
  pattern,         \* its mapping type
  cand_nodes,
  unfused_nodes,
  partial_group,   \* the groups that are complete
  pc

sorting == <<depend_relations, new_call_group>>
vars == <<body, sorting, call_group, sub_group, pattern, cand_nodes, unfused_nodes, partial_group, pc>>

-----------------------------------------------------------------------------
(* build_depends of all calls *)
depends_relation == body.args

graph == [c \in Calls |-> ToSet(depends_relation[c])]

(* get_all_ancestor: the call itself is among them.                        *)
get_all_ancestor(c) == {c} \cup find_father(graph, c)

(* The dictionary of topo_sort, in the order of the list.                  *)
build_depends(s) ==
  [k \in DOMAIN s |->
     [node |-> s[k], depends |-> SelectSeq(depends_relation[s[k]], LAMBDA d : Contains(s, d))]]

fuseable(first, second) ==
  ~(first \in {"OneToMany", "ManyToMany"} /\ second = "ManyToMany")

(* A slip in fuse_table: the second type wins.                             *)
FuseTableSecond(first, second) == IF second = "OneToOne" THEN first ELSE second

fuse_table(first, second) ==
  CASE first = "OneToOne"                     -> second
    [] first \in {"OneToMany", "ManyToMany"}  -> first
    [] OTHER -> IF second \in {"OneToMany", "ManyToMany", "Reorganize"} THEN second ELSE first

-----------------------------------------------------------------------------
Init ==
  /\ body \in Bodies
  /\ call_group = SetToSortSeq(Calls, <)
  /\ depend_relations = build_depends(call_group)
  /\ new_call_group = <<>>
  /\ sub_group = <<>>
  /\ pattern = "None"
  /\ cand_nodes = <<>>
  /\ unfused_nodes = {}
  /\ partial_group = <<>>
  /\ pc = "sort"

(* A turn of topo_sort adds the calls that wait for no producer, and takes *)
(* each of them once from the list of every other call.                    *)
AddNodes ==
  /\ pc \in {"sort", "sort_group"}
  /\ depend_relations # <<>>
  /\ LET ready == SelectSeq(depend_relations, LAMBDA e : e.depends = <<>>)
         add_nodes == [k \in DOMAIN ready |-> ready[k].node]
         left == SelectSeq(depend_relations, LAMBDA e : e.depends # <<>>)
     IN  /\ depend_relations' =
              [k \in DOMAIN left |->
                 [left[k] EXCEPT !.depends = FoldLeft(RemoveFirst, @, add_nodes)]]
         /\ new_call_group' = new_call_group \o add_nodes
  /\ UNCHANGED <<body, call_group, sub_group, pattern, cand_nodes, unfused_nodes, partial_group, pc>>

CallsSorted ==
  /\ pc = "sort"
  /\ depend_relations = <<>>
  /\ call_group' = new_call_group
  /\ pc' = "group"
  /\ UNCHANGED <<body, sorting, sub_group, pattern, cand_nodes, unfused_nodes, partial_group>>

(* A group starts from the last call left.                                 *)
NewGroup ==
  /\ pc = "group"
  /\ call_group # <<>>
  /\ LET root == Last(call_group)
     IN  /\ sub_group' = <<root>>
         /\ call_group' = Front(call_group)
         /\ pattern' = body.pattern[root]
         /\ cand_nodes' = depends_relation[root]
  /\ unfused_nodes' = {}
  /\ pc' = "grow"
  /\ UNCHANGED <<body, sorting, partial_group>>

Candidate == Head(cand_nodes)

CanFuse == pc = "grow" /\ cand_nodes # <<>> /\ fuseable(body.pattern[Candidate], pattern)

(* A slip in NewCands: a call that waits is added again.                   *)
NewCandsAgain(c, free) == SelectSeq(depends_relation[c], LAMBDA d : Contains(free, d))

(* The producers of the candidate that are still free become candidates.   *)
NewCands(c, free) ==
  SelectSeq(depends_relation[c], LAMBDA d : Contains(free, d) /\ ~Contains(Tail(cand_nodes), d))

(* A slip in FuseCand: the call stays in call_group.                       *)
FuseCandKeepsCall ==
  /\ CanFuse
  /\ Candidate \notin unfused_nodes
  /\ Contains(call_group, Candidate)
  /\ pattern' = fuse_table(body.pattern[Candidate], pattern)
  /\ sub_group' = Append(sub_group, Candidate)
  /\ cand_nodes' = Tail(cand_nodes) \o NewCands(Candidate, call_group)
  /\ UNCHANGED <<body, sorting, call_group, unfused_nodes, partial_group, pc>>

FuseCand ==
  /\ CanFuse
  /\ Candidate \notin unfused_nodes
  /\ Contains(call_group, Candidate)
  /\ pattern' = fuse_table(body.pattern[Candidate], pattern)
  /\ sub_group' = Append(sub_group, Candidate)
  /\ call_group' = Remove(call_group, Candidate)
  /\ cand_nodes' = Tail(cand_nodes) \o NewCands(Candidate, call_group')
  /\ UNCHANGED <<body, sorting, unfused_nodes, partial_group, pc>>

(* call_group.remove(node) raises ValueError: the call has a group.  The   *)
(* type and the group that grows have been updated by then.                *)
RemoveFails ==
  /\ CanFuse
  /\ Candidate \notin unfused_nodes
  /\ ~Contains(call_group, Candidate)
  /\ pattern' = fuse_table(body.pattern[Candidate], pattern)
  /\ sub_group' = Append(sub_group, Candidate)
  /\ cand_nodes' = Tail(cand_nodes)
  /\ pc' = "raised"
  /\ UNCHANGED <<body, sorting, call_group, unfused_nodes, partial_group>>

SkipCand ==
  /\ CanFuse
  /\ Candidate \in unfused_nodes
  /\ cand_nodes' = Tail(cand_nodes)
  /\ UNCHANGED <<body, sorting, call_group, sub_group, pattern, unfused_nodes, partial_group, pc>>

(* A slip in RefuseCand: the candidate is looked at again.                 *)
RefuseCandKeeps ==
  /\ pc = "grow"
  /\ cand_nodes # <<>>
  /\ ~CanFuse
  /\ unfused_nodes' = unfused_nodes \cup get_all_ancestor(Candidate)
  /\ UNCHANGED <<body, sorting, call_group, sub_group, pattern, cand_nodes, partial_group, pc>>

RefuseCand ==
  /\ pc = "grow"
  /\ cand_nodes # <<>>
  /\ ~CanFuse
  /\ unfused_nodes' = unfused_nodes \cup get_all_ancestor(Candidate)
  /\ cand_nodes' = Tail(cand_nodes)
  /\ UNCHANGED <<body, sorting, call_group, sub_group, pattern, partial_group, pc>>

(* The group is complete: topo_sort begins with it.                        *)
SortGroup ==
  /\ pc = "grow"
  /\ cand_nodes = <<>>
  /\ depend_relations' = build_depends(sub_group)
  /\ new_call_group' = <<>>
  /\ pc' = "sort_group"
  /\ UNCHANGED <<body, call_group, sub_group, pattern, cand_nodes, unfused_nodes, partial_group>>

(* A slip in CloseGroup: the group is left in the order it grew.           *)
CloseGroupUnsorted ==
  /\ pc = "sort_group"
  /\ depend_relations = <<>>
  /\ partial_group' = Append(partial_group, sub_group)
  /\ sub_group' = <<>>
  /\ pc' = "group"
  /\ UNCHANGED <<body, sorting, call_group, pattern, cand_nodes, unfused_nodes>>

CloseGroup ==
  /\ pc = "sort_group"
  /\ depend_relations = <<>>
  /\ partial_group' = Append(partial_group, new_call_group)
  /\ sub_group' = <<>>
  /\ pc' = "group"
  /\ UNCHANGED <<body, sorting, call_group, pattern, cand_nodes, unfused_nodes>>

Return ==
  /\ pc = "group"
  /\ call_group = <<>>
  /\ pc' = "returned"
  /\ UNCHANGED <<body, sorting, call_group, sub_group, pattern, cand_nodes, unfused_nodes, partial_group>>

Next ==
  \/ AddNodes \/ CallsSorted
  \/ NewGroup \/ FuseCand \/ RemoveFails \/ SkipCand \/ RefuseCand \/ SortGroup \/ CloseGroup
  \/ Return

Spec == Init /\ [][Next]_vars /\ WF_vars(Next)

-----------------------------------------------------------------------------
(* A call waits once: a second turn would remove it from call_group twice. *)
TypeOK ==
  /\ IsBody(body)
  /\ depend_relations \in Seq([node : Calls, depends : Seq(Calls)]) /\ new_call_group \in Seq(Calls)
  /\ call_group \in Seq(Calls) /\ sub_group \in Seq(Calls)
  /\ pattern \in MappingType
  /\ cand_nodes \in Seq(Calls) /\ IsInjective(cand_nodes)
  /\ unfused_nodes \subseteq Calls
  /\ partial_group \in Seq(Seq(Calls))
  /\ pc \in {"sort", "group", "grow", "sort_group", "returned", "raised"}

(* The groups, complete or growing.                                        *)
Groups == ToSet(partial_group) \cup ({sub_group} \ {<<>>})

(* Unless partition has raised, no call is lost or put in two groups, and  *)
(* a call is free or in a group, never both: run_fuse's call_map gives     *)
(* every call one group.                                                   *)
EachCallOnce ==
  LET all == call_group \o sub_group \o FlattenSeq(partial_group)
  IN  pc # "raised" => IsInjective(all) /\ ToSet(all) = Calls

(* "Every group can be fused into one op": a group never holds two         *)
(* many-to-many operators, whatever the order in which it grew.            *)
OneManyToMany ==
  \A s \in Groups : Cardinality({c \in ToSet(s) : body.pattern[c] = "ManyToMany"}) <= 1

(* GroupOp.fuse returns the last call of the group: every other call of    *)
(* the group is a producer of it.                                          *)
LastIsResult ==
  \A k \in DOMAIN partial_group :
    \A c \in ToSet(partial_group[k]) : c \in get_all_ancestor(Last(partial_group[k]))

(* The docstring of partition: no node outside a group that is returned is *)
(* both upstream and downstream of it.                                     *)
GroupsConvex ==
  pc = "returned" =>
    \A k \in DOMAIN partial_group : \A n \in Calls \ ToSet(partial_group[k]) :
      find_father(graph, n) \cap ToSet(partial_group[k]) = {}
        \/ find_child(graph, n) \cap ToSet(partial_group[k]) = {}

(* partition ends, with the groups or with the ValueError of               *)
(* call_group.remove, exactly on the functions in which no call has the    *)
(* same call twice among its arguments; on the others topo_sort, which     *)
(* takes a producer once from a list that holds it twice, never ends.      *)
PartitionEnds ==
  IF \A c \in Calls : IsInjective(depends_relation[c])
  THEN <>(pc \in {"returned", "raised"})
  ELSE [](pc = "sort")
=============================================================================
