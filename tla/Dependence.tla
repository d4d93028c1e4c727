----------------------------- MODULE Dependence -----------------------------
(***************************************************************************)
(* Dependence graphs of a list of relay calls.  A graph G maps every call  *)
(* to the set of calls that produce its arguments (graph[call]["input"]).  *)
(* The same three loops are written in node_auto_fusion.build_depence and  *)
(* in StreamSolver.build_depence; both modules use these operators.        *)
(***************************************************************************)

(* The direct consumers: graph[arg]["output"].add(call) *)
Outputs(G) == [n \in DOMAIN G |-> {m \in DOMAIN G : n \in G[m]}]

Closed(G, S) == \A n \in S : G[n] \subseteq S

(* find_father and find_child collect every call met when edges are        *)
(* followed from n, which is the least set that contains G[n] and is       *)
(* closed under G.                                                         *)
Reach(G, n) ==
  LET closed == {S \in SUBSET DOMAIN G : G[n] \subseteq S /\ Closed(G, S)}
  IN  {m \in DOMAIN G : \A S \in closed : m \in S}

(* The calls met when edges are followed from the calls R, and R itself.   *)
ReachFrom(G, R) ==
  {m \in DOMAIN G : \A S \in SUBSET DOMAIN G : R \subseteq S /\ Closed(G, S) => m \in S}

find_father(G, n) == Reach(G, n)
find_child(G, n)  == Reach(Outputs(G), n)

(* A graph of calls: every edge leads to a call of the graph. *)
IsGraph(G) == \A n \in DOMAIN G : G[n] \subseteq DOMAIN G

(* No cycle: every nonempty set of calls has a member that consumes none   *)
(* of the set.                                                             *)
Acyclic(G) ==
  \A S \in SUBSET DOMAIN G : S # {} => \E n \in S : G[n] \cap S = {}
=============================================================================
