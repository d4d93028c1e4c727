-------------------------- MODULE DependenceProofs --------------------------
(***************************************************************************)
(* Facts about find_father and find_child, and the one the fusion search   *)
(* rests on: two calls with no third call on a path between them can be    *)
(* contracted without closing a cycle.                                     *)
(***************************************************************************)
EXTENDS Dependence, TLAPS

(* What an edge leads to is reached.                                       *)
LEMMA ReachEdge ==
  ASSUME NEW G, IsGraph(G), NEW n \in DOMAIN G
  PROVE  G[n] \subseteq Reach(G, n)
BY DEF IsGraph, Reach

(* What a neighbour reaches is reached.                                    *)
LEMMA ReachTransitive ==
  ASSUME NEW G, NEW n \in DOMAIN G, NEW d \in G[n], NEW x \in Reach(G, d)
  PROVE  x \in Reach(G, n)
<1> SUFFICES ASSUME NEW S \in SUBSET DOMAIN G, G[n] \subseteq S, Closed(G, S)
             PROVE  x \in S
  BY DEF Reach
<1>1. d \in S /\ G[d] \subseteq S
  BY DEF Closed
<1> QED
  BY <1>1 DEF Reach

(* What is reached is a neighbour, or reached from one: find_father is the *)
(* recursion of the code.                                                  *)
LEMMA ReachUnfold ==
  ASSUME NEW G, IsGraph(G), NEW n \in DOMAIN G, NEW x \in Reach(G, n)
  PROVE  x \in G[n] \/ \E d \in G[n] : x \in Reach(G, d)
<1> DEFINE R == G[n] \cup UNION {Reach(G, d) : d \in G[n]}
<1>1. R \in SUBSET DOMAIN G
  BY DEF IsGraph, Reach
<1>2. Closed(G, R)
  <2> SUFFICES ASSUME NEW y \in R, NEW z \in G[y] PROVE z \in R
    BY DEF Closed
  <2>1. CASE y \in G[n]
    BY <1>1, <2>1, ReachEdge
  <2>2. ASSUME NEW d \in G[n], y \in Reach(G, d) PROVE z \in R
    <3>1. z \in Reach(G, d)
      <4> SUFFICES ASSUME NEW S \in SUBSET DOMAIN G, G[d] \subseteq S, Closed(G, S)
                   PROVE  z \in S
        BY <1>1, <2>2 DEF Reach, IsGraph
      <4>1. y \in S
        BY <2>2 DEF Reach
      <4> QED
        BY <4>1 DEF Closed
    <3> QED
      BY <3>1
  <2> QED
    BY <2>1, <2>2
<1>3. x \in R
  BY <1>1, <1>2 DEF Reach
<1> QED
  BY <1>3

(* In a graph without a cycle, no neighbour leads back.                    *)
LEMMA NoWayBack ==
  ASSUME NEW G, IsGraph(G), Acyclic(G), NEW a \in DOMAIN G, NEW d \in G[a], a \in Reach(G, d)
  PROVE  FALSE
<1> DEFINE C == {x \in DOMAIN G : a \in Reach(G, x)}
<1>1. a \in C
  BY ReachTransitive
<1>2. PICK n \in C : G[n] \cap C = {}
  BY <1>1 DEF Acyclic
<1>3. n \in DOMAIN G /\ a \in Reach(G, n) /\ G[n] \subseteq DOMAIN G
  BY DEF IsGraph
<1>4. a \in G[n] \/ \E e \in G[n] : a \in Reach(G, e)
  BY <1>3, ReachUnfold
<1>5. G[n] \cap C # {}
  BY <1>1, <1>3, <1>4
<1> QED
  BY <1>2, <1>5

-----------------------------------------------------------------------------
(* Another call on a path from one of a and b to the other.                *)
Between(G, a, b) ==
  \E c \in DOMAIN G :
    \/ a \in find_father(G, c) /\ b \in find_child(G, c)
    \/ b \in find_father(G, c) /\ a \in find_child(G, c)

(* H is G with a and b contracted to m.                                    *)
Contracts(H, G, a, b, m) ==
  /\ DOMAIN H = (DOMAIN G \ {a, b}) \cup {m} /\ m \notin DOMAIN G
  /\ \A n \in DOMAIN G \ {a, b} :
       H[n] = (G[n] \ {a, b}) \cup (IF a \in G[n] \/ b \in G[n] THEN {m} ELSE {})
  /\ H[m] = (G[a] \cup G[b]) \ {a, b}

(* The contraction of two calls with none between them closes no cycle.    *)
LEMMA ContractKeepsAcyclic ==
  ASSUME NEW G, NEW H, NEW a \in DOMAIN G, NEW b \in DOMAIN G, NEW m,
         IsGraph(G), Acyclic(G), ~Between(G, a, b), Contracts(H, G, a, b, m)
  PROVE  Acyclic(H)
<1> SUFFICES ASSUME NEW S \in SUBSET DOMAIN H, S # {}, \A n \in S : H[n] \cap S # {}
             PROVE  FALSE
  BY DEF Acyclic
<1> DEFINE T == S \ {m}
           U == {x \in T : a \notin Reach(G, x) /\ b \notin Reach(G, x)}
<1>1. T \in SUBSET (DOMAIN G \ {a, b})
  BY DEF Contracts
<1>2. U = {}
  <2> SUFFICES ASSUME U # {} PROVE FALSE
    OBVIOUS
  <2>1. PICK n \in U : G[n] \cap U = {}
    BY <1>1 DEF Acyclic
  <2>2. n \in S /\ n \in DOMAIN G \ {a, b} /\ a \notin Reach(G, n) /\ b \notin Reach(G, n)
    BY <1>1
  <2>3. a \notin G[n] /\ b \notin G[n]
    BY <2>2, ReachEdge
  <2>4. PICK d \in S : d \in H[n]
    BY <2>2
  <2>5. d \in G[n] /\ d \in T
    BY <2>2, <2>3, <2>4 DEF Contracts, IsGraph
  <2>6. d \notin U
    BY <2>1, <2>5
  <2>7. a \in Reach(G, d) \/ b \in Reach(G, d)
    BY <2>5, <2>6
  <2> QED
    BY <2>2, <2>5, <2>7, ReachTransitive
<1>3. m \in S
  <2> SUFFICES ASSUME m \notin S PROVE FALSE
    OBVIOUS
  <2>1. S \in SUBSET DOMAIN G /\ S \in SUBSET (DOMAIN G \ {a, b})
    BY <1>1
  <2>2. PICK n \in S : G[n] \cap S = {}
    BY <2>1 DEF Acyclic
  <2> QED
    BY <2>1, <2>2 DEF Contracts
<1>4. PICK d \in S : d \in H[m]
  BY <1>3
<1>5. d \in T /\ (d \in G[a] \/ d \in G[b])
  BY <1>4 DEF Contracts, IsGraph
<1>6. d \in DOMAIN G /\ (a \in Reach(G, d) \/ b \in Reach(G, d))
  BY <1>1, <1>2, <1>5
<1>7. ~(d \in G[a] /\ a \in Reach(G, d)) /\ ~(d \in G[b] /\ b \in Reach(G, d))
  BY NoWayBack
<1>8. \A e \in DOMAIN G : d \in G[e] => e \in find_child(G, d)
  <2>1. IsGraph(Outputs(G)) /\ DOMAIN Outputs(G) = DOMAIN G
    BY DEF IsGraph, Outputs
  <2>2. Outputs(G)[d] \subseteq Reach(Outputs(G), d)
    BY <1>6, <2>1, ReachEdge
  <2> QED
    BY <1>6, <2>2 DEF Outputs, find_child
<1> QED
  BY <1>5, <1>6, <1>7, <1>8 DEF Between, find_father
=============================================================================
