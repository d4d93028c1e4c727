------------------------- MODULE StreamSolveProofs --------------------------
(***************************************************************************)
(* The planner is correct for every call graph without a cycle.            *)
(*                                                                         *)
(* Stratified needs to know what solve's graph g holds: the ancestors of a *)
(* call that are not placed yet (Ancestors).  CrossStreamSeparated needs   *)
(* what the pruning loop has established when it reaches tag: consumers of *)
(* the levels below tag are separated by a tag that stays (PrunedSoFar),   *)
(* and the tags from tag on are still in the lists.                        *)
(***************************************************************************)
EXTENDS StreamSolve, FiniteSetTheorems, TLAPS

(* A call's direct producers are among its ancestors.                      *)
LEMMA InputsAreFathers ==
  ASSUME NEW G, IsGraph(G), NEW n \in DOMAIN G
  PROVE  G[n] \subseteq find_father(G, n)
BY DEF IsGraph, find_father, Reach

LEMMA FathersAreCalls ==
  ASSUME NEW G, NEW n
  PROVE  find_father(G, n) \subseteq DOMAIN G
BY DEF find_father, Reach

-----------------------------------------------------------------------------
Ancestors == \A n \in DOMAIN g : g[n] = find_father(graph, n) \cap DOMAIN g

LevelInv == TypeOK /\ Ancestors /\ Stratified

LEMMA LevelInit == Init => LevelInv
<1> SUFFICES ASSUME Init PROVE LevelInv
  OBVIOUS
<1> USE DEF Init
<1>1. graph \in [Calls -> SUBSET Calls]
  BY GraphsAssumption
<1>2. DOMAIN graph = Calls /\ DOMAIN g = Calls /\ DOMAIN level = {}
  BY <1>1
<1>3. \A n \in Calls : g[n] = find_father(graph, n) /\ g[n] \subseteq Calls
  BY <1>2, FathersAreCalls
<1>4. TypeOK
  BY <1>1, <1>2, <1>3 DEF TypeOK
<1>5. Ancestors
  BY <1>2, <1>3 DEF Ancestors
<1>6. Stratified
  BY <1>2 DEF Stratified
<1> QED
  BY <1>4, <1>5, <1>6 DEF LevelInv

LEMMA LevelStep == LevelInv /\ [Next]_vars => LevelInv'
<1> SUFFICES ASSUME LevelInv, [Next]_vars PROVE LevelInv'
  OBVIOUS
<1> USE DEF LevelInv
<1>0. graph \in [Calls -> SUBSET Calls] /\ IsGraph(graph)
  BY DEF TypeOK, IsGraph
<1>1. CASE FindMaxForThisLevel
  <2> DEFINE ready == {n \in DOMAIN g : g[n] = {}}
  <2>1. /\ level' = [n \in DOMAIN level \cup ready |-> IF n \in ready THEN steps ELSE level[n]]
        /\ g' = [n \in DOMAIN g \ ready |-> g[n] \ ready]
        /\ steps' = steps + 1
        /\ graph' = graph /\ syncs' = syncs /\ tag' = tag /\ pc' = pc
    BY <1>1 DEF FindMaxForThisLevel
  <2> HIDE DEF ready
  <2>2. ready \subseteq DOMAIN g /\ DOMAIN g \subseteq Calls
    BY DEF ready, TypeOK
  <2>3. DOMAIN level = Calls \ DOMAIN g /\ DOMAIN g' = DOMAIN g \ ready
    BY <2>1 DEF TypeOK
  <2>4. DOMAIN level' = Calls \ DOMAIN g'
    BY <2>1, <2>2, <2>3
  <2>5. \A n \in DOMAIN level' : level'[n] \in 0 .. steps' - 1
    BY <2>1, <2>3 DEF TypeOK
  <2>6. TypeOK'
    <3>1. level' \in [Calls \ DOMAIN g' -> 0 .. steps' - 1]
      BY <2>1, <2>4, <2>5
    <3>2. g' \in [DOMAIN g' -> SUBSET Calls] /\ DOMAIN g' \subseteq Calls
      BY <2>1, <2>2, <2>3 DEF TypeOK
    <3>3. steps' \in Nat /\ syncs' \subseteq 1 .. steps' - 1
      BY <2>1 DEF TypeOK
    <3> QED
      BY <2>1, <3>1, <3>2, <3>3 DEF TypeOK
  <2>7. Ancestors'
    BY <2>1, <2>3 DEF Ancestors
  <2>8. Stratified'
    <3> SUFFICES ASSUME NEW b \in DOMAIN level', NEW a \in graph[b]
                 PROVE  a \in DOMAIN level' /\ level'[a] < level'[b]
      BY <2>1 DEF Stratified
    <3>1. CASE b \in ready
      <4>1. a \in find_father(graph, b) /\ a \in Calls
        BY <1>0, <2>2, <3>1, InputsAreFathers
      <4>2. a \notin DOMAIN g
        BY <2>2, <3>1, <4>1 DEF Ancestors, ready
      <4>3. a \in DOMAIN level /\ a \notin ready
        BY <2>2, <2>3, <4>1, <4>2
      <4>4. level'[a] = level[a] /\ level'[b] = steps
        BY <2>1, <3>1, <4>3
      <4> QED
        BY <2>1, <4>3, <4>4 DEF TypeOK
    <3>2. CASE b \notin ready
      <4>1. b \in DOMAIN level /\ a \in DOMAIN level /\ level[a] < level[b]
        BY <2>1, <3>2 DEF Stratified
      <4>2. a \notin ready
        BY <2>2, <2>3, <4>1
      <4> QED
        BY <2>1, <3>2, <4>1, <4>2
    <3> QED
      BY <3>1, <3>2
  <2> QED
    BY <2>6, <2>7, <2>8
<1>2. CASE Layout
  BY <1>2 DEF Layout, TypeOK, Ancestors, Stratified
<1>3. CASE PruneTag
  BY <1>3 DEF PruneTag, TypeOK, Ancestors, Stratified
<1>4. CASE PruneSingle
  BY <1>4 DEF PruneSingle, TypeOK, Ancestors, Stratified
<1>5. CASE UNCHANGED vars
  BY <1>5 DEF vars, TypeOK, Ancestors, Stratified
<1> QED
  BY <1>1, <1>2, <1>3, <1>4, <1>5 DEF Next

(* The planner's variables keep their types in every run of the planner.   *)
THEOREM TypeCorrect == Spec => []TypeOK
<1>1. Spec => []LevelInv
  BY LevelInit, LevelStep, PTL DEF Spec
<1>2. LevelInv => TypeOK
  BY DEF LevelInv
<1> QED
  BY <1>1, <1>2, PTL

(* solve puts every producer in an earlier level than its consumers, for   *)
(* every graph without a cycle and every order of graph.keys().            *)
THEOREM LevelsStratified == Spec => []Stratified
<1>1. Spec => []LevelInv
  BY LevelInit, LevelStep, PTL DEF Spec
<1>2. LevelInv => Stratified
  BY DEF LevelInv
<1> QED
  BY <1>1, <1>2, PTL

-----------------------------------------------------------------------------
(* What the loop over the tags has established when it reaches tag.        *)
PrunedSoFar ==
  \A b \in Calls : \A a \in graph[b] :
    Stream(a) # Stream(b) /\ level[b] < tag => \E t \in syncs : SeparatedBy(t, a, b)

(* The tags kept so far are needed.                                        *)
KeptSoFar ==
  \A t \in syncs : t < tag =>
    \E b \in Calls : \E a \in graph[b] :
      /\ Stream(a) # Stream(b)
      /\ \A u \in syncs : SeparatedBy(u, a, b) <=> u = t

PruneInv ==
  /\ LevelInv
  /\ pc # "solve" => DOMAIN level = Calls /\ tag >= 1 /\ PrunedSoFar /\ KeptSoFar
  /\ pc = "prune" => \A t \in 1 .. steps - 1 : tag <= t => t \in syncs
  /\ pc = "done" => tag >= steps

(* Only one stream: all calls are in it.                                   *)
LEMMA OneStream ==
  ASSUME TypeOK, DOMAIN level = Calls, Cardinality(Streams) = 1,
         NEW a \in Calls, NEW b \in Calls
  PROVE  Stream(a) = Stream(b)
<1> DEFINE image == {Stream(c) : c \in Calls}
           f == [c \in Calls |-> Stream(c)]
<1>1. f \in Surjection(Calls, image)
  BY DEF Surjection
<1>2. IsFiniteSet(image)
  BY <1>1, CallsAssumption, FS_Surjection
<1>3. Streams = image \cup {0}
  BY DEF Streams
<1>4. IsFiniteSet(Streams)
  BY <1>2, <1>3, FS_AddElement
<1>5. PICK x : Streams = {x}
  BY <1>4, FS_Singleton
<1> QED
  BY <1>3, <1>5

LEMMA PruneInit == Init => PruneInv
BY LevelInit DEF Init, PruneInv

LEMMA PruneStep == PruneInv /\ [Next]_vars => PruneInv'
<1> SUFFICES ASSUME PruneInv, [Next]_vars PROVE PruneInv'
  OBVIOUS
<1>0. LevelInv /\ LevelInv' /\ TypeOK
  BY LevelStep DEF PruneInv, LevelInv
<1>1. CASE FindMaxForThisLevel
  BY <1>0, <1>1 DEF FindMaxForThisLevel, PruneInv
<1>2. CASE Layout
  <2>1. /\ pc' = "prune" /\ tag' = 1 /\ syncs' = 1 .. steps - 1
        /\ level' = level /\ graph' = graph /\ steps' = steps
        /\ DOMAIN level = Calls
    BY <1>0, <1>2 DEF Layout, TypeOK
  <2>2. PrunedSoFar'
    <3> SUFFICES ASSUME NEW b \in Calls, NEW a \in graph[b], level[b] < 1
                 PROVE  FALSE
      BY <2>1 DEF PrunedSoFar
    <3>1. level[a] < level[b] /\ level[a] \in Nat /\ level[b] \in Nat
      BY <1>0, <2>1 DEF LevelInv, Stratified, TypeOK
    <3> QED
      BY <3>1
  <2>3. KeptSoFar'
    BY <2>1 DEF KeptSoFar
  <2> QED
    BY <1>0, <2>1, <2>2, <2>3 DEF PruneInv
<1>3. CASE PruneTag
  <2>1. /\ pc = "prune" /\ pc' = pc /\ tag < steps /\ tag' = tag + 1
        /\ syncs' = IF Needed(tag) THEN syncs ELSE syncs \ {tag}
        /\ level' = level /\ graph' = graph /\ steps' = steps
    BY <1>3 DEF PruneTag
  <2>2. /\ DOMAIN level = Calls /\ tag \in Nat /\ tag >= 1 /\ PrunedSoFar /\ KeptSoFar
        /\ \A t \in 1 .. steps - 1 : tag <= t => t \in syncs
    BY <1>0, <2>1 DEF PruneInv, TypeOK
  <2>3. /\ syncs \subseteq 1 .. steps - 1 /\ syncs' \subseteq syncs /\ steps \in Nat
        /\ \A c \in Calls : level[c] \in Nat
        /\ \A b \in Calls : graph[b] \subseteq Calls
        /\ \A b \in Calls : \A a \in graph[b] : level[a] < level[b]
    BY <1>0, <2>1, <2>2 DEF LevelInv, TypeOK, Stratified
  <2>4. \A c \in Calls : Stream(c)' = Stream(c)
    BY <2>1 DEF Stream
  <2>5. PrunedSoFar'
    <3> SUFFICES ASSUME NEW b \in Calls, NEW a \in graph[b],
                        Stream(a) # Stream(b), level[b] < tag + 1
                 PROVE  \E t \in syncs' : level[a] < t /\ t <= level[b]
      BY <2>1, <2>3, <2>4 DEF PrunedSoFar, SeparatedBy
    <3>1. CASE level[b] < tag
      <4>1. PICK t \in syncs : level[a] < t /\ t <= level[b]
        BY <2>2, <3>1 DEF PrunedSoFar, SeparatedBy
      <4>2. t \in syncs'
        BY <2>1, <2>2, <2>3, <3>1, <4>1
      <4> QED
        BY <4>1, <4>2
    <3>2. CASE level[b] = tag
      <4>1. CASE tag \in syncs'
        BY <2>3, <3>2, <4>1
      <4>2. CASE tag \notin syncs'
        <5>1. tag \in syncs
          BY <2>1, <2>2, <2>3
        <5>2. ~Needed(tag)
          BY <2>1, <4>2, <5>1
        <5>3. b \in After(Stream(b), tag)
          BY <2>2, <2>3, <3>2 DEF After
        <5>4. a \in Calls /\ Stream(a) \in Streams /\ Stream(b) \in Streams
          BY <2>2, <2>3 DEF Streams
        <5>5. a \notin Before(Stream(a), tag)
          BY <5>2, <5>3, <5>4 DEF Needed, IsConsumerProcuce
        <5>6. PICK u \in syncs : level[a] < u /\ u < tag
          BY <2>2, <2>3, <3>2, <5>4, <5>5 DEF Before
        <5>7. u \in syncs'
          BY <2>1, <2>2, <2>3, <5>6
        <5> QED
          BY <2>2, <2>3, <3>2, <5>6, <5>7
      <4> QED
        BY <4>1, <4>2
    <3>3. level[b] < tag \/ level[b] = tag
      BY <2>2, <2>3
    <3> QED
      BY <3>1, <3>2, <3>3
  <2>6. KeptSoFar'
    <3> SUFFICES ASSUME NEW t \in syncs', t < tag + 1
                 PROVE  \E b \in Calls : \E a \in graph[b] :
                          /\ Stream(a) # Stream(b)
                          /\ \A u \in syncs' : level[a] < u /\ u <= level[b] <=> u = t
      BY <2>1, <2>3, <2>4 DEF KeptSoFar, SeparatedBy
    <3>1. CASE t < tag
      BY <2>2, <2>3, <3>1 DEF KeptSoFar, SeparatedBy
    <3>2. CASE t = tag
      <4>1. Needed(tag)
        BY <2>1, <3>2
      <4>2. PICK my \in Streams, other \in Streams :
              my # other /\ IsConsumerProcuce(After(my, tag), Before(other, tag))
        BY <4>1 DEF Needed
      <4>3. PICK b \in After(my, tag) : graph[b] \cap Before(other, tag) # {}
        BY <4>2 DEF IsConsumerProcuce
      <4>4. PICK a \in graph[b] : a \in Before(other, tag)
        BY <4>3
      <4>5. /\ b \in Calls /\ Stream(b) = my /\ level[b] >= tag
            /\ \A u \in syncs : ~(tag < u /\ u <= level[b])
        BY <2>2, <4>3 DEF After
      <4>6. /\ a \in Calls /\ Stream(a) = other /\ level[a] < tag
            /\ \A u \in syncs : ~(level[a] < u /\ u < tag)
        BY <2>2, <4>4 DEF Before
      <4>7. \A u \in syncs' : level[a] < u /\ u <= level[b] <=> u = t
        BY <2>2, <2>3, <3>2, <4>5, <4>6
      <4> QED
        BY <4>2, <4>4, <4>5, <4>6, <4>7
    <3>3. t < tag \/ t = tag
      BY <2>2, <2>3
    <3> QED
      BY <3>1, <3>2, <3>3
  <2> QED
    BY <1>0, <2>1, <2>2, <2>3, <2>5, <2>6 DEF PruneInv
<1>4. CASE PruneSingle
  <2>1. /\ pc = "prune" /\ pc' = "done" /\ tag >= steps /\ tag' = tag
        /\ syncs' = IF Cardinality(Streams) = 1 THEN {} ELSE syncs
        /\ level' = level /\ graph' = graph /\ steps' = steps
        /\ DOMAIN level = Calls /\ tag >= 1 /\ PrunedSoFar /\ KeptSoFar
    BY <1>4 DEF PruneSingle, PruneInv
  <2>2. \A c \in Calls : Stream(c)' = Stream(c)
    BY <2>1 DEF Stream
  <2>3. \A b \in Calls : graph[b] \subseteq Calls
    BY <1>0 DEF TypeOK
  <2>4. CASE Cardinality(Streams) = 1
    <3>1. \A a, b \in Calls : Stream(a) = Stream(b)
      BY <1>0, <2>1, <2>4, OneStream
    <3>2. PrunedSoFar'
      BY <2>1, <2>2, <2>3, <3>1 DEF PrunedSoFar
    <3>3. KeptSoFar'
      BY <2>1, <2>4 DEF KeptSoFar
    <3> QED
      BY <1>0, <2>1, <3>2, <3>3 DEF PruneInv
  <2>5. CASE Cardinality(Streams) # 1
    <3>1. syncs' = syncs
      BY <2>1, <2>5
    <3>2. PrunedSoFar' /\ KeptSoFar'
      BY <2>1, <2>2, <2>3, <3>1 DEF PrunedSoFar, KeptSoFar, SeparatedBy
    <3> QED
      BY <1>0, <2>1, <3>2 DEF PruneInv
  <2> QED
    BY <2>4, <2>5
<1>5. CASE UNCHANGED vars
  <2>1. \A c : Stream(c)' = Stream(c)
    BY <1>5 DEF vars, Stream
  <2> QED
    BY <1>0, <1>5, <2>1 DEF vars, PruneInv, PrunedSoFar, KeptSoFar, SeparatedBy
<1> QED
  BY <1>1, <1>2, <1>3, <1>4, <1>5 DEF Next

(* The removal of barriers keeps the order of every producer and consumer  *)
(* in different streams, for every graph without a cycle: what makes the   *)
(* stream lists of generate_codengen_streamlist safe to run.               *)
THEOREM OrderKept == Spec => []CrossStreamSeparated
<1>1. Spec => []PruneInv
  BY PruneInit, PruneStep, PTL DEF Spec
<1>2. PruneInv => CrossStreamSeparated
  <2> SUFFICES ASSUME PruneInv, pc = "done", NEW b \in Calls, NEW a \in graph[b],
                      Stream(a) # Stream(b)
               PROVE  \E t \in syncs : SeparatedBy(t, a, b)
    BY DEF CrossStreamSeparated
  <2>1. level[b] < tag
    BY DEF PruneInv, LevelInv, TypeOK
  <2> QED
    BY <2>1 DEF PruneInv, PrunedSoFar
<1> QED
  BY <1>1, <1>2, PTL

(* No barrier is left that the lists could do without.                     *)
THEOREM PruningComplete == Spec => []NoRedundantSync
<1>1. Spec => []PruneInv
  BY PruneInit, PruneStep, PTL DEF Spec
<1>2. PruneInv => NoRedundantSync
  <2> SUFFICES ASSUME PruneInv, pc = "done", NEW t \in syncs
               PROVE  \E b \in Calls : \E a \in graph[b] :
                        /\ Stream(a) # Stream(b)
                        /\ \A u \in syncs : SeparatedBy(u, a, b) <=> u = t
    BY DEF NoRedundantSync
  <2>1. t < tag
    BY DEF PruneInv, LevelInv, TypeOK
  <2> QED
    BY <2>1 DEF PruneInv, KeptSoFar
<1> QED
  BY <1>1, <1>2, PTL
=============================================================================
