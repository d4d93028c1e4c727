------------------------ MODULE NodeAutoFusionProofs ------------------------
(***************************************************************************)
(* The fusion search keeps the module a data flow graph, for every program *)
(* without a cycle, every number of stencils and every choice among pairs  *)
(* of equal score.                                                         *)
(*                                                                         *)
(* SearchInv is inductive: the calls partition the stencils, their graph   *)
(* has no cycle, stencils with a branch are alone, every name denotes the  *)
(* result it should, the outputs of a call are results of its own          *)
(* stencils, every call is met from the results of the module, and the     *)
(* exclusions a pair is chosen with are the ones of the present calls.     *)
(***************************************************************************)
EXTENDS NodeAutoFusion, DependenceProofs, FiniteSetTheorems, SequenceTheorems

Current ==
  /\ pc = "start" => fuse_steps = 0
  /\ pc = "search" => exclusions = analysis_exclusion \cup if_exclusion

(* The outputs of a call are results of its own stencils.                  *)
OwnOuts == \A c \in call_list : \A i \in DOMAIN outs[c] : outs[c][i] \in c

(* Every call is met on the way from the results of the module.            *)
Rooted ==
  \A S \in SUBSET call_list : CallsOf(body) \subseteq S /\ Closed(CallGraph, S) => call_list \subseteq S

Module == CallsPartition /\ CallsAcyclic /\ IfStencilsAlone /\ OwnOuts /\ RefsDenote /\ Rooted

SearchInv == TypeOK /\ Module /\ Current

(* The graph of the calls is a graph.                                      *)
LEMMA CallGraphIsGraph ==
  ASSUME RefsDenote
  PROVE  IsGraph(CallGraph) /\ DOMAIN CallGraph = call_list
BY DEF IsGraph, CallGraph, CallsOf, RefsDenote, Denote

(* Before any fusion the graph of the calls is the graph of the stencils.  *)
LEMMA SearchInit == Init => SearchInv
<1> SUFFICES ASSUME Init PROVE SearchInv
  OBVIOUS
<1>1. /\ IsProgram(prog) /\ prog.uses \in [Stencils -> SUBSET Tensors]
      /\ prog.rets \in SUBSET Stencils
  BY ProgramsAssumption DEF Init, IsProgram
<1>2. call_list = {{s} : s \in Stencils}
  BY DEF Init
<1> DEFINE At(s) == [call |-> {s}, idx |-> 1]
<1>3. \A s \in Stencils : args[{s}] = {At(t) : t \in prog.uses[s] \cap Stencils}
  <2> TAKE s \in Stencils
  <2>1. UNION {prog.uses[t] \cap Stencils : t \in {s}} = prog.uses[s] \cap Stencils
    OBVIOUS
  <2>2. {s} \in call_list
    BY <1>2
  <2>3. args[{s}] = {At(t) : t \in UNION {prog.uses[u] \cap Stencils : u \in {s}}}
    BY <2>2 DEF Init
  <2> QED
    BY <2>1, <2>3
<1>4. body = {At(s) : s \in prog.rets}
  BY DEF Init
<1>5. \A s : At(s).call = {s} /\ At(s).idx = 1
  OBVIOUS
<1>6. \A s \in Stencils : At(s) \in Refs
  BY DEF Refs
<1> HIDE DEF At
<1>7. \A s \in Stencils : CallGraph[{s}] = {{t} : t \in prog.uses[s] \cap Stencils}
  <2> TAKE s \in Stencils
  <2> DEFINE U == prog.uses[s] \cap Stencils
  <2>1. CallGraph[{s}] = CallsOf(args[{s}])
    BY <1>2 DEF CallGraph
  <2>2. args[{s}] = {At(t) : t \in U}
    BY <1>3
  <2> HIDE DEF U
  <2>3. ASSUME NEW t \in U PROVE {t} \in CallsOf(args[{s}])
    <3>1. At(t) \in args[{s}] /\ {t} = At(t).call
      BY <1>5, <2>2
    <3> QED
      BY <3>1, Zenon DEF CallsOf
  <2>4. ASSUME NEW x \in CallsOf(args[{s}]) PROVE \E t \in U : x = {t}
    <3>1. PICK r \in args[{s}] : x = r.call
      BY DEF CallsOf
    <3>2. PICK t \in U : r = At(t)
      BY <2>2
    <3> QED
      BY <1>5, <3>1, <3>2
  <2>5. CallGraph[{s}] = {{t} : t \in U}
    <3>1. CallsOf(args[{s}]) \subseteq {{t} : t \in U}
      BY <2>4
    <3>2. {{t} : t \in U} \subseteq CallsOf(args[{s}])
      BY <2>3
    <3> QED
      BY <2>1, <3>1, <3>2
  <2> QED
    BY <2>5 DEF U
<1>8. CallsAcyclic
  <2> SUFFICES ASSUME NEW S \in SUBSET call_list, S # {}
               PROVE  \E c \in S : CallGraph[c] \cap S = {}
    BY DEF CallsAcyclic, Acyclic, CallGraph
  <2> DEFINE T == {s \in Stencils : {s} \in S}
  <2>1. T # {} /\ T \in SUBSET Stencils
    <3>1. PICK c \in S : TRUE
      OBVIOUS
    <3>2. PICK s \in Stencils : c = {s}
      BY <1>2, <3>1
    <3> QED
      BY <3>1, <3>2
  <2>2. PICK s \in T : StencilGraph(prog)[s] \cap T = {}
    BY <1>1, <2>1 DEF IsProgram, Acyclic, StencilGraph
  <2>3. prog.uses[s] \cap T = {}
    BY <2>2 DEF StencilGraph
  <2>4. CallGraph[{s}] \cap S = {}
    BY <1>7, <2>3
  <2> QED
    BY <2>4
<1>9. \A s \in Stencils : s \notin prog.uses[s]
  <2> TAKE s \in Stencils
  <2>1. {s} \in SUBSET DOMAIN StencilGraph(prog) /\ {s} # {}
    BY DEF StencilGraph
  <2>2. \E n \in {s} : StencilGraph(prog)[n] \cap {s} = {}
    BY <1>1, <2>1, Zenon DEF IsProgram, Acyclic
  <2> QED
    BY <2>2 DEF StencilGraph
<1>10. outs \in [call_list -> Seq(Stencils)] /\ \A s \in Stencils : outs[{s}] = <<s>>
  <2>1. \A c \in call_list : \E s \in Stencils : c = {s}
    BY <1>2
  <2>2. \A s \in Stencils : (CHOOSE t \in Stencils : {s} = {t}) = s
    OBVIOUS
  <2>3. \A s \in Stencils : {s} \in call_list
    BY <1>2
  <2>4. outs = [c \in call_list |-> <<CHOOSE t \in Stencils : c = {t}>>]
    BY DEF Init
  <2>5. \A s \in Stencils : outs[{s}] = <<s>>
    BY <2>2, <2>3, <2>4
  <2>6. \A c \in call_list : outs[c] \in Seq(Stencils)
    <3>1. \A s \in Stencils : <<s>> \in Seq(Stencils)
      OBVIOUS
    <3> QED
      BY <2>1, <2>5, <3>1
  <2> QED
    BY <2>4, <2>5, <2>6
<1>11. args \in [call_list -> SUBSET Refs] /\ body \subseteq Refs
  <2>1. \A c \in call_list : args[c] \in SUBSET Refs
    BY <1>2, <1>3, <1>6
  <2>2. args = [c \in call_list |-> args[c]]
    BY DEF Init
  <2> QED
    BY <1>1, <1>4, <1>6, <2>1, <2>2
<1>12. TypeOK
  <2>1. call_list \subseteq SUBSET Stencils
    BY <1>2
  <2>2. /\ fuse_steps = 0 /\ exclusions = {} /\ records = <<>> /\ pc = "start"
        /\ mode \in {"fusion", "parallel", "inline", "baseline"}
    BY DEF Init
  <2> QED
    BY <1>1, <1>10, <1>11, <2>1, <2>2, MaxFuseAssumption DEF TypeOK
<1>13. CallsPartition
  BY <1>2 DEF CallsPartition
<1>14. IfStencilsAlone
  BY <1>2 DEF IfStencilsAlone
<1>15. \A s \in Stencils : /\ {s} \in call_list /\ DOMAIN outs[{s}] = {1}
                           /\ outs[{s}][1] = s
  <2>1. \A s \in Stencils : DOMAIN <<s>> = {1} /\ <<s>>[1] = s
    OBVIOUS
  <2> QED
    BY <1>2, <1>10, <2>1
<1>16. OwnOuts
  BY <1>2, <1>15 DEF OwnOuts
<1>17. \A s \in Stencils : Named(At(s)) = s /\ At(s).call \in call_list /\ At(s).idx \in DOMAIN outs[At(s).call]
  BY <1>5, <1>15 DEF Named
<1>18. ASSUME NEW S \in SUBSET Stencils PROVE Denote({At(s) : s \in S}, S)
  BY <1>17 DEF Denote
<1>19. \A s \in Stencils : UsedBy({s}) = prog.uses[s] \cap Stencils
  <2> TAKE s \in Stencils
  <2>1. UNION {prog.uses[t] \cap Stencils : t \in {s}} = prog.uses[s] \cap Stencils
    OBVIOUS
  <2> QED
    BY <1>9, <2>1 DEF UsedBy
<1>20. RefsDenote
  <2>1. \A s \in Stencils : Denote(args[{s}], UsedBy({s}))
    BY <1>3, <1>18, <1>19
  <2> QED
    BY <1>1, <1>2, <1>4, <1>18, <2>1 DEF RefsDenote
<1>21. Rooted
  <2> SUFFICES ASSUME NEW S \in SUBSET call_list, CallsOf(body) \subseteq S, Closed(CallGraph, S)
               PROVE  call_list \subseteq S
    BY DEF Rooted
  <2> DEFINE T == {s \in Stencils : {s} \in S}
  <2>1. prog.rets \subseteq T
    <3> SUFFICES ASSUME NEW s \in prog.rets PROVE s \in T
      OBVIOUS
    <3>1. At(s) \in body
      BY <1>4
    <3>2. {s} \in CallsOf(body)
      BY <1>5, <3>1, Zenon DEF CallsOf
    <3> QED
      BY <1>1, <3>2
  <2>2. ASSUME NEW s \in T PROVE StencilGraph(prog)[s] \subseteq T
    <3>1. CallGraph[{s}] \subseteq S
      BY DEF Closed
    <3>2. StencilGraph(prog)[s] = prog.uses[s] \cap Stencils
      BY DEF StencilGraph
    <3> QED
      BY <1>7, <3>1, <3>2
  <2>3. Closed(StencilGraph(prog), T) /\ T \in SUBSET DOMAIN StencilGraph(prog)
    BY <2>2 DEF Closed, StencilGraph
  <2>4. ReachFrom(StencilGraph(prog), prog.rets) = Stencils
    BY <1>1 DEF IsProgram
  <2> HIDE DEF T
  <2>5. Stencils \subseteq T
    BY <2>1, <2>3, <2>4, Zenon DEF ReachFrom
  <2> QED
    BY <1>2, <2>5 DEF T
<1>22. Current
  BY DEF Init, Current
<1> QED
  BY <1>8, <1>12, <1>13, <1>14, <1>16, <1>20, <1>21, <1>22 DEF SearchInv, Module

-----------------------------------------------------------------------------
(* A pair that may be fused: two calls, neither with a branch, and no call *)
(* between them.                                                           *)
LEMMA PairIsFree ==
  ASSUME SearchInv, pc = "search", NEW p \in find_fuse_pair
  PROVE  /\ p[1] \in call_list /\ p[2] \in call_list /\ p[1] # p[2]
         /\ ~HasIf(p[1]) /\ ~HasIf(p[2])
         /\ ~Between(CallGraph, p[1], p[2])
<1>1. p \in Pairs /\ calculate_score(p) > -1
  BY DEF find_fuse_pair
<1>2. p = <<p[1], p[2]>> /\ p[1] \in call_list /\ p[2] \in call_list
  BY <1>1 DEF Pairs
<1>3. p \notin exclusions
  <2> SUFFICES ASSUME p \in exclusions PROVE FALSE
    OBVIOUS
  <2>1. calculate_score(p) = -1
    BY DEF calculate_score
  <2> QED
    BY <1>1, <2>1
<1>4. p \notin analysis_exclusion /\ p \notin if_exclusion
  BY <1>3 DEF SearchInv, Current
<1>5. ~HasIf(p[1]) /\ ~HasIf(p[2])
  BY <1>1, <1>4 DEF if_exclusion
<1>6. \A c \in call_list :
        /\ p # <<c, c>>
        /\ ~(p[1] \in find_father(CallGraph, c) /\ p[2] \in find_child(CallGraph, c))
        /\ ~(p[1] \in find_child(CallGraph, c) /\ p[2] \in find_father(CallGraph, c))
  BY <1>2, <1>4 DEF analysis_exclusion
<1>7. p[1] # p[2]
  BY <1>2, <1>6
<1>8. ~Between(CallGraph, p[1], p[2])
  BY <1>6, CallGraphIsGraph DEF Between, SearchInv, Module
<1> QED
  BY <1>2, <1>5, <1>7, <1>8

-----------------------------------------------------------------------------
(* What a fusion does to a name.                                           *)
LEMMA FreshCall ==
  ASSUME CallsPartition, NEW a \in call_list, NEW b \in call_list, a # b
  PROVE  a \cup b \notin call_list
<1> SUFFICES ASSUME a \cup b \in call_list PROVE FALSE
  OBVIOUS
<1>1. (a \cup b) \cap a # {} /\ (a \cup b) \cap b # {}
  BY DEF CallsPartition
<1> QED
  BY <1>1 DEF CallsPartition

LEMMA Order ==
  ASSUME NEW a, NEW b, a # b
  PROVE  First(a, b) # Second(a, b) /\ {First(a, b), Second(a, b)} = {a, b}
BY DEF First, Second

(* relay_call_map leaves the results of other calls alone.                 *)
LEMMA OthersKept ==
  ASSUME NEW a, NEW b, a # b, NEW r, r.call \notin {a, b}
  PROVE  relay_call_map(r, a, b) = r
BY Order DEF relay_call_map

(* relay_call_map has an entry for every result of the pair that somebody  *)
(* else reads, or that is stored.                                          *)
LEMMA EntryForOthers ==
  ASSUME NEW a, NEW b, a # b, NEW r \in other_args(a, b)
  PROVE  /\ r.call = First(a, b) =>
              /\ FirstOuts(a, b) = outs[First(a, b)]
              /\ relay_call_map(r, a, b) = [call |-> a \cup b, idx |-> r.idx]
         /\ r.call = Second(a, b) =>
              relay_call_map(r, a, b) = [call |-> a \cup b, idx |-> Len(FirstOuts(a, b)) + r.idx]
<1>1. First(a, b) # Second(a, b) /\ {First(a, b), Second(a, b)} = {a, b}
  BY Order
<1>2. CASE r.call = First(a, b)
  <2>1. First(a, b) \in CallsOf(other_args(a, b))
    BY <1>2 DEF CallsOf
  <2>2. FirstIsOutput(a, b)
    BY <2>1 DEF FirstIsOutput
  <2>3. relay_call_map(r, a, b) = [call |-> a \cup b, idx |-> r.idx]
    BY <1>1, <1>2, <2>2 DEF relay_call_map
  <2>4. FirstOuts(a, b) = outs[First(a, b)]
    BY <2>2 DEF FirstOuts
  <2> QED
    BY <1>1, <1>2, <2>3, <2>4
<1>3. CASE r.call = Second(a, b)
  <2>1. relay_call_map(r, a, b) = [call |-> a \cup b, idx |-> Len(FirstOuts(a, b)) + r.idx]
    BY <1>1, <1>3 DEF relay_call_map
  <2> QED
    BY <1>1, <1>3, <2>1
<1> QED
  BY <1>2, <1>3

(* The call that computes the results of c after the fusion of a and b.    *)
CallAfter(c, a, b) == IF c \in {a, b} THEN a \cup b ELSE c

LEMMA EntryCall ==
  ASSUME NEW a, NEW b, a # b, NEW r \in other_args(a, b)
  PROVE  relay_call_map(r, a, b).call = CallAfter(r.call, a, b)
<1> USE DEF CallAfter
<1>1. First(a, b) # Second(a, b) /\ {First(a, b), Second(a, b)} = {a, b}
  BY Order
<1>2. CASE r.call = First(a, b)
  <2>1. relay_call_map(r, a, b) = [call |-> a \cup b, idx |-> r.idx]
    BY <1>2, EntryForOthers
  <2> QED
    BY <1>1, <1>2, <2>1
<1>3. CASE r.call = Second(a, b)
  <2> DEFINE i == Len(FirstOuts(a, b)) + r.idx
  <2>1. relay_call_map(r, a, b) = [call |-> a \cup b, idx |-> i]
    BY <1>3, EntryForOthers
  <2> HIDE DEF i
  <2> QED
    BY <1>1, <1>3, <2>1
<1>4. CASE r.call \notin {a, b}
  BY <1>4, OthersKept
<1> QED
  BY <1>1, <1>2, <1>3, <1>4

(* The calls of a list of replaced names.                                  *)
LEMMA ReplacedCalls ==
  ASSUME NEW a, NEW b, a # b, NEW R \in SUBSET other_args(a, b)
  PROVE  CallsOf(ReplaceParams(R, a, b)) =
           (CallsOf(R) \ {a, b}) \cup (IF a \in CallsOf(R) \/ b \in CallsOf(R) THEN {a \cup b} ELSE {})
<1>1. \A r \in R : relay_call_map(r, a, b).call = CallAfter(r.call, a, b)
  BY EntryCall
<1>2. \A x : x \in CallsOf(ReplaceParams(R, a, b)) <=> \E r \in R : x = relay_call_map(r, a, b).call
  BY Zenon DEF CallsOf, ReplaceParams
<1>3. \A x : x \in CallsOf(R) <=> \E r \in R : x = r.call
  BY Zenon DEF CallsOf
<1>4. ASSUME NEW x \in CallsOf(ReplaceParams(R, a, b)) PROVE \E c \in CallsOf(R) : x = CallAfter(c, a, b)
  <2>1. PICK r \in R : x = relay_call_map(r, a, b).call
    BY <1>2
  <2>2. x = CallAfter(r.call, a, b) /\ r.call \in CallsOf(R)
    BY <1>1, <1>3, <2>1
  <2> QED
    BY <2>2
<1>5. ASSUME NEW c \in CallsOf(R) PROVE CallAfter(c, a, b) \in CallsOf(ReplaceParams(R, a, b))
  <2>1. PICK r \in R : c = r.call
    BY <1>3
  <2>2. CallAfter(c, a, b) = relay_call_map(r, a, b).call
    BY <1>1, <2>1
  <2> QED
    BY <1>2, <2>2
<1> QED
  BY <1>4, <1>5 DEF CallAfter

(* The fused call reads what the pair read from other calls.               *)
LEMMA FusedArgs ==
  ASSUME NEW a, NEW b, a # b
  PROVE  /\ ReplaceParams(init_args(a, b), a, b) = init_args(a, b)
         /\ CallsOf(init_args(a, b)) = (CallsOf(args[a]) \cup CallsOf(args[b])) \ {a, b}
<1>1. \A r \in init_args(a, b) : relay_call_map(r, a, b) = r
  BY OthersKept DEF init_args
<1>2. ReplaceParams(init_args(a, b), a, b) = init_args(a, b)
  BY <1>1 DEF ReplaceParams
<1>3. \A x : x \in CallsOf(init_args(a, b)) <=> \E r \in args[a] \cup args[b] : r.call \notin {a, b} /\ x = r.call
  BY Zenon DEF CallsOf, init_args
<1>4. \A x : x \in CallsOf(args[a]) \cup CallsOf(args[b]) <=> \E r \in args[a] \cup args[b] : x = r.call
  BY Zenon DEF CallsOf
<1> QED
  BY <1>2, <1>3, <1>4

(* The module after a fusion: the pair has made way for the fused call,    *)
(* every other call is there still, with its arguments renamed.            *)
LEMMA FuseResult ==
  ASSUME TypeOK, CallsPartition, RefsDenote, Rooted,
         NEW a \in call_list, NEW b \in call_list, a # b, FuseCalls(a, b)
  PROVE  /\ call_list' = (call_list \ {a, b}) \cup {a \cup b}
         /\ args' = [c \in call_list' |->
                       IF c = a \cup b THEN init_args(a, b) ELSE ReplaceParams(args[c], a, b)]
         /\ outs' = [c \in call_list' |->
                       IF c = a \cup b THEN FirstOuts(a, b) \o outs[Second(a, b)] ELSE outs[c]]
         /\ body' = ReplaceParams(body, a, b)
<1> DEFINE m    == a \cup b
           rest == call_list \ {a, b}
           all  == call_list \cup {m}
           newArgs == [c \in all |-> ReplaceParams(IF c = m THEN init_args(a, b) ELSE args[c], a, b)]
           newOuts == [c \in all |-> IF c = m THEN FirstOuts(a, b) \o outs[Second(a, b)] ELSE outs[c]]
           graph   == [c \in all |-> CallsOf(newArgs[c])]
           roots   == CallsOf(ReplaceParams(body, a, b))
<1>1. /\ body' = ReplaceParams(body, a, b) /\ call_list' = ReachFrom(graph, roots)
      /\ args' = [c \in call_list' |-> newArgs[c]]
      /\ outs' = [c \in call_list' |-> newOuts[c]]
  BY DEF FuseCalls
<1>2. m \notin call_list
  BY FreshCall
<1>3. \A c \in rest : args[c] \in SUBSET other_args(a, b)
  BY DEF other_args
<1>4. body \in SUBSET other_args(a, b)
  BY DEF other_args
<1>5. DOMAIN graph = all
  OBVIOUS
<1>6. graph[m] = (CallGraph[a] \cup CallGraph[b]) \ {a, b}
  <2>1. newArgs[m] = init_args(a, b)
    BY FusedArgs
  <2>2. graph[m] = CallsOf(init_args(a, b))
    BY <2>1
  <2> QED
    BY <2>2, FusedArgs DEF CallGraph
<1> DEFINE Moved(R) == (R \ {a, b}) \cup (IF a \in R \/ b \in R THEN {m} ELSE {})
<1>7. ASSUME NEW c \in rest PROVE graph[c] = Moved(CallGraph[c])
  <2>1. newArgs[c] = ReplaceParams(args[c], a, b)
    BY <1>2
  <2>2. graph[c] = CallsOf(ReplaceParams(args[c], a, b))
    BY <2>1
  <2> QED
    BY <1>3, <2>2, ReplacedCalls DEF CallGraph
<1>8. roots = Moved(CallsOf(body))
  BY <1>4, ReplacedCalls
<1>9. /\ \A c \in call_list : CallGraph[c] \subseteq call_list
      /\ CallsOf(body) \subseteq call_list
  BY DEF RefsDenote, Denote, CallGraph, CallsOf
<1> HIDE DEF graph, roots, newArgs, newOuts
<1>10. call_list' \subseteq rest \cup {m}
  <2>1. rest \cup {m} \in SUBSET DOMAIN graph
    BY <1>5
  <2>2. roots \subseteq rest \cup {m}
    BY <1>8, <1>9
  <2>3. \A c \in rest : graph[c] \subseteq rest \cup {m}
    BY <1>7, <1>9
  <2>4. graph[m] \subseteq rest \cup {m}
    BY <1>6, <1>9
  <2>5. Closed(graph, rest \cup {m})
    BY <2>3, <2>4 DEF Closed
  <2> HIDE DEF rest, m
  <2> QED
    BY <1>1, <2>1, <2>2, <2>5, Zenon DEF ReachFrom
<1>11. ASSUME NEW S \in SUBSET all, roots \subseteq S, Closed(graph, S)
       PROVE  rest \cup {m} \subseteq S
  <2> DEFINE T == {c \in call_list : IF c \in {a, b} THEN m \in S ELSE c \in S}
  <2>1. \A R \in SUBSET call_list : Moved(R) \subseteq S => R \subseteq T
    OBVIOUS
  <2>2. CallsOf(body) \subseteq T
    BY <1>8, <1>9, <1>11, <2>1
  <2>3. ASSUME NEW c \in T PROVE CallGraph[c] \subseteq T
    <3>1. CASE c \in {a, b}
      <4>1. graph[m] \subseteq S /\ m \in S
        BY <1>11, <3>1 DEF Closed
      <4>2. CallGraph[c] \subseteq graph[m] \cup {a, b} /\ CallGraph[c] \subseteq call_list
        BY <1>6, <1>9, <3>1
      <4> QED
        BY <4>1, <4>2
    <3>2. CASE c \notin {a, b}
      <4>1. c \in rest /\ graph[c] \subseteq S
        BY <1>11, <3>2 DEF Closed
      <4> QED
        BY <1>7, <1>9, <2>1, <4>1
    <3> QED
      BY <3>1, <3>2
  <2>4. Closed(CallGraph, T) /\ T \in SUBSET call_list
    BY <2>3 DEF Closed
  <2>5. call_list \subseteq T
    <3> HIDE DEF T
    <3> QED
      BY <2>2, <2>4 DEF Rooted
  <2> QED
    BY <2>5
<1>12. rest \cup {m} \subseteq call_list'
  <2> SUFFICES ASSUME NEW c \in rest \cup {m},
                      NEW S \in SUBSET DOMAIN graph, roots \subseteq S, Closed(graph, S)
               PROVE  c \in S
    BY <1>1, <1>5 DEF ReachFrom
  <2> QED
    BY <1>5, <1>11
<1>13. call_list' = rest \cup {m}
  BY <1>10, <1>12
<1>14. \A c \in call_list' : newOuts[c] = IF c = m THEN FirstOuts(a, b) \o outs[Second(a, b)] ELSE outs[c]
  BY <1>13 DEF newOuts
<1>15. \A c \in call_list' : newArgs[c] = IF c = m THEN init_args(a, b) ELSE ReplaceParams(args[c], a, b)
  BY <1>13, FusedArgs DEF newArgs
<1> QED
  BY <1>1, <1>13, <1>14, <1>15

(* The graph after a fusion is the graph before it with the pair           *)
(* contracted.                                                             *)
LEMMA FusionContracts ==
  ASSUME TypeOK, CallsPartition, RefsDenote, Rooted,
         NEW a \in call_list, NEW b \in call_list, a # b, FuseCalls(a, b)
  PROVE  CallsPartition' /\ Contracts(CallGraph', CallGraph, a, b, a \cup b)
<1> DEFINE m == a \cup b
<1>1. /\ call_list' = (call_list \ {a, b}) \cup {m}
      /\ args' = [c \in call_list' |-> IF c = m THEN init_args(a, b) ELSE ReplaceParams(args[c], a, b)]
  BY FuseResult
<1>2. m \notin call_list
  BY FreshCall
<1>3. CallsPartition'
  <2>1. UNION call_list' = UNION call_list
    BY <1>1
  <2>2. \A c, d \in call_list' : c # {} /\ (c = d \/ c \cap d = {})
    BY <1>1 DEF CallsPartition
  <2> QED
    BY <2>1, <2>2 DEF CallsPartition
<1>4. DOMAIN CallGraph' = call_list' /\ DOMAIN CallGraph = call_list
  BY DEF CallGraph
<1>5. \A c \in call_list' : CallGraph'[c] = CallsOf(args'[c])
  BY DEF CallGraph, CallsOf
<1>6. \A c \in call_list : CallGraph[c] = CallsOf(args[c])
  BY DEF CallGraph
<1>7. ASSUME NEW n \in call_list \ {a, b}
      PROVE  CallGraph'[n] =
               (CallGraph[n] \ {a, b})
                 \cup (IF a \in CallGraph[n] \/ b \in CallGraph[n] THEN {m} ELSE {})
  <2>1. args'[n] = ReplaceParams(args[n], a, b) /\ n \in call_list'
    BY <1>1, <1>2
  <2>2. args[n] \in SUBSET other_args(a, b)
    BY DEF other_args
  <2> QED
    BY <1>5, <1>6, <2>1, <2>2, ReplacedCalls
<1>8. CallGraph'[m] = (CallGraph[a] \cup CallGraph[b]) \ {a, b}
  BY <1>1, <1>5, <1>6, FusedArgs
<1> QED
  BY <1>1, <1>2, <1>3, <1>4, <1>7, <1>8 DEF Contracts

(* A name that somebody outside the pair uses still denotes its result,    *)
(* and is the name of it in the new module.                                *)
LEMMA NameKept ==
  ASSUME TypeOK, CallsPartition, RefsDenote, Rooted,
         NEW a \in call_list, NEW b \in call_list, a # b, FuseCalls(a, b),
         NEW r \in other_args(a, b), r \in Refs, r.call \in call_list, r.idx \in DOMAIN outs[r.call],
         NEW q, q = relay_call_map(r, a, b)
  PROVE  /\ q \in Refs /\ q.call \in call_list'
         /\ q.idx \in DOMAIN outs'[q.call] /\ outs'[q.call][q.idx] = Named(r)
<1> DEFINE m  == a \cup b
           f  == First(a, b)
           g  == Second(a, b)
           fo == FirstOuts(a, b)
<1>1. /\ call_list' = (call_list \ {a, b}) \cup {m}
      /\ outs' = [c \in call_list' |-> IF c = m THEN fo \o outs[g] ELSE outs[c]]
  BY FuseResult
<1>2. f \in call_list /\ g \in call_list /\ f # g /\ {f, g} = {a, b}
  BY Order DEF First, Second
<1>3. m \notin call_list /\ m \in SUBSET Stencils
  BY FreshCall DEF TypeOK
<1>4. outs[f] \in Seq(Stencils) /\ outs[g] \in Seq(Stencils) /\ fo \in Seq(Stencils)
  BY <1>2 DEF TypeOK, FirstOuts
<1>5. Len(fo) \in Nat /\ Len(outs[g]) \in Nat
  BY <1>4, LenProperties
<1>6. /\ DOMAIN (fo \o outs[g]) = 1 .. (Len(fo) + Len(outs[g]))
      /\ \A i \in 1 .. (Len(fo) + Len(outs[g])) :
           (fo \o outs[g])[i] = IF i <= Len(fo) THEN fo[i] ELSE outs[g][i - Len(fo)]
  BY <1>4, ConcatProperties, LenProperties
<1>7. m \in call_list' /\ outs'[m] = fo \o outs[g]
  BY <1>1
<1>8. r.idx \in Nat \ {0}
  BY DEF Refs
<1>9. ASSUME NEW i \in Nat \ {0}, q = [call |-> m, idx |-> i],
             i \in DOMAIN (fo \o outs[g]), (fo \o outs[g])[i] = Named(r)
      PROVE  /\ q \in Refs /\ q.call \in call_list'
             /\ q.idx \in DOMAIN outs'[q.call] /\ outs'[q.call][q.idx] = Named(r)
  <2>1. q.call = m /\ q.idx = i
    BY <1>9
  <2>2. q \in Refs
    BY <1>3, <1>9 DEF Refs
  <2> HIDE DEF m, fo, g
  <2> QED
    BY <1>7, <1>9, <2>1, <2>2
<1>10. CASE r.call = f
  <2>1. q = [call |-> m, idx |-> r.idx] /\ fo = outs[f]
    BY <1>10, EntryForOthers
  <2>2. r.idx \in 1 .. Len(fo) /\ fo[r.idx] = Named(r)
    BY <1>4, <1>10, <2>1, LenProperties DEF Named
  <2>3. r.idx \in 1 .. (Len(fo) + Len(outs[g])) /\ r.idx <= Len(fo)
    BY <1>5, <2>2
  <2> HIDE DEF m, fo, g
  <2>4. (fo \o outs[g])[r.idx] = Named(r) /\ r.idx \in DOMAIN (fo \o outs[g])
    BY <1>6, <2>2, <2>3
  <2> QED
    BY <1>8, <1>9, <2>1, <2>4, Zenon
<1>11. CASE r.call = g
  <2> DEFINE i == Len(fo) + r.idx
  <2>1. q = [call |-> m, idx |-> i]
    BY <1>11, EntryForOthers
  <2>2. r.idx \in 1 .. Len(outs[g]) /\ outs[g][r.idx] = Named(r)
    BY <1>4, <1>11, LenProperties DEF Named
  <2>3. /\ i \in 1 .. (Len(fo) + Len(outs[g])) /\ ~(i <= Len(fo)) /\ i - Len(fo) = r.idx
        /\ i \in Nat \ {0}
    BY <1>5, <2>2
  <2> HIDE DEF m, fo, g, i
  <2>4. (fo \o outs[g])[i] = Named(r) /\ i \in DOMAIN (fo \o outs[g])
    BY <1>6, <2>2, <2>3
  <2> QED
    BY <1>9, <2>1, <2>3, <2>4, Zenon
<1>12. CASE r.call \notin {a, b}
  <2>1. q = r
    BY <1>12, OthersKept
  <2>2. r.call \in call_list' /\ r.call # m
    BY <1>1, <1>3, <1>12
  <2>3. outs'[r.call] = outs[r.call]
    BY <1>1, <2>2
  <2> QED
    BY <2>1, <2>2, <2>3 DEF Named
<1>13. r.call = f \/ r.call = g \/ r.call \notin {a, b}
  BY <1>2
<1> HIDE DEF f, g
<1> QED
  BY <1>10, <1>11, <1>12, <1>13, Zenon

(* The arguments of every call and the results of the module denote what   *)
(* they denoted before the fusion.                                         *)
LEMMA FusionKeepsRefs ==
  ASSUME TypeOK, CallsPartition, RefsDenote, Rooted, OwnOuts,
         NEW a \in call_list, NEW b \in call_list, a # b, FuseCalls(a, b), prog' = prog
  PROVE  /\ outs' \in [call_list' -> Seq(Stencils)]
         /\ args' \in [call_list' -> SUBSET Refs]
         /\ body' \subseteq Refs
         /\ OwnOuts' /\ RefsDenote'
<1> DEFINE m  == a \cup b
           f  == First(a, b)
           g  == Second(a, b)
           fo == FirstOuts(a, b)
           Kept(R, T) == /\ T \subseteq Refs
                         /\ \A q \in T : q.call \in call_list' /\ q.idx \in DOMAIN outs'[q.call]
                         /\ {outs'[q.call][q.idx] : q \in T} = {Named(r) : r \in R}
<1>1. /\ call_list' = (call_list \ {a, b}) \cup {m}
      /\ args' = [c \in call_list' |-> IF c = m THEN init_args(a, b) ELSE ReplaceParams(args[c], a, b)]
      /\ outs' = [c \in call_list' |-> IF c = m THEN fo \o outs[g] ELSE outs[c]]
      /\ body' = ReplaceParams(body, a, b)
  BY FuseResult
<1>2. f \in call_list /\ g \in call_list /\ f # g /\ {f, g} = {a, b} /\ f \cup g = m
  BY Order DEF First, Second
<1>3. m \notin call_list /\ m \in SUBSET Stencils
  BY FreshCall DEF TypeOK
<1>4. outs[f] \in Seq(Stencils) /\ outs[g] \in Seq(Stencils) /\ fo \in Seq(Stencils)
  BY <1>2 DEF TypeOK, FirstOuts
<1>5. fo \o outs[g] \in Seq(Stencils)
  BY <1>4, ConcatProperties
<1>6. outs' \in [call_list' -> Seq(Stencils)]
  BY <1>1, <1>5 DEF TypeOK
<1>7. OwnOuts'
  <2> SUFFICES ASSUME NEW c \in call_list', NEW i \in DOMAIN outs'[c]
               PROVE  outs'[c][i] \in c
    BY DEF OwnOuts
  <2>1. CASE c # m
    BY <1>1, <2>1 DEF OwnOuts
  <2>2. CASE c = m
    <3>1. /\ DOMAIN (fo \o outs[g]) = 1 .. (Len(fo) + Len(outs[g]))
          /\ \A j \in 1 .. (Len(fo) + Len(outs[g])) :
               (fo \o outs[g])[j] = IF j <= Len(fo) THEN fo[j] ELSE outs[g][j - Len(fo)]
      BY <1>4, ConcatProperties, LenProperties
    <3>2. Len(fo) \in Nat /\ Len(outs[g]) \in Nat
      BY <1>4, LenProperties
    <3>3. \A j \in 1 .. Len(fo) : fo[j] \in f
      <4>1. fo = outs[f] \/ fo = <<>>
        BY DEF FirstOuts
      <4>2. CASE fo = outs[f]
        BY <1>2, <1>4, <4>2, LenProperties DEF OwnOuts
      <4>3. CASE fo = <<>>
        <5>1. Len(fo) = 0
          BY <4>3
        <5> QED
          BY <5>1
      <4> QED
        BY <4>1, <4>2, <4>3
    <3>4. \A j \in 1 .. Len(outs[g]) : outs[g][j] \in g
      BY <1>2, <1>4, LenProperties DEF OwnOuts
    <3>5. outs'[c] = fo \o outs[g]
      BY <1>1, <2>2
    <3>6. i \in 1 .. (Len(fo) + Len(outs[g]))
      BY <3>1, <3>5
    <3> HIDE DEF fo, f, g
    <3>7. CASE i <= Len(fo)
      <4>1. i \in 1 .. Len(fo) /\ outs'[c][i] = fo[i]
        BY <3>1, <3>2, <3>5, <3>6, <3>7
      <4> QED
        BY <1>2, <2>2, <3>3, <4>1
    <3>8. CASE ~(i <= Len(fo))
      <4>1. i - Len(fo) \in 1 .. Len(outs[g]) /\ outs'[c][i] = outs[g][i - Len(fo)]
        BY <3>1, <3>2, <3>5, <3>6, <3>8
      <4> QED
        BY <1>2, <2>2, <3>4, <4>1
    <3> QED
      BY <3>7, <3>8
  <2> QED
    BY <2>1, <2>2
<1>8. ASSUME NEW R \in SUBSET other_args(a, b), R \subseteq Refs,
             \A r \in R : r.call \in call_list /\ r.idx \in DOMAIN outs[r.call]
      PROVE  Kept(R, ReplaceParams(R, a, b))
  <2>1. ASSUME NEW r \in R
        PROVE  LET q == relay_call_map(r, a, b)
               IN  /\ q \in Refs /\ q.call \in call_list'
                   /\ q.idx \in DOMAIN outs'[q.call] /\ outs'[q.call][q.idx] = Named(r)
    BY <1>8, NameKept
  <2> QED
    BY <2>1 DEF ReplaceParams
<1>9. Kept(init_args(a, b), init_args(a, b))
  <2>1. init_args(a, b) \subseteq args[a] \cup args[b] /\ args[a] \subseteq Refs /\ args[b] \subseteq Refs
    BY DEF init_args, TypeOK
  <2>2. ASSUME NEW r \in init_args(a, b)
        PROVE  /\ r.call \in call_list' /\ r.idx \in DOMAIN outs'[r.call]
               /\ outs'[r.call][r.idx] = Named(r)
    <3>1. r.call \in call_list /\ r.idx \in DOMAIN outs[r.call] /\ r.call \notin {a, b}
      BY <2>1 DEF init_args, RefsDenote, Denote
    <3>2. r.call \in call_list' /\ r.call # m
      BY <1>1, <1>3, <3>1
    <3>3. outs'[r.call] = outs[r.call]
      BY <1>1, <3>2
    <3> QED
      BY <3>1, <3>2, <3>3 DEF Named
  <2> QED
    BY <2>1, <2>2
<1>10. ASSUME NEW c \in call_list \ {a, b} PROVE Kept(args[c], args'[c])
  <2>1. args'[c] = ReplaceParams(args[c], a, b)
    BY <1>1, <1>3
  <2>2. args[c] \in SUBSET other_args(a, b) /\ args[c] \subseteq Refs
    BY DEF other_args, TypeOK
  <2>3. \A r \in args[c] : r.call \in call_list /\ r.idx \in DOMAIN outs[r.call]
    BY DEF RefsDenote, Denote
  <2> HIDE DEF Kept
  <2> QED
    BY <1>8, <2>1, <2>2, <2>3
<1>11. Kept(body, body')
  <2>1. body \in SUBSET other_args(a, b) /\ body \subseteq Refs
    BY DEF other_args, TypeOK
  <2>2. \A r \in body : r.call \in call_list /\ r.idx \in DOMAIN outs[r.call]
    BY DEF RefsDenote, Denote
  <2> HIDE DEF Kept
  <2> QED
    BY <1>1, <1>8, <2>1, <2>2
<1>12. Kept(init_args(a, b), args'[m])
  <2>1. args'[m] = init_args(a, b)
    BY <1>1
  <2> HIDE DEF Kept
  <2> QED
    BY <1>9, <2>1
<1>13. args' \in [call_list' -> SUBSET Refs] /\ body' \subseteq Refs
  <2>1. \A c \in call_list' : args'[c] \in SUBSET Refs
    BY <1>1, <1>10, <1>12
  <2> QED
    BY <1>1, <1>11, <2>1
<1>14. \A c : UsedBy(c)' = UsedBy(c)
  BY DEF UsedBy
<1>15. {Named(r) : r \in init_args(a, b)} = UsedBy(m)
  <2>1. {Named(r) : r \in args[a]} = UsedBy(a) /\ {Named(r) : r \in args[b]} = UsedBy(b)
    BY DEF RefsDenote, Denote
  <2>2. \A x : x \in UsedBy(m) <=> x \notin m /\ (x \in UsedBy(a) \/ x \in UsedBy(b))
    BY DEF UsedBy
  <2>3. \A r \in args[a] \cup args[b] : r.call \in call_list /\ Named(r) \in r.call
    BY DEF RefsDenote, Denote, OwnOuts, Named
  <2>4. \A r \in args[a] \cup args[b] : r.call \in {a, b} <=> Named(r) \in m
    BY <2>3 DEF CallsPartition
  <2>5. \A x : x \in {Named(r) : r \in init_args(a, b)}
                 <=> \E r \in args[a] \cup args[b] : r.call \notin {a, b} /\ x = Named(r)
    BY DEF init_args
  <2> HIDE DEF m
  <2>6. \A x : x \in UsedBy(m) <=> x \notin m /\ \E r \in args[a] \cup args[b] : x = Named(r)
    BY <2>1, <2>2
  <2>7. \A x : x \in {Named(r) : r \in init_args(a, b)} <=> x \in UsedBy(m)
    BY <2>4, <2>5, <2>6
  <2>8. \A x \in UsedBy(m) : x \in {Named(r) : r \in init_args(a, b)}
    BY <2>7
  <2> QED
    BY <2>7
<1>16. ASSUME NEW c \in call_list'
       PROVE  \/ Kept(args[c], args'[c]) /\ {Named(r) : r \in args[c]} = UsedBy(c)
              \/ Kept(init_args(a, b), args'[c]) /\ {Named(r) : r \in init_args(a, b)} = UsedBy(c)
  <2> HIDE DEF Kept
  <2>1. CASE c = m
    BY <1>12, <1>15, <2>1
  <2>2. CASE c # m
    <3>1. c \in call_list \ {a, b}
      BY <1>1, <2>2
    <3>2. {Named(r) : r \in args[c]} = UsedBy(c)
      BY <3>1 DEF RefsDenote, Denote
    <3>3. Kept(args[c], args'[c])
      BY <1>10, <3>1
    <3> QED
      BY <3>2, <3>3
  <2> QED
    BY <2>1, <2>2
<1>17. RefsDenote'
  <2>1. ASSUME NEW c \in call_list'
        PROVE  /\ \A q \in args'[c] : q.call \in call_list' /\ q.idx \in DOMAIN outs'[q.call]
               /\ {outs'[q.call][q.idx] : q \in args'[c]} = UsedBy(c)
    BY <1>16
  <2>2. /\ \A q \in body' : q.call \in call_list' /\ q.idx \in DOMAIN outs'[q.call]
        /\ {outs'[q.call][q.idx] : q \in body'} = prog.rets
    BY <1>11 DEF RefsDenote, Denote
  <2> QED
    BY <1>14, <2>1, <2>2 DEF RefsDenote, Denote, Named
<1> QED
  BY <1>6, <1>7, <1>13, <1>17

-----------------------------------------------------------------------------
(* What the steps that fuse nothing leave as it is.                        *)
LEMMA Untouched ==
  ASSUME Module, UNCHANGED <<prog, call_list, args, outs, body>>
  PROVE  Module'
<1>1. CallGraph' = CallGraph
  BY DEF CallGraph, CallsOf
<1>2. CallsAcyclic'
  BY <1>1 DEF Module, CallsAcyclic, Acyclic
<1>3. CallsPartition' /\ IfStencilsAlone' /\ OwnOuts'
  BY DEF Module, CallsPartition, IfStencilsAlone, OwnOuts
<1>4. RefsDenote'
  BY DEF Module, RefsDenote, Denote, UsedBy, Named
<1>5. Rooted'
  BY <1>1 DEF Module, Rooted, CallsOf, Closed
<1> QED
  BY <1>2, <1>3, <1>4, <1>5 DEF Module

(* After a fusion, too, the calls are the ones met from the results.       *)
LEMMA FusionRooted ==
  ASSUME NEW a, NEW b, FuseCalls(a, b) PROVE Rooted'
<1> DEFINE m == a \cup b
           all == call_list \cup {m}
           newArgs == [c \in all |-> ReplaceParams(IF c = m THEN init_args(a, b) ELSE args[c], a, b)]
           graph == [c \in all |-> CallsOf(newArgs[c])]
<1>1. /\ call_list' = ReachFrom(graph, CallsOf(body'))
      /\ args' = [c \in call_list' |-> newArgs[c]]
  BY DEF FuseCalls
<1>2. DOMAIN graph = all
  OBVIOUS
<1>3. call_list' \subseteq all
  BY <1>1, <1>2 DEF ReachFrom
<1>4. \A c \in call_list' : CallGraph'[c] = graph[c]
  BY <1>1, <1>3 DEF CallGraph, CallsOf
<1>5. CallsOf(body)' = CallsOf(body')
  BY DEF CallsOf
<1> HIDE DEF graph, newArgs, all
<1> SUFFICES ASSUME NEW S \in SUBSET call_list', CallsOf(body') \subseteq S, Closed(CallGraph', S)
             PROVE  call_list' \subseteq S
  BY <1>5 DEF Rooted, Closed
<1>6. S \in SUBSET DOMAIN graph
  BY <1>2, <1>3
<1>7. Closed(graph, S)
  BY <1>4 DEF Closed
<1> QED
  BY <1>1, <1>6, <1>7, Zenon DEF ReachFrom

(* A fusion keeps the invariant.                                           *)
LEMMA FusePairKeeps == SearchInv /\ FusePair => SearchInv'
<1> SUFFICES ASSUME SearchInv, FusePair PROVE SearchInv'
  OBVIOUS
<1> USE DEF SearchInv, Module
<1>1. /\ pc = "search" /\ pc' = "codegen"
      /\ UNCHANGED <<prog, mode, fuse_steps, exclusions, records>>
  BY DEF FusePair
<1>2. PICK p \in find_fuse_pair : FuseCalls(p[1], p[2])
  BY DEF FusePair
<1> DEFINE a == p[1]
           b == p[2]
<1>3. /\ a \in call_list /\ b \in call_list /\ a # b
      /\ ~HasIf(a) /\ ~HasIf(b) /\ ~Between(CallGraph, a, b)
  BY <1>1, PairIsFree
<1>4. FuseCalls(a, b)
  BY <1>2
<1> HIDE DEF a, b
<1>5. call_list' = (call_list \ {a, b}) \cup {a \cup b}
  BY <1>3, <1>4, FuseResult
<1>6. CallsPartition' /\ Contracts(CallGraph', CallGraph, a, b, a \cup b)
  BY <1>3, <1>4, FusionContracts
<1>7. CallsAcyclic'
  <2>1. Acyclic(CallGraph')
    BY <1>3, <1>6, CallGraphIsGraph, ContractKeepsAcyclic DEF CallsAcyclic
  <2> QED
    BY <2>1 DEF CallsAcyclic, Acyclic
<1>8. IfStencilsAlone'
  <2>1. \A s \in prog.ifs : s \notin a /\ s \notin b
    BY <1>3 DEF IfStencilsAlone, HasIf
  <2> QED
    BY <1>1, <1>5, <2>1 DEF IfStencilsAlone
<1>9. /\ outs' \in [call_list' -> Seq(Stencils)] /\ args' \in [call_list' -> SUBSET Refs]
      /\ body' \subseteq Refs /\ OwnOuts' /\ RefsDenote'
  BY <1>1, <1>3, <1>4, FusionKeepsRefs
<1>10. call_list' \subseteq SUBSET Stencils
  BY <1>3, <1>5 DEF TypeOK
<1>11. TypeOK'
  BY <1>1, <1>9, <1>10 DEF TypeOK
<1>12. Current'
  BY <1>1 DEF Current
<1>13. Rooted'
  BY <1>4, FusionRooted
<1> QED
  BY <1>6, <1>7, <1>8, <1>9, <1>11, <1>12, <1>13

(* Every step keeps the invariant.                                         *)
LEMMA SearchStep == SearchInv /\ [Next]_vars => SearchInv'
<1> SUFFICES ASSUME SearchInv, [Next]_vars PROVE SearchInv'
  OBVIOUS
<1> USE DEF SearchInv
<1>1. CASE FusePair
  BY <1>1, FusePairKeeps
<1>2. ASSUME UNCHANGED <<prog, mode, call_list, args, outs, body>>,
             fuse_steps' \in 0 .. MaxFuse,
             exclusions' \subseteq (SUBSET Stencils) \X (SUBSET Stencils),
             records' \in Seq(0 .. MaxFuse),
             pc' \in {"start", "search", "codegen", "profiled", "returned", "raised"},
             Current'
      PROVE  SearchInv'
  <2>1. TypeOK'
    BY <1>2 DEF TypeOK
  <2> QED
    BY <1>2, <2>1, Untouched
<1> USE DEF step_mod
<1>3. CASE RunUnfused
  <2>1. records' \in Seq(0 .. MaxFuse)
    <3>1. 0 \in 0 .. MaxFuse
      BY MaxFuseAssumption
    <3>2. records \in Seq(0 .. MaxFuse)
      BY DEF TypeOK
    <3>3. Append(records, 0) \in Seq(0 .. MaxFuse)
      BY <3>1, <3>2, AppendProperties
    <3> QED
      BY <1>3, <3>2, <3>3 DEF RunUnfused
  <2> QED
    BY <1>2, <1>3, <2>1 DEF RunUnfused, TypeOK, Current
<1>4. CASE NextTurn
  <2>1. fuse_steps' \in 0 .. MaxFuse
    BY <1>4, MaxFuseAssumption DEF NextTurn, TypeOK, Current, stop_fused
  <2>2. exclusions' = analysis_exclusion \cup if_exclusion
    BY <1>4 DEF NextTurn
  <2>3. analysis_exclusion \subseteq (SUBSET Stencils) \X (SUBSET Stencils)
    <3>1. \A c \in call_list : /\ c \in SUBSET Stencils
                               /\ find_father(CallGraph, c) \subseteq SUBSET Stencils
                               /\ find_child(CallGraph, c) \subseteq SUBSET Stencils
      <4>1. DOMAIN CallGraph = call_list /\ DOMAIN Outputs(CallGraph) = call_list
        BY DEF CallGraph, Outputs
      <4>2. call_list \subseteq SUBSET Stencils
        BY DEF TypeOK
      <4>3. \A G, c : Reach(G, c) \subseteq DOMAIN G
        BY DEF Reach
      <4> QED
        BY <4>1, <4>2, <4>3 DEF find_father, find_child
    <3> QED
      BY <3>1 DEF analysis_exclusion
  <2>4. if_exclusion \subseteq (SUBSET Stencils) \X (SUBSET Stencils)
    BY DEF TypeOK, if_exclusion, Pairs
  <2>5. UNCHANGED <<prog, mode, call_list, args, outs, body, records>> /\ pc' = "search"
    BY <1>4 DEF NextTurn
  <2>6. analysis_exclusion' = analysis_exclusion /\ if_exclusion' = if_exclusion
    <3>1. CallGraph' = CallGraph
      BY <2>5 DEF CallGraph, CallsOf
    <3> QED
      BY <2>5, <3>1 DEF analysis_exclusion, if_exclusion, Pairs, HasIf, find_father, find_child, Reach,
                        Closed, Outputs
  <2>7. Current'
    BY <2>2, <2>5, <2>6 DEF Current
  <2>8. records' \in Seq(0 .. MaxFuse)
    BY <2>5 DEF TypeOK
  <2> QED
    BY <1>2, <2>1, <2>2, <2>3, <2>4, <2>5, <2>7, <2>8
<1>5. CASE NoPairLeft
  BY <1>2, <1>5 DEF NoPairLeft, TypeOK, Current
<1>6. CASE Profile
  <2>1. records' \in Seq(0 .. MaxFuse)
    BY <1>6, AppendProperties DEF Profile, TypeOK
  <2> QED
    BY <1>2, <1>6, <2>1 DEF Profile, TypeOK, Current
<1>7. CASE ProfileFails
  BY <1>2, <1>7 DEF ProfileFails, TypeOK, Current
<1>8. CASE UNCHANGED vars
  <2>1. analysis_exclusion' = analysis_exclusion /\ if_exclusion' = if_exclusion
    <3>1. CallGraph' = CallGraph
      BY <1>8 DEF CallGraph, CallsOf, vars
    <3> QED
      BY <1>8, <3>1 DEF vars, analysis_exclusion, if_exclusion, Pairs, HasIf, find_father, find_child,
                        Reach, Closed, Outputs
  <2>2. Current'
    BY <1>8, <2>1 DEF Current, vars
  <2> QED
    BY <1>2, <1>8, <2>2 DEF vars, TypeOK
<1> QED
  BY <1>1, <1>3, <1>4, <1>5, <1>6, <1>7, <1>8 DEF Next

LEMMA SearchInvariant == Spec => []SearchInv
BY SearchInit, SearchStep, PTL DEF Spec

(* The variables keep their types: in particular fuse_steps, which         *)
(* stop_fused bounds.                                                      *)
THEOREM TypeCorrect == Spec => []TypeOK
<1>1. SearchInv => TypeOK
  BY DEF SearchInv
<1> QED
  BY <1>1, SearchInvariant, PTL

(* analysis_exclusion is enough: no fusion fusion_call2call makes closes a *)
(* cycle among the calls.                                                  *)
THEOREM FusionKeepsDataflow == Spec => []CallsAcyclic
<1>1. SearchInv => CallsAcyclic
  BY DEF SearchInv, Module
<1> QED
  BY <1>1, SearchInvariant, PTL

(* fusion_call2call loses no stencil and computes none twice.              *)
THEOREM NoStencilLost == Spec => []CallsPartition
<1>1. SearchInv => CallsPartition
  BY DEF SearchInv, Module
<1> QED
  BY <1>1, SearchInvariant, PTL

(* relay_call_map: every result that is read or stored after any number of *)
(* fusions is named by its call and by its place in the output tuple.      *)
THEOREM ResultsAreFound == Spec => []RefsDenote
<1>1. SearchInv => RefsDenote
  BY DEF SearchInv, Module
<1> QED
  BY <1>1, SearchInvariant, PTL

(* The exclusion of the calls with an "if" keeps them out of every fusion. *)
THEOREM BranchesStayAlone == Spec => []IfStencilsAlone
<1>1. SearchInv => IfStencilsAlone
  BY DEF SearchInv, Module
<1> QED
  BY <1>1, SearchInvariant, PTL

-----------------------------------------------------------------------------
(* Every fusion makes one call of two, so the calls count the fusions.     *)
Fusions == Cardinality(Stencils) - Cardinality(call_list)

Counted ==
  mode = "fusion" =>
    /\ records = [k \in 1 .. Len(records) |-> k]
    /\ pc \in {"start", "codegen", "profiled"} => fuse_steps = Fusions
    /\ pc = "search" => fuse_steps = Fusions + 1
    /\ pc \in {"search", "codegen"} => Len(records) = fuse_steps - 1
    /\ pc \in {"start", "profiled"} => Len(records) = fuse_steps

LEMMA CallsFinite ==
  ASSUME TypeOK
  PROVE  IsFiniteSet(call_list) /\ Cardinality(call_list) \in Nat
<1>1. IsFiniteSet(SUBSET Stencils)
  BY StencilsAssumption, FS_SUBSET
<1>2. call_list \in SUBSET (SUBSET Stencils)
  BY DEF TypeOK
<1>3. IsFiniteSet(call_list)
  BY <1>1, <1>2, FS_Subset
<1> QED
  BY <1>3, FS_CardinalityType

LEMMA CountInit == Init => Counted
<1> SUFFICES ASSUME Init PROVE Counted
  OBVIOUS
<1>1. TypeOK
  BY SearchInit DEF SearchInv
<1> DEFINE F == [s \in Stencils |-> {s}]
<1>2. F \in Bijection(Stencils, call_list)
  BY DEF Init, Bijection, Injection, Surjection, IsInjective
<1>3. Cardinality(call_list) = Cardinality(Stencils)
  BY <1>2, StencilsAssumption, FS_Bijection DEF ExistsBijection
<1>4. Fusions = 0
  BY <1>1, <1>3, CallsFinite DEF Fusions
<1>5. records = <<>> /\ Len(records) = 0 /\ records = [k \in 1 .. Len(records) |-> k]
  BY EmptySeq DEF Init
<1> QED
  BY <1>4, <1>5 DEF Counted, Init

LEMMA CountStep == SearchInv /\ Counted /\ [Next]_vars => Counted'
<1> SUFFICES ASSUME SearchInv, Counted, [Next]_vars, mode' = "fusion" PROVE Counted'
  BY DEF Counted
<1> USE DEF SearchInv, Module, step_mod
<1>1. mode = "fusion"
  BY DEF Next, RunUnfused, NextTurn, FusePair, NoPairLeft, Profile, ProfileFails, vars
<1>2. Fusions \in Int /\ fuse_steps \in Int /\ records \in Seq(0 .. MaxFuse) /\ Len(records) \in Nat
  <2>1. Cardinality(Stencils) \in Nat
    BY StencilsAssumption, FS_CardinalityType
  <2>2. records \in Seq(0 .. MaxFuse) /\ fuse_steps \in Int
    BY MaxFuseAssumption DEF TypeOK
  <2> QED
    BY <2>1, <2>2, CallsFinite, LenProperties DEF Fusions
<1>3. CASE RunUnfused
  BY <1>1, <1>3 DEF RunUnfused
<1>4. CASE NextTurn
  <2>1. /\ pc \in {"start", "profiled"} /\ pc' = "search" /\ fuse_steps' = fuse_steps + 1
        /\ records' = records /\ call_list' = call_list
    BY <1>4 DEF NextTurn
  <2>2. Fusions' = Fusions
    BY <2>1 DEF Fusions
  <2>3. fuse_steps = Fusions /\ Len(records) = fuse_steps /\ records = [k \in 1 .. Len(records) |-> k]
    BY <1>1, <2>1 DEF Counted
  <2>4. fuse_steps' = Fusions' + 1 /\ Len(records') = fuse_steps' - 1
    BY <1>2, <2>1, <2>2, <2>3
  <2> QED
    BY <2>1, <2>3, <2>4 DEF Counted
<1>5. CASE FusePair
  <2>1. PICK p \in find_fuse_pair : FuseCalls(p[1], p[2])
    BY <1>5 DEF FusePair
  <2> DEFINE a == p[1]
             b == p[2]
             rest == (call_list \ {a}) \ {b}
  <2>2. pc = "search" /\ pc' = "codegen" /\ fuse_steps' = fuse_steps /\ records' = records /\ prog' = prog
    BY <1>5 DEF FusePair
  <2>3. a \in call_list /\ b \in call_list /\ a # b
    BY <2>2, PairIsFree
  <2>4. call_list' = (call_list \ {a, b}) \cup {a \cup b}
    BY <2>1, <2>3, FuseResult
  <2>5. a \cup b \notin call_list
    BY <2>3, FreshCall
  <2>6. IsFiniteSet(call_list \ {a}) /\ Cardinality(call_list \ {a}) = Cardinality(call_list) - 1
    BY <2>3, CallsFinite, FS_RemoveElement
  <2>7. IsFiniteSet(rest) /\ Cardinality(rest) = Cardinality(call_list \ {a}) - 1
    BY <2>3, <2>6, FS_RemoveElement
  <2>8. Cardinality(rest \cup {a \cup b}) = Cardinality(rest) + 1
    BY <2>5, <2>7, FS_AddElement
  <2>9. call_list' = rest \cup {a \cup b}
    BY <2>4
  <2>10. Cardinality(call_list') = Cardinality(call_list) - 1
    <3> HIDE DEF rest
    <3> QED
      BY <2>6, <2>7, <2>8, <2>9, CallsFinite
  <2>11. Fusions' = Fusions + 1
    <3>1. Cardinality(Stencils) \in Nat
      BY StencilsAssumption, FS_CardinalityType
    <3> QED
      BY <2>10, <3>1, CallsFinite DEF Fusions
  <2> QED
    BY <1>1, <1>2, <2>2, <2>11 DEF Counted
<1>6. CASE NoPairLeft
  BY <1>1, <1>6 DEF NoPairLeft, Counted
<1>7. CASE Profile
  <2>1. records' = Append(records, fuse_steps) /\ pc = "codegen" /\ UNCHANGED <<call_list, fuse_steps>>
    BY <1>7 DEF Profile
  <2>2. fuse_steps = Len(records) + 1 /\ fuse_steps = Fusions
    BY <1>1, <1>2, <2>1 DEF Counted
  <2>3. fuse_steps \in 0 .. MaxFuse
    BY DEF TypeOK
  <2>4. /\ records' \in Seq(0 .. MaxFuse) /\ Len(records') = Len(records) + 1
        /\ \A k \in 1 .. Len(records) : records'[k] = records[k]
        /\ records'[Len(records) + 1] = fuse_steps
    BY <1>2, <2>1, <2>3, AppendProperties
  <2>5. DOMAIN records' = 1 .. Len(records')
    BY <2>4, LenProperties
  <2>6. \A k \in 1 .. Len(records) : records[k] = k
    BY <1>1 DEF Counted
  <2>7. \A k \in 1 .. Len(records') : records'[k] = k
    BY <1>2, <2>2, <2>4, <2>6
  <2>8. records' = [k \in 1 .. Len(records') |-> k]
    <3>1. records' \in [1 .. Len(records') -> 0 .. MaxFuse]
      BY <2>4, LenProperties
    <3> QED
      BY <2>7, <3>1
  <2>9. pc' \in {"returned", "profiled"}
    BY <1>7 DEF Profile
  <2>10. Fusions' = Fusions
    BY <2>1 DEF Fusions
  <2> QED
    BY <2>1, <2>2, <2>4, <2>8, <2>9, <2>10 DEF Counted
<1>8. CASE ProfileFails
  BY <1>1, <1>8 DEF ProfileFails, Counted
<1>9. CASE UNCHANGED vars
  BY <1>1, <1>9 DEF vars, Counted, Fusions
<1> QED
  BY <1>3, <1>4, <1>5, <1>6, <1>7, <1>8, <1>9 DEF Next

(* The records of performance.txt are numbered by the fusions made, with   *)
(* no gap and no number twice, however the search ends.                    *)
THEOREM RecordsAreNumbered == Spec => []RecordsFollowFusions
<1>1. SearchInv /\ Counted => RecordsFollowFusions
  BY DEF Counted, RecordsFollowFusions, Fusions
<1> QED
  BY <1>1, SearchInvariant, CountInit, CountStep, PTL DEF Spec
=============================================================================
