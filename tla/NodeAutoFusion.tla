--------------------------- MODULE NodeAutoFusion ---------------------------
(***************************************************************************)
(* The fusion search: NodeAutoFusion.fuse fuses, one pair after the other, *)
(* the two calls of the module that share most data, and generates, runs   *)
(* and records a program after every fusion.                               *)
(*                                                                         *)
(* A call of the module is the set of the stencils it computes, the names  *)
(* in its tag: {s} before it is fused.  The stencils have one result each, *)
(* so a result is named by its stencil.                                    *)
(***************************************************************************)
EXTENDS Dependence, Integers, FiniteSets, Sequences, Functions

CONSTANTS
  Stencils,   \* the stencil.apply operations of the program
  Inputs,     \* the input grids
  Programs,   \* the programs: the tensors every stencil uses, the stencils
              \* whose result is stored, and those with an "if" in their body
  Size,       \* the number of elements of a tensor
  MaxFuse     \* stop_fused: 30

Tensors == Stencils \cup Inputs

(* The graph of the stencils of a program.                                 *)
StencilGraph(p) == [s \in Stencils |-> p.uses[s] \cap Stencils]

(* Every stencil leads to a stored result: the others are in no expression *)
(* of the module from_mlir builds.                                         *)
IsProgram(p) ==
  /\ p \in [uses : [Stencils -> SUBSET Tensors], rets : SUBSET Stencils, ifs : SUBSET Stencils]
  /\ Acyclic(StencilGraph(p))
  /\ ReachFrom(StencilGraph(p), p.rets) = Stencils

ASSUME StencilsAssumption == IsFiniteSet(Stencils) /\ Stencils # {}
ASSUME SizeAssumption == Size \in [Tensors -> Nat]
ASSUME MaxFuseAssumption == MaxFuse \in Nat \ {0}
ASSUME ProgramsAssumption == \A p \in Programs : IsProgram(p)

VARIABLES
  prog,        \* the program
  mode,        \* generator.FUSION, STREAM and INLINE
  call_list,   \* the calls of step_mod
  args,        \* the results of other calls that a call has as arguments
  outs,        \* the output tuple of every call
  body,        \* the results the module returns, which are stored
  fuse_steps,
  exclusions,  \* the pairs that may not be fused in this turn
  records,     \* the fuse_steps of the records in performance.txt, 0
               \* for an unfused run
  pc

step_mod == <<call_list, args, outs, body>>

vars == <<prog, mode, step_mod, fuse_steps, exclusions, records, pc>>

-----------------------------------------------------------------------------
(* A result is named by a call and an index: TupleGetItem(call, idx - 1),  *)
(* or the call itself when it has one output.                              *)
Refs == [call : SUBSET Stencils, idx : Nat \ {0}]

Named(r) == outs[r.call][r.idx]

(* The arguments of a call that are inputs.                                *)
GridsOf(c) == (UNION {prog.uses[s] : s \in c}) \cap Inputs

CallsOf(R) == {r.call : r \in R}

CallGraph == [c \in call_list |-> CallsOf(args[c])]

Pairs == call_list \X call_list

(* Slips in analysis_exclusion: a pair is excluded in one order only; the  *)
(* pair of a call with itself is not; every consumer of a call is.         *)
ExclusionOneWay ==
  UNION {{<<c, c>>} \cup (find_father(CallGraph, c) \X find_child(CallGraph, c)) : c \in call_list}

ExclusionNotSelf ==
  UNION {LET parent == find_father(CallGraph, c)
             child  == find_child(CallGraph, c)
         IN  (parent \X child) \cup (child \X parent) : c \in call_list}

ExclusionOfConsumers ==
  UNION {LET child == find_child(CallGraph, c)
         IN  {<<c, c>>} \cup ({c} \X child) \cup (child \X {c}) : c \in call_list}

(* analysis_exclusion: with a call on a path between them, the fusion of   *)
(* two calls would close a cycle.                                          *)
analysis_exclusion ==
  UNION {LET parent == find_father(CallGraph, c)
             child  == find_child(CallGraph, c)
         IN  {<<c, c>>} \cup (parent \X child) \cup (child \X parent) : c \in call_list}

(* The loop over the calls that are one stencil with an "if" in its body.  *)
HasIf(c) == \E s \in prog.ifs : c = {s}

(* A slip in if_exclusion: (other, call) is not excluded.                  *)
IfExclusionOneWay == {p \in Pairs : HasIf(p[1])}

if_exclusion == {p \in Pairs : HasIf(p[1]) \/ HasIf(p[2])}

(* calculate_score: a shared argument counts once, a result that one of    *)
(* the two calls hands to the other counts twice.                          *)
Volume(S) == SumFunctionOnSet(Size, S)

Handed(c, d) == {r \in args[c] : r.call = d} \cup {r \in args[d] : r.call = c}

calculate_score(p) ==
  IF p \in exclusions THEN -1
  ELSE LET shared == {Named(r) : r \in args[p[1]] \cap args[p[2]]}
                       \cup (GridsOf(p[1]) \cap GridsOf(p[2]))
       IN  Volume(shared) + 2 * Volume({Named(r) : r \in Handed(p[1], p[2])})

(* find_fuse_pair takes the first of the pairs with the highest score      *)
(* above -1; which of them comes first in call_list is left open.          *)
find_fuse_pair ==
  {p \in Pairs :
     /\ calculate_score(p) > -1
     /\ \A q \in Pairs : calculate_score(q) <= calculate_score(p)}

(* A slip in stop_fused: one turn too many.                                *)
StopFusedLate == fuse_steps > MaxFuse

stop_fused == fuse_steps >= MaxFuse

-----------------------------------------------------------------------------
(* from_mlir: every stencil is a call with one output.                     *)
Init ==
  /\ prog \in Programs
  /\ mode \in {"fusion", "parallel", "inline", "baseline"}
  /\ call_list = {{s} : s \in Stencils}
  /\ args = [c \in call_list |->
               {[call |-> {t}, idx |-> 1] : t \in UNION {prog.uses[s] \cap Stencils : s \in c}}]
  /\ outs = [c \in call_list |-> <<CHOOSE s \in Stencils : c = {s}>>]
  /\ body = {[call |-> {s}, idx |-> 1] : s \in prog.rets}
  /\ fuse_steps = 0
  /\ exclusions = {}
  /\ records = <<>>
  /\ pc = "start"

(* not FUSION: one run of the original or of the unfused program.          *)
RunUnfused ==
  /\ pc = "start"
  /\ mode # "fusion"
  /\ \/ records' = Append(records, 0) /\ pc' = "returned"
     \/ records' = records /\ pc' = "raised"
  /\ UNCHANGED <<prog, mode, step_mod, fuse_steps, exclusions>>

(* The top of the while loop: the calls and the pairs to leave alone.      *)
NextTurn ==
  /\ \/ pc = "start" /\ mode = "fusion"
     \/ pc = "profiled" /\ ~stop_fused
  /\ fuse_steps' = fuse_steps + 1
  /\ exclusions' = analysis_exclusion \cup if_exclusion
  /\ pc' = "search"
  /\ UNCHANGED <<prog, mode, step_mod, records>>

(* A slip in other_args: the results of the module are left out.           *)
OtherArgsNotStored(a, b) == UNION {args[c] : c \in call_list \ {a, b}}

(* other_args: the results that a call other than a and b has as argument, *)
(* and those the module returns.                                           *)
other_args(a, b) == body \cup (UNION {args[c] : c \in call_list \ {a, b}})

(* The calls in the order in which they are fused: a producer first.       *)
Serial(a, b) == b \in CallsOf(args[a])
First(a, b)  == IF Serial(a, b) THEN b ELSE a
Second(a, b) == IF Serial(a, b) THEN a ELSE b

(* The first call stays an output of the fused call unless it is a         *)
(* producer nobody else uses.                                              *)
FirstIsOutput(a, b) ==
  \/ First(a, b) \in CallsOf(other_args(a, b))
  \/ First(a, b) \notin CallsOf(args[Second(a, b)])

FirstOuts(a, b) == IF FirstIsOutput(a, b) THEN outs[First(a, b)] ELSE <<>>

(* A slip in relay_call_map: the offset is left out.                       *)
RelayCallMapNoOffset(r, a, b) ==
  IF r.call = Second(a, b) \/ (r.call = First(a, b) /\ FirstIsOutput(a, b))
  THEN [call |-> a \cup b, idx |-> r.idx]
  ELSE r

(* relay_call_map: what a result of the pair is called in the fused call.  *)
(* An output of the second call moves up by the number of outputs of the   *)
(* first; a first call that is no output has no entry.                     *)
relay_call_map(r, a, b) ==
  CASE r.call = Second(a, b)                      ->
         [call |-> a \cup b, idx |-> Len(FirstOuts(a, b)) + r.idx]
    [] r.call = First(a, b) /\ FirstIsOutput(a, b) -> [call |-> a \cup b, idx |-> r.idx]
    [] OTHER                                      -> r

(* ReplaceParams on the arguments of a call or the results of the module.  *)
ReplaceParams(R, a, b) == {relay_call_map(r, a, b) : r \in R}

(* GroupOp.init_args: the arguments of the pair without its own results.   *)
init_args(a, b) == {r \in args[a] \cup args[b] : r.call \notin {a, b}}

(* fusion_call2call: the module that returns the replaced results; its     *)
(* calls are the ones BuildGraph meets on the way from them.               *)
FuseCalls(a, b) ==
  LET fused   == a \cup b
      newArgs == [c \in call_list \cup {fused} |->
                    ReplaceParams(IF c = fused THEN init_args(a, b) ELSE args[c], a, b)]
      newOuts == [c \in call_list \cup {fused} |->
                    IF c = fused THEN FirstOuts(a, b) \o outs[Second(a, b)] ELSE outs[c]]
      graph   == [c \in call_list \cup {fused} |-> CallsOf(newArgs[c])]
  IN  /\ body' = ReplaceParams(body, a, b)
      /\ call_list' = ReachFrom(graph, CallsOf(body'))
      /\ args' = [c \in call_list' |-> newArgs[c]]
      /\ outs' = [c \in call_list' |-> newOuts[c]]

FusePair ==
  /\ pc = "search"
  /\ \E p \in find_fuse_pair : FuseCalls(p[1], p[2])
  /\ pc' = "codegen"
  /\ UNCHANGED <<prog, mode, fuse_steps, exclusions, records>>

(* A slip in NoPairLeft: the search waits for a single call.               *)
NoPairLeftOneCall ==
  /\ pc = "search"
  /\ Cardinality(call_list) = 1
  /\ pc' = "returned"
  /\ UNCHANGED <<prog, mode, step_mod, fuse_steps, exclusions, records>>

(* if max_score<0: break *)
NoPairLeft ==
  /\ pc = "search"
  /\ find_fuse_pair = {}
  /\ pc' = "returned"
  /\ UNCHANGED <<prog, mode, step_mod, fuse_steps, exclusions, records>>

(* generator.codegen() returns and the step is recorded.                   *)
Profile ==
  /\ pc = "codegen"
  /\ records' = Append(records, fuse_steps)
  /\ pc' = IF stop_fused THEN "returned" ELSE "profiled"
  /\ UNCHANGED <<prog, mode, step_mod, fuse_steps, exclusions>>

(* generator.codegen() raises: nothing is recorded, the search is over.    *)
ProfileFails ==
  /\ pc = "codegen"
  /\ pc' = "raised"
  /\ UNCHANGED <<prog, mode, step_mod, fuse_steps, exclusions, records>>

Next ==
  RunUnfused \/ NextTurn \/ FusePair \/ NoPairLeft \/ Profile \/ ProfileFails

Spec == Init /\ [][Next]_vars /\ WF_vars(Next)

-----------------------------------------------------------------------------
TypeOK ==
  /\ IsProgram(prog)
  /\ mode \in {"fusion", "parallel", "inline", "baseline"}
  /\ call_list \subseteq SUBSET Stencils
  /\ args \in [call_list -> SUBSET Refs]
  /\ outs \in [call_list -> Seq(Stencils)]
  /\ body \subseteq Refs
  /\ fuse_steps \in 0 .. MaxFuse
  /\ exclusions \subseteq (SUBSET Stencils) \X (SUBSET Stencils)
  /\ records \in Seq(0 .. MaxFuse)
  /\ pc \in {"start", "search", "codegen", "profiled", "returned", "raised"}

(* The module stays a data flow graph: with a call on a path between the   *)
(* fused pair the fused call would be among its own ancestors, and neither *)
(* ReplaceParams nor find_father would end.                                *)
CallsAcyclic == Acyclic(CallGraph)

(* The rewriting of the module loses no stencil and leaves none to be      *)
(* computed twice: the calls that can be reached from the stored results   *)
(* partition the stencils.  A reader of the pair that relay_call_map       *)
(* misses keeps the call before the fusion alive beside the fused one.     *)
CallsPartition ==
  /\ UNION call_list = Stencils
  /\ \A c, d \in call_list : c # {} /\ (c = d \/ c \cap d = {})

(* The data flow of the program, whatever has been fused: a call has       *)
(* exactly the results its stencils use as arguments, and the module       *)
(* returns exactly the stored ones, each named by the place it really has  *)
(* among the outputs of its call.                                          *)
UsedBy(c) == (UNION {prog.uses[s] \cap Stencils : s \in c}) \ c

Denote(R, S) ==
  /\ \A r \in R : r.call \in call_list /\ r.idx \in DOMAIN outs[r.call]
  /\ {Named(r) : r \in R} = S

RefsDenote ==
  /\ \A c \in call_list : Denote(args[c], UsedBy(c))
  /\ Denote(body, prog.rets)

(* A stencil with a branch in its body is never part of a fused kernel.    *)
IfStencilsAlone == \A c \in call_list : \A s \in c \cap prog.ifs : c = {s}

(* The exclusion is exact: when the search ends for want of a pair, fusing *)
(* any two calls without a branch would close a cycle.                     *)
Merged(a, b) ==
  LET all == (call_list \ {a, b}) \cup {a \cup b}
  IN  [c \in all |-> {d \in all : UsedBy(c) \cap d # {}}]

SearchExhausted ==
  pc = "search" /\ find_fuse_pair = {} =>
    \A a, b \in call_list :
      a = b \/ (a \cup b) \cap prog.ifs # {} \/ ~Acyclic(Merged(a, b))

(* A record carries the number of fusions of the module it was measured    *)
(* on, and the numbers follow each other without a gap.                    *)
RecordsFollowFusions ==
  mode = "fusion" =>
    /\ records = [k \in 1 .. Len(records) |-> k]
    /\ pc \in {"codegen", "profiled"} =>
         /\ fuse_steps = Cardinality(Stencils) - Cardinality(call_list)
         /\ Len(records) = IF pc = "codegen" THEN fuse_steps - 1 ELSE fuse_steps

(* The search ends.                                                        *)
SearchEnds == <>(pc \in {"returned", "raised"})
=============================================================================
