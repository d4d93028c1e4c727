# StencilG: verification of the stencil fusion and stream code generator

The repository compiles a stencil program (MLIR) to a CUDA program. A relay
module holds one call per `stencil.apply`; a search fuses calls pair by pair;
after every fusion a code generator cuts the call graph into levels, lays the
levels into streams, prunes barriers, writes a pthread/CUDA program, builds it,
runs it and records the time. This directory holds TLA+ modules for the parts
whose correctness depends on order, on interleaving or on long sequences of
rewrites, TLC runs of small instances, and TLAPS proofs for all sizes.

`T/` below stands for `src/tvm-graph/python/tvm/relay/transform/`.

## 1. Inventory

| Part | State | Operations | Hard behaviour | What makes it correct |
|---|---|---|---|---|
| Front end, `T/mlir.py` `from_mlir` | tables of names and bodies | parse apply, load, store | text only | the relay module has the data flow of the MLIR text |
| Fusion search, `T/node_auto_fusion.py` | `step_mod`, `fuse_steps`, exclusions, `performance.txt` | `analysis_exclusion`, `calculate_score`, `find_fuse_pair`, `fusion_call2call`, `fuse` | long sequences of rewrites, `codegen` raising in the middle | acyclic, no stencil lost or repeated, results named correctly, exact exclusion, ends |
| Group fusion, `T/dnn_fusion.py` `GroupOp` | arguments, ordered outputs | `init_args`, `add_output`, flattening, `fuse` | nested groups | the fused function computes what its parts compute |
| DNN and stencil fusion passes, `T/dnn_fusion.py` | groups, dependences | `partition`, `run_fuse`, `parallel_merge`, `serial_merge` | groups grown in list order, stale graph | no call lost, groups convex, one many-to-many operator each |
| Planner, `T/streamSolve.py` | graph, remaining inputs, levels | `build_graph`, `build_depence`, `find_max_for_this_level`, `solve` | termination | levels follow the data flow |
| Stream lists, `T/mlir.py` `generate_codengen_streamlist` | lists of calls and `sync_t` tags | layout, two pruning passes | each tag is judged after earlier ones are gone | no order lost, no barrier too many |
| Generated program, `T/maingen.py` | atomics `START`, `sync_t`, threads, device streams | create, warm up, arrive, spin, launch, drain, join, reset | threads, asynchronous launches, reuse of counters | data flow respected, barriers meet, no endless spin, complete outputs |
| Evaluation, `T/run.py` | files, child processes | compile, link, run, score, clean | failing commands, stale files | the score belongs to the program just generated |
| Operator fusion, `T/custom_fuse_ops.py` | union-find, dominator tree | partition, mutate | phases | groups stay convex |
| Scripts, `src/scripts/evaluation_scripts` | `performance.txt`, logs | run all benchmarks, parse | a benchmark failing, appended files | every benchmark is measured and attributed |
| Figures, `src/scripts/figure_scripts` | none | plotting | none | not applicable |

Interactions: `fuse` calls `codegen` after every fusion; `codegen` calls
`StreamSolver.solve`, then `generate_codengen_streamlist`, then `maingen_v1`
(which hands the lists to `GenMain`), then `Evaluate`. The search and the
planner share no state but the module; the planner and the program share the
stream lists. The hazards, each at its line, are in `PROJECT.json`.

## 2. Modules

- `Dependence`: graphs of calls. `find_father` and `find_child` are the
  recursions of `build_depence`, stated as the least closed set.
- `StreamSolve`: the planner and the two pruning passes. One action per turn of
  `solve`'s loop (`FindMaxForThisLevel`), one for the layout, one per turn of
  the loop over the tags (`PruneTag`), one for the pass over single tags
  (`PruneSingle`). A call is its position in `graph.keys()`, so that its stream
  is its rank within its level. A tag is always in all lists or in none, so the
  lists are kept as levels plus the set of tags left.
- `Dataflow`: the abstract specification. Every kernel runs once per time step,
  after the kernels that produce its arguments.
- `StreamRuntime`: the program `GenMain` writes, one action per statement that
  another thread or the device can observe. The device is external: streams
  are first in, first out, and independent of one another.
- `StreamProgram`: `codegen` from the graph to the end of the program; it
  instantiates `StreamSolve`, rebuilds the lists and runs `StreamRuntime`.
- `NodeAutoFusion`: the fusion search. A call is the set of the stencils it
  computes. A result is named by a call and an index into its output tuple
  `outs` (`TupleGetItem`); `args` holds the names each call reads and `body` the
  names the module returns. A fusion makes a new call, rewrites all names by
  `relay_call_map` (`ReplaceParams`) and keeps the calls that `BuildGraph` still
  reaches from `body`. So a call that is gone, or one left behind, is a
  consequence of the names, as in the code. Pairs of equal score are chosen in
  every way, where the code takes the first in its list. `codegen` may return or
  raise.
- `DNNFusion`: `partition`. One action per turn of its two loops, by outcome: a
  group starts, a candidate is fused, skipped or refused, `call_group.remove`
  raises, a group is sorted and closed. `topo_sort` is an action per turn of its
  loop (`AddNodes`), at both places that call it. A call may have the same call
  among its arguments twice; `build_depends` then lists it twice.
- `MC...`: instances for TLC. `...Proofs`, `StreamRuntimeRefines`: proofs.

In each module an operator whose comment begins "A slip in" is a deliberately
wrong variant of the definition below it; replacing the definition by it makes
the property named in `PROJECT.json` fail, which shows that the property can.

Abstractions. Tensors have a size and no contents. Stencils have one result.
The text of kernels is left out. A warm-up kernel touches memory of its own
thread only and is one step. `run_step` is 1 in the code and a constant here:
the reset of the counters only matters when it is more. The planner is given a
call graph, which is what `build_graph` returns on programs without fused
leftovers; its purge of such leftovers by name is not modelled. The planner
places only calls for which `isStencilNode` holds, which is every call:
`from_mlir` calls operators of `relay.stencil` only (`T/mlir.py:34`), and
`GroupOp.fuse` tags what it makes `fuse_...` (`T/dnn_fusion.py:244`).

## 3. Runs

| Run | Instance | Shows |
|---|---|---|
| `plan` | all acyclic graphs of 5 calls, in all orders of the keys | types; `Stratified`: producers in earlier levels; `CrossStreamSeparated`: the pruning keeps a barrier for every cross-stream pair; `NoRedundantSync`: it keeps no other; `Terminates` |
| `program` | all acyclic graphs of 4 calls, 2 time steps, all interleavings | `PlanIsWellPlanned` (what the runtime relies on); `NoEarlyKernel`; `BarrierMeets`; `CountersNeverOvershoot`; `OutputsComplete`; `ResetWhenQuiet`; `ComputesDataflow` (refinement of `Dataflow`); `ProgramEnds` |
| `fusion` | all data flows of 4 stencils over two grids, at most one branch and one extra stored result, up to 3 fusions | `CallsAcyclic`, `CallsPartition`, `RefsDenote`, `IfStencilsAlone`, `SearchExhausted`, `RecordsFollowFusions` |
| `fusion_ends` | the same with 3 stencils and up to 2 fusions | `SearchEnds` |
| `partition` | all functions of 4 calls with at most two call arguments each, repeated or not, with the three patterns an operator can have (two registered, or none) | `EachCallOnce`: unless it raises, no call lost or in two groups; `OneManyToMany`; `LastIsResult`; a call waits once (`TypeOK`); `PartitionEnds`: it ends, with groups or with a `ValueError`, unless a call argument is repeated, and then never |
| `partition_doc` | the same with 3 calls | violated: `GroupsConvex`, the second condition of `partition`'s docstring |

Why the bounds are enough to be interesting. Four calls give levels of one to
four calls, so up to four threads, and up to three barriers, some pruned and
some kept; five calls give a producer and a consumer two barriers
apart with a third stream beside them. Two time steps are needed for the reset
of the counters to matter. Four stencils are the smallest number for which a
path of two stencils lies between a pair, and for which a fused call of two
outputs can meet another one. Three fusions reach a single call.

What `partition_doc` shows. Let c2 (many-to-many) read c1 (many-to-many), and let
c3 (one-to-many) read c1 and then c2. c1 joins the group of c3 first and makes it
many-to-many, so c2 is refused. Refusing c2 keeps its ancestors out from then
on, but c1 is in already: `partition` returns {c1, c3} and {c2}, and c2 is both
downstream and upstream of the first.

What `partition` shows beside its properties. `partition` does not always return.
On 3,159 of the 5,022 functions of the instance it runs forever: a call has the
same call among its arguments twice, `build_depends` lists it twice, and
`topo_sort` (`T/dnn_fusion.py:312`) removes it once. Of the other
1,863 functions 175 end in the `ValueError` of
`call_group.remove` (`T/dnn_fusion.py:374`), because the first candidates of a
group (line 363) are not tested for being free while the later ones (line 377)
are. This needs no group that is not convex: two consumers of one producer that
are in different groups suffice. No document of the repository says that
`partition` never raises or that it ends on every function, so both are reported
here and as hazards, and `PartitionEnds` states them.

Stopping. The planner, the program, the search and `partition` are meant to stop, so
deadlock is not an error there; each has a liveness property instead
(`Terminates`, `ProgramEnds`, `SearchEnds`, `PartitionEnds`) that a state where they are stuck
would violate.

Fairness. The planner, the search and `partition` are sequential Python: weak fairness of
their next step. The program: weak fairness of main, of every thread and of
every device stream, which is what a preemptive scheduler and the device give
to threads that spin; every spin condition, once true, stays true until the
thread has passed.

## 4. Proofs

All proofs hold for every value of the constants allowed by the named
assumptions (`CallsAssumption`, `GraphsAssumption`, `TagsAssumption`,
`RunStepAssumption`, `StencilsAssumption`, `SizeAssumption`,
`MaxFuseAssumption`, `ProgramsAssumption`), all evaluated by TLC in the runs.

`StreamSolveProofs`. The level phase (`LevelInv`) keeps two facts: a placed
call has all its producers placed in earlier levels, and `g` holds for a
call not yet placed exactly those of its ancestors that are not placed either. For the pruning
(`PruneInv`) the invariant is relative to the tag examined next: every
cross-stream pair whose consumer is below that tag is separated by a tag still
present, every tag kept below it is the only one for some pair, and the tags
from it on are all present. Removing a tag that is not needed keeps the first:
if it were the only tag between a producer and its consumer, the producer would
be in `Before` and the consumer in `After`. Theorems: `TypeCorrect`, `LevelsStratified`, `OrderKept`,
`PruningComplete`.

`StreamRuntimeProofs`. From `WellPlanned` lists. Three layers: the shape of
main's and the threads' program counters; kernels run in the order of the list,
and what precedes a thread's place in its list is queued or done; a counter is
the number of threads that have arrived. The last gives the barriers: a thread
passes only when the count is the number of lists with the tag, hence when all
have arrived, each with its stream drained. Theorems: `TypeCorrect`,
`KernelsAreSafe`, `BarriersMeet`, `OutputsAreComplete`, `ResetsAreQuiet`,
`CountersStopInTime`.

`StreamRuntimeRefines`. The running program implements `Dataflow`: the start
and the end of a kernel on the device are the abstract `Start` and `End`,
main's reset is `NextStep` (or, in the first step, a stutter), everything else
stutters. Theorem: `ProgramRefinesDataflow`.

`DependenceProofs`, `NodeAutoFusionProofs`. A graph lemma carries the search:
contracting two nodes of an acyclic graph with no third node on a path between
them leaves it acyclic (`ContractKeepsAcyclic`). `SearchInv` adds to the
invariants that the outputs of a call are results of its own stencils
(`OwnOuts`), that every call is reached from the results of the module
(`Rooted`), and that the exclusions a pair is chosen with belong to the present
calls. That a fusion replaces exactly the two calls (`FuseResult`) is the longest
step. No rewritten name leads to either of the two: a name of the first that has
no entry in `relay_call_map` is read by nobody else. And every other call is
still reached: a set of the new calls closed under the new names, with the fused
call read as the two old ones, is closed under the old names, so `Rooted` gives
all old calls. `RefsDenote` follows name by name (`NameKept`). The records
follow from counting the calls: every fusion makes one of two. Theorems:
`TypeCorrect`, `FusionKeepsDataflow`, `NoStencilLost`, `ResultsAreFound`,
`BranchesStayAlone`, `RecordsAreNumbered`.

Only model-checked: all of `DNNFusion`; all liveness (`Terminates`, `ProgramEnds`, `SearchEnds`);
`SearchExhausted`, which needs a greatest score of a finite set and so an
induction; `PlanIsWellPlanned`, which speaks of lists built by a fold, and with
it the composition of the two theorems in `ComputesDataflow`.

## 5. Not modelled, and the plan

In this order:

1. `DNNFusion.run_fuse`, which makes functions of the groups; then
   `StencilFusion.parallel_merge` and `serial_merge`, whose dependence graph is
   computed before the merges.
2. The naming of variables: `args_replace`, `maingen_v1`'s sets of variables,
   and `build_graph`'s purge of fused leftovers.
3. The evaluation pipeline: `shape_infer`, `Evaluate`, the benchmark loop of the
   scripts and the parsing of `performance.txt`, with failing commands, stale
   files and restarts.
4. `CustomFuseOps`: union-find and dominators, against a reference definition of
   dominance.
5. Proofs: that the lists built from a plan are `WellPlanned`, so that planner
   and program compose for all graphs; the invariants of the modules above.

Left out for good: the text of the generated kernels and of the memory
management in `main`, the figure scripts, and the upstream TVM code.
