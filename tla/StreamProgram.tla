---------------------------- MODULE StreamProgram ---------------------------
(***************************************************************************)
(* One codegen() from the call graph to the end of the generated program:  *)
(* the planner of StreamSolve, then maingen_v1, which hands the stream     *)
(* lists to GenMain, then the program of StreamRuntime.                    *)
(***************************************************************************)
EXTENDS StreamRuntime, SequencesExt

CONSTANTS Calls, Graphs

VARIABLES calls, g, level, steps, syncs, tag, pc

Plan == INSTANCE StreamSolve WITH graph <- calls

solveVars   == <<calls, g, level, steps, syncs, tag, pc>>
programVars == <<solveVars, vars>>

(* maingen_v1 names an element of a list: "kernel_..." or "sync_t".        *)
Kernel(c) == <<"kernel", c>>
Sync(t)   == <<"sync", t>>

(* A slip in StreamList: the tag of a level comes after its call.          *)
StreamListTagLast(s) ==
  FlattenSeq([t1 \in 1 .. steps |->
    SetToSeq({Kernel(c) : c \in {c \in Calls : level[c] = t1 - 1 /\ Plan!Stream(c) = s}})
      \o (IF t1 - 1 \in syncs THEN <<Sync(t1 - 1)>> ELSE <<>>)])

(* Stream s: before level t the tag, if it was not pruned, then the call   *)
(* of the level that is in stream s, if there is one.                      *)
StreamList(s) ==
  FlattenSeq([t1 \in 1 .. steps |->
    (IF t1 - 1 \in syncs THEN <<Sync(t1 - 1)>> ELSE <<>>)
      \o SetToSeq({Kernel(c) : c \in {c \in Calls : level[c] = t1 - 1 /\ Plan!Stream(c) = s}})])

-----------------------------------------------------------------------------
ProgramInit ==
  /\ Plan!Init
  /\ graph = [k \in Kernels |-> {}]
  /\ list = <<>>
  /\ Launched

PlanStep == Plan!Next /\ UNCHANGED vars

(* maingen_v1 and GenMain.gen, the build, and the start of the program.    *)
MainGen ==
  /\ pc = "done"
  /\ list = <<>>
  /\ graph' = [k \in Kernels |-> {Kernel(c) : c \in calls[k[2]]}]
  /\ list' = [s \in 1 .. Cardinality(Plan!Streams) |-> StreamList(s - 1)]
  /\ at' = [s \in DOMAIN list' |-> "none"]
  /\ pos' = [s \in DOMAIN list' |-> 1]
  /\ queue' = [s \in DOMAIN list' |-> <<>>]
  /\ busy' = [s \in DOMAIN list' |-> FALSE]
  /\ UNCHANGED <<solveVars, mainVars, START, sync, done>>

RunStepOf(A) == list # <<>> /\ A /\ UNCHANGED solveVars

ProgramNext == PlanStep \/ MainGen \/ RunStepOf(Next)

(* The operating system runs every thread that can run, and the device     *)
(* every stream that holds a kernel.                                       *)
Fairness ==
  /\ WF_programVars(PlanStep \/ MainGen)
  /\ WF_programVars(RunStepOf(MainNext))
  /\ \A s \in 1 .. Cardinality(Calls) :
       /\ WF_programVars(RunStepOf(s \in Threads /\ ThreadNext(s)))
       /\ WF_programVars(RunStepOf(s \in Threads /\ DeviceNext(s)))

ProgramSpec == ProgramInit /\ [][ProgramNext]_programVars /\ Fairness

-----------------------------------------------------------------------------
(* The lists GenMain receives have the shape StreamRuntime relies on, for  *)
(* every graph: each call in one place, the same tags in every list, and   *)
(* every producer ordered before its consumers.                            *)
PlanIsWellPlanned == list # <<>> => WellPlanned

(* The types of the running program, once it is generated.                 *)
ProgramTypeOK == list # <<>> => TypeOK

(* The planned program computes the data flow of the call graph: a call    *)
(* starts after its producers have ended, and runs once in every step.     *)
CallFlow == INSTANCE Dataflow WITH
  graph <- [k \in Kernels |-> {Kernel(c) : c \in calls[k[2]]}],
  running <- {Head(queue[s]) : s \in {s \in Threads : busy[s]}}

ComputesDataflow == CallFlow!Spec

(* No thread waits forever at a barrier: the program ends.                 *)
ProgramEnds == <>(main = "exit")
=============================================================================
