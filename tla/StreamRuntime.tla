---------------------------- MODULE StreamRuntime ---------------------------
(***************************************************************************)
(* The program GenMain generates from the stream lists: one pthread per    *)
(* stream, started by main.  A thread warms the device up, meets the       *)
(* others at START, then walks its list: a kernel call is queued on the    *)
(* thread's own device stream and returns; a barrier waits for that        *)
(* stream to drain, adds one to the atomic counter of its tag and spins    *)
(* until the counter is the number of lists that hold the tag.             *)
(*                                                                         *)
(* The device is external: kernels of one stream run in the order they     *)
(* were queued, kernels of different streams in any order.  The build      *)
(* passes --default-stream per-thread, so stream 0 is private to a thread. *)
(***************************************************************************)
EXTENDS Integers, FiniteSets, Sequences

CONSTANTS
  Kernels,    \* the elements of the lists that are kernel calls
  Tags,       \* the elements of the lists that start with "sync_"
  RunStep     \* run_step: how often main runs all kernels

ASSUME TagsAssumption == Tags \cap Kernels = {}
ASSUME RunStepAssumption == RunStep \in Nat \ {0}

VARIABLES
  graph,      \* the producers of every kernel
  list,       \* stream_list: per thread, the sequence of kernels and tags
  main,       \* main's program counter
  index,      \* the thread main creates or joins next
  step,       \* the loop variable i of main
  START,      \* the atomic START
  sync,       \* the atomics sync_t
  at,         \* per thread, its program counter
  pos,        \* per thread, the element of its list it executes next
  queue,      \* per thread, the kernels queued on its device stream
  busy,       \* per thread, whether the head of its queue is running
  done        \* the kernels that ended in this step

planVars   == <<graph, list>>
mainVars   == <<main, index, step>>
threadVars == <<START, sync, at, pos>>
deviceVars == <<queue, busy, done>>
vars == <<graph, list, main, index, step, START, sync, at, pos, queue, busy, done>>

-----------------------------------------------------------------------------
Threads == DOMAIN list

stream_size == Len(list)

Holds(s, e) == \E j \in DOMAIN list[s] : list[s][j] = e

(* sync_var_length[tag]: counted over the lists by init_stream_list.       *)
sync_var_length(t) == Cardinality({s \in Threads : Holds(s, t)})

(* What the planner guarantees of the lists: a kernel is in one place, a   *)
(* tag at most once in a list.                                             *)
EachKernelOnce ==
  /\ \A c \in Kernels : \E s \in Threads : Holds(s, c)
  /\ \A s1, s2 \in Threads : \A j \in DOMAIN list[s1], k \in DOMAIN list[s2] :
       list[s1][j] = list[s2][k] =>
         (s1 = s2 /\ j = k) \/ (s1 # s2 /\ list[s1][j] \in Tags)

(* The tags of every list are the same, in the same order.                 *)
SameTags ==
  \A s1, s2 \in Threads : \A j1, k1 \in DOMAIN list[s1] :
    list[s1][j1] \in Tags /\ list[s1][k1] \in Tags /\ j1 <= k1 =>
      \E j2, k2 \in DOMAIN list[s2] :
        j2 <= k2 /\ list[s2][j2] = list[s1][j1] /\ list[s2][k2] = list[s1][k1]

(* A producer comes earlier in the list of its consumer, or a barrier of   *)
(* both lists comes after the producer and before the consumer.            *)
Ordered(a, b) ==
  \A s1, s2 \in Threads : \A j \in DOMAIN list[s1], k \in DOMAIN list[s2] :
    list[s1][j] = a /\ list[s2][k] = b =>
      \/ s1 = s2 /\ j < k
      \/ \E j2 \in DOMAIN list[s1], k2 \in DOMAIN list[s2] :
           /\ list[s1][j2] = list[s2][k2]
           /\ list[s1][j2] \in Tags
           /\ j < j2 /\ k2 < k

WellPlanned ==
  /\ EachKernelOnce
  /\ SameTags
  /\ \A b \in Kernels : \A a \in graph[b] : Ordered(a, b)

-----------------------------------------------------------------------------
(* The program has been linked and is started: gen_header declares START   *)
(* and every sync_t with 0; there is no thread, and the device is idle.    *)
Launched ==
  /\ main = "reset" /\ index = 1 /\ step = 0
  /\ START = 0
  /\ sync = [t \in Tags |-> 0]
  /\ at = [s \in Threads |-> "none"]
  /\ pos = [s \in Threads |-> 1]
  /\ queue = [s \in Threads |-> <<>>]
  /\ busy = [s \in Threads |-> FALSE]
  /\ done = {}

Init ==
  /\ graph \in [Kernels -> SUBSET Kernels]
  /\ list \in Seq(Seq(Kernels \cup Tags))
  /\ list # <<>>
  /\ WellPlanned
  /\ Launched

(* A slip in MainReset: only START is cleared.                             *)
MainResetStart ==
  /\ main = "reset"
  /\ START' = 0
  /\ at' = [s \in Threads |-> "none"]
  /\ pos' = [s \in Threads |-> 1]
  /\ done' = {}
  /\ main' = "create" /\ index' = 1
  /\ UNCHANGED <<planVars, step, sync, queue, busy>>

(* main: START=0; sync_t=0; the threads of the last step are gone.         *)
MainReset ==
  /\ main = "reset"
  /\ START' = 0
  /\ sync' = [t \in Tags |-> 0]
  /\ at' = [s \in Threads |-> "none"]
  /\ pos' = [s \in Threads |-> 1]
  /\ done' = {}
  /\ main' = "create" /\ index' = 1
  /\ UNCHANGED <<planVars, step, queue, busy>>

(* A slip in MainCreate: one thread too many.                              *)
MainCreatePastEnd ==
  /\ main = "create"
  /\ at' = [at EXCEPT ![index] = "warmup"]
  /\ IF index > stream_size
       THEN main' = "start" /\ index' = 1
       ELSE main' = main /\ index' = index + 1
  /\ UNCHANGED <<planVars, step, START, sync, pos, deviceVars>>

(* main: pthread_create(&threads[index], ...)                              *)
MainCreate ==
  /\ main = "create"
  /\ at' = [at EXCEPT ![index] = "warmup"]
  /\ IF index = stream_size
       THEN main' = "start" /\ index' = 1
       ELSE main' = main /\ index' = index + 1
  /\ UNCHANGED <<planVars, step, START, sync, pos, deviceVars>>

(* main: while(START!=stream_size); then the start event is recorded.      *)
MainStart ==
  /\ main = "start"
  /\ START = stream_size
  /\ main' = "join"
  /\ UNCHANGED <<planVars, index, step, threadVars, deviceVars>>

(* A slip in MainJoin: only the first thread is joined.                    *)
MainJoinFirst ==
  /\ main = "join"
  /\ at[index] = "exit"
  /\ main' = "drain" /\ index' = 1
  /\ UNCHANGED <<planVars, step, threadVars, deviceVars>>

(* main: pthread_join(threads[index], NULL)                                *)
MainJoin ==
  /\ main = "join"
  /\ at[index] = "exit"
  /\ IF index = stream_size
       THEN main' = "drain" /\ index' = 1
       ELSE main' = main /\ index' = index + 1
  /\ UNCHANGED <<planVars, step, threadVars, deviceVars>>

(* main: cudaDeviceSynchronize(), the stop event, the end of the loop.     *)
MainDrain ==
  /\ main = "drain"
  /\ \A s \in Threads : queue[s] = <<>>
  /\ step' = step + 1
  /\ main' = IF step' < RunStep THEN "reset" ELSE "out"
  /\ UNCHANGED <<planVars, index, threadVars, deviceVars>>

(* main: memD2H and printStorage of the outputs, return 0.                 *)
MainOut ==
  /\ main = "out"
  /\ main' = "exit"
  /\ UNCHANGED <<planVars, index, step, threadVars, deviceVars>>

-----------------------------------------------------------------------------
(* launch_kernel_s: the warm-up kernel and the wait for it; both touch     *)
(* only memory of the thread.                                              *)
Warmup(s) ==
  /\ at[s] = "warmup"
  /\ at' = [at EXCEPT ![s] = "enter"]
  /\ UNCHANGED <<planVars, mainVars, START, sync, pos, deviceVars>>

(* START+=1; *)
StartArrive(s) ==
  /\ at[s] = "enter"
  /\ START' = START + 1
  /\ at' = [at EXCEPT ![s] = "start"]
  /\ UNCHANGED <<planVars, mainVars, sync, pos, deviceVars>>

(* while(START!=stream_size); *)
StartPass(s) ==
  /\ at[s] = "start"
  /\ START = stream_size
  /\ at' = [at EXCEPT ![s] = "run"]
  /\ UNCHANGED <<planVars, mainVars, START, sync, pos, deviceVars>>

(* _mlir_ciface_kernel(...): the launch is asynchronous.                   *)
KernelCall(s) ==
  /\ at[s] = "run"
  /\ pos[s] \in DOMAIN list[s]
  /\ list[s][pos[s]] \in Kernels
  /\ queue' = [queue EXCEPT ![s] = Append(@, list[s][pos[s]])]
  /\ pos' = [pos EXCEPT ![s] = @ + 1]
  /\ UNCHANGED <<planVars, mainVars, START, sync, at, busy, done>>

(* A slip in SyncDrain: the stream is not drained.                         *)
SyncNoDrain(s) ==
  /\ at[s] = "run"
  /\ pos[s] \in DOMAIN list[s]
  /\ list[s][pos[s]] \in Tags
  /\ at' = [at EXCEPT ![s] = "arrive"]
  /\ UNCHANGED <<planVars, mainVars, START, sync, pos, deviceVars>>

(* A barrier: cudaStreamSynchronize(0); *)
SyncDrain(s) ==
  /\ at[s] = "run"
  /\ pos[s] \in DOMAIN list[s]
  /\ list[s][pos[s]] \in Tags
  /\ queue[s] = <<>>
  /\ at' = [at EXCEPT ![s] = "arrive"]
  /\ UNCHANGED <<planVars, mainVars, START, sync, pos, deviceVars>>

(* sync_t+=1; *)
SyncArrive(s) ==
  /\ at[s] = "arrive"
  /\ sync' = [sync EXCEPT ![list[s][pos[s]]] = @ + 1]
  /\ at' = [at EXCEPT ![s] = "spin"]
  /\ UNCHANGED <<planVars, mainVars, START, pos, deviceVars>>

(* A slip in SyncPass: one thread too few, or one too many, is awaited.    *)
SyncPassEarly(s) ==
  /\ at[s] = "spin"
  /\ sync[list[s][pos[s]]] >= sync_var_length(list[s][pos[s]]) - 1
  /\ at' = [at EXCEPT ![s] = "run"]
  /\ pos' = [pos EXCEPT ![s] = @ + 1]
  /\ UNCHANGED <<planVars, mainVars, START, sync, deviceVars>>

SyncPassLate(s) ==
  /\ at[s] = "spin"
  /\ sync[list[s][pos[s]]] = sync_var_length(list[s][pos[s]]) + 1
  /\ at' = [at EXCEPT ![s] = "run"]
  /\ pos' = [pos EXCEPT ![s] = @ + 1]
  /\ UNCHANGED <<planVars, mainVars, START, sync, deviceVars>>

(* while(sync_t!=sync_var_length[t]); *)
SyncPass(s) ==
  /\ at[s] = "spin"
  /\ sync[list[s][pos[s]]] = sync_var_length(list[s][pos[s]])
  /\ at' = [at EXCEPT ![s] = "run"]
  /\ pos' = [pos EXCEPT ![s] = @ + 1]
  /\ UNCHANGED <<planVars, mainVars, START, sync, deviceVars>>

(* A slip in ThreadExit: the last element of the list is not run.          *)
ThreadExitBeforeLast(s) ==
  /\ at[s] = "run"
  /\ pos[s] >= Len(list[s])
  /\ queue[s] = <<>>
  /\ at' = [at EXCEPT ![s] = "exit"]
  /\ UNCHANGED <<planVars, mainVars, START, sync, pos, deviceVars>>

(* The final cudaStreamSynchronize(0); return NULL; *)
ThreadExit(s) ==
  /\ at[s] = "run"
  /\ pos[s] \notin DOMAIN list[s]
  /\ queue[s] = <<>>
  /\ at' = [at EXCEPT ![s] = "exit"]
  /\ UNCHANGED <<planVars, mainVars, START, sync, pos, deviceVars>>

-----------------------------------------------------------------------------
(* The device starts the oldest kernel of a stream, and ends it.           *)
KernelBegin(s) ==
  /\ queue[s] # <<>>
  /\ ~busy[s]
  /\ busy' = [busy EXCEPT ![s] = TRUE]
  /\ UNCHANGED <<planVars, mainVars, threadVars, queue, done>>

KernelEnd(s) ==
  /\ busy[s]
  /\ busy' = [busy EXCEPT ![s] = FALSE]
  /\ queue' = [queue EXCEPT ![s] = Tail(@)]
  /\ done' = done \cup {Head(queue[s])}
  /\ UNCHANGED <<planVars, mainVars, threadVars>>

MainNext == MainReset \/ MainCreate \/ MainStart \/ MainJoin \/ MainDrain \/ MainOut

ThreadNext(s) ==
  \/ Warmup(s) \/ StartArrive(s) \/ StartPass(s) \/ KernelCall(s)
  \/ SyncDrain(s) \/ SyncArrive(s) \/ SyncPass(s) \/ ThreadExit(s)

DeviceNext(s) == KernelBegin(s) \/ KernelEnd(s)

Next == MainNext \/ \E s \in Threads : ThreadNext(s) \/ DeviceNext(s)

Spec == Init /\ [][Next]_vars

-----------------------------------------------------------------------------
TypeOK ==
  /\ graph \in [Kernels -> SUBSET Kernels]
  /\ list \in Seq(Seq(Kernels \cup Tags))
  /\ main \in {"reset", "create", "start", "join", "drain", "out", "exit"}
  /\ index \in Threads
  /\ step \in 0 .. RunStep
  /\ START \in Nat
  /\ sync \in [Tags -> Nat]
  /\ at \in [Threads -> {"none", "warmup", "enter", "start", "run", "arrive", "spin", "exit"}]
  /\ pos \in [Threads -> Nat \ {0}]
  /\ queue \in [Threads -> Seq(Kernels)]
  /\ busy \in [Threads -> BOOLEAN]
  /\ done \subseteq Kernels

(* No kernel reads a tensor that is still being written: while a kernel    *)
(* runs on the device, the kernels that produce its arguments have ended.  *)
NoEarlyKernel ==
  \A s \in Threads : busy[s] => queue[s] # <<>> /\ graph[Head(queue[s])] \subseteq done

(* Thread s has added one to the counter of the tag at place j of its list *)
Arrived(s, j) == j < pos[s] \/ (j = pos[s] /\ at[s] = "spin")

(* A thread is past a barrier only when every thread that has the barrier  *)
(* in its list has arrived at it.                                          *)
BarrierMeets ==
  \A s1, s2 \in Threads : \A j \in DOMAIN list[s1], k \in DOMAIN list[s2] :
    list[s1][j] = list[s2][k] /\ list[s1][j] \in Tags /\ j < pos[s1] => Arrived(s2, k)

(* The spin loops test != and not <: a counter that went past its target   *)
(* would hold every thread forever.                                        *)
CountersNeverOvershoot ==
  /\ START <= stream_size
  /\ \A t \in Tags : sync[t] <= sync_var_length(t)

(* main copies the outputs back only when every kernel has ended.          *)
OutputsComplete == main \in {"out", "exit"} => done = Kernels

(* main clears a counter only when no thread can be spinning on it.        *)
ResetWhenQuiet ==
  [][START' < START \/ (\E t \in Tags : sync'[t] < sync[t])
       => \A s \in Threads : at[s] \in {"none", "exit"}]_vars

(* The program refines the data flow of its graph.                         *)
Abstract == INSTANCE Dataflow WITH
  running <- {Head(queue[s]) : s \in {s \in Threads : busy[s]}}

RefinesDataflow == Abstract!Spec
=============================================================================
