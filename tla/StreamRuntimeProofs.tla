------------------------ MODULE StreamRuntimeProofs -------------------------
(***************************************************************************)
(* The generated program is correct for every well planned set of lists,   *)
(* every number of threads and every number of time steps.                 *)
(*                                                                         *)
(* The proof is in layers, each inductive on top of the ones before it:    *)
(*   Shape     types, and what the program counters say of main, of the    *)
(*             threads and of their device streams;                        *)
(*   InOrder   a kernel that was called has ended or is in the queue, with *)
(*             the kernels called before it in front of it;                *)
(*   Barriers  a counter holds the number of threads that have arrived, so *)
(*             a barrier is passed only when all have, and the kernels     *)
(*             before an arrival have ended;                               *)
(* and then the properties.                                                *)
(***************************************************************************)
EXTENDS StreamRuntime, FiniteSetTheorems, SequenceTheorems, TLAPS

MainInv ==
  /\ main = "reset" => \A s \in Threads : at[s] \in {"none", "exit"}
  /\ main = "create" => \A s \in Threads : s >= index => at[s] = "none"
  /\ main = "start" => index = 1
  /\ main = "join" => \A s \in Threads : s < index => at[s] = "exit"
  /\ main \in {"drain", "out", "exit"} => \A s \in Threads : at[s] = "exit"
  /\ main \notin {"out", "exit"} => step < RunStep

ThreadInv ==
  \A s \in Threads :
    /\ busy[s] => queue[s] # <<>>
    /\ at[s] \in {"none", "warmup", "enter", "start"} => pos[s] = 1 /\ queue[s] = <<>>
    /\ at[s] \in {"arrive", "spin"} =>
         queue[s] = <<>> /\ pos[s] \in DOMAIN list[s] /\ list[s][pos[s]] \in Tags
    /\ at[s] = "exit" => queue[s] = <<>> /\ pos[s] \notin DOMAIN list[s]

Shape == TypeOK /\ list # <<>> /\ WellPlanned /\ MainInv /\ ThreadInv

LEMMA ThreadsAreNumbers ==
  ASSUME TypeOK, list # <<>>
  PROVE  /\ Threads = 1 .. Len(list) /\ Len(list) \in Nat \ {0}
         /\ \A s \in Threads : list[s] \in Seq(Kernels \cup Tags)
         /\ IsFiniteSet(Threads)
<1>1. Threads = 1 .. Len(list) /\ Len(list) \in Nat \ {0}
  BY EmptySeq DEF TypeOK, Threads
<1>2. IsFiniteSet(Threads)
  BY <1>1, FS_Interval
<1> QED
  BY <1>1, <1>2 DEF TypeOK, Threads

LEMMA ShapeInit == Init => Shape
<1> SUFFICES ASSUME Init PROVE Shape
  OBVIOUS
<1>1. Threads = 1 .. Len(list) /\ Len(list) \in Nat \ {0}
  BY EmptySeq DEF Init, Threads
<1>2. TypeOK
  BY <1>1, RunStepAssumption DEF Init, Launched, TypeOK
<1>3. MainInv /\ ThreadInv
  BY <1>1, RunStepAssumption DEF Init, Launched, MainInv, ThreadInv
<1> QED
  BY <1>2, <1>3 DEF Init, Shape

(* No action changes the plan, so neither the threads nor what was planned *)
(* changes.                                                                *)
LEMMA PlanKept ==
  ASSUME [Next]_vars
  PROVE  /\ graph' = graph /\ list' = list /\ Threads' = Threads
         /\ stream_size' = stream_size /\ WellPlanned' = WellPlanned
<1>1. graph' = graph /\ list' = list
  BY DEF Next, vars, planVars, MainNext, ThreadNext, DeviceNext, MainReset, MainCreate,
         MainStart, MainJoin, MainDrain, MainOut, Warmup, StartArrive, StartPass, KernelCall,
         SyncDrain, SyncArrive, SyncPass, ThreadExit, KernelBegin, KernelEnd
<1> QED
  BY <1>1 DEF Threads, stream_size, WellPlanned, EachKernelOnce, SameTags, Ordered, Holds

LEMMA ShapeStep == Shape /\ [Next]_vars => Shape'
<1> SUFFICES ASSUME Shape, [Next]_vars PROVE Shape'
  OBVIOUS
<1>0. /\ graph' = graph /\ list' = list /\ Threads' = Threads
      /\ stream_size' = stream_size /\ WellPlanned'
  BY PlanKept DEF Shape
<1>1. TypeOK /\ list # <<>> /\ WellPlanned /\ MainInv /\ ThreadInv
  BY DEF Shape
<1>2. /\ Threads = 1 .. Len(list) /\ Len(list) \in Nat \ {0}
      /\ \A s \in Threads : list[s] \in Seq(Kernels \cup Tags)
  BY <1>1, ThreadsAreNumbers
<1>3. CASE MainReset
  <2>1. TypeOK'
    BY <1>0, <1>1, <1>2, <1>3 DEF MainReset, TypeOK
  <2>2. MainInv'
    BY <1>0, <1>1, <1>2, <1>3 DEF MainReset, TypeOK, MainInv
  <2>3. ThreadInv'
    BY <1>0, <1>1, <1>2, <1>3 DEF MainReset, TypeOK, ThreadInv, MainInv
  <2> QED
    BY <1>0, <1>1, <2>1, <2>2, <2>3 DEF Shape
<1>4. CASE MainCreate
  <2>1. TypeOK'
    BY <1>0, <1>1, <1>2, <1>4 DEF MainCreate, deviceVars, stream_size, TypeOK
  <2>2. MainInv'
    BY <1>0, <1>1, <1>2, <1>4 DEF MainCreate, deviceVars, stream_size, TypeOK, MainInv
  <2>3. ThreadInv'
    BY <1>0, <1>1, <1>2, <1>4 DEF MainCreate, deviceVars, stream_size, TypeOK, ThreadInv, MainInv
  <2> QED
    BY <1>0, <1>1, <2>1, <2>2, <2>3 DEF Shape
<1>5. CASE MainStart
  <2>1. TypeOK'
    BY <1>0, <1>1, <1>2, <1>5 DEF MainStart, threadVars, deviceVars, stream_size, TypeOK
  <2>2. MainInv'
    BY <1>0, <1>1, <1>2, <1>5 DEF MainStart, threadVars, deviceVars, stream_size, TypeOK, MainInv
  <2>3. ThreadInv'
    BY <1>0, <1>1, <1>2, <1>5 DEF MainStart, threadVars, deviceVars, stream_size, TypeOK, ThreadInv, MainInv
  <2> QED
    BY <1>0, <1>1, <2>1, <2>2, <2>3 DEF Shape
<1>6. CASE MainJoin
  <2>1. TypeOK'
    BY <1>0, <1>1, <1>2, <1>6 DEF MainJoin, threadVars, deviceVars, stream_size, TypeOK
  <2>2. MainInv'
    BY <1>0, <1>1, <1>2, <1>6 DEF MainJoin, threadVars, deviceVars, stream_size, TypeOK, MainInv
  <2>3. ThreadInv'
    BY <1>0, <1>1, <1>2, <1>6 DEF MainJoin, threadVars, deviceVars, stream_size, TypeOK, ThreadInv, MainInv
  <2> QED
    BY <1>0, <1>1, <2>1, <2>2, <2>3 DEF Shape
<1>7. CASE MainDrain
  <2>1. TypeOK'
    BY <1>0, <1>1, <1>2, <1>7, RunStepAssumption DEF MainDrain, threadVars, deviceVars, TypeOK, MainInv
  <2>2. MainInv'
    BY <1>0, <1>1, <1>2, <1>7, RunStepAssumption DEF MainDrain, threadVars, deviceVars, TypeOK, MainInv
  <2>3. ThreadInv'
    BY <1>0, <1>1, <1>2, <1>7, RunStepAssumption DEF MainDrain, threadVars, deviceVars, TypeOK, ThreadInv, MainInv
  <2> QED
    BY <1>0, <1>1, <2>1, <2>2, <2>3 DEF Shape
<1>8. CASE MainOut
  <2>1. TypeOK'
    BY <1>0, <1>1, <1>2, <1>8 DEF MainOut, threadVars, deviceVars, TypeOK
  <2>2. MainInv'
    BY <1>0, <1>1, <1>2, <1>8 DEF MainOut, threadVars, deviceVars, TypeOK, MainInv
  <2>3. ThreadInv'
    BY <1>0, <1>1, <1>2, <1>8 DEF MainOut, threadVars, deviceVars, TypeOK, ThreadInv, MainInv
  <2> QED
    BY <1>0, <1>1, <2>1, <2>2, <2>3 DEF Shape
<1>9. ASSUME NEW s \in Threads, ThreadNext(s) PROVE Shape'
  <2>1. CASE Warmup(s)
    <3>1. TypeOK'
      BY <1>0, <1>1, <1>2, <2>1 DEF Warmup, mainVars, deviceVars, TypeOK
    <3>2. MainInv'
      BY <1>0, <1>1, <1>2, <2>1 DEF Warmup, mainVars, deviceVars, TypeOK, MainInv
    <3>3. ThreadInv'
      BY <1>0, <1>1, <1>2, <2>1 DEF Warmup, mainVars, deviceVars, TypeOK, ThreadInv
    <3> QED
      BY <1>0, <1>1, <3>1, <3>2, <3>3 DEF Shape
  <2>2. CASE StartArrive(s)
    <3>1. TypeOK'
      BY <1>0, <1>1, <1>2, <2>2 DEF StartArrive, mainVars, deviceVars, TypeOK
    <3>2. MainInv'
      BY <1>0, <1>1, <1>2, <2>2 DEF StartArrive, mainVars, deviceVars, TypeOK, MainInv
    <3>3. ThreadInv'
      BY <1>0, <1>1, <1>2, <2>2 DEF StartArrive, mainVars, deviceVars, TypeOK, ThreadInv
    <3> QED
      BY <1>0, <1>1, <3>1, <3>2, <3>3 DEF Shape
  <2>3. CASE StartPass(s)
    <3>1. TypeOK'
      BY <1>0, <1>1, <1>2, <2>3 DEF StartPass, mainVars, deviceVars, TypeOK
    <3>2. MainInv'
      BY <1>0, <1>1, <1>2, <2>3 DEF StartPass, mainVars, deviceVars, TypeOK, MainInv
    <3>3. ThreadInv'
      BY <1>0, <1>1, <1>2, <2>3 DEF StartPass, mainVars, deviceVars, TypeOK, ThreadInv
    <3> QED
      BY <1>0, <1>1, <3>1, <3>2, <3>3 DEF Shape
  <2>4. CASE KernelCall(s)
    <3>1. queue'[s] = Append(queue[s], list[s][pos[s]]) /\ queue'[s] \in Seq(Kernels)
      BY <1>0, <1>1, <1>2, <2>4 DEF KernelCall, TypeOK
    <3>2. Len(queue'[s]) = Len(queue[s]) + 1 /\ Len(queue[s]) \in Nat
      BY <1>0, <1>1, <1>2, <2>4, <3>1, AppendProperties DEF KernelCall, TypeOK
    <3>3. queue'[s] # <<>> /\ pos[s] \in Nat \ {0} /\ pos[s] + 1 \in Nat \ {0}
      BY <1>1, <3>2 DEF TypeOK
    <3>4. TypeOK'
      BY <1>0, <1>1, <2>4, <3>1, <3>3 DEF KernelCall, TypeOK, mainVars
    <3>5. MainInv'
      BY <1>0, <1>1, <2>4 DEF KernelCall, MainInv, mainVars
    <3>6. ThreadInv'
      BY <1>0, <1>1, <2>4, <3>3 DEF KernelCall, TypeOK, ThreadInv, mainVars
    <3> QED
      BY <1>0, <1>1, <3>4, <3>5, <3>6 DEF Shape
  <2>5. CASE SyncDrain(s)
    <3>1. TypeOK'
      BY <1>0, <1>1, <1>2, <2>5 DEF SyncDrain, mainVars, deviceVars, TypeOK
    <3>2. MainInv'
      BY <1>0, <1>1, <1>2, <2>5 DEF SyncDrain, mainVars, deviceVars, TypeOK, MainInv
    <3>3. ThreadInv'
      BY <1>0, <1>1, <1>2, <2>5 DEF SyncDrain, mainVars, deviceVars, TypeOK, ThreadInv
    <3> QED
      BY <1>0, <1>1, <3>1, <3>2, <3>3 DEF Shape
  <2>6. CASE SyncArrive(s)
    <3>1. TypeOK'
      BY <1>0, <1>1, <1>2, <2>6 DEF SyncArrive, mainVars, deviceVars, TypeOK, ThreadInv
    <3>2. MainInv'
      BY <1>0, <1>1, <1>2, <2>6 DEF SyncArrive, mainVars, deviceVars, TypeOK, MainInv
    <3>3. ThreadInv'
      BY <1>0, <1>1, <1>2, <2>6 DEF SyncArrive, mainVars, deviceVars, TypeOK, ThreadInv
    <3> QED
      BY <1>0, <1>1, <3>1, <3>2, <3>3 DEF Shape
  <2>7. CASE SyncPass(s)
    <3>1. TypeOK'
      <4>1. pos[s] \in Nat \ {0} /\ pos[s] + 1 \in Nat \ {0}
        BY <1>1 DEF TypeOK
      <4> QED
        BY <1>0, <1>1, <2>7, <4>1 DEF SyncPass, mainVars, deviceVars, TypeOK
    <3>2. MainInv'
      BY <1>0, <1>1, <1>2, <2>7 DEF SyncPass, mainVars, deviceVars, TypeOK, MainInv
    <3>3. ThreadInv'
      BY <1>0, <1>1, <1>2, <2>7 DEF SyncPass, mainVars, deviceVars, TypeOK, ThreadInv
    <3> QED
      BY <1>0, <1>1, <3>1, <3>2, <3>3 DEF Shape
  <2>8. CASE ThreadExit(s)
    <3>1. TypeOK'
      BY <1>0, <1>1, <1>2, <2>8 DEF ThreadExit, mainVars, deviceVars, TypeOK
    <3>2. MainInv'
      BY <1>0, <1>1, <1>2, <2>8 DEF ThreadExit, mainVars, deviceVars, TypeOK, MainInv
    <3>3. ThreadInv'
      BY <1>0, <1>1, <1>2, <2>8 DEF ThreadExit, mainVars, deviceVars, TypeOK, ThreadInv
    <3> QED
      BY <1>0, <1>1, <3>1, <3>2, <3>3 DEF Shape
  <2> QED
    BY <1>9, <2>1, <2>2, <2>3, <2>4, <2>5, <2>6, <2>7, <2>8 DEF ThreadNext
<1>10. ASSUME NEW s \in Threads, DeviceNext(s) PROVE Shape'
  <2>1. CASE KernelBegin(s)
    <3>1. TypeOK'
      BY <1>0, <1>1, <1>2, <2>1 DEF KernelBegin, mainVars, threadVars, TypeOK
    <3>2. MainInv'
      BY <1>0, <1>1, <1>2, <2>1 DEF KernelBegin, mainVars, threadVars, TypeOK, MainInv
    <3>3. ThreadInv'
      BY <1>0, <1>1, <1>2, <2>1 DEF KernelBegin, mainVars, threadVars, TypeOK, ThreadInv
    <3> QED
      BY <1>0, <1>1, <3>1, <3>2, <3>3 DEF Shape
  <2>2. CASE KernelEnd(s)
    <3>1. queue[s] # <<>> /\ queue[s] \in Seq(Kernels)
      BY <1>1, <2>2 DEF KernelEnd, ThreadInv, TypeOK
    <3>2. Head(queue[s]) \in Kernels /\ Tail(queue[s]) \in Seq(Kernels)
      BY <3>1, HeadTailProperties
    <3> QED
      BY <1>0, <1>1, <1>2, <2>2, <3>1, <3>2
         DEF KernelEnd, Shape, TypeOK, MainInv, ThreadInv, mainVars, threadVars
  <2> QED
    BY <1>10, <2>1, <2>2 DEF DeviceNext
<1>11. CASE UNCHANGED vars
  BY <1>0, <1>1, <1>11 DEF vars, Shape, TypeOK, MainInv, ThreadInv
<1> QED
  BY <1>3, <1>4, <1>5, <1>6, <1>7, <1>8, <1>9, <1>10, <1>11 DEF Next, MainNext

-----------------------------------------------------------------------------
Called ==
  \A s \in Threads : \A j \in DOMAIN list[s] :
    j < pos[s] /\ list[s][j] \in Kernels =>
      list[s][j] \in done \/ \E i \in DOMAIN queue[s] : queue[s][i] = list[s][j]

QueuedAs(s, i, j) ==
  /\ j < pos[s] /\ queue[s][i] = list[s][j]
  /\ \A k \in DOMAIN list[s] : k < j /\ list[s][k] \in Kernels =>
       list[s][k] \in done \/ \E h \in DOMAIN queue[s] : h < i /\ queue[s][h] = list[s][k]

Queued ==
  \A s \in Threads : \A i \in DOMAIN queue[s] : \E j \in DOMAIN list[s] : QueuedAs(s, i, j)

InOrder == Shape /\ Called /\ Queued

(* The steps that call a kernel, end one, or move on in a list.            *)
LEMMA StepsThatCount ==
  ASSUME [Next]_vars
  PROVE  \/ UNCHANGED <<pos, queue, done>>
         \/ MainReset
         \/ \E s \in Threads : KernelCall(s) \/ SyncPass(s) \/ KernelEnd(s)
BY DEF Next, vars, MainNext, ThreadNext, DeviceNext, MainCreate, MainStart, MainJoin, MainDrain,
       MainOut, Warmup, StartArrive, StartPass, SyncDrain, SyncArrive, ThreadExit, KernelBegin,
       threadVars, deviceVars

LEMMA InOrderInit == Init => InOrder
<1> SUFFICES ASSUME Init PROVE InOrder
  OBVIOUS
<1>1. Shape
  BY ShapeInit
<1>2. \A s \in Threads : pos[s] = 1 /\ queue[s] = <<>>
  BY DEF Init, Launched
<1>3. \A s \in Threads : \A j \in DOMAIN list[s] : j \in Nat \ {0}
  BY <1>1, ThreadsAreNumbers DEF Shape
<1>4. Called
  BY <1>2, <1>3 DEF Called
<1>5. Queued
  BY <1>2 DEF Queued
<1> QED
  BY <1>1, <1>4, <1>5 DEF InOrder

LEMMA InOrderStep == InOrder /\ [Next]_vars => InOrder'
<1> SUFFICES ASSUME InOrder, [Next]_vars PROVE InOrder'
  OBVIOUS
<1>1. Shape /\ Shape' /\ TypeOK /\ ThreadInv /\ MainInv /\ Called /\ Queued
  BY ShapeStep DEF InOrder, Shape
<1>2. list' = list /\ Threads' = Threads
  BY PlanKept
<1>3. /\ \A s \in Threads : DOMAIN list[s] = 1 .. Len(list[s]) /\ Len(list[s]) \in Nat
      /\ \A s \in Threads : queue[s] \in Seq(Kernels) /\ pos[s] \in Nat \ {0}
  <2>1. \A s \in Threads : list[s] \in Seq(Kernels \cup Tags)
    BY <1>1, ThreadsAreNumbers DEF Shape
  <2> QED
    BY <1>1, <2>1, LenProperties DEF TypeOK
<1>4. CASE UNCHANGED <<pos, queue, done>>
  BY <1>1, <1>2, <1>4 DEF InOrder, Called, Queued, QueuedAs
<1>5. CASE MainReset
  <2>1. \A s \in Threads : queue[s] = <<>> /\ queue'[s] = <<>> /\ pos'[s] = 1
    BY <1>1, <1>5 DEF MainReset, MainInv, ThreadInv
  <2> QED
    BY <1>1, <1>2, <1>3, <2>1 DEF InOrder, Called, Queued
<1>6. ASSUME NEW s \in Threads, KernelCall(s) PROVE InOrder'
  <2> DEFINE c == list[s][pos[s]]
             n == Len(queue[s]) + 1
  <2>1. /\ c \in Kernels /\ pos[s] \in DOMAIN list[s] /\ done' = done
        /\ queue'[s] = Append(queue[s], c) /\ pos'[s] = pos[s] + 1
        /\ \A r \in Threads : r # s => queue'[r] = queue[r] /\ pos'[r] = pos[r]
    BY <1>1, <1>6 DEF KernelCall, TypeOK
  <2>2. /\ DOMAIN queue[s] = 1 .. n - 1 /\ DOMAIN queue'[s] = 1 .. n /\ n \in Nat \ {0}
        /\ queue'[s][n] = c
        /\ \A i \in 1 .. n - 1 : queue'[s][i] = queue[s][i]
    BY <1>3, <2>1, AppendProperties
  <2> HIDE DEF c, n
  <2>3. Called'
    <3> SUFFICES ASSUME NEW r \in Threads, NEW j \in DOMAIN list[r],
                        j < pos'[r], list[r][j] \in Kernels
                 PROVE  list[r][j] \in done \/ \E i \in DOMAIN queue'[r] : queue'[r][i] = list[r][j]
      BY <1>2, <2>1 DEF Called
    <3>1. CASE r # s
      BY <2>1, <3>1, <1>1 DEF Called
    <3>2. CASE r = s /\ j = pos[s]
      BY <2>2, <3>2 DEF c
    <3>3. CASE r = s /\ j # pos[s]
      <4>1. j < pos[s]
        BY <1>3, <2>1, <3>3
      <4>2. list[s][j] \in done \/ \E i \in DOMAIN queue[s] : queue[s][i] = list[s][j]
        BY <1>1, <3>3, <4>1 DEF Called
      <4> QED
        BY <2>2, <3>3, <4>2
    <3> QED
      BY <3>1, <3>2, <3>3
  <2>4. Queued'
    <3> SUFFICES ASSUME NEW r \in Threads, NEW i \in DOMAIN queue'[r]
                 PROVE  \E j \in DOMAIN list[r] : QueuedAs(r, i, j)'
      BY <1>2 DEF Queued
    <3>1. CASE r # s
      BY <1>1, <1>2, <2>1, <3>1 DEF Queued, QueuedAs
    <3>2. CASE r = s /\ i = n
      <4>1. PICK j \in DOMAIN list[s] : j = pos[s]
        BY <2>1
      <4>2. ASSUME NEW k \in DOMAIN list[s], k < j, list[s][k] \in Kernels, list[s][k] \notin done
            PROVE  \E h \in DOMAIN queue'[s] : h < i /\ queue'[s][h] = list[s][k]
        <5>1. PICK h \in DOMAIN queue[s] : queue[s][h] = list[s][k]
          BY <1>1, <4>1, <4>2 DEF Called
        <5>2. h \in DOMAIN queue'[s] /\ h < i /\ queue'[s][h] = queue[s][h]
          BY <2>2, <3>2
        <5> QED
          BY <5>1, <5>2
      <4>3. j < pos'[s] /\ queue'[s][i] = list[s][j]
        BY <1>3, <2>1, <2>2, <3>2, <4>1 DEF c
      <4>4. QueuedAs(s, i, j)'
        BY <1>2, <2>1, <4>2, <4>3 DEF QueuedAs
      <4> QED
        BY <3>2, <4>4
    <3>3. CASE r = s /\ i # n
      <4>1. i \in DOMAIN queue[s]
        BY <2>2, <3>3
      <4>2. PICK j \in DOMAIN list[s] : QueuedAs(s, i, j)
        BY <1>1, <4>1 DEF Queued
      <4>3. j < pos'[s] /\ queue'[s][i] = list[s][j]
        BY <1>3, <2>1, <2>2, <4>1, <4>2 DEF QueuedAs
      <4>4. QueuedAs(s, i, j)'
        BY <1>2, <2>1, <2>2, <4>2, <4>3 DEF QueuedAs
      <4> QED
        BY <3>3, <4>4
    <3> QED
      BY <3>1, <3>2, <3>3
  <2> QED
    BY <1>1, <2>3, <2>4 DEF InOrder
<1>7. ASSUME NEW s \in Threads, SyncPass(s) PROVE InOrder'
  <2>1. /\ list[s][pos[s]] \notin Kernels /\ done' = done /\ queue' = queue
        /\ pos' = [pos EXCEPT ![s] = pos[s] + 1]
    BY <1>1, <1>7, TagsAssumption DEF SyncPass, ThreadInv, deviceVars
  <2>2. \A r \in Threads : pos'[r] = IF r = s THEN pos[s] + 1 ELSE pos[r]
    BY <1>1, <2>1 DEF TypeOK
  <2>3. \A r \in Threads : \A j \in DOMAIN list[r] :
          /\ j < pos[r] => j < pos'[r]
          /\ j < pos'[r] /\ list[r][j] \in Kernels => j < pos[r]
    BY <1>3, <2>1, <2>2
  <2>4. Called'
    BY <1>1, <1>2, <2>1, <2>3 DEF Called
  <2>5. Queued'
    BY <1>1, <1>2, <2>1, <2>3 DEF Queued, QueuedAs
  <2> QED
    BY <1>1, <2>4, <2>5 DEF InOrder
<1>8. ASSUME NEW s \in Threads, KernelEnd(s) PROVE InOrder'
  <2> DEFINE c == Head(queue[s])
  <2>1. /\ queue[s] # <<>> /\ done' = done \cup {c} /\ pos' = pos
        /\ queue'[s] = Tail(queue[s])
        /\ \A r \in Threads : r # s => queue'[r] = queue[r]
    BY <1>1, <1>8 DEF KernelEnd, TypeOK, ThreadInv, threadVars
  <2>2. /\ Len(queue[s]) \in Nat \ {0} /\ DOMAIN queue[s] = 1 .. Len(queue[s])
        /\ DOMAIN queue'[s] = 1 .. Len(queue[s]) - 1 /\ c = queue[s][1]
        /\ \A i \in DOMAIN queue'[s] : queue'[s][i] = queue[s][i + 1]
    BY <1>3, <2>1, HeadTailProperties, EmptySeq
  <2> HIDE DEF c
  <2>3. \A i \in DOMAIN queue[s] : i = 1 \/ (i - 1 \in DOMAIN queue'[s] /\ queue'[s][i - 1] = queue[s][i])
    <3> TAKE i \in DOMAIN queue[s]
    <3>1. i # 1 => i - 1 \in DOMAIN queue'[s] /\ (i - 1) + 1 = i
      BY <2>2
    <3> QED
      BY <2>2, <3>1
  <2>4. Called'
    <3> SUFFICES ASSUME NEW r \in Threads, NEW j \in DOMAIN list[r],
                        j < pos[r], list[r][j] \in Kernels
                 PROVE  list[r][j] \in done' \/ \E i \in DOMAIN queue'[r] : queue'[r][i] = list[r][j]
      BY <1>2, <2>1 DEF Called
    <3>1. list[r][j] \in done \/ \E i \in DOMAIN queue[r] : queue[r][i] = list[r][j]
      BY <1>1 DEF Called
    <3>2. CASE list[r][j] \in done
      BY <2>1, <3>2
    <3>3. CASE r # s
      BY <2>1, <3>1, <3>3
    <3>4. CASE r = s /\ list[r][j] \notin done
      <4>1. PICK i \in DOMAIN queue[s] : queue[s][i] = list[r][j]
        BY <3>1, <3>4
      <4>2. CASE i = 1
        BY <2>1, <2>2, <4>1, <4>2
      <4>3. CASE i # 1
        <5>1. i - 1 \in DOMAIN queue'[s] /\ queue'[s][i - 1] = list[r][j]
          BY <2>3, <4>1, <4>3
        <5> QED
          BY <3>4, <5>1
      <4> QED
        BY <4>2, <4>3
    <3> QED
      BY <3>2, <3>3, <3>4
  <2>5. Queued'
    <3> SUFFICES ASSUME NEW r \in Threads, NEW i \in DOMAIN queue'[r]
                 PROVE  \E j \in DOMAIN list[r] : QueuedAs(r, i, j)'
      BY <1>2 DEF Queued
    <3>1. CASE r # s
      BY <1>1, <1>2, <2>1, <3>1 DEF Queued, QueuedAs
    <3>2. CASE r = s
      <4>1. i + 1 \in DOMAIN queue[s] /\ queue'[s][i] = queue[s][i + 1]
        BY <2>2, <3>2
      <4>2. PICK j \in DOMAIN list[s] : QueuedAs(s, i + 1, j)
        BY <1>1, <4>1 DEF Queued
      <4>3. ASSUME NEW k \in DOMAIN list[s], k < j, list[s][k] \in Kernels
            PROVE  list[s][k] \in done' \/ \E h \in DOMAIN queue'[s] : h < i /\ queue'[s][h] = list[s][k]
        <5>1. CASE list[s][k] \in done
          BY <2>1, <5>1
        <5>2. CASE list[s][k] \notin done
          <6>1. PICK h \in DOMAIN queue[s] : h < i + 1 /\ queue[s][h] = list[s][k]
            BY <4>2, <4>3, <5>2 DEF QueuedAs
          <6>2. h = 1 \/ (h - 1 \in DOMAIN queue'[s] /\ queue'[s][h - 1] = list[s][k])
            BY <2>3, <6>1
          <6>3. h - 1 < i
            BY <2>2, <3>2, <6>1
          <6> QED
            BY <2>1, <2>2, <6>1, <6>2, <6>3
        <5> QED
          BY <5>1, <5>2
      <4>4. QueuedAs(s, i, j)'
        BY <1>2, <2>1, <4>1, <4>2, <4>3 DEF QueuedAs
      <4> QED
        BY <3>2, <4>4
    <3> QED
      BY <3>1, <3>2
  <2> QED
    BY <1>1, <2>4, <2>5 DEF InOrder
<1> QED
  BY <1>4, <1>5, <1>6, <1>7, <1>8, StepsThatCount

-----------------------------------------------------------------------------
ArrivedAt(t) == {s \in Threads : \E j \in DOMAIN list[s] : list[s][j] = t /\ Arrived(s, j)}

Counted == \A t \in Tags : sync[t] = Cardinality(ArrivedAt(t))

ArrivedDone ==
  \A s \in Threads : \A j, k \in DOMAIN list[s] :
    list[s][j] \in Tags /\ Arrived(s, j) /\ k < j /\ list[s][k] \in Kernels => list[s][k] \in done

Barriers == InOrder /\ Counted /\ ArrivedDone /\ BarrierMeets

LEMMA Places ==
  ASSUME Shape
  PROVE  /\ \A s \in Threads : \A j \in DOMAIN list[s] : j \in Nat \ {0}
         /\ \A s \in Threads : pos[s] \in Nat \ {0}
<1>1. \A s \in Threads : list[s] \in Seq(Kernels \cup Tags)
  BY ThreadsAreNumbers DEF Shape
<1>2. \A s \in Threads : DOMAIN list[s] = 1 .. Len(list[s])
  BY <1>1, LenProperties
<1> QED
  BY <1>2 DEF Shape, TypeOK

(* Only main's reset and an arrival change who has arrived at a barrier.   *)
LEMMA ArrivalSteps ==
  ASSUME Shape, [Next]_vars
  PROVE  \/ MainReset
         \/ \E s \in Threads : SyncArrive(s)
         \/ /\ sync' = sync /\ done \subseteq done'
            /\ \A r \in Threads : \A j \in DOMAIN list[r] :
                 list[r][j] \in Tags =>
                   /\ Arrived(r, j)' <=> Arrived(r, j)
                   /\ j < pos'[r] => j < pos[r] \/ (j = pos[r] /\ SyncPass(r))
<1> DEFINE Same == /\ sync' = sync /\ done \subseteq done'
                   /\ \A r \in Threads : \A j \in DOMAIN list[r] :
                        list[r][j] \in Tags =>
                          /\ Arrived(r, j)' <=> Arrived(r, j)
                          /\ j < pos'[r] => j < pos[r] \/ (j = pos[r] /\ SyncPass(r))
<1>1. /\ \A s \in Threads : \A j \in DOMAIN list[s] : j \in Nat \ {0}
      /\ \A s \in Threads : pos[s] \in Nat \ {0}
  BY Places
<1>2. CASE MainCreate
  <2>1. at[index] = "none" /\ at' = [at EXCEPT ![index] = "warmup"] /\ UNCHANGED <<sync, pos, done>>
    BY <1>2, ThreadsAreNumbers DEF Shape, TypeOK, MainInv, MainCreate, deviceVars
  <2>2. Same
    BY <2>1 DEF Arrived, Shape, TypeOK
  <2> QED
    BY <2>2
<1>3. CASE MainStart \/ MainJoin \/ MainDrain \/ MainOut
  BY <1>3 DEF MainStart, MainJoin, MainDrain, MainOut, Arrived, threadVars, deviceVars
<1>4. ASSUME NEW s \in Threads,
             Warmup(s) \/ StartArrive(s) \/ StartPass(s) \/ SyncDrain(s) \/ ThreadExit(s)
      PROVE  Same
  <2>1. at[s] # "spin" /\ UNCHANGED <<sync, pos, done>>
    BY <1>4 DEF Warmup, StartArrive, StartPass, SyncDrain, ThreadExit, deviceVars
  <2>2. PICK a : a # "spin" /\ at' = [at EXCEPT ![s] = a]
    BY <1>4 DEF Warmup, StartArrive, StartPass, SyncDrain, ThreadExit
  <2> QED
    BY <2>1, <2>2 DEF Arrived, Shape, TypeOK
<1>5. ASSUME NEW s \in Threads, KernelCall(s) PROVE Same
  <2>1. /\ at' = at /\ sync' = sync /\ done' = done /\ list[s][pos[s]] \notin Tags
        /\ at[s] = "run"
        /\ \A r \in Threads : pos'[r] = IF r = s THEN pos[s] + 1 ELSE pos[r]
    BY <1>5, TagsAssumption DEF KernelCall, Shape, TypeOK
  <2>2. \A r \in Threads : \A j \in DOMAIN list[r] : list[r][j] \in Tags =>
          (j < pos'[r] <=> j < pos[r]) /\ (r = s => j # pos[r])
    BY <1>1, <2>1
  <2> QED
    BY <1>1, <2>1, <2>2 DEF Arrived
<1>6. ASSUME NEW s \in Threads, SyncPass(s) PROVE Same
  <2>1. /\ sync' = sync /\ done' = done /\ at[s] = "spin" /\ at'[s] = "run"
        /\ \A r \in Threads : pos'[r] = IF r = s THEN pos[s] + 1 ELSE pos[r]
        /\ \A r \in Threads : r # s => at'[r] = at[r]
    BY <1>6 DEF SyncPass, Shape, TypeOK, deviceVars
  <2>2. \A r \in Threads : \A j \in DOMAIN list[r] :
          j < pos'[r] <=> j < pos[r] \/ (r = s /\ j = pos[r])
    BY <1>1, <2>1
  <2> QED
    BY <1>1, <1>6, <2>1, <2>2 DEF Arrived
<1>7. ASSUME NEW s \in Threads, DeviceNext(s) PROVE Same
  BY <1>7 DEF DeviceNext, KernelBegin, KernelEnd, threadVars, Arrived
<1>8. CASE UNCHANGED vars
  BY <1>8 DEF vars, Arrived
<1> QED
  BY <1>2, <1>3, <1>4, <1>5, <1>6, <1>7, <1>8 DEF Next, MainNext, ThreadNext

LEMMA BarriersInit == Init => Barriers
<1> SUFFICES ASSUME Init PROVE Barriers
  OBVIOUS
<1>1. InOrder /\ Shape
  BY InOrderInit DEF InOrder
<1>2. \A s \in Threads : \A j \in DOMAIN list[s] : ~Arrived(s, j) /\ ~(j < pos[s])
  BY <1>1, Places DEF Init, Launched, Arrived
<1>3. \A t \in Tags : ArrivedAt(t) = {} /\ sync[t] = 0
  BY <1>2 DEF ArrivedAt, Init, Launched
<1>4. Counted
  BY <1>3, FS_EmptySet DEF Counted
<1> QED
  BY <1>1, <1>2, <1>4 DEF Barriers, ArrivedDone, BarrierMeets

(* All threads that hold a tag have arrived when its counter says so.      *)
LEMMA CounterTells ==
  ASSUME Shape, Counted, NEW t \in Tags, sync[t] = sync_var_length(t),
         NEW s \in Threads, NEW k \in DOMAIN list[s], list[s][k] = t
  PROVE  Arrived(s, k)
<1> DEFINE holders == {r \in Threads : Holds(r, t)}
<1>1. IsFiniteSet(holders)
  BY ThreadsAreNumbers, FS_Subset DEF Shape
<1>2. ArrivedAt(t) \in SUBSET holders
  BY DEF ArrivedAt, Holds
<1>3. Cardinality(ArrivedAt(t)) = Cardinality(holders)
  BY DEF Counted, sync_var_length
<1>4. ArrivedAt(t) = holders
  BY <1>1, <1>2, <1>3, FS_Subset
<1>5. s \in ArrivedAt(t)
  BY <1>4 DEF Holds
<1>6. PICK j \in DOMAIN list[s] : list[s][j] = t /\ Arrived(s, j)
  BY <1>5 DEF ArrivedAt
<1>7. j = k
  BY <1>6 DEF Shape, WellPlanned, EachKernelOnce
<1> QED
  BY <1>6, <1>7

LEMMA BarriersStep == Barriers /\ [Next]_vars => Barriers'
<1> SUFFICES ASSUME Barriers, [Next]_vars PROVE Barriers'
  OBVIOUS
<1>1. InOrder /\ InOrder' /\ Shape /\ Called /\ Counted /\ ArrivedDone /\ BarrierMeets
  BY InOrderStep DEF Barriers, InOrder
<1>2. list' = list /\ Threads' = Threads
  BY PlanKept
<1>3. /\ \A s \in Threads : \A j \in DOMAIN list[s] : j \in Nat \ {0}
      /\ \A s \in Threads : pos[s] \in Nat \ {0}
  BY <1>1, Places
<1>4. CASE MainReset
  <2>1. \A s \in Threads : \A j \in DOMAIN list[s] : ~Arrived(s, j)' /\ ~(j < pos'[s])
    BY <1>3, <1>4 DEF MainReset, Arrived
  <2>2. \A t \in Tags : ArrivedAt(t)' = {} /\ sync'[t] = 0
    BY <1>2, <1>4, <2>1 DEF ArrivedAt, MainReset
  <2>3. Counted'
    BY <2>2, FS_EmptySet DEF Counted
  <2> QED
    BY <1>1, <1>2, <2>1, <2>3 DEF Barriers, ArrivedDone, BarrierMeets
<1>5. ASSUME NEW s \in Threads, SyncArrive(s) PROVE Barriers'
  <2> DEFINE t == list[s][pos[s]]
  <2>1. /\ at[s] = "arrive" /\ at'[s] = "spin" /\ pos' = pos /\ done' = done
        /\ pos[s] \in DOMAIN list[s] /\ t \in Tags /\ queue[s] = <<>>
        /\ \A r \in Threads : r # s => at'[r] = at[r]
        /\ \A u \in Tags : sync'[u] = IF u = t THEN sync[t] + 1 ELSE sync[u]
    BY <1>1, <1>5 DEF SyncArrive, Shape, TypeOK, ThreadInv, deviceVars
  <2>2. \A r \in Threads : \A j \in DOMAIN list[r] :
          Arrived(r, j)' <=> Arrived(r, j) \/ (r = s /\ j = pos[s])
    BY <2>1 DEF Arrived
  <2> HIDE DEF t
  <2>3. \A j \in DOMAIN list[s] : list[s][j] = t => j = pos[s]
    BY <1>1, <2>1 DEF t, Shape, WellPlanned, EachKernelOnce
  <2>4. Counted'
    <3> SUFFICES ASSUME NEW u \in Tags PROVE sync'[u] = Cardinality(ArrivedAt(u)')
      BY DEF Counted
    <3>1. CASE u # t
      <4>1. ArrivedAt(u)' = ArrivedAt(u)
        BY <1>2, <2>1, <2>2, <3>1 DEF ArrivedAt, t
      <4> QED
        BY <1>1, <2>1, <3>1, <4>1 DEF Counted
    <3>2. CASE u = t
      <4>1. ArrivedAt(u)' = ArrivedAt(u) \cup {s}
        BY <1>2, <2>1, <2>2, <3>2 DEF ArrivedAt, t
      <4>2. s \notin ArrivedAt(u)
        <5>1. ~Arrived(s, pos[s])
          BY <1>3, <2>1 DEF Arrived
        <5> QED
          BY <2>3, <3>2, <5>1 DEF ArrivedAt
      <4>3. IsFiniteSet(ArrivedAt(u))
        BY <1>1, ThreadsAreNumbers, FS_Subset DEF Shape, ArrivedAt
      <4>4. Cardinality(ArrivedAt(u)') = Cardinality(ArrivedAt(u)) + 1
        BY <4>1, <4>2, <4>3, FS_AddElement
      <4> QED
        BY <1>1, <2>1, <3>2, <4>4 DEF Counted
    <3> QED
      BY <3>1, <3>2
  <2>5. ArrivedDone'
    <3> SUFFICES ASSUME NEW r \in Threads, NEW j \in DOMAIN list[r], NEW k \in DOMAIN list[r],
                        list[r][j] \in Tags, Arrived(r, j)', k < j, list[r][k] \in Kernels
                 PROVE  list[r][k] \in done
      BY <1>2, <2>1 DEF ArrivedDone
    <3>1. CASE Arrived(r, j)
      BY <1>1, <3>1 DEF ArrivedDone
    <3>2. CASE r = s /\ j = pos[s]
      BY <1>1, <2>1, <3>2 DEF Called
    <3> QED
      BY <2>2, <3>1, <3>2
  <2>6. BarrierMeets'
    BY <1>1, <1>2, <2>1, <2>2 DEF BarrierMeets
  <2> QED
    BY <1>1, <2>4, <2>5, <2>6 DEF Barriers
<1>6. CASE /\ sync' = sync /\ done \subseteq done'
           /\ \A r \in Threads : \A j \in DOMAIN list[r] :
                list[r][j] \in Tags =>
                  /\ Arrived(r, j)' <=> Arrived(r, j)
                  /\ j < pos'[r] => j < pos[r] \/ (j = pos[r] /\ SyncPass(r))
  <2>1. Counted'
    <3>1. \A t \in Tags : ArrivedAt(t)' = ArrivedAt(t)
      BY <1>2, <1>6 DEF ArrivedAt
    <3> QED
      BY <1>1, <1>6, <3>1 DEF Counted
  <2>2. ArrivedDone'
    BY <1>1, <1>2, <1>6 DEF ArrivedDone
  <2>3. BarrierMeets'
    <3> SUFFICES ASSUME NEW s1 \in Threads, NEW s2 \in Threads,
                        NEW j \in DOMAIN list[s1], NEW k \in DOMAIN list[s2],
                        list[s1][j] = list[s2][k], list[s1][j] \in Tags, j < pos'[s1]
                 PROVE  Arrived(s2, k)
      BY <1>2, <1>6 DEF BarrierMeets
    <3>1. CASE j < pos[s1]
      BY <1>1, <3>1 DEF BarrierMeets
    <3>2. CASE j = pos[s1] /\ SyncPass(s1)
      <4>1. sync[list[s2][k]] = sync_var_length(list[s2][k])
        BY <3>2 DEF SyncPass
      <4> QED
        BY <1>1, <4>1, CounterTells
    <3> QED
      BY <1>6, <3>1, <3>2
  <2> QED
    BY <1>1, <2>1, <2>2, <2>3 DEF Barriers
<1> QED
  BY <1>1, <1>4, <1>5, <1>6, ArrivalSteps

-----------------------------------------------------------------------------
(* When the device can start a kernel, its producers have ended.           *)
LEMMA HeadIsReady ==
  ASSUME Barriers, NEW s \in Threads, queue[s] # <<>>
  PROVE  graph[Head(queue[s])] \subseteq done
<1>1. Shape /\ Called /\ Queued /\ ArrivedDone /\ BarrierMeets
  BY DEF Barriers, InOrder
<1>2. queue[s] \in Seq(Kernels) /\ 1 \in DOMAIN queue[s] /\ Head(queue[s]) = queue[s][1]
  <2>1. queue[s] \in Seq(Kernels)
    BY <1>1 DEF Shape, TypeOK
  <2> QED
    BY <2>1, EmptySeq, LenProperties
<1>3. PICK k \in DOMAIN list[s] : QueuedAs(s, 1, k)
  BY <1>1, <1>2 DEF Queued
<1>4. /\ list[s][k] = Head(queue[s]) /\ list[s][k] \in Kernels /\ k < pos[s]
      /\ \A j \in DOMAIN list[s] : j < k /\ list[s][j] \in Kernels => list[s][j] \in done
  <2>1. \A h \in DOMAIN queue[s] : ~(h < 1)
    BY <1>2, LenProperties
  <2>2. queue[s][1] \in Kernels
    BY <1>2, ElementOfSeq, LenProperties
  <2> QED
    BY <1>2, <1>3, <2>1, <2>2 DEF QueuedAs
<1> SUFFICES ASSUME NEW a \in graph[list[s][k]] PROVE a \in done
  BY <1>4
<1>5. a \in Kernels
  BY <1>1, <1>4 DEF Shape, TypeOK
<1>6. PICK s1 \in Threads : \E j \in DOMAIN list[s1] : list[s1][j] = a
  BY <1>1, <1>5 DEF Shape, WellPlanned, EachKernelOnce, Holds
<1>7. PICK j \in DOMAIN list[s1] : list[s1][j] = a
  BY <1>6
<1>8. CASE s1 = s /\ j < k
  BY <1>4, <1>5, <1>7, <1>8
<1>9. ASSUME NEW j2 \in DOMAIN list[s1], NEW k2 \in DOMAIN list[s],
             list[s1][j2] = list[s][k2], list[s1][j2] \in Tags, j < j2, k2 < k
      PROVE  a \in done
  <2>1. k2 < pos[s]
    BY <1>1, <1>4, <1>9, Places
  <2>2. Arrived(s1, j2)
    BY <1>1, <1>9, <2>1 DEF BarrierMeets
  <2> QED
    BY <1>1, <1>5, <1>7, <1>9, <2>2 DEF ArrivedDone
<1>10. Ordered(a, list[s][k])
  BY <1>1, <1>4 DEF Shape, WellPlanned
<1> QED
  BY <1>7, <1>8, <1>9, <1>10 DEF Ordered

LEMMA BarriersAlways == Spec => []Barriers
BY BarriersInit, BarriersStep, PTL DEF Spec

(* The variables of the generated program keep their types.                *)
THEOREM TypeCorrect == Spec => []TypeOK
<1>1. Barriers => TypeOK
  BY DEF Barriers, InOrder, Shape
<1> QED
  BY <1>1, BarriersAlways, PTL

(* The central promise of the generated program: with the lists of a well  *)
(* planned schedule, and for every interleaving of threads and device, no  *)
(* kernel runs while one of its producers has not ended.                   *)
THEOREM KernelsAreSafe == Spec => []NoEarlyKernel
<1>1. Barriers => NoEarlyKernel
  <2> SUFFICES ASSUME Barriers, NEW s \in Threads, busy[s]
               PROVE  queue[s] # <<>> /\ graph[Head(queue[s])] \subseteq done
    BY DEF NoEarlyKernel
  <2>1. queue[s] # <<>>
    BY DEF Barriers, InOrder, Shape, ThreadInv
  <2> QED
    BY <2>1, HeadIsReady
<1> QED
  BY <1>1, BarriersAlways, PTL

(* The spin barrier of gen_synchronize_var is a barrier: no thread leaves  *)
(* it before all the threads that hold the tag have come.                  *)
THEOREM BarriersMeet == Spec => []BarrierMeets
<1>1. Barriers => BarrierMeets
  BY DEF Barriers
<1> QED
  BY <1>1, BarriersAlways, PTL

(* All threads have left: all kernels have ended.                          *)
LEMMA AllEnded ==
  ASSUME Barriers, \A s \in Threads : at[s] = "exit"
  PROVE  done = Kernels
<1>1. Shape /\ ThreadInv /\ Called
  BY DEF Barriers, InOrder, Shape
<1>2. ASSUME NEW c \in Kernels PROVE c \in done
  <2>1. PICK s \in Threads : \E j \in DOMAIN list[s] : list[s][j] = c
    BY <1>1 DEF Shape, WellPlanned, EachKernelOnce, Holds
  <2>2. PICK j \in DOMAIN list[s] : list[s][j] = c
    BY <2>1
  <2>3. queue[s] = <<>> /\ pos[s] \notin DOMAIN list[s]
    BY <1>1 DEF ThreadInv
  <2>4. list[s] \in Seq(Kernels \cup Tags) /\ pos[s] \in Nat \ {0}
    BY <1>1, ThreadsAreNumbers DEF Shape, TypeOK
  <2>5. j < pos[s]
    BY <2>3, <2>4, LenProperties
  <2> QED
    BY <1>1, <2>2, <2>3, <2>5 DEF Called
<1> QED
  BY <1>1, <1>2 DEF Shape, TypeOK

(* main reads the outputs back after all the kernels of the last step.     *)
THEOREM OutputsAreComplete == Spec => []OutputsComplete
<1>1. Barriers => OutputsComplete
  BY AllEnded DEF OutputsComplete, Barriers, InOrder, Shape, MainInv
<1> QED
  BY <1>1, BarriersAlways, PTL

(* main resets the counters only while no thread of the step runs.         *)
THEOREM ResetsAreQuiet == Spec => ResetWhenQuiet
<1>1. Barriers /\ [Next]_vars =>
        [START' < START \/ (\E t \in Tags : sync'[t] < sync[t])
           => \A s \in Threads : at[s] \in {"none", "exit"}]_vars
  <2> SUFFICES ASSUME Barriers, Next, START' < START \/ \E t \in Tags : sync'[t] < sync[t],
                      ~MainReset
               PROVE  FALSE
    BY DEF Barriers, InOrder, Shape, MainInv, MainReset
  <2>1. TypeOK
    BY DEF Barriers, InOrder, Shape
  <2>2. START' = START \/ START' = START + 1
    BY DEF Next, MainNext, ThreadNext, DeviceNext, MainCreate, MainStart, MainJoin, MainDrain,
           MainOut, Warmup, StartArrive, StartPass, KernelCall, SyncDrain, SyncArrive, SyncPass,
           ThreadExit, KernelBegin, KernelEnd, threadVars
  <2>3. sync' = sync \/ \E e : sync' = [sync EXCEPT ![e] = @ + 1]
    BY DEF Next, MainNext, ThreadNext, DeviceNext, MainCreate, MainStart, MainJoin, MainDrain,
           MainOut, Warmup, StartArrive, StartPass, KernelCall, SyncDrain, SyncArrive, SyncPass,
           ThreadExit, KernelBegin, KernelEnd, threadVars
  <2>4. \A t \in Tags : sync'[t] = sync[t] \/ sync'[t] = sync[t] + 1
    BY <2>1, <2>3 DEF TypeOK
  <2>5. START \in Nat /\ \A t \in Tags : sync[t] \in Nat
    BY <2>1 DEF TypeOK
  <2>6. CASE START' < START
    BY <2>2, <2>5, <2>6
  <2>7. CASE \E t \in Tags : sync'[t] < sync[t]
    BY <2>4, <2>5, <2>7
  <2> QED
    BY <2>6, <2>7
<1> QED
  BY <1>1, BarriersAlways, PTL DEF Spec, ResetWhenQuiet

-----------------------------------------------------------------------------
(* The threads that have added one to START.                               *)
Entered == {s \in Threads : at[s] \in {"start", "run", "arrive", "spin", "exit"}}

StartCounted == START = Cardinality(Entered)

LEMMA StartCountedStep == Shape /\ StartCounted /\ [Next]_vars => StartCounted'
<1> SUFFICES ASSUME Shape, StartCounted, [Next]_vars PROVE StartCounted'
  OBVIOUS
<1>1. TypeOK /\ MainInv /\ Threads' = Threads /\ list # <<>>
  BY PlanKept DEF Shape
<1>2. CASE MainReset
  <2>1. Entered' = {} /\ START' = 0
    BY <1>1, <1>2 DEF MainReset, Entered
  <2> QED
    BY <2>1, FS_EmptySet DEF StartCounted
<1>3. ASSUME NEW s \in Threads, StartArrive(s) PROVE StartCounted'
  <2>1. Entered' = Entered \cup {s} /\ s \notin Entered /\ START' = START + 1
    BY <1>1, <1>3 DEF StartArrive, Entered, TypeOK
  <2>2. IsFiniteSet(Entered)
    BY <1>1, ThreadsAreNumbers, FS_Subset DEF Entered
  <2> QED
    BY <2>1, <2>2, FS_AddElement DEF StartCounted
<1>4. CASE MainCreate
  <2>1. at[index] = "none" /\ index \in Threads
    BY <1>1, <1>4, ThreadsAreNumbers DEF MainCreate, MainInv, TypeOK
  <2>2. Entered' = Entered /\ START' = START
    BY <1>1, <1>4, <2>1 DEF MainCreate, Entered, TypeOK
  <2> QED
    BY <2>2 DEF StartCounted
<1>5. CASE MainStart \/ MainJoin \/ MainDrain \/ MainOut \/ UNCHANGED vars
  BY <1>1, <1>5 DEF MainStart, MainJoin, MainDrain, MainOut, threadVars, vars, Entered, StartCounted
<1>6. ASSUME NEW s \in Threads, ThreadNext(s), ~StartArrive(s) PROVE StartCounted'
  <2>1. Entered' = Entered /\ START' = START
    BY <1>1, <1>6 DEF ThreadNext, Warmup, StartPass, KernelCall, SyncDrain, SyncArrive, SyncPass,
                      ThreadExit, Entered, TypeOK
  <2> QED
    BY <2>1 DEF StartCounted
<1>7. ASSUME NEW s \in Threads, DeviceNext(s) PROVE StartCounted'
  BY <1>1, <1>7 DEF DeviceNext, KernelBegin, KernelEnd, threadVars, Entered, StartCounted
<1> QED
  BY <1>2, <1>3, <1>4, <1>5, <1>6, <1>7 DEF Next, MainNext

(* No counter goes past the value its spin loop waits for, which no thread *)
(* would survive: the loops test for equality.                             *)
THEOREM CountersStopInTime == Spec => []CountersNeverOvershoot
<1>1. Init => StartCounted
  <2> SUFFICES ASSUME Init PROVE StartCounted
    OBVIOUS
  <2>1. Entered = {} /\ START = 0
    BY DEF Init, Launched, Entered
  <2> QED
    BY <2>1, FS_EmptySet DEF StartCounted
<1>2. Spec => [](Barriers /\ StartCounted)
  <2>1. Barriers => Shape
    BY DEF Barriers, InOrder
  <2> QED
    BY <1>1, <2>1, BarriersAlways, StartCountedStep, PTL DEF Spec
<1>3. Barriers /\ StartCounted => CountersNeverOvershoot
  <2> SUFFICES ASSUME Barriers, StartCounted PROVE CountersNeverOvershoot
    OBVIOUS
  <2>1. Shape /\ Counted
    BY DEF Barriers, InOrder
  <2>2. /\ IsFiniteSet(Threads) /\ Threads = 1 .. stream_size /\ stream_size \in Nat \ {0}
    BY <2>1, ThreadsAreNumbers DEF Shape, stream_size
  <2>3. Cardinality(Threads) = stream_size
    BY <2>2, FS_Interval
  <2>4. START <= stream_size
    BY <2>2, <2>3, FS_Subset DEF StartCounted, Entered
  <2>5. ASSUME NEW t \in Tags PROVE sync[t] <= sync_var_length(t)
    <3> DEFINE holders == {r \in Threads : Holds(r, t)}
    <3>1. IsFiniteSet(holders) /\ ArrivedAt(t) \in SUBSET holders
      BY <2>2, FS_Subset DEF ArrivedAt, Holds
    <3> QED
      BY <2>1, <3>1, FS_Subset DEF Counted, sync_var_length
  <2> QED
    BY <2>4, <2>5 DEF CountersNeverOvershoot
<1> QED
  BY <1>2, <1>3, PTL
=============================================================================
