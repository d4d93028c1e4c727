------------------------ MODULE StreamRuntimeRefines ------------------------
(***************************************************************************)
(* The generated program implements Dataflow: every kernel of the graph is *)
(* computed once per time step, after its producers.                       *)
(*                                                                         *)
(* "Once" needs one more invariant on top of Barriers: a kernel that is    *)
(* still to be called, or is in a queue, has not ended, and is nowhere     *)
(* else (FreshAhead, FreshQueue); and a step starts with all kernels ended *)
(* or with none (ResetDone).                                               *)
(***************************************************************************)
EXTENDS StreamRuntimeProofs

FreshAhead ==
  \A s \in Threads : \A j \in DOMAIN list[s] :
    pos[s] <= j /\ list[s][j] \in Kernels =>
      list[s][j] \notin done /\ \A i \in DOMAIN queue[s] : queue[s][i] # list[s][j]

FreshQueue ==
  \A s \in Threads : \A i \in DOMAIN queue[s] :
    queue[s][i] \notin done /\ \A h \in DOMAIN queue[s] : queue[s][h] = queue[s][i] => h = i

ResetDone == main = "reset" => done = {} \/ done = Kernels

Fresh == Barriers /\ FreshAhead /\ FreshQueue /\ ResetDone

(* A kernel of a queue is a kernel of the list, and of no other list.      *)
LEMMA QueuedHere ==
  ASSUME Barriers, NEW s \in Threads, NEW i \in DOMAIN queue[s]
  PROVE  /\ queue[s][i] \in Kernels
         /\ \A r \in Threads : \A j \in DOMAIN list[r] : list[r][j] = queue[s][i] => r = s
         /\ \A r \in Threads : \A h \in DOMAIN queue[r] : queue[r][h] = queue[s][i] => r = s
<1>1. Shape /\ Queued
  BY DEF Barriers, InOrder
<1>2. \A r \in Threads : \A h \in DOMAIN queue[r] : queue[r][h] \in Kernels
  BY <1>1 DEF Shape, TypeOK
<1>3. \A r \in Threads : \A h \in DOMAIN queue[r] : \E j \in DOMAIN list[r] : list[r][j] = queue[r][h]
  BY <1>1 DEF Queued, QueuedAs
<1>4. \A r, q \in Threads : \A j \in DOMAIN list[r], k \in DOMAIN list[q] :
        list[r][j] = list[q][k] /\ list[r][j] \in Kernels => r = q
  BY <1>1, TagsAssumption DEF Shape, WellPlanned, EachKernelOnce
<1>5. PICK k \in DOMAIN list[s] : list[s][k] = queue[s][i]
  BY <1>3
<1>6. ASSUME NEW r \in Threads, NEW j \in DOMAIN list[r], list[r][j] = queue[s][i] PROVE r = s
  BY <1>2, <1>4, <1>5, <1>6
<1>7. ASSUME NEW r \in Threads, NEW h \in DOMAIN queue[r], queue[r][h] = queue[s][i] PROVE r = s
  BY <1>3, <1>6, <1>7
<1> QED
  BY <1>2, <1>6, <1>7

LEMMA FreshInit == Init => Fresh
BY BarriersInit DEF Init, Launched, Fresh, FreshAhead, FreshQueue, ResetDone

LEMMA FreshStep == Fresh /\ [Next]_vars => Fresh'
<1> SUFFICES ASSUME Fresh, [Next]_vars PROVE Fresh'
  OBVIOUS
<1>1. /\ Barriers /\ Barriers' /\ Shape /\ TypeOK /\ ThreadInv /\ MainInv
      /\ FreshAhead /\ FreshQueue /\ ResetDone
  BY BarriersStep DEF Fresh, Barriers, InOrder, Shape
<1>2. list' = list /\ Threads' = Threads
  BY PlanKept
<1>3. /\ \A s \in Threads : \A j \in DOMAIN list[s] : j \in Nat \ {0}
      /\ \A s \in Threads : pos[s] \in Nat \ {0} /\ queue[s] \in Seq(Kernels)
  BY <1>1, Places DEF TypeOK
<1>4. ResetDone'
  <2> SUFFICES ASSUME main' = "reset" PROVE done' = {} \/ done' = Kernels
    BY DEF ResetDone
  <2>1. CASE MainDrain
    <3>1. done = Kernels
      BY <1>1, <2>1, AllEnded DEF MainDrain, MainInv
    <3> QED
      BY <2>1, <3>1 DEF MainDrain, deviceVars
  <2>2. CASE ~MainDrain
    <3>1. main = "reset" /\ ~MainReset
      BY <2>2 DEF Next, vars, MainNext, ThreadNext, DeviceNext, MainReset, MainCreate, MainStart,
           MainJoin, MainOut, Warmup, StartArrive, StartPass, KernelCall, SyncDrain, SyncArrive,
           SyncPass, ThreadExit, KernelBegin, KernelEnd, mainVars
    <3>2. \A s \in Threads : ~KernelEnd(s)
      BY <1>1, <3>1 DEF KernelEnd, MainInv, ThreadInv
    <3>3. done' = done
      BY <3>1, <3>2 DEF Next, vars, MainNext, ThreadNext, DeviceNext, MainCreate, MainStart,
           MainJoin, MainDrain, MainOut, Warmup, StartArrive, StartPass, KernelCall, SyncDrain,
           SyncArrive, SyncPass, ThreadExit, KernelBegin, deviceVars
    <3> QED
      BY <1>1, <3>1, <3>3 DEF ResetDone
  <2> QED
    BY <2>1, <2>2
<1>5. CASE UNCHANGED <<pos, queue, done>>
  BY <1>1, <1>2, <1>4, <1>5 DEF Fresh, FreshAhead, FreshQueue
<1>6. CASE MainReset
  <2>1. done' = {} /\ \A s \in Threads : queue'[s] = <<>>
    BY <1>1, <1>6 DEF MainReset, MainInv, ThreadInv
  <2> QED
    BY <1>1, <1>2, <1>4, <2>1 DEF Fresh, FreshAhead, FreshQueue
<1>7. ASSUME NEW s \in Threads, KernelCall(s) PROVE Fresh'
  <2> DEFINE c == list[s][pos[s]]
             n == Len(queue[s]) + 1
  <2>1. /\ c \in Kernels /\ pos[s] \in DOMAIN list[s] /\ done' = done
        /\ queue'[s] = Append(queue[s], c) /\ pos'[s] = pos[s] + 1
        /\ \A r \in Threads : r # s => queue'[r] = queue[r] /\ pos'[r] = pos[r]
    BY <1>1, <1>7 DEF KernelCall, TypeOK
  <2>2. /\ DOMAIN queue[s] = 1 .. n - 1 /\ DOMAIN queue'[s] = 1 .. n /\ n \in Nat \ {0}
        /\ queue'[s][n] = c
        /\ \A i \in 1 .. n - 1 : queue'[s][i] = queue[s][i]
    BY <1>3, <2>1, AppendProperties
  <2> HIDE DEF n
  <2>3. c \notin done /\ \A i \in 1 .. n - 1 : queue[s][i] # c
    BY <1>1, <1>3, <2>1, <2>2 DEF FreshAhead
  <2>4. \A j \in DOMAIN list[s] : list[s][j] = c => j = pos[s]
    BY <1>1, <2>1 DEF Shape, WellPlanned, EachKernelOnce
  <2> HIDE DEF c
  <2>5. \A i \in DOMAIN queue'[s] : i = n \/ i \in 1 .. n - 1
    BY <2>2
  <2>6. FreshAhead'
    <3> SUFFICES ASSUME NEW r \in Threads, NEW j \in DOMAIN list[r],
                        pos'[r] <= j, list[r][j] \in Kernels
                 PROVE  list[r][j] \notin done /\ \A i \in DOMAIN queue'[r] : queue'[r][i] # list[r][j]
      BY <1>2, <2>1 DEF FreshAhead
    <3>1. CASE r # s
      BY <1>1, <2>1, <3>1 DEF FreshAhead
    <3>2. CASE r = s
      <4>1. pos[s] <= j /\ j # pos[s]
        BY <1>3, <2>1, <3>2
      <4>2. list[s][j] \notin done /\ list[s][j] # c /\ \A i \in 1 .. n - 1 : queue[s][i] # list[s][j]
        BY <1>1, <2>2, <2>4, <3>2, <4>1 DEF FreshAhead
      <4> QED
        BY <2>2, <2>5, <3>2, <4>2
    <3> QED
      BY <3>1, <3>2
  <2>7. FreshQueue'
    <3> SUFFICES ASSUME NEW r \in Threads, NEW i \in DOMAIN queue'[r]
                 PROVE  /\ queue'[r][i] \notin done
                        /\ \A h \in DOMAIN queue'[r] : queue'[r][h] = queue'[r][i] => h = i
      BY <1>2, <2>1 DEF FreshQueue
    <3>1. CASE r # s
      BY <1>1, <2>1, <3>1 DEF FreshQueue
    <3>2. CASE r = s
      <4>1. \A k \in 1 .. n - 1 : queue[s][k] \notin done
               /\ \A h \in 1 .. n - 1 : queue[s][h] = queue[s][k] => h = k
        BY <1>1, <2>2 DEF FreshQueue
      <4>2. CASE i = n
        BY <2>2, <2>3, <2>5, <3>2, <4>2
      <4>3. CASE i \in 1 .. n - 1
        BY <2>2, <2>3, <2>5, <3>2, <4>1, <4>3
      <4> QED
        BY <2>5, <3>2, <4>2, <4>3
    <3> QED
      BY <3>1, <3>2
  <2> QED
    BY <1>1, <1>4, <2>6, <2>7 DEF Fresh
<1>8. ASSUME NEW s \in Threads, SyncPass(s) PROVE Fresh'
  <2>1. /\ done' = done /\ queue' = queue
        /\ \A r \in Threads : pos'[r] = IF r = s THEN pos[s] + 1 ELSE pos[r]
    BY <1>1, <1>8 DEF SyncPass, TypeOK, deviceVars
  <2>2. \A r \in Threads : \A j \in DOMAIN list[r] : pos'[r] <= j => pos[r] <= j
    BY <1>3, <2>1
  <2> QED
    BY <1>1, <1>2, <1>4, <2>1, <2>2 DEF Fresh, FreshAhead, FreshQueue
<1>9. ASSUME NEW s \in Threads, KernelEnd(s) PROVE Fresh'
  <2> DEFINE c == queue[s][1]
  <2>1. /\ queue[s] # <<>> /\ done' = done \cup {Head(queue[s])} /\ pos' = pos
        /\ queue'[s] = Tail(queue[s])
        /\ \A r \in Threads : r # s => queue'[r] = queue[r]
    BY <1>1, <1>9 DEF KernelEnd, TypeOK, ThreadInv, threadVars
  <2>2. /\ 1 \in DOMAIN queue[s] /\ Head(queue[s]) = c
        /\ \A i \in DOMAIN queue'[s] :
             /\ i \in Nat \ {0} /\ i + 1 \in DOMAIN queue[s] /\ queue'[s][i] = queue[s][i + 1]
    BY <1>3, <2>1, HeadTailProperties, EmptySeq
  <2>3. /\ c \in Kernels
        /\ \A r \in Threads : \A j \in DOMAIN list[r] : list[r][j] = c => r = s
        /\ \A r \in Threads : \A h \in DOMAIN queue[r] : queue[r][h] = c => r = s
    BY <1>1, <2>2, QueuedHere
  <2>4. \A i \in DOMAIN queue[s] : queue[s][i] = c => i = 1
    BY <1>1, <2>2 DEF FreshQueue
  <2> HIDE DEF c
  <2>5. FreshAhead'
    <3> SUFFICES ASSUME NEW r \in Threads, NEW j \in DOMAIN list[r],
                        pos[r] <= j, list[r][j] \in Kernels
                 PROVE  list[r][j] \notin done' /\ \A i \in DOMAIN queue'[r] : queue'[r][i] # list[r][j]
      BY <1>2, <2>1 DEF FreshAhead
    <3>1. list[r][j] \notin done /\ \A i \in DOMAIN queue[r] : queue[r][i] # list[r][j]
      BY <1>1 DEF FreshAhead
    <3>2. list[r][j] # c
      BY <2>2, <2>3, <3>1 DEF c
    <3>3. \A i \in DOMAIN queue'[r] : \E h \in DOMAIN queue[r] : queue'[r][i] = queue[r][h]
      BY <2>1, <2>2
    <3> QED
      BY <2>1, <2>2, <3>1, <3>2, <3>3
  <2>6. FreshQueue'
    <3> SUFFICES ASSUME NEW r \in Threads, NEW i \in DOMAIN queue'[r]
                 PROVE  /\ queue'[r][i] \notin done'
                        /\ \A h \in DOMAIN queue'[r] : queue'[r][h] = queue'[r][i] => h = i
      BY <1>2, <2>1 DEF FreshQueue
    <3>1. CASE r # s
      BY <1>1, <2>1, <2>2, <2>3, <3>1 DEF FreshQueue
    <3>2. CASE r = s
      <4>1. i + 1 \in DOMAIN queue[s] /\ i + 1 # 1 /\ queue'[s][i] = queue[s][i + 1]
        BY <2>2, <3>2
      <4>2. queue'[s][i] \notin done' 
        BY <1>1, <2>1, <2>2, <2>4, <4>1 DEF FreshQueue
      <4>3. ASSUME NEW h \in DOMAIN queue'[s], queue'[s][h] = queue'[s][i] PROVE h = i
        <5>1. h + 1 \in DOMAIN queue[s] /\ queue[s][h + 1] = queue[s][i + 1]
          BY <2>2, <4>1, <4>3
        <5>2. h + 1 = i + 1
          BY <1>1, <4>1, <5>1 DEF FreshQueue
        <5> QED
          BY <2>2, <3>2, <5>2
      <4> QED
        BY <3>2, <4>2, <4>3
    <3> QED
      BY <3>1, <3>2
  <2> QED
    BY <1>1, <1>4, <2>5, <2>6 DEF Fresh
<1> QED
  BY <1>5, <1>6, <1>7, <1>8, <1>9, StepsThatCount

-----------------------------------------------------------------------------
running == {Head(queue[s]) : s \in {s \in Threads : busy[s]}}

LEMMA Heads ==
  ASSUME Fresh, NEW s \in Threads, queue[s] # <<>>
  PROVE  /\ 1 \in DOMAIN queue[s] /\ Head(queue[s]) = queue[s][1] /\ Head(queue[s]) \in Kernels
         /\ Head(queue[s]) \notin done
         /\ \A r \in Threads : queue[r] # <<>> /\ Head(queue[r]) = Head(queue[s]) => r = s
<1>1. \A r \in Threads : queue[r] \in Seq(Kernels)
  BY DEF Fresh, Barriers, InOrder, Shape, TypeOK
<1>2. \A r \in Threads : queue[r] # <<>> => 1 \in DOMAIN queue[r] /\ Head(queue[r]) = queue[r][1]
  BY <1>1, EmptySeq, LenProperties
<1> QED
  BY <1>2, QueuedHere DEF Fresh, FreshQueue

(* Every step of the program is a step of the data flow, or none.          *)
LEMMA StepRefines ==
  Fresh /\ [Next]_vars => [Abstract!Next]_<<graph, running, done>>
<1> SUFFICES ASSUME Fresh, [Next]_vars
             PROVE  Abstract!Next \/ UNCHANGED <<graph, running, done>>
  OBVIOUS
<1>1. Barriers /\ Shape /\ TypeOK /\ ThreadInv /\ MainInv /\ ResetDone
  BY DEF Fresh, Barriers, InOrder, Shape
<1>2. graph' = graph /\ list' = list /\ Threads' = Threads
  BY PlanKept
<1>3. CASE MainReset
  <2>1. running = {} /\ running' = {} /\ done' = {}
    BY <1>1, <1>2, <1>3 DEF MainReset, MainInv, ThreadInv, running
  <2>2. done = {} \/ done = Kernels
    BY <1>1, <1>3 DEF MainReset, ResetDone
  <2> QED
    BY <1>2, <2>1, <2>2 DEF Abstract!Next, Abstract!NextStep, running
<1>4. ASSUME NEW s \in Threads, KernelCall(s)
      PROVE  UNCHANGED <<graph, running, done>>
  <2>1. /\ busy' = busy /\ done' = done
        /\ \A r \in Threads : r # s => queue'[r] = queue[r]
    BY <1>1, <1>4 DEF KernelCall, TypeOK
  <2>2. busy[s] => Head(queue'[s]) = Head(queue[s])
    <3>1. busy[s] => queue[s] # <<>>
      BY <1>1 DEF ThreadInv
    <3>2. queue[s] \in Seq(Kernels) /\ queue'[s] = Append(queue[s], list[s][pos[s]])
      BY <1>1, <1>4 DEF KernelCall, TypeOK
    <3> QED
      BY <3>1, <3>2, EmptySeq
  <2> QED
    BY <1>2, <2>1, <2>2 DEF running
<1>5. ASSUME NEW s \in Threads, KernelBegin(s)
      PROVE  Abstract!Next
  <2> DEFINE c == Head(queue[s])
  <2>1. /\ queue[s] # <<>> /\ ~busy[s] /\ queue' = queue /\ done' = done
        /\ \A r \in Threads : busy'[r] = IF r = s THEN TRUE ELSE busy[r]
    BY <1>1, <1>5 DEF KernelBegin, TypeOK
  <2>2. /\ c \in Kernels /\ c \notin done
        /\ \A r \in Threads : queue[r] # <<>> /\ Head(queue[r]) = c => r = s
    BY <2>1, Heads
  <2>3. c \notin running
    BY <1>1, <2>1, <2>2 DEF running, ThreadInv
  <2>4. running' = running \cup {c}
    BY <1>2, <2>1 DEF running
  <2>5. graph[c] \subseteq done
    BY <1>1, <2>1, HeadIsReady
  <2> QED
    BY <1>2, <2>1, <2>2, <2>3, <2>4, <2>5 DEF Abstract!Next, Abstract!Start, running
<1>6. ASSUME NEW s \in Threads, KernelEnd(s)
      PROVE  Abstract!Next
  <2> DEFINE c == Head(queue[s])
  <2>1. /\ queue[s] # <<>> /\ busy[s] /\ done' = done \cup {c}
        /\ \A r \in Threads : busy'[r] = IF r = s THEN FALSE ELSE busy[r]
        /\ \A r \in Threads : r # s => queue'[r] = queue[r]
    BY <1>1, <1>6 DEF KernelEnd, TypeOK, ThreadInv
  <2>2. /\ c \in Kernels
        /\ \A r \in Threads : queue[r] # <<>> /\ Head(queue[r]) = c => r = s
    BY <2>1, Heads
  <2>3. c \in running
    BY <2>1 DEF running
  <2>4. running' = running \ {c}
    <3>1. \A r \in Threads : busy'[r] <=> busy[r] /\ r # s
      BY <2>1
    <3>2. \A r \in Threads : busy[r] /\ r # s => Head(queue[r]) # c /\ queue'[r] = queue[r]
      BY <1>1, <2>1, <2>2 DEF ThreadInv
    <3>3. running' = {Head(queue[r]) : r \in {r \in Threads : busy[r] /\ r # s}}
      BY <1>2, <3>1, <3>2 DEF running
    <3>4. running = {Head(queue[r]) : r \in {r \in Threads : busy[r] /\ r # s}} \cup {c}
      BY <2>1 DEF running
    <3> QED
      BY <3>2, <3>3, <3>4
  <2> QED
    BY <1>2, <2>1, <2>2, <2>3, <2>4 DEF Abstract!Next, Abstract!End, running
<1>7. CASE UNCHANGED <<queue, busy, done>>
  BY <1>2, <1>7 DEF running
<1>8. \/ MainReset \/ UNCHANGED <<queue, busy, done>>
      \/ \E s \in Threads : KernelCall(s) \/ KernelBegin(s) \/ KernelEnd(s)
  BY DEF Next, vars, MainNext, ThreadNext, DeviceNext, MainCreate, MainStart, MainJoin, MainDrain,
         MainOut, Warmup, StartArrive, StartPass, SyncDrain, SyncArrive, SyncPass, ThreadExit,
         deviceVars
<1> QED
  BY <1>3, <1>4, <1>5, <1>6, <1>7, <1>8

(* The program GenMain generates, run with the lists of a well planned     *)
(* schedule, implements the data flow of its kernels.                      *)
THEOREM ProgramRefinesDataflow == Spec => RefinesDataflow
<1>1. Init => Abstract!Init
  <2> SUFFICES ASSUME Init PROVE Abstract!Init
    OBVIOUS
  <2>1. \A s \in Threads : busy[s] = FALSE
    BY DEF Init, Launched
  <2> QED
    BY <2>1 DEF Init, Launched, Abstract!Init
<1>2. Spec => []Fresh
  BY FreshInit, FreshStep, PTL DEF Spec
<1>3. Fresh /\ [Next]_vars => [Abstract!Next]_(Abstract!dataflowVars)
  BY StepRefines DEF running, Abstract!dataflowVars
<1> QED
  BY <1>1, <1>2, <1>3, PTL DEF Spec, RefinesDataflow, Abstract!Spec
=============================================================================
