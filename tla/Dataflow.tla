------------------------------ MODULE Dataflow ------------------------------
(***************************************************************************)
(* What a generated program promises: every kernel of the graph is run      *)
(* once per time step, and none starts before the calls that produce its   *)
(* arguments have ended.                                                   *)
(***************************************************************************)
CONSTANT Kernels

VARIABLES
  graph,     \* the producers of every call
  running,   \* the calls being computed
  done       \* the calls whose result is complete

dataflowVars == <<graph, running, done>>

Init ==
  /\ graph \in [Kernels -> SUBSET Kernels]
  /\ running = {}
  /\ done = {}

Start(c) ==
  /\ c \notin running \cup done
  /\ graph[c] \subseteq done
  /\ running' = running \cup {c}
  /\ UNCHANGED <<graph, done>>

End(c) ==
  /\ c \in running
  /\ running' = running \ {c}
  /\ done' = done \cup {c}
  /\ UNCHANGED graph

(* The next time step computes every call again. *)
NextStep ==
  /\ done = Kernels
  /\ running = {}
  /\ done' = {}
  /\ UNCHANGED <<graph, running>>

Next == (\E c \in Kernels : Start(c) \/ End(c)) \/ NextStep

Spec == Init /\ [][Next]_dataflowVars
=============================================================================
