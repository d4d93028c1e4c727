-------------------------- MODULE MCStreamProgram ---------------------------
(* Plan and run of every acyclic graph of N calls, in every order of keys. *)
EXTENDS StreamProgram

CONSTANT N

MCCalls == 1 .. N
MCKernels == {Kernel(c) : c \in 1 .. N}
MCTags == {Sync(t) : t \in 1 .. N - 1}

MCGraphs ==
  {[c \in 1 .. N |-> {d \in 1 .. N : <<order[d], order[c]>> \in edges}] :
     order \in {f \in [1 .. N -> 1 .. N] : \A a, b \in 1 .. N : f[a] = f[b] => a = b},
     edges \in SUBSET {e \in (1 .. N) \X (1 .. N) : e[1] < e[2]}}
=============================================================================
