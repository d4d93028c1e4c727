----------------------------- MODULE MCDNNFusion ----------------------------
(* DNNFusion.partition on every function of N calls of at most two calls   *)
(* as arguments, with the registered patterns and without one.             *)
EXTENDS DNNFusion

CONSTANT N

MCCalls == 1 .. N

ArgsOf(c) ==
  {<<>>} \cup {<<d>> : d \in 1 .. c - 1}
    \cup ((1 .. c - 1) \X (1 .. c - 1))

ArgLists == {a \in [1 .. N -> UNION {ArgsOf(c) : c \in 1 .. N}] : \A c \in 1 .. N : a[c] \in ArgsOf(c)}

(* The calls in the order in which the visitor leaves them, after those in *)
(* seen.                                                                   *)
RECURSIVE PostDfs(_, _, _)
PostDfs(a, c, seen) ==
  IF Contains(seen, c) THEN seen
  ELSE Append(FoldLeft(LAMBDA s, d : PostDfs(a, d, s), seen, a[c]), c)

(* All calls lead to the last, and are numbered as the visitor meets them. *)
Visited == {a \in ArgLists : PostDfs(a, N, <<>>) = [k \in 1 .. N |-> k]}

MCBodies ==
  {[args |-> a, pattern |-> p] :
     p \in [1 .. N -> {"OneToMany", "ManyToMany", "None"}], a \in Visited}
=============================================================================
