-------------------------- MODULE MCNodeAutoFusion --------------------------
(* The fusion search on every graph of N stencils in which a stencil uses  *)
(* stencils with smaller numbers; ties of the score are broken in every    *)
(* way, so the numbering loses nothing.  Stencils read one grid or two     *)
(* grids by turns; the unused results are stored, and perhaps one more;    *)
(* at most one stencil has a branch.                                       *)
EXTENDS NodeAutoFusion

CONSTANT N

MCStencils == 1 .. N
MCInputs == {N + 1, N + 2}
MCSize == [t \in 1 .. N + 2 |-> IF t = N + 1 THEN 3 ELSE 2]

Grids == {[s \in 1 .. N |-> {N + 1}], [s \in 1 .. N |-> {N + 1 + (s % 2)}]}

Edges == SUBSET {e \in (1 .. N) \X (1 .. N) : e[1] < e[2]}

AtMostOne(S) == {{}} \cup {{e} : e \in S}

MCPrograms ==
  {[uses |-> [s \in 1 .. N |-> grid[s] \cup {t \in 1 .. N : <<t, s>> \in edges}],
    rets |-> more \cup {s \in 1 .. N : \A e \in edges : e[1] # s},
    ifs  |-> ifs] :
     edges \in Edges, grid \in Grids, more \in AtMostOne(1 .. N), ifs \in AtMostOne(1 .. N)}
=============================================================================
