------------------------------ MODULE MCLayout ------------------------------
(* Small trees for LayoutWorkers, long levels and short ones.               *)
EXTENDS LayoutWorkers

\* The levels of a tree with the given lengths.
RECURSIVE LevelsOf(_, _)
LevelsOf(lengths, start) ==
  IF lengths = <<>> THEN <<>>
  ELSE <<[start_idx |-> start, length |-> Head(lengths)]>>
         \o LevelsOf(Tail(lengths), start + Head(lengths))

MCTrees == {LevelsOf(lengths, 0) : lengths \in {<<1>>, <<1, 3, 2>>, <<1, 4>>, <<1, 2, 7>>}}
MCDirections == <<"bottomUp", "topDown">>

\* The second pass reads what it writes in the nodes, the first in the children.
MCReadBack == {<<2, "self">>, <<1, "child">>}
=============================================================================
