---------------------------- MODULE ExampleData -----------------------------
(***************************************************************************)
(* The trees the repository's own generators make: the line graph of       *)
(* genExamples.js and the random sunburst of data-gen.js.  A tree is the   *)
(* classes and the child lists of its objects, numbered in the order in    *)
(* which they are made; names, colours and the other attributes are left   *)
(* out, and the random numbers are parameters.                             *)
(***************************************************************************)
EXTENDS SequencesExt

List(lbl, nodes) == [lbl |-> lbl, nodes |-> nodes]

\* makeSpike and makeGenerator: object v with len spikes behind it
makeGenerator(v, len) ==
  [class |-> <<"generator">> \o [k \in 1 .. len |-> "spike"],
   kids  |-> <<<<List("childs", [k \in 1 .. len |-> v + k])>>>> \o [k \in 1 .. len |-> <<>>]]

\* makeRoot: the root, its only child and the generators
makeRoot(numGenerators, numSpikes) ==
  LET at(g) == 3 + (g - 1) * (numSpikes + 1)
      generators == [g \in 1 .. numGenerators |-> makeGenerator(at(g), numSpikes)]
  IN  [class |-> <<"root", "second">> \o FlattenSeq([g \in DOMAIN generators |-> generators[g].class]),
       kids  |-> << <<List("child", <<2>>)>>, <<List("childs", [g \in 1 .. numGenerators |-> at(g)])>> >>
                 \o FlattenSeq([g \in DOMAIN generators |-> generators[g].kids])]

\* One turn of the loop over the levels: the nodes of the level are popped, last one
\* first, and the k-th gets draw[k] children
GrowLevel(tree, draw) ==
  LET popped == Reverse(tree.level)
      n == Len(tree.kids)
      before(k) == FoldLeft(LAMBDA x, y : x + y, 0, SubSeq(draw, 1, k - 1))
      childs(k) == [j \in 1 .. draw[k] |-> n + before(k) + j]
      nodesOnNextLevel == FlattenSeq([k \in DOMAIN popped |-> childs(k)])
  IN  [level |-> nodesOnNextLevel,
       kids  |-> [v \in 1 .. n + Len(nodesOnNextLevel) |->
                    CASE v \in ToSet(popped) -> childs(SelectInSeq(popped, LAMBDA w : w = v))
                      [] v \in 1 .. n /\ v \notin ToSet(popped) -> tree.kids[v]
                      [] OTHER -> <<>>]]

\* RandomTree, for given draws of numChildrenThisNode
RandomTree(draws) ==
  LET tree == FoldLeft(GrowLevel, [level |-> <<2>>, kids |-> << <<2>>, <<>> >>], draws)
  IN  [class |-> [v \in DOMAIN tree.kids |-> IF v = 1 THEN "root" ELSE "radial"],
       kids  |-> [v \in DOMAIN tree.kids |-> <<List("child", tree.kids[v])>>]]

=============================================================================
