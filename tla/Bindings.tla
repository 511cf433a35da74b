------------------------------ MODULE Bindings ------------------------------
(***************************************************************************)
(* What the attribute grammar compiler generates for each example: which   *)
(* columns of the four buffers hold the fields of a class or an interface, *)
(* how large the buffers are, the token and the interface of a class, and  *)
(* the owners whose fields get proxy objects for the page.                 *)
(*                                                                         *)
(* A buffer is a sequence of columns, each as long as the tree.  The       *)
(* fields of one owner take a range of columns of a buffer, in an order    *)
(* the names do not tell; a field is the number of its column.             *)
(***************************************************************************)
EXTENDS Integers

Cols(int, float) == [int |-> int, float |-> float]
\* One table of two
Join(f, g) == [x \in DOMAIN f \cup DOMAIN g |-> IF x \in DOMAIN f THEN f[x] ELSE g[x]]

-----------------------------------------------------------------------------
(* The election treemap.                                                   *)

treemapContainers ==
  [countrycontainer |-> Cols(15 .. 30, 21 .. 40),
   district         |-> Cols(45 .. 60, 61 .. 80),
   hsquare          |-> Cols(75 .. 88, 101 .. 120)]
treemapNodes ==
  [iroot        |-> Cols(0 .. 4, 0 .. 8),
   node         |-> Cols(5 .. 10, 9 .. 20),
   pollingplace |-> Cols(89 .. 102, 121 .. 124),
   region       |-> Cols(31 .. 44, 41 .. 60),
   root         |-> Cols(11 .. 14, {}),
   vsquare      |-> Cols(61 .. 74, 81 .. 100)]
\* The leftmost child of each class and child label, then the edges of every node
treemapEdges ==
  [kids |-> [root |-> [childs |-> 0], countrycontainer |-> [childs |-> 1], region |-> [childs |-> 2],
             district |-> [childs |-> 3], vsquare |-> [childs |-> 4], hsquare |-> [childs |-> 5]],
   right_siblings |-> 6, left_siblings |-> 7, parent |-> 8, id |-> 9]
treemapSizes == [float |-> 125, int |-> 103, grammartokens |-> 2, nodeindex |-> 10]
treemapTokens ==
  [childs |-> 5, undefined |-> 14, root |-> 12, countrycontainer |-> 6, region |-> 11, district |-> 7,
   vsquare |-> 15, hsquare |-> 8, pollingplace |-> 10, ignore |-> 9, textbox |-> 13]
treemapIFaces ==
  [c \in {"root", "countrycontainer", "region", "district", "vsquare", "hsquare", "pollingplace"} |->
     IF c = "root" THEN "iroot" ELSE "node"]
treemapContainerProxies == {"countrycontainer", "district", "hsquare"}
treemapNodeProxies == {"iroot", "node", "pollingplace", "region", "root", "vsquare"}

-----------------------------------------------------------------------------
(* The treemap again, for pages without WebCL: tables of its own, and no   *)
(* buffers, so that it can only load files the bindings above flattened.   *)

visualizationContainers ==
  [countrycontainer |-> Cols(15 .. 30, 21 .. 40),
   district         |-> Cols(45 .. 60, 61 .. 80),
   hsquare          |-> Cols(75 .. 88, 101 .. 120)]
visualizationNodes ==
  [iroot        |-> Cols(0 .. 4, 0 .. 8),
   node         |-> Cols(5 .. 10, 9 .. 20),
   pollingplace |-> Cols(89 .. 102, 121 .. 124),
   region       |-> Cols(31 .. 44, 41 .. 60),
   root         |-> Cols(11 .. 14, {}),
   vsquare      |-> Cols(61 .. 74, 81 .. 100)]
visualizationEdges ==
  [kids |-> [root |-> [childs |-> 0], countrycontainer |-> [childs |-> 1], region |-> [childs |-> 2],
             district |-> [childs |-> 3], vsquare |-> [childs |-> 4], hsquare |-> [childs |-> 5]],
   right_siblings |-> 6, left_siblings |-> 7, parent |-> 8, id |-> 9]
visualizationTokens ==
  [childs |-> 5, undefined |-> 14, root |-> 12, countrycontainer |-> 6, region |-> 11, district |-> 7,
   vsquare |-> 15, hsquare |-> 8, pollingplace |-> 10, ignore |-> 9, textbox |-> 13]
visualizationIFaces ==
  [c \in {"root", "countrycontainer", "region", "district", "vsquare", "hsquare", "pollingplace"} |->
     IF c = "root" THEN "iroot" ELSE "node"]
visualizationContainerProxies == {"countrycontainer", "district", "hsquare"}
visualizationNodeProxies == {"iroot", "node", "pollingplace", "region", "root", "vsquare"}

-----------------------------------------------------------------------------
(* Nested boxes.                                                           *)

\* Mutant: the first int column of hbox is the last one of its interface
boxesColumns_Shared ==
  [hbox  |-> Cols(8 .. 26, 7 .. 16), iroot |-> Cols(0 .. 3, 0 .. 1), leaf |-> Cols(27 .. 30, {}),
   node  |-> Cols(4 .. 8, 2 .. 6),   root  |-> Cols(9 .. 12, {})]

boxesColumns ==
  [hbox  |-> Cols(13 .. 26, 7 .. 16), iroot |-> Cols(0 .. 3, 0 .. 1), leaf |-> Cols(27 .. 30, {}),
   node  |-> Cols(4 .. 8, 2 .. 6),    root  |-> Cols(9 .. 12, {})]
boxesEdges ==
  [kids |-> [root |-> [child |-> 0], hbox |-> [childs |-> 1]],
   right_siblings |-> 2, left_siblings |-> 3, parent |-> 4, id |-> 5]
boxesSizes == [float |-> 17, int |-> 31, grammartokens |-> 2, nodeindex |-> 6]
boxesTokens ==
  [child |-> 5, childs |-> 6, undefined |-> 12, root |-> 10, hbox |-> 7, leaf |-> 9, ignore |-> 8,
   textbox |-> 11]
boxesIFaces == [root |-> "iroot", hbox |-> "node", leaf |-> "node"]
boxesProxies == {"hbox", "iroot", "leaf", "node", "root"}

-----------------------------------------------------------------------------
(* The line graph in space.                                                *)

linegraphUpper ==
  [generator |-> Cols(68 .. 92, 45 .. 66), iroot |-> Cols(0 .. 7, 0 .. 4),
   leaf      |-> Cols(26 .. 36, 20 .. 30), node  |-> Cols(16 .. 25, 13 .. 19)]
linegraphLower ==
  [root    |-> Cols(37 .. 40, {}),        second |-> Cols(41 .. 67, 31 .. 44),
   secondi |-> Cols(8 .. 15, 5 .. 12),    spike  |-> Cols(93 .. 104, {})]
linegraphEdges ==
  [kids |-> [root |-> [child |-> 0], second |-> [childs |-> 1], generator |-> [childs |-> 2]],
   right_siblings |-> 3, left_siblings |-> 4, parent |-> 5, id |-> 6]
linegraphSizes == [float |-> 67, int |-> 105, grammartokens |-> 2, nodeindex |-> 7]
linegraphTokens ==
  [child |-> 5, childs |-> 6, undefined |-> 13, root |-> 9, second |-> 10, generator |-> 7,
   spike |-> 11, ignore |-> 8, textbox |-> 12]
linegraphIFaces == [root |-> "iroot", second |-> "secondi", generator |-> "node", spike |-> "leaf"]
linegraphUpperProxies == {"generator", "iroot", "leaf", "node"}
linegraphLowerProxies == {"root", "second", "secondi", "spike"}

-----------------------------------------------------------------------------
(* The sunburst.                                                           *)

sunburstColumns ==
  [iroot  |-> Cols(5 .. 8, {}),       node |-> Cols(0 .. 4, 0 .. 8),
   radial |-> Cols(9 .. 23, 9 .. 22), root |-> Cols(24 .. 27, 23 .. 27)]
sunburstEdges ==
  [kids |-> [radial |-> [child |-> 0], root |-> [child |-> 1]],
   right_siblings |-> 2, left_siblings |-> 3, parent |-> 4, id |-> 5]
sunburstSizes == [float |-> 28, int |-> 28, grammartokens |-> 2, nodeindex |-> 6]
sunburstTokens ==
  [child |-> 5, undefined |-> 10, radial |-> 7, root |-> 8, ignore |-> 6, textbox |-> 9]
sunburstIFaces == [radial |-> "node", root |-> "iroot"]
sunburstProxies == {"iroot", "node", "radial", "root"}

-----------------------------------------------------------------------------

\* The bindings of each example; allocates: _gen_allocateHostBuffers does, flattener:
\* the bindings the flattener of the example's data files runs
treemapBindings ==
  [columns |-> Join(treemapContainers, treemapNodes), edges |-> treemapEdges,
   sizes |-> treemapSizes, tokens |-> treemapTokens, ifaces |-> treemapIFaces,
   proxies |-> treemapContainerProxies \cup treemapNodeProxies,
   allocates |-> TRUE, flattener |-> "treemap"]
visualizationBindings ==
  [columns |-> Join(visualizationContainers, visualizationNodes), edges |-> visualizationEdges,
   sizes |-> treemapSizes, tokens |-> visualizationTokens, ifaces |-> visualizationIFaces,
   proxies |-> visualizationContainerProxies \cup visualizationNodeProxies,
   allocates |-> FALSE, flattener |-> "treemap"]
boxesBindings ==
  [columns |-> boxesColumns, edges |-> boxesEdges, sizes |-> boxesSizes,
   tokens |-> boxesTokens, ifaces |-> boxesIFaces, proxies |-> boxesProxies,
   allocates |-> TRUE, flattener |-> "boxes"]
linegraphBindings ==
  [columns |-> Join(linegraphUpper, linegraphLower), edges |-> linegraphEdges,
   sizes |-> linegraphSizes, tokens |-> linegraphTokens, ifaces |-> linegraphIFaces,
   proxies |-> linegraphUpperProxies \cup linegraphLowerProxies,
   allocates |-> TRUE, flattener |-> "linegraph"]
sunburstBindings ==
  [columns |-> sunburstColumns, edges |-> sunburstEdges, sizes |-> sunburstSizes,
   tokens |-> sunburstTokens, ifaces |-> sunburstIFaces, proxies |-> sunburstProxies,
   allocates |-> TRUE, flattener |-> "sunburst"]
kbindings ==
  [treemap |-> treemapBindings, visualization |-> visualizationBindings, boxes |-> boxesBindings,
   linegraph |-> linegraphBindings, sunburst |-> sunburstBindings]

=============================================================================
