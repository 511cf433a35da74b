----------------------------- MODULE MCTreemap -----------------------------
(***************************************************************************)
(* Instances of TreemapEngine: trees with every class of node, an empty    *)
(* district, a country whose polling places can all be deselected and a    *)
(* root over a single polling place.                                       *)
(***************************************************************************)
EXTENDS TreemapEngine, TLC

Place(v, u, p, t, js) ==
  [votes |-> v, ur |-> u, urProjected |-> p, turnout |-> t, inJavascript |-> js]

\* root - country - two regions - a district with two places, one with one
Country ==
  [size |-> 9, depth |-> 4,
   parent |-> (1 :> 0) @@ (2 :> 1) @@ (3 :> 1) @@ (4 :> 2) @@ (5 :> 3)
              @@ (6 :> 4) @@ (7 :> 4) @@ (8 :> 5),
   level |-> (0 :> 0) @@ (1 :> 1) @@ (2 :> 2) @@ (3 :> 2) @@ (4 :> 3) @@ (5 :> 3)
             @@ (6 :> 4) @@ (7 :> 4) @@ (8 :> 4),
   class |-> (0 :> "root") @@ (1 :> "countrycontainer") @@ (2 :> "region")
             @@ (3 :> "region") @@ (4 :> "district") @@ (5 :> "district")
             @@ (6 :> Leaf) @@ (7 :> Leaf) @@ (8 :> Leaf),
   data |-> (6 :> Place(1, 1, 0, 60, TRUE)) @@ (7 :> Place(2, 1, 2, 90, TRUE))
            @@ (8 :> Place(1, 0, 1, 90, FALSE))]

\* root - a row of a column (a place over an empty district) and a place
Squares ==
  [size |-> 6, depth |-> 3,
   parent |-> (1 :> 0) @@ (2 :> 1) @@ (3 :> 1) @@ (4 :> 2) @@ (5 :> 2),
   level |-> (0 :> 0) @@ (1 :> 1) @@ (2 :> 2) @@ (3 :> 2) @@ (4 :> 3) @@ (5 :> 3),
   class |-> (0 :> "root") @@ (1 :> "hsquare") @@ (2 :> "vsquare") @@ (3 :> Leaf)
             @@ (4 :> Leaf) @@ (5 :> "district"),
   data |-> (3 :> Place(3, 2, 1, 60, TRUE)) @@ (4 :> Place(1, 1, 0, 90, FALSE))]

Single ==
  [size |-> 2, depth |-> 1, parent |-> (1 :> 0), level |-> (0 :> 0) @@ (1 :> 1),
   class |-> (0 :> "root") @@ (1 :> Leaf), data |-> (1 :> Place(2, 1, 0, 90, TRUE))]

MCTrees == {Country, Squares, Single}

In(fix, lo, hi, js, proj) ==
  [fixWidth |-> fix, minTurnout |-> lo, maxTurnout |-> hi,
   showJavascript |-> js, showProjected |-> proj]
MCInputs == {In(TRUE, 0, 100, TRUE, FALSE), In(FALSE, 70, 100, TRUE, TRUE),
             In(FALSE, 0, 70, FALSE, FALSE)}

=============================================================================
