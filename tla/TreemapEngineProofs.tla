------------------------ MODULE TreemapEngineProofs ------------------------
(***************************************************************************)
(* Proofs about TreemapEngine, for every set of trees and inputs.  First:  *)
(* the inputs reach every node in the render they were set for, and what   *)
(* is drawn is what this render laid out.  Then, with what a sum over a    *)
(* finite set is: the fields keep their types, and the total that          *)
(* visit_*_1 carries up the tree is that of the places the inputs select.  *)
(***************************************************************************)
EXTENDS TreemapEngine, FiniteSetTheorems, TLAPS

\* Visited in the running top-down pass
Reached(n) == tree.level[n] < level \/ (tree.level[n] = level /\ n \notin todo)

\* Where a render can be
Control ==
  /\ tree \in Trees
  /\ inh = [n \in Nodes |-> inh[n]]
  /\ phase \in {"idle", "pass", "alloc", "share", "frame"}
  /\ pass \in 0 .. 4
  /\ phase # "idle" => level \in 0 .. tree.depth /\ todo \subseteq LevelNodes(tree, level)
  /\ phase \in {"alloc", "share"} /\ ok => pass = 3
  /\ phase = "frame" /\ ok => pass = 4 /\ level = tree.depth /\ todo = {}

\* The first pass has handed the inputs to the children of every node it visited
Pushed ==
  phase = "pass" /\ ok /\ pass = 0 =>
    \A n \in Nodes \ {0} : Reached(tree.parent[n]) => inh[n] = input

\* The render pass has drawn the nodes it visited, as they are laid out
Painted ==
  phase # "idle" /\ ok =>
    IF pass < 4 THEN draws = {} ELSE
      /\ \A n \in Nodes : (\E d \in draws : d.node = n) <=> Reached(n) /\ Drawn(n)
      /\ \A d \in draws : /\ d.node \in Nodes
                          /\ d.box = geo[d.node]
                          /\ d.flags = inh[d.node]
      /\ \A d, e \in draws : /\ e.node = d.node => e = d
                             /\ d.node \in Children(e.node) => e.node \in d.after

Inv == Control /\ Pushed /\ NodesSeeTheInputs /\ Painted

-----------------------------------------------------------------------------
\* What the proofs use of a tree, fact by fact.
LEMMA TreeFacts ==
  ASSUME NEW t \in Trees
  PROVE  /\ t.size \in Nat \ {0, 1} /\ t.depth \in Nat
         /\ \A n \in 0 .. t.size - 1 : t.level[n] \in 0 .. t.depth
         /\ \A n \in 1 .. t.size - 1 : t.parent[n] \in 0 .. t.size - 1
         /\ \A n \in 0 .. t.size - 1 : t.level[n] = 0 <=> n = 0
         /\ \A n \in 1 .. t.size - 1 : t.level[n] = t.level[t.parent[n]] + 1
         /\ \A n \in 0 .. t.size - 1 : t.class[n] = "root" <=> n = 0
  BY TreesAreFlat DEF IsTree

\* No traversal has begun.
LEMMA InitInv == Init => Inv
  BY DEF Init, Inv, Control, Pushed, NodesSeeTheInputs, Painted, Blank, Nodes

\* The page acts between renders only.
LEMMA PageInv ==
  ASSUME Inv, \/ \E i \in Inputs : SetInput(i)
              \/ \E t \in Trees : LoadTree(t)
              \/ BeginLayout
  PROVE  Inv'
<1>1. CASE \E i \in Inputs : SetInput(i)
  BY <1>1 DEF Inv, Control, Pushed, NodesSeeTheInputs, Painted, SetInput, Nodes,
              fields, buffers, control
<1>2. CASE \E t \in Trees : LoadTree(t)
  BY <1>2 DEF Inv, Control, Pushed, NodesSeeTheInputs, Painted, LoadTree, Nodes,
              buffers, control, Blank
<1>3. CASE BeginLayout
  <2>1. /\ phase' = "pass" /\ pass' = 0 /\ level' = 0 /\ ok' = TRUE /\ draws' = {}
        /\ todo' = LevelNodes(tree, 0)
        /\ UNCHANGED <<tree, input, inh>>
    BY <1>3 DEF BeginLayout, StartPass, fields, TopDown
  <2>2. /\ tree \in Trees /\ tree.depth \in Nat
        /\ \A n \in Nodes \ {0} : tree.parent[n] \in Nodes
        /\ \A n \in Nodes : tree.level[n] \in Nat
    BY TreeFacts DEF Inv, Control, Nodes
  <2>3. \A n \in Nodes : ~Reached(n)'
    BY <2>1, <2>2 DEF Reached, LevelNodes, Nodes
  <2>4. Control'
    BY <2>1, <2>2 DEF Inv, Control, Nodes
  <2>5. Pushed'
    BY <2>1, <2>2, <2>3 DEF Pushed, Nodes
  <2>6. NodesSeeTheInputs' /\ Painted'
    BY <2>1 DEF NodesSeeTheInputs, Painted
  <2> QED
    BY <2>4, <2>5, <2>6 DEF Inv
<1> QED
  BY <1>1, <1>2, <1>3

\* What every visit keeps of the control
LEMMA VisitControl ==
  ASSUME Inv, NEW n \in Nodes, Visit(n), inh' = [c \in Nodes |-> inh'[c]]
  PROVE  Control' /\ n \in Nodes /\ tree.level[n] = level
  BY DEF Visit, Inv, Control, Nodes, LevelNodes

\* visit_*_0 shows the inputs to the children of the node it visits.
LEMMA VisitInputs ==
  ASSUME Inv, NEW n \in Nodes, Visit(n), pass = 0
  PROVE  Inv'
<1>1. /\ phase = "pass" /\ n \in todo /\ todo' = todo \ {n}
      /\ inh' = [c \in Nodes |-> IF c \in Children(n)
                                 THEN IF n = 0 THEN input ELSE inh[n] ELSE inh[c]]
      /\ draws' = draws
      /\ UNCHANGED <<tree, ignoreCL, input, vbo, num_vertices, clVBO, phase, pass, level, ok, renders>>
  BY DEF Visit, visit_0
<1>2. Control' /\ tree.level[n] = level
  BY <1>1, VisitControl
<1>3. /\ \A m \in Nodes \ {0} : tree.parent[m] \in Nodes
      /\ \A m \in Nodes : tree.level[m] \in Nat
      /\ \A m \in Nodes \ {0} : tree.level[m] = tree.level[tree.parent[m]] + 1
  BY TreeFacts DEF Inv, Control, Nodes
<1>4. Pushed'
  <2> SUFFICES ASSUME ok, NEW m \in Nodes \ {0}, Reached(tree.parent[m])'
               PROVE  inh'[m] = input
    BY <1>1 DEF Pushed, Nodes
  <2>1. \A k \in Nodes \ {0} : Reached(tree.parent[k]) => inh[k] = input
    BY <1>1 DEF Inv, Pushed
  <2>2. CASE tree.parent[m] = n
    <3>1. m \in Children(n)
      BY <2>2 DEF Children
    <3>2. n # 0 => Reached(tree.parent[n])
      BY <1>2, <1>3 DEF Reached
    <3> QED
      BY <1>1, <2>1, <3>1, <3>2
  <2>3. CASE tree.parent[m] # n
    <3>1. Reached(tree.parent[m])
      BY <1>1, <2>3 DEF Reached
    <3>2. m \notin Children(n)
      BY <2>3 DEF Children
    <3> QED
      BY <1>1, <2>1, <3>1, <3>2
  <2> QED
    BY <2>2, <2>3
<1>5. NodesSeeTheInputs' /\ Painted'
  BY <1>1 DEF Inv, NodesSeeTheInputs, Painted
<1> QED
  BY <1>2, <1>4, <1>5 DEF Inv

\* No later visit changes the inputs a node sees.
LEMMA VisitLayout ==
  ASSUME Inv, NEW n \in Nodes, Visit(n), pass \in {1, 2, 3}
  PROVE  Inv'
<1>a. /\ visit_1(n) \/ visit_2(n) \/ visit_3(n)
      /\ UNCHANGED <<tree, input, phase, pass, ok>>
  <2>0. UNCHANGED <<tree, input, phase, pass, ok>>
    BY DEF Visit
  <2>1. CASE pass = 1
    BY <2>0, <2>1 DEF Visit
  <2>2. CASE pass = 2
    BY <2>0, <2>2 DEF Visit
  <2>3. CASE pass = 3
    BY <2>0, <2>3 DEF Visit
  <2> QED
    BY <2>1, <2>2, <2>3
<1>b. visit_1(n) => inh' = inh /\ draws' = draws
  BY DEF visit_1
<1>c. visit_2(n) => inh' = inh /\ draws' = draws
  BY DEF visit_2
<1>d. visit_3(n) => inh' = inh /\ draws' = draws
  BY DEF visit_3
<1>1. /\ inh' = inh /\ draws' = draws
      /\ UNCHANGED <<tree, input, phase, pass, ok>>
  BY <1>a, <1>b, <1>c, <1>d
<1>2. Control'
  BY <1>1, VisitControl DEF Inv, Control
<1>3. Pushed' /\ NodesSeeTheInputs' /\ Painted'
  BY <1>1 DEF Inv, Pushed, NodesSeeTheInputs, Painted, Nodes
<1> QED
  BY <1>2, <1>3 DEF Inv

\* visit_*_4 draws the node once, after its parent.
LEMMA VisitRender ==
  ASSUME Inv, NEW n \in Nodes, Visit(n), pass = 4
  PROVE  Inv'
<1>a. /\ phase = "pass" /\ n \in todo /\ todo' = todo \ {n} /\ visit_4(n)
      /\ UNCHANGED <<tree, input, phase, pass, level, ok>>
  BY DEF Visit
<1>b. inh' = inh /\ geo' = geo
  BY <1>a DEF visit_4
<1>1. /\ phase = "pass" /\ n \in todo /\ todo' = todo \ {n} /\ visit_4(n)
      /\ inh' = inh /\ geo' = geo
      /\ UNCHANGED <<tree, input, phase, pass, level, ok>>
  BY <1>a, <1>b
<1>2. Control' /\ tree.level[n] = level
  BY <1>1, VisitControl DEF Inv, Control
<1>3. Pushed' /\ NodesSeeTheInputs'
  BY <1>1 DEF Inv, Pushed, NodesSeeTheInputs, Nodes
<1>4. Painted'
  <2> SUFFICES ASSUME ok PROVE Painted'
    BY <1>1 DEF Painted
  <2> DEFINE new == [node |-> n, at |-> renderOffset(n),
                     len |-> Size(IF Class(n) = Leaf THEN RectangleSize ELSE OutlineSize),
                     after |-> {d.node : d \in draws}, box |-> geo[n], flags |-> inh[n]]
  <2>1. draws' = IF Drawn(n) THEN draws \cup {new} ELSE draws
    BY <1>1 DEF visit_4
  <2>2. /\ \A m \in Nodes : (\E d \in draws : d.node = m) <=> Reached(m) /\ Drawn(m)
        /\ \A d \in draws : d.node \in Nodes /\ d.box = geo[d.node] /\ d.flags = inh[d.node]
        /\ \A d, e \in draws : /\ e.node = d.node => e = d
                               /\ d.node \in Children(e.node) => e.node \in d.after
    BY <1>1 DEF Inv, Painted
  <2>3. /\ \A m \in Nodes : tree.level[m] \in Nat
        /\ \A m \in Nodes \ {0} : tree.level[m] = tree.level[tree.parent[m]] + 1
        /\ level \in Nat
    BY <1>1, TreeFacts DEF Inv, Control, Nodes
  <2>4. /\ ~Reached(n)
        /\ \A m \in Nodes : Reached(m)' <=> Reached(m) \/ m = n
    BY <1>1, <1>2, <2>3 DEF Reached, Nodes
  <2>5. \A m \in Nodes : Drawn(m)' <=> Drawn(m)
    BY <1>1 DEF Drawn, Class
  <2>6. /\ new.node = n /\ new.box = geo[n] /\ new.flags = inh[n]
        /\ new.after = {d.node : d \in draws}
    OBVIOUS
  <2> HIDE DEF new
  <2>7. \A m \in Nodes : (\E d \in draws' : d.node = m) <=> Reached(m)' /\ Drawn(m)'
    BY <2>1, <2>2, <2>4, <2>5, <2>6
  <2>8. \A d \in draws' : d.node \in Nodes /\ d.box = geo[d.node] /\ d.flags = inh[d.node]
    BY <2>1, <2>2, <2>6
  <2>9. \A d, e \in draws' : e.node = d.node => e = d
    BY <2>1, <2>2, <2>4, <2>6
  <2>10. \A d \in draws : d.node \notin Children(n)
    BY <1>2, <2>2, <2>3 DEF Children, Reached
  <2>11. n \notin Children(n)
    BY <2>3 DEF Children
  <2>12. \A d, e \in draws' : d.node \in Children(e.node) => e.node \in d.after
    BY <2>1, <2>2, <2>6, <2>10, <2>11
  <2>13. Nodes' = Nodes /\ \A m \in Nodes : Children(m)' = Children(m)
    BY <1>1 DEF Nodes, Children
  <2> QED
    BY <1>1, <2>7, <2>8, <2>9, <2>12, <2>13 DEF Painted
<1> QED
  BY <1>2, <1>3, <1>4 DEF Inv

\* The next level: the parents of its nodes have been visited.
LEMMA NextLevelInv ==
  ASSUME Inv, NextLevel
  PROVE  Inv'
<1>1. /\ phase = "pass" /\ todo = {} /\ ~LastLevel
      /\ level' = (IF pass \in TopDown THEN level + 1 ELSE level - 1)
      /\ todo' = LevelNodes(tree, level')
      /\ UNCHANGED <<tree, input, inh, geo, draws, phase, pass, ok>>
  BY DEF NextLevel, fields, buffers
<1>2. /\ tree.depth \in Nat /\ level \in 0 .. tree.depth /\ pass \in 0 .. 4
      /\ \A m \in Nodes : tree.level[m] \in Nat
      /\ \A m \in Nodes \ {0} : tree.parent[m] \in Nodes
  BY <1>1, TreeFacts DEF Inv, Control, Nodes
<1>3. Control'
  <2>1. level' \in 0 .. tree.depth
    BY <1>1, <1>2 DEF LastLevel, TopDown
  <2> QED
    BY <1>1, <1>2, <2>1 DEF Inv, Control, Nodes
<1>4. ASSUME pass \in {0, 4}, NEW m \in Nodes
      PROVE  Reached(m)' <=> Reached(m)
  <2>1. level' = level + 1 /\ level \in Nat
    BY <1>1, <1>2, <1>4 DEF TopDown
  <2> QED
    BY <1>1, <1>2, <2>1 DEF Reached, LevelNodes, Nodes
<1>5. Pushed'
  BY <1>1, <1>2, <1>4 DEF Inv, Pushed, Nodes
<1>6. NodesSeeTheInputs'
  BY <1>1 DEF Inv, NodesSeeTheInputs, Nodes
<1>7. Painted'
  <2>1. CASE pass < 4
    BY <1>1, <2>1 DEF Inv, Painted
  <2>2. CASE pass = 4
    <3>1. \A m \in Nodes : (Reached(m)' <=> Reached(m)) /\ (Drawn(m)' <=> Drawn(m))
      BY <1>1, <1>4, <2>2 DEF Drawn, Class
    <3>2. Nodes' = Nodes /\ \A m : Children(m)' = Children(m)
      BY <1>1 DEF Nodes, Children
    <3> QED
      BY <1>1, <2>2, <3>1, <3>2 DEF Inv, Painted
  <2> QED
    BY <1>2, <2>1, <2>2
<1> QED
  BY <1>3, <1>5, <1>6, <1>7 DEF Inv

\* Starting a pass after the first
LEMMA StartInv ==
  ASSUME Inv, phase # "idle", NEW p \in 1 .. 4, StartPass(p),
         UNCHANGED <<tree, input, inh, draws>>, ok' => ok,
         ok => draws = {} /\ \A n \in Nodes \ {0} : inh[n] = input
  PROVE  Inv'
<1>1. /\ phase' = "pass" /\ pass' = p /\ todo' = LevelNodes(tree, level')
      /\ level' = IF p \in TopDown THEN 0 ELSE tree.depth
  BY DEF StartPass
<1>2. /\ tree \in Trees /\ tree.depth \in Nat
      /\ \A m \in Nodes : tree.level[m] \in Nat
  BY TreeFacts DEF Inv, Control, Nodes
<1>3. Control'
  BY <1>1, <1>2 DEF Inv, Control, Nodes
<1>4. Pushed' /\ NodesSeeTheInputs'
  BY <1>1 DEF Pushed, NodesSeeTheInputs, Nodes
<1>5. Painted'
  <2>1. p = 4 => \A m \in Nodes : ~Reached(m)'
    BY <1>1, <1>2 DEF Reached, LevelNodes, Nodes, TopDown
  <2>2. Nodes' = Nodes
    BY DEF Nodes
  <2> QED
    BY <1>1, <2>1, <2>2 DEF Painted
<1> QED
  BY <1>3, <1>4, <1>5 DEF Inv

\* The next pass, or the end of the traversals.
LEMMA NextPassInv ==
  ASSUME Inv, NextPass
  PROVE  Inv'
<1>1. /\ phase = "pass" /\ todo = {} /\ LastLevel
      /\ UNCHANGED <<tree, ignoreCL, input, inh, geo, draws, ok>>
  BY DEF NextPass, fields, buffers
<1>2. /\ pass \in 0 .. 4 /\ tree.depth \in Nat
      /\ \A m \in Nodes : tree.level[m] \in 0 .. tree.depth
      /\ \A m \in Nodes \ {0} : tree.parent[m] \in Nodes
  BY TreeFacts DEF Inv, Control, Nodes
<1>3. ok => \A n \in Nodes \ {0} : inh[n] = input
  <2>1. CASE pass = 0
    <3>1. \A m \in Nodes : Reached(m)
      BY <1>1, <1>2, <2>1 DEF Reached, LastLevel, TopDown
    <3> QED
      BY <1>1, <1>2, <2>1, <3>1 DEF Inv, Pushed
  <2>2. CASE pass >= 1
    BY <1>1, <2>2 DEF Inv, NodesSeeTheInputs
  <2> QED
    BY <1>2, <2>1, <2>2
<1>4. ok /\ pass < 4 => draws = {}
  BY <1>1 DEF Inv, Painted
<1>5. CASE pass < 3
  <2>1. pass + 1 \in 1 .. 4 /\ pass < 3 /\ pass # 3 /\ pass # 4
    BY <1>2, <1>5
  <2>2. StartPass(pass + 1)
    BY <2>1, Zenon DEF NextPass
  <2> QED
    BY <1>1, <1>2, <1>3, <1>4, <1>5, <2>1, <2>2, StartInv
<1>6. CASE pass = 3 /\ ignoreCL
  <2>1. StartPass(4)
    BY <1>6 DEF NextPass, AfterTraversals
  <2> QED
    BY <1>1, <1>3, <1>4, <1>6, <2>1, StartInv
<1>7. CASE pass = 3 /\ ~ignoreCL
  <2>1. phase' = "alloc" /\ UNCHANGED <<pass, level, todo>>
    BY <1>7 DEF NextPass, AfterTraversals
  <2> QED
    BY <1>1, <1>3, <1>4, <1>7, <2>1
       DEF Inv, Control, Pushed, NodesSeeTheInputs, Painted, Nodes
<1>8. CASE pass = 4
  <2>1. phase' = "frame" /\ UNCHANGED <<pass, level, todo>>
    BY <1>8 DEF NextPass
  <2>2. level = tree.depth
    BY <1>1, <1>8 DEF LastLevel, TopDown
  <2>3. Control'
    BY <1>1, <1>8, <2>1, <2>2 DEF Inv, Control, Nodes
  <2>4. Pushed' /\ NodesSeeTheInputs'
    BY <1>1, <1>3, <1>8, <2>1 DEF Pushed, NodesSeeTheInputs, Nodes
  <2>5. Nodes' = Nodes /\ \A m : /\ Children(m)' = Children(m) /\ Reached(m)' = Reached(m)
                                 /\ Drawn(m)' = Drawn(m)
    BY <1>1, <2>1 DEF Nodes, Children, Reached, Drawn, Class
  <2>6. Painted'
    BY <1>1, <1>8, <2>1, <2>5 DEF Inv, Painted
  <2> QED
    BY <2>3, <2>4, <2>6 DEF Inv
<1> QED
  BY <1>2, <1>5, <1>6, <1>7, <1>8

\* A failed call ends the sound render.
LEMMA FailureInv ==
  ASSUME Inv, KernelFails
  PROVE  Inv'
  BY DEF Inv, Control, Pushed, NodesSeeTheInputs, Painted, KernelFails, fields,
         buffers, Nodes

\* reallocateVBO, setVBO and renderFrame.
LEMMA BuffersInv ==
  ASSUME Inv, reallocateVBO \/ setVBO \/ renderFrame
  PROVE  Inv'
<1>1. ok /\ phase \in {"alloc", "share"} =>
         draws = {} /\ \A n \in Nodes \ {0} : inh[n] = input
  BY DEF Inv, Control, Painted, NodesSeeTheInputs
<1>2. CASE reallocateVBO
  <2>1. /\ UNCHANGED <<tree, input, inh, draws, pass, level, todo, ok>>
        /\ phase = "alloc" /\ phase' \in {"idle", "share"}
    BY <1>2 DEF reallocateVBO, fields
  <2> QED
    BY <1>1, <2>1 DEF Inv, Control, Pushed, NodesSeeTheInputs, Painted, Nodes
<1>3. CASE setVBO
  <2>a. UNCHANGED <<tree, input, inh, draws>> /\ phase = "share"
    BY <1>3 DEF setVBO, fields
  <2>b. \/ ok' = ok /\ StartPass(4)
        \/ ok' = FALSE /\ StartPass(4)
        \/ ok' = FALSE /\ phase' = "frame" /\ UNCHANGED <<pass, level, todo>>
    BY <1>3, Zenon DEF setVBO
  <2>c. ok' => ok
    BY <2>b, Zenon
  <2>1. /\ UNCHANGED <<tree, input, inh, draws>> /\ phase = "share" /\ (ok' => ok)
        /\ \/ StartPass(4)
           \/ ~ok' /\ phase' = "frame" /\ UNCHANGED <<pass, level, todo>>
    BY <2>a, <2>b, <2>c
  <2>2. CASE StartPass(4)
    BY <1>1, <2>1, <2>2, StartInv
  <2>3. CASE ~ok' /\ phase' = "frame" /\ UNCHANGED <<pass, level, todo>>
    BY <2>1, <2>3 DEF Inv, Control, Pushed, NodesSeeTheInputs, Painted, Nodes
  <2> QED
    BY <2>1, <2>2, <2>3
<1>4. CASE renderFrame
  BY <1>4 DEF Inv, Control, Pushed, NodesSeeTheInputs, Painted, renderFrame, fields,
              buffers, Nodes
<1> QED
  BY <1>2, <1>3, <1>4

\* A step that changes nothing.
LEMMA StutterInv ==
  ASSUME Inv, UNCHANGED vars
  PROVE  Inv'
<1>1. UNCHANGED <<tree, input, inh, geo, draws, phase, pass, level, todo, ok>>
  BY DEF vars, fields, buffers, control
<1>2. Nodes' = Nodes /\ \A m : /\ Children(m)' = Children(m) /\ Reached(m)' = Reached(m)
                               /\ Drawn(m)' = Drawn(m)
  BY <1>1 DEF Nodes, Children, Reached, Drawn, Class
<1> QED
  BY <1>1, <1>2 DEF Inv, Control, Pushed, NodesSeeTheInputs, Painted

\* Every step keeps the invariant.
LEMMA StepInv == Inv /\ [Next]_vars => Inv'
<1> SUFFICES ASSUME Inv, [Next]_vars PROVE Inv'
  OBVIOUS
<1>1. CASE \E n \in Nodes : Visit(n)
  <2>1. PICK n \in Nodes : Visit(n)
    BY <1>1
  <2>2. pass = 0 \/ pass \in {1, 2, 3} \/ pass = 4
    BY DEF Inv, Control
  <2> QED
    BY <2>1, <2>2, VisitInputs, VisitLayout, VisitRender
<1> QED
  BY <1>1, PageInv, NextLevelInv, NextPassInv, FailureInv, BuffersInv, StutterInv DEF Next

\* The invariant holds throughout.
LEMMA SpecInv == Spec => []Inv
  BY InitInv, StepInv, PTL DEF Spec

-----------------------------------------------------------------------------
\* After the first pass of a render every node sees the inputs set for that
\* render, whatever the tree and whatever the renders before it left in memory
THEOREM InputsReachEveryNode == Spec => []NodesSeeTheInputs
<1>1. Inv => NodesSeeTheInputs
  BY DEF Inv
<1> QED
  BY <1>1, SpecInv, PTL

\* A completed render has drawn every visible node exactly once, at the place
\* and with the inputs of this render, containers before their contents
THEOREM FrameIsTheLayout == Spec => []FrameShowsTheLayout
<1>1. Inv => FrameShowsTheLayout
  <2> SUFFICES ASSUME Inv, Complete
               PROVE  FrameShowsTheLayout
    BY DEF FrameShowsTheLayout
  <2>1. /\ \A n \in Nodes : (\E d \in draws : d.node = n) <=> Reached(n) /\ Drawn(n)
        /\ \A d \in draws : d.node \in Nodes /\ d.box = geo[d.node] /\ d.flags = inh[d.node]
        /\ \A d, e \in draws : /\ e.node = d.node => e = d
                               /\ d.node \in Children(e.node) => e.node \in d.after
    BY DEF Complete, Inv, Control, Painted
  <2>2. /\ level = tree.depth /\ todo = {}
        /\ \A m \in Nodes : tree.level[m] \in 0 .. tree.depth
        /\ tree.depth \in Nat
        /\ \A m \in Nodes : tree.class[m] = "root" <=> m = 0
        /\ 0 \in Nodes
    BY TreeFacts DEF Complete, Inv, Control, Nodes
  <2>3. \A m \in Nodes : Reached(m)
    BY <2>2 DEF Reached
  <2>4. ~Drawn(0)
    BY <2>2 DEF Drawn, Class, Leaf, Outlined
  <2>5. {d.node : d \in draws} = {n \in Nodes \ {0} : Drawn(n)}
    BY <2>1, <2>3, <2>4
  <2>6. \A n \in Nodes \ {0} : inh[n] = input
    <3>1. phase = "frame" /\ ok /\ pass = 4
      BY DEF Complete, Inv, Control
    <3> QED
      BY <3>1 DEF Inv, NodesSeeTheInputs
  <2>7. \A d \in draws : d.flags = input
    <3> SUFFICES ASSUME NEW d \in draws PROVE d.flags = input
      OBVIOUS
    <3>1. d.node # 0
      BY <2>1, <2>2, <2>4
    <3> QED
      BY <2>1, <2>6, <3>1
  <2> QED
    BY <2>1, <2>5, <2>7 DEF FrameShowsTheLayout
<1> QED
  BY <1>1, SpecInv, PTL

-----------------------------------------------------------------------------
(***************************************************************************)
(* Sums over finite sets.  The model sums with SumFunctionOnSet, which     *)
(* folds a function over a finite set in some order.  What a sum is does   *)
(* not depend on the order; that is shown first, by induction over the     *)
(* subsets of the set.                                                     *)
(***************************************************************************)

\* The element a fold takes next, and the equation of the function it builds.
Any(s) == CHOOSE x \in s : TRUE
IsSum(g, f, S) ==
  g = [s \in SUBSET S |-> IF s = {} THEN 0 ELSE f[Any(s)] + g[s \ {Any(s)}]]

\* The sum is the value of that function.
LEMMA SumDef ==
  ASSUME NEW f, NEW S
  PROVE  SumFunctionOnSet(f, S) = (CHOOSE g : IsSum(g, f, S))[S]
BY DEF SumFunctionOnSet, FoldFunctionOnSet, MapThenFoldSet, IsSum, Any

\* A property of the subsets of a finite set, given as the set P of those that
\* have it, holds of all if it follows from the smaller subsets.
LEMMA FiniteInduction ==
  ASSUME NEW S, IsFiniteSet(S), NEW P,
         \A T \in SUBSET S : (\A U \in SUBSET T : U # T => U \in P) => T \in P
  PROVE  S \in P
<1> DEFINE R   == StrictSubsetOrdering(S)
           Bad == {T \in SUBSET S : T \notin P}
<1> SUFFICES ASSUME S \notin P PROVE FALSE
  OBVIOUS
<1>1. IsWellFoundedOn(R, SUBSET S)
  <2>1. FiniteSubsetsOf(S) = SUBSET S
    BY FS_FiniteSubsetsOfFinite, Zenon
  <2>2. IsWellFoundedOn(R, FiniteSubsetsOf(S))
    BY FS_StrictSubsetOrderingWellFounded, Zenon
  <2>3. QED
    BY <2>1, <2>2, Zenon
<1>2. Bad \subseteq SUBSET S /\ Bad # {}
  OBVIOUS
<1>3. \E T \in Bad : \A U \in Bad : <<U, T>> \notin R
  <2> HIDE DEF R, Bad
  <2> QED
    BY <1>1, <1>2, WFMin
<1>4. PICK T \in Bad : \A U \in Bad : <<U, T>> \notin R
  BY <1>3
<1>5. ASSUME NEW U \in SUBSET T, U # T PROVE U \in P
  <2>1. <<U, T>> \in R
    BY <1>5 DEF StrictSubsetOrdering
  <2>2. QED
    BY <1>4, <2>1
<1>6. QED
  BY <1>5

\* Two such functions agree where both are defined.
LEMMA SumUnique ==
  ASSUME NEW f, NEW S, IsFiniteSet(S), NEW T, NEW U, NEW g, NEW h,
         IsSum(g, f, T), IsSum(h, f, U), S \subseteq T, S \subseteq U
  PROVE  g[S] = h[S]
<1> DEFINE P == {s \in SUBSET S : g[s] = h[s]}
<1>1. ASSUME NEW s \in SUBSET S, \A u \in SUBSET s : u # s => u \in P
      PROVE  s \in P
  <2>1. CASE s = {}
    BY <2>1 DEF IsSum
  <2>2. CASE s # {}
    <3> DEFINE r == s \ {Any(s)}
    <3>1. Any(s) \in s
      BY <2>2 DEF Any
    <3>2. r \in P
      BY <1>1, <3>1
    <3>3. /\ g[s] = f[Any(s)] + g[r]
          /\ h[s] = f[Any(s)] + h[r]
      BY <2>2 DEF IsSum
    <3>4. QED
      BY <3>2, <3>3
  <2>3. QED
    BY <2>1, <2>2
<1>2. S \in P
  <2> HIDE DEF P
  <2> QED BY <1>1, FiniteInduction
<1>3. QED
  BY <1>2

\* There is such a function.
LEMMA SumExists ==
  ASSUME NEW f, NEW S, IsFiniteSet(S)
  PROVE  \E g : IsSum(g, f, S)
<1> DEFINE P == {s \in SUBSET S : \E g : IsSum(g, f, s)}
           G(s) == CHOOSE g : IsSum(g, f, s)
<1>1. ASSUME NEW s \in SUBSET S, \A u \in SUBSET s : u # s => u \in P
      PROVE  s \in P
  <2> DEFINE g == [u \in SUBSET s |->
                     IF u = {} THEN 0
                     ELSE f[Any(u)] + G(u \ {Any(u)})[u \ {Any(u)}]]
  <2>1. ASSUME NEW u \in SUBSET s, u # s PROVE IsSum(G(u), f, u)
    BY <1>1, <2>1
  <2>2. ASSUME NEW u \in SUBSET s, u # s PROVE g[u] = G(u)[u]
    <3>1. CASE u = {}
      <4> DEFINE h == G(u)
      <4>1. IsSum(h, f, u)
        BY <2>1, <2>2
      <4> HIDE DEF h
      <4>2. h[u] = 0
        BY <3>1, <4>1 DEF IsSum
      <4>3. QED
        BY <3>1, <4>2 DEF h
    <3>2. CASE u # {}
      <4> DEFINE r == u \ {Any(u)}
      <4>1. Any(u) \in u
        BY <3>2 DEF Any
      <4>2. r \in SUBSET s /\ r # s /\ r \subseteq u /\ IsFiniteSet(r)
        BY <4>1, FS_Subset
      <4>3. IsSum(G(r), f, r) /\ IsSum(G(u), f, u)
        BY <2>1, <2>2, <4>2
      <4> HIDE DEF G
      <4>4. G(r)[r] = G(u)[r]
        <5> DEFINE a == G(r)
                   b == G(u)
        <5>1. IsSum(a, f, r) /\ IsSum(b, f, u)
          BY <4>3
        <5> HIDE DEF a, b
        <5>2. a[r] = b[r]
          BY <4>2, <5>1, SumUnique
        <5>3. QED
          BY <5>2 DEF a, b
      <4>5. G(u)[u] = f[Any(u)] + G(u)[r]
        BY <3>2, <4>3 DEF IsSum
      <4>6. g[u] = f[Any(u)] + G(r)[r]
        BY <3>2
      <4>7. QED
        BY <4>4, <4>5, <4>6
    <3>3. QED
      BY <3>1, <3>2
  <2>3. ASSUME NEW u \in SUBSET s, u # {}
        PROVE  g[u \ {Any(u)}] = G(u \ {Any(u)})[u \ {Any(u)}]
    <3>1. Any(u) \in u
      BY <2>3 DEF Any
    <3>2. u \ {Any(u)} \in SUBSET s /\ u \ {Any(u)} # s
      BY <3>1
    <3>3. QED
      BY <2>2, <3>2
  <2>4. IsSum(g, f, s)
    <3>1. \A u \in SUBSET s : g[u] = IF u = {} THEN 0
                                   ELSE f[Any(u)] + g[u \ {Any(u)}]
      <4>1. ASSUME NEW u \in SUBSET s, u # {}
            PROVE  g[u] = f[Any(u)] + g[u \ {Any(u)}]
        <5>1. g[u] = f[Any(u)] + G(u \ {Any(u)})[u \ {Any(u)}]
          BY <4>1
        <5>2. QED
          BY <2>3, <4>1, <5>1
      <4>2. g[{}] = 0
        OBVIOUS
      <4> HIDE DEF g
      <4>3. QED
        BY <4>1, <4>2
    <3>2. g = [u \in SUBSET s |-> g[u]]
      OBVIOUS
    <3> HIDE DEF g
    <3>3. QED
      BY <3>1, <3>2 DEF IsSum
  <2>5. QED
    BY <2>4
<1>2. S \in P
  <2> HIDE DEF P
  <2> QED BY <1>1, FiniteInduction
<1>3. QED
  BY <1>2

\* The same, of functions that are known to be sums over two sets that hold S.
BothSum(g, h, f, S, T, U) ==
  /\ IsFiniteSet(S) /\ S \subseteq T /\ S \subseteq U
  /\ IsSum(g, f, T) /\ IsSum(h, f, U)

LEMMA SumsAgree ==
  \A g, h, f, S, T, U : BothSum(g, h, f, S, T, U) => g[S] = h[S]
<1>1. ASSUME NEW g, NEW h, NEW f, NEW S, NEW T, NEW U, BothSum(g, h, f, S, T, U)
      PROVE  g[S] = h[S]
  <2>1. /\ IsFiniteSet(S) /\ S \subseteq T /\ S \subseteq U
        /\ IsSum(g, f, T) /\ IsSum(h, f, U)
    BY <1>1 DEF BothSum
  <2>2. QED
    BY <2>1, SumUnique
<1>2. QED
  BY <1>1

\* Hence the sum is what its recursion says.
LEMMA SumUnfolds ==
  ASSUME NEW f, NEW S, IsFiniteSet(S)
  PROVE  SumFunctionOnSet(f, S) = IF S = {} THEN 0
                       ELSE f[Any(S)] + SumFunctionOnSet(f, S \ {Any(S)})
<1> DEFINE g == CHOOSE g : IsSum(g, f, S)
           r == S \ {Any(S)}
           h == CHOOSE h : IsSum(h, f, r)
<1>1. IsSum(g, f, S)
  BY SumExists
<1>2. IsFiniteSet(r)
  BY FS_Subset
<1>3. IsSum(h, f, r)
  BY <1>2, SumExists
<1>4. SumFunctionOnSet(f, S) = g[S] /\ SumFunctionOnSet(f, r) = h[r]
  BY SumDef
<1> HIDE DEF g, h
<1>5. g[r] = h[r]
  <2>1. r \subseteq S /\ r \subseteq r
    OBVIOUS
  <2> HIDE DEF r
  <2>2. BothSum(g, h, f, r, S, r)
    BY <1>1, <1>2, <1>3, <2>1 DEF BothSum
  <2>3. QED
    BY <2>2, SumsAgree
<1>6. g[S] = IF S = {} THEN 0 ELSE f[Any(S)] + g[r]
  BY <1>1 DEF IsSum
<1>7. QED
  BY <1>4, <1>5, <1>6

\* The values over the elements of a set are what its sum depends on.
LEMMA SumSame ==
  ASSUME NEW f, NEW g, NEW S, IsFiniteSet(S), \A x \in S : f[x] = g[x]
  PROVE  SumFunctionOnSet(f, S) = SumFunctionOnSet(g, S)
<1> DEFINE P == {s \in SUBSET S : SumFunctionOnSet(f, s) = SumFunctionOnSet(g, s)}
<1>1. ASSUME NEW s \in SUBSET S, \A u \in SUBSET s : u # s => u \in P
      PROVE  s \in P
  <2>1. IsFiniteSet(s)
    BY FS_Subset
  <2>2. CASE s = {}
    BY <2>1, <2>2, SumUnfolds
  <2>3. CASE s # {}
    <3>1. Any(s) \in s
      BY <2>3 DEF Any
    <3>2. s \ {Any(s)} \in P
      BY <1>1, <3>1
    <3>3. f[Any(s)] = g[Any(s)]
      BY <3>1
    <3>4. QED
      BY <2>1, <2>3, <3>2, <3>3, SumUnfolds
  <2>4. QED
    BY <2>2, <2>3
<1>2. S \in P
  <2> HIDE DEF P
  <2> QED
    BY <1>1, FiniteInduction
<1>3. QED
  BY <1>2

\* A sum of integers is an integer, a sum of naturals a natural.
LEMMA SumType ==
  ASSUME NEW f, NEW S, IsFiniteSet(S), NEW N \in {Int, Nat}, \A x \in S : f[x] \in N
  PROVE  SumFunctionOnSet(f, S) \in N
<1> DEFINE P == {s \in SUBSET S : SumFunctionOnSet(f, s) \in N}
<1>1. ASSUME NEW s \in SUBSET S, \A u \in SUBSET s : u # s => u \in P
      PROVE  s \in P
  <2>1. IsFiniteSet(s)
    BY FS_Subset
  <2>2. CASE s = {}
    <3>1. SumFunctionOnSet(f, s) = 0
      BY <2>1, <2>2, SumUnfolds
    <3>2. 0 \in N
      OBVIOUS
    <3>3. QED
      BY <3>1, <3>2
  <2>3. CASE s # {}
    <3>1. Any(s) \in s
      BY <2>3 DEF Any
    <3>2. SumFunctionOnSet(f, s \ {Any(s)}) \in N /\ f[Any(s)] \in N
      BY <1>1, <3>1
    <3>3. SumFunctionOnSet(f, s)
            = f[Any(s)] + SumFunctionOnSet(f, s \ {Any(s)})
      BY <2>1, <2>3, SumUnfolds
    <3>4. CASE N = Int
      BY <3>2, <3>3, <3>4
    <3>5. CASE N = Nat
      BY <3>2, <3>3, <3>5
    <3>6. QED
      BY <3>4, <3>5
  <2>4. QED
    BY <2>2, <2>3
<1>2. S \in P
  <2> HIDE DEF P
  <2> QED
    BY <1>1, FiniteInduction
<1>3. QED
  BY <1>2

\* The order does not matter: any element may be taken out first.
LEMMA SumRemove ==
  ASSUME NEW f, NEW S, IsFiniteSet(S), \A x \in S : f[x] \in Int
  PROVE  \A x \in S : SumFunctionOnSet(f, S) = f[x] + SumFunctionOnSet(f, S \ {x})
<1> DEFINE T(s) == SumFunctionOnSet(f, s)
           P == {s \in SUBSET S : \A x \in s : T(s) = f[x] + T(s \ {x})}
<1>1. ASSUME NEW s \in SUBSET S, \A u \in SUBSET s : u # s => u \in P,
             NEW x \in s
      PROVE  T(s) = f[x] + T(s \ {x})
  <2>1. \A u \in SUBSET s : IsFiniteSet(u) /\ T(u) \in Int
    BY FS_Subset, SumType
  <2> DEFINE a == Any(s)
  <2>2. a \in s /\ T(s) = f[a] + T(s \ {a})
    BY <2>1, SumUnfolds DEF Any
  <2> HIDE DEF a
  <2>3. CASE x = a
    BY <2>2, <2>3
  <2>4. CASE x # a
    <3>1. T(s \ {a}) = f[x] + T((s \ {a}) \ {x})
      BY <1>1, <2>2, <2>4
    <3>2. T(s \ {x}) = f[a] + T((s \ {x}) \ {a})
      BY <1>1, <2>2, <2>4
    <3>3. (s \ {a}) \ {x} = (s \ {x}) \ {a}
      OBVIOUS
    <3> DEFINE v == T((s \ {x}) \ {a})
    <3>4. v \in Int /\ f[a] \in Int /\ f[x] \in Int
      BY <2>1, <2>2
    <3>5. T(s) = f[a] + (f[x] + v) /\ T(s \ {x}) = f[a] + v
      BY <2>2, <3>1, <3>2, <3>3
    <3> HIDE DEF v, T
    <3>6. QED
      BY <3>4, <3>5
  <2>5. QED
    BY <2>3, <2>4
<1>2. S \in P
  <2>1. ASSUME NEW s \in SUBSET S, \A u \in SUBSET s : u # s => u \in P
        PROVE  s \in P
    BY <1>1, <2>1
  <2> HIDE DEF P
  <2> QED
    BY <2>1, FiniteInduction
<1>3. QED
  BY <1>2

\* The sum over the union of two disjoint sets.
LEMMA SumUnion ==
  ASSUME NEW f, NEW S, NEW T, IsFiniteSet(S), IsFiniteSet(T), S \cap T = {},
         \A x \in S \cup T : f[x] \in Int
  PROVE  SumFunctionOnSet(f, S \cup T)
           = SumFunctionOnSet(f, S) + SumFunctionOnSet(f, T)
<1> DEFINE V(s) == SumFunctionOnSet(f, s)
           P == {s \in SUBSET S : V(s \cup T) = V(s) + V(T)}
<1>1. ASSUME NEW s \in SUBSET S, \A u \in SUBSET s : u # s => u \in P
      PROVE  s \in P
  <2>1. /\ IsFiniteSet(s) /\ IsFiniteSet(s \cup T)
        /\ V(T) \in Int /\ \A u \in SUBSET s : V(u) \in Int
    <3>1. \A u \in SUBSET S : IsFiniteSet(u)
      BY FS_Subset
    <3>2. QED
      BY <3>1, FS_Union, SumType
  <2>2. CASE s = {}
    <3>1. V(s) = 0 /\ s \cup T = T
      BY <2>1, <2>2, SumUnfolds
    <3>2. QED
      BY <2>1, <3>1
  <2>3. CASE s # {}
    <3>1. PICK x \in s : TRUE
      BY <2>3
    <3> DEFINE r == s \ {x}
    <3>2. V(r \cup T) = V(r) + V(T)
      BY <1>1
    <3>3. V(s) = f[x] + V(r)
      BY <2>1, SumRemove
    <3>4. (s \cup T) \ {x} = r \cup T
      OBVIOUS
    <3>5. V(s \cup T) = f[x] + V(r \cup T)
      <4>1. V(s \cup T) = f[x] + V((s \cup T) \ {x})
        BY <2>1, SumRemove
      <4>2. QED
        BY <3>4, <4>1
    <3>6. f[x] \in Int /\ V(r) \in Int
      BY <2>1
    <3>7. V(s \cup T) = V(s) + V(T)
      <4> DEFINE a == V(r)
                 b == V(T)
                 c == V(r \cup T)
                 d == V(s \cup T)
                 e == V(s)
      <4>1. /\ a \in Int /\ b \in Int /\ c = a + b /\ e = f[x] + a /\ d = f[x] + c
        BY <2>1, <3>2, <3>3, <3>5, <3>6
      <4> HIDE DEF a, b, c, d, e
      <4>2. d = e + b
        BY <3>6, <4>1
      <4>3. QED
        BY <4>2 DEF b, d, e
    <3>8. QED
      BY <3>7
  <2>4. QED
    BY <2>2, <2>3
<1>2. S \in P
  <2> HIDE DEF P
  <2> QED
    BY <1>1, FiniteInduction
<1>3. QED
  BY <1>2

\* A part of a set of naturals has no larger sum, and the rest is the difference.
LEMMA SumPart ==
  ASSUME NEW f, NEW S, IsFiniteSet(S), NEW T \in SUBSET S, \A x \in S : f[x] \in Nat
  PROVE  /\ SumFunctionOnSet(f, S)
              = SumFunctionOnSet(f, T) + SumFunctionOnSet(f, S \ T)
         /\ SumFunctionOnSet(f, T) <= SumFunctionOnSet(f, S)
<1>1. IsFiniteSet(T) /\ IsFiniteSet(S \ T) /\ T \cup (S \ T) = S
  BY FS_Subset
<1>2. /\ SumFunctionOnSet(f, T) \in Nat
      /\ SumFunctionOnSet(f, S \ T) \in Nat
  BY <1>1, SumType
<1>3. SumFunctionOnSet(f, T \cup (S \ T))
        = SumFunctionOnSet(f, T) + SumFunctionOnSet(f, S \ T)
  <2> DEFINE R == S \ T
  <2>1. T \cap R = {} /\ \A x \in T \cup R : f[x] \in Int
    OBVIOUS
  <2>2. IsFiniteSet(T) /\ IsFiniteSet(R)
    BY <1>1
  <2> HIDE DEF R
  <2>3. SumFunctionOnSet(f, T \cup R)
          = SumFunctionOnSet(f, T) + SumFunctionOnSet(f, R)
    BY <2>1, <2>2, SumUnion
  <2>4. QED
    BY <2>3 DEF R
<1>4. SumFunctionOnSet(f, S)
        = SumFunctionOnSet(f, T) + SumFunctionOnSet(f, S \ T)
  BY <1>1, <1>3
<1> DEFINE a == SumFunctionOnSet(f, T)
           b == SumFunctionOnSet(f, S \ T)
<1>5. a \in Nat /\ b \in Nat /\ SumFunctionOnSet(f, S) = a + b
  BY <1>2, <1>4
<1> HIDE DEF a, b
<1>6. a <= SumFunctionOnSet(f, S)
  BY <1>5
<1>7. QED
  BY <1>4, <1>6 DEF a

\* A finite set of naturals has a least and a greatest element.
LEMMA Extremes ==
  ASSUME NEW S, IsFiniteSet(S), S \subseteq Nat, S # {}
  PROVE  /\ \E m \in S : \A x \in S : m <= x
         /\ \E m \in S : \A x \in S : x <= m
<1> DEFINE P == {T \in SUBSET S : T # {} => \E m, k \in T : \A x \in T : m <= x /\ x <= k}
<1>1. ASSUME NEW T \in SUBSET S, \A U \in SUBSET T : U # T => U \in P
      PROVE  T \in P
  <2> SUFFICES ASSUME T # {} PROVE \E m, k \in T : \A x \in T : m <= x /\ x <= k
    OBVIOUS
  <2>1. PICK a \in T : TRUE
    OBVIOUS
  <2>2. T \ {a} \in P
    BY <1>1
  <2>3. CASE T \ {a} = {}
    <3>1. a \in Nat /\ \A x \in T : x = a
      BY <2>3
    <3>2. QED
      BY <3>1
  <2>4. CASE T \ {a} # {}
    <3>1. PICK m, k \in T \ {a} : \A x \in T \ {a} : m <= x /\ x <= k
      BY <2>2, <2>4
    <3>2. a \in Nat /\ m \in Nat /\ k \in Nat /\ T \subseteq Nat
      OBVIOUS
    <3> DEFINE lo == IF a <= m THEN a ELSE m
               hi == IF k <= a THEN a ELSE k
    <3>3. lo \in T /\ hi \in T
      OBVIOUS
    <3>4. ASSUME NEW x \in T PROVE lo <= x /\ x <= hi
      <4>1. CASE x = a
        BY <3>2, <4>1
      <4>2. CASE x # a
        <5>1. m <= x /\ x <= k /\ x \in Nat
          BY <3>1, <4>2
        <5>2. QED
          BY <3>2, <5>1
      <4>3. QED
        BY <4>1, <4>2
    <3> HIDE DEF lo, hi
    <3>5. QED
      BY <3>3, <3>4
  <2>5. QED
    BY <2>3, <2>4
<1>2. S \in P
  <2> HIDE DEF P
  <2> QED
    BY <1>1, FiniteInduction
<1>3. QED
  BY <1>2

-----------------------------------------------------------------------------
(***************************************************************************)
(* Types.                                                                  *)
(***************************************************************************)

\* The constants, one by one.
LEMMA Constants ==
  /\ Width \in Nat /\ Height \in Nat /\ FullVotes \in Nat
  /\ RectangleSize \in Nat /\ OutlineSize \in Nat /\ MaxRenders \in Nat
  /\ NaN \notin Int
BY ConstantsAssumption

\* The loaded tree: its nodes and the children of a node are finitely many, the
\* root has one child, and a polling place has none.
LEMMA TreeNodes ==
  ASSUME tree \in Trees
  PROVE  /\ 0 \in Nodes /\ Nodes \subseteq Nat /\ IsFiniteSet(Nodes)
         /\ \A n : Children(n) \subseteq Nodes \ {0} /\ IsFiniteSet(Children(n))
         /\ \A n \in Nodes : n \notin Children(n)
         /\ \A n \in Nodes : \A c \in Children(n) :
              tree.parent[c] = n /\ tree.level[c] = tree.level[n] + 1
         /\ \A n \in Nodes : Class(n) = Leaf =>
              /\ Children(n) = {} /\ n # 0
              /\ tree.data[n].votes \in Nat /\ tree.data[n].ur \in Nat
              /\ tree.data[n].urProjected \in Nat
         /\ FirstChild \in Nodes \ {0} /\ Children(0) = {FirstChild}
<1>1. /\ tree.size \in Nat \ {0, 1} /\ tree.depth \in Nat
      /\ \A n \in Nodes : tree.level[n] \in 0 .. tree.depth
      /\ \A n \in Nodes \ {0} : tree.level[n] = tree.level[tree.parent[n]] + 1
      /\ \A n \in Nodes : tree.class[n] = "root" <=> n = 0
  BY TreeFacts DEF Nodes
<1>2. IsTree(tree)
  BY TreesAreFlat
<1>3. /\ \A n \in 1 .. tree.size - 1 : tree.class[tree.parent[n]] # Leaf
      /\ \A n \in 0 .. tree.size - 1 : tree.class[n] = Leaf =>
           {tree.data[n].votes, tree.data[n].ur, tree.data[n].urProjected}
             \subseteq Nat
      /\ \E c \in 1 .. tree.size - 1 :
           {n \in 1 .. tree.size - 1 : tree.parent[n] = 0} = {c}
  BY <1>2 DEF IsTree
<1>4. 0 \in Nodes /\ Nodes \subseteq Nat /\ Nodes \ {0} = 1 .. tree.size - 1
  BY <1>1 DEF Nodes
<1>5. IsFiniteSet(Nodes)
  BY <1>1, FS_Interval DEF Nodes
<1>6. \A n : Children(n) \subseteq Nodes \ {0} /\ IsFiniteSet(Children(n))
  BY <1>5, FS_Subset DEF Children
<1>7. \A n \in Nodes : \A c \in Children(n) :
        tree.parent[c] = n /\ tree.level[c] = tree.level[n] + 1
  BY <1>1 DEF Children
<1>8. \A n \in Nodes : n \notin Children(n)
  <2>1. \A n \in Nodes : tree.level[n] \in Nat
    BY <1>1
  <2>2. QED
    BY <1>7, <2>1
<1>9. \A n \in Nodes : Class(n) = Leaf =>
        /\ Children(n) = {} /\ n # 0
        /\ tree.data[n].votes \in Nat /\ tree.data[n].ur \in Nat
        /\ tree.data[n].urProjected \in Nat
  BY <1>1, <1>3, <1>4 DEF Children, Class, Leaf, Nodes
<1>10. FirstChild \in Nodes \ {0} /\ Children(0) = {FirstChild}
  <2>1. PICK c \in Nodes \ {0} : Children(0) = {c}
    BY <1>3, <1>4 DEF Children
  <2>2. FirstChild = c
    BY <1>4, <2>1 DEF FirstChild, Min
  <2>3. QED
    BY <2>1, <2>2
<1>11. QED
  BY <1>4, <1>5, <1>6, <1>7, <1>8, <1>9, <1>10

\* A number of the layout: an integer, or the 0 / 0 of an empty container.
Number == Int \cup {NaN}

\* The arithmetic of the visits stays in the integers and NaN.
LEMMA ArithmeticTypes ==
  /\ \A a, b \in Number : Plus(a, b) \in Number /\ Minus(a, b) \in Number
  /\ \A part, whole \in Nat, v \in Number : Scale(part, whole, v) \in Number
<1>1. ASSUME NEW a \in Number, NEW b \in Number
      PROVE  Plus(a, b) \in Number /\ Minus(a, b) \in Number
  <2>1. CASE NaN \in {a, b}
    BY <2>1 DEF Plus, Minus, Number
  <2>2. CASE NaN \notin {a, b}
    <3>1. a \in Int /\ b \in Int
      BY <2>2 DEF Number
    <3>2. QED
      BY <2>2, <3>1 DEF Plus, Minus, Number
  <2>3. QED
    BY <2>1, <2>2
<1>2. ASSUME NEW part \in Nat, NEW whole \in Nat, NEW v \in Number
      PROVE  Scale(part, whole, v) \in Number
  <2>1. CASE v = NaN \/ whole = 0
    BY <2>1 DEF Scale, Number
  <2>2. CASE ~(v = NaN \/ whole = 0)
    <3>1. v \in Int /\ whole \in Nat \ {0}
      BY <2>2 DEF Number
    <3>2. part * v \in Int
      BY <3>1
    <3>3. (part * v) \div whole \in Int
      BY <3>1, <3>2
    <3>4. QED
      BY <2>2, <3>3 DEF Scale, Number
  <2>3. QED
    BY <2>1, <2>2
<1>3. QED
  BY <1>1, <1>2

\* A fold over the children gives a number; every child is NaN when one is.
LEMMA RollType ==
  ASSUME tree \in Trees, NEW n \in Nodes, NEW c \in Children(n), NEW init \in Number,
         NEW val, \A d \in Children(n) : val[d] \in Number,
         val[c] # NaN => \A d \in Children(n) : val[d] # NaN
  PROVE  /\ Roll(init, c, val) \in Number
         /\ init # NaN /\ val[c] # NaN =>
              Roll(init, c, val)
                = init + SumFunctionOnSet(val, {d \in Children(n) : d <= c})
<1> DEFINE before == {d \in Children(n) : d <= c}
<1>1. tree.parent[c] = n /\ IsFiniteSet(before)
  BY TreeNodes, FS_Subset
<1>2. CASE init = NaN \/ val[c] = NaN
  BY <1>2 DEF Roll, Number
<1>3. CASE ~(init = NaN \/ val[c] = NaN)
  <2>1. \A d \in before : val[d] \in Int
    BY <1>3 DEF Number
  <2>2. Roll(init, c, val) = init + SumFunctionOnSet(val, before)
    BY <1>1, <1>3, Zenon DEF Roll
  <2>3. SumFunctionOnSet(val, before) \in Int
    <3> HIDE DEF before
    <3> QED
      BY <1>1, <2>1, SumType
  <2> DEFINE s == SumFunctionOnSet(val, before)
  <2>4. init \in Int /\ s \in Int /\ Roll(init, c, val) = init + s
    BY <1>3, <2>2, <2>3 DEF Number
  <2> HIDE DEF s
  <2>5. Roll(init, c, val) \in Number
    BY <2>4 DEF Number
  <2>6. QED
    BY <2>2, <2>5
<1>4. QED
  BY <1>2, <1>3

\* The record of a leaf's totals.
LEMMA LeafTotalsType ==
  ASSUME tree \in Trees, NEW n \in Nodes, Class(n) = Leaf
  PROVE  LeafTotals(n) \in [mag : Nat, ur : Nat]
BY TreeNodes DEF LeafTotals

\* Boxes.
LEMMA BoxTypes ==
  ASSUME NEW g \in Box
  PROVE  /\ g.x \in Number /\ g.y \in Number /\ g.w \in Number
         /\ g.h \in Number /\ g.by \in Number /\ g.rx \in Number
         /\ \A a, b, c, d \in Number :
              /\ [g EXCEPT !.x = a, !.y = b] \in Box
              /\ [g EXCEPT !.by = a, !.rx = b] \in Box
              /\ [g EXCEPT !.h = a, !.w = b] \in Box
              /\ [g EXCEPT !.h = a, !.w = b, !.by = c, !.rx = d] \in Box
              /\ [g EXCEPT !.w = a, !.h = b, !.rx = c, !.by = d] \in Box
<1> DEFINE B == [x : Number, y : Number, w : Number, h : Number, by : Number, rx : Number]
<1>1. Box = B
  BY DEF Box, Number
<1> HIDE DEF Number
<1>2. g \in B
  BY <1>1
<1>3. /\ g.x \in Number /\ g.y \in Number /\ g.w \in Number
      /\ g.h \in Number /\ g.by \in Number /\ g.rx \in Number
  BY <1>2
<1>4. \A a, b, c, d \in Number :
        /\ [g EXCEPT !.x = a, !.y = b] \in B
        /\ [g EXCEPT !.by = a, !.rx = b] \in B
        /\ [g EXCEPT !.h = a, !.w = b] \in B
  BY <1>2
<1>5. \A a, b, c, d \in Number :
        /\ [g EXCEPT !.h = a, !.w = b, !.by = c, !.rx = d] \in B
        /\ [g EXCEPT !.w = a, !.h = b, !.rx = c, !.by = d] \in B
  BY <1>2
<1> HIDE DEF B
<1>6. QED
  BY <1>1, <1>3, <1>4, <1>5

\* The types of the fields alone.
FieldTypes ==
  /\ inh \in [Nodes -> Inputs \cup {ZeroInput}]
  /\ tot \in [Nodes -> [mag : Nat, ur : Nat]]
  /\ geo \in [Nodes -> Box]
  /\ self \in [Nodes -> Nat] /\ rsize \in [Nodes -> Nat] /\ right \in [Nodes -> Int]

\* Vertex counts are naturals.
LEMMA SizeType ==
  /\ Size(RectangleSize) \in Nat /\ Size(OutlineSize) \in Nat
BY Constants DEF Size

\* A change of one edge or one side of one node.
LEMMA EditTypes ==
  ASSUME tree \in Trees, NEW g \in [Nodes -> Box], NEW c \in Nodes, NEW a \in Number
  PROVE  /\ [g EXCEPT ![c].by = a] \in [Nodes -> Box]
         /\ [g EXCEPT ![c].rx = a] \in [Nodes -> Box]
         /\ [g EXCEPT ![c].h = a] \in [Nodes -> Box]
         /\ [g EXCEPT ![c].w = a] \in [Nodes -> Box]
<1>1. g[c] \in Box
  OBVIOUS
<1>2. /\ [g[c] EXCEPT !.by = a] \in Box /\ [g[c] EXCEPT !.rx = a] \in Box
      /\ [g[c] EXCEPT !.h = a] \in Box /\ [g[c] EXCEPT !.w = a] \in Box
  BY <1>1 DEF Box, Number
<1>3. QED
  BY <1>2

\* visit_*_0 keeps the types: inputs are copied, totals of a leaf are naturals.
LEMMA Visit0Types ==
  ASSUME tree \in Trees, tree' = tree, input \in Inputs, FieldTypes,
         NEW n \in Nodes, visit_0(n)
  PROVE  FieldTypes'
<1>1. Nodes' = Nodes
  BY DEF Nodes
<1>2. inh' \in [Nodes -> Inputs \cup {ZeroInput}]
  BY DEF visit_0, FieldTypes
<1>3. tot' \in [Nodes -> [mag : Nat, ur : Nat]]
  <2>1. Class(n) = Leaf => LeafTotals(n) \in [mag : Nat, ur : Nat]
    BY LeafTotalsType
  <2>2. QED
    BY <2>1 DEF visit_0, FieldTypes
<1>4. geo' \in [Nodes -> Box]
  <2>1. CASE n = 0
    <3> DEFINE g == [geo EXCEPT ![FirstChild].by = Height]
    <3>1. FirstChild \in Nodes /\ Width \in Number /\ Height \in Number
      BY TreeNodes, Constants DEF Number
    <3>2. g \in [Nodes -> Box]
      BY <3>1, EditTypes DEF FieldTypes
    <3>3. geo' = [geo EXCEPT ![FirstChild].by = Height, ![FirstChild].rx = Width]
      BY <2>1 DEF visit_0
    <3>4. geo' = [g EXCEPT ![FirstChild].rx = Width]
      BY <3>3
    <3> HIDE DEF g
    <3>5. QED
      BY <3>1, <3>2, <3>4, EditTypes
  <2>2. CASE n # 0
    BY <2>2 DEF visit_0, FieldTypes
  <2>3. QED
    BY <2>1, <2>2
<1>5. self' \in [Nodes -> Nat] /\ rsize' \in [Nodes -> Nat] /\ right' \in [Nodes -> Int]
  BY DEF visit_0, FieldTypes
<1>6. QED
  BY <1>1, <1>2, <1>3, <1>4, <1>5 DEF FieldTypes

\* visit_*_1 keeps the types: sums of naturals are naturals.
LEMMA Visit1Types ==
  ASSUME tree \in Trees, tree' = tree, input \in Inputs, FieldTypes,
         NEW n \in Nodes, visit_1(n)
  PROVE  FieldTypes'
<1>1. Nodes' = Nodes
  BY DEF Nodes
<1> DEFINE mags == [c \in Children(n) |-> tot[c].mag]
           urs  == [c \in Children(n) |-> tot[c].ur]
           sum  == [mag |-> SumFunction(mags), ur |-> SumFunction(urs)]
<1>2. sum \in [mag : Nat, ur : Nat]
  <2>1. \A c \in Children(n) : c \in Nodes
    BY TreeNodes
  <2>2. IsFiniteSet(Children(n))
    BY TreeNodes
  <2>3. /\ \A c \in Children(n) : mags[c] \in Nat /\ urs[c] \in Nat
        /\ DOMAIN mags = Children(n) /\ DOMAIN urs = Children(n)
    BY <2>1 DEF FieldTypes
  <2> HIDE DEF mags, urs
  <2>4. SumFunctionOnSet(mags, Children(n)) \in Nat
        /\ SumFunctionOnSet(urs, Children(n)) \in Nat
    BY <2>2, <2>3, SumType
  <2>5. QED
    BY <2>3, <2>4 DEF SumFunction
<1>3. tot' = IF Class(n) = Leaf THEN tot ELSE [tot EXCEPT ![n] = sum]
  BY DEF visit_1
<1> HIDE DEF sum
<1>4. tot' \in [Nodes -> [mag : Nat, ur : Nat]]
  BY <1>2, <1>3 DEF FieldTypes
<1>5. geo' \in [Nodes -> Box]
  <2>1. CASE n = 0
    <3> DEFINE m == tot[FirstChild].mag
               a == Scale(m, FullVotes, Height)
               b == IF input.fixWidth THEN Width ELSE Scale(m, FullVotes, Width)
               g == [geo EXCEPT ![FirstChild].h = a]
    <3>1. FirstChild \in Nodes /\ Width \in Number /\ Height \in Number
      BY TreeNodes, Constants DEF Number
    <3>2. m \in Nat
      BY <3>1 DEF FieldTypes
    <3>3. a \in Number /\ b \in Number
      <4> HIDE DEF m
      <4> QED
        BY <3>1, <3>2, Constants, ArithmeticTypes
    <3>4. geo' = [geo EXCEPT ![FirstChild].h = a, ![FirstChild].w = b]
      BY <2>1 DEF visit_1
    <3> HIDE DEF a, b
    <3>5. g \in [Nodes -> Box]
      BY <3>1, <3>3, EditTypes DEF FieldTypes
    <3>6. geo' = [g EXCEPT ![FirstChild].w = b]
      BY <3>4
    <3> HIDE DEF g
    <3>7. QED
      BY <3>1, <3>3, <3>5, <3>6, EditTypes
  <2>2. CASE n # 0
    BY <2>2 DEF visit_1, FieldTypes
  <2>3. QED
    BY <2>1, <2>2
<1>6. inh' = inh /\ self' = self /\ rsize' = rsize /\ right' = right
  BY DEF visit_1
<1>7. QED
  BY <1>1, <1>4, <1>5, <1>6 DEF FieldTypes

\* The share of a child: a number, and the children of one node have undefined
\* shares together.
LEMMA ShareTypes ==
  ASSUME tree \in Trees, FieldTypes, NEW n \in Nodes, NEW v \in Number,
         NEW c \in Children(n), NEW init \in Number
  PROVE  LET s == [d \in Children(n) |-> Scale(tot[d].mag, tot[n].mag, v)] IN
         s[c] \in Number /\ Roll(init, c, s) \in Number
<1> DEFINE s == [d \in Children(n) |-> Scale(tot[d].mag, tot[n].mag, v)]
<1>1. \A d \in Nodes : tot[d].mag \in Nat
  BY DEF FieldTypes
<1>2. \A d \in Children(n) : d \in Nodes
  BY TreeNodes
<1>3. \A d \in Children(n) : s[d] \in Number
  BY <1>1, <1>2, ArithmeticTypes
<1>4. ASSUME s[c] # NaN, NEW d \in Children(n) PROVE s[d] # NaN
  <2>1. v # NaN /\ tot[n].mag # 0
    BY <1>4 DEF Scale
  <2>2. v \in Int /\ tot[n].mag \in Nat \ {0} /\ tot[d].mag \in Int
    BY <1>1, <1>2, <2>1 DEF Number
  <2>3. tot[d].mag * v \in Int
    BY <2>2
  <2>4. (tot[d].mag * v) \div tot[n].mag \in Int
    BY <2>2, <2>3
  <2>5. s[d] = (tot[d].mag * v) \div tot[n].mag
    BY <2>1 DEF Scale
  <2>6. QED
    BY <2>4, <2>5, Constants
<1> HIDE DEF s
<1>5. Roll(init, c, s) \in Number
  BY <1>3, <1>4, RollType
<1>6. s[c] \in Number /\ Roll(init, c, s) \in Number
  BY <1>3, <1>5
<1>7. QED
  BY <1>6 DEF s

\* visit_*_2 keeps the types of the boxes and of the vertex counts.
LEMMA Visit2Types ==
  ASSUME tree \in Trees, tree' = tree, input \in Inputs, FieldTypes,
         NEW n \in Nodes, visit_2(n)
  PROVE  FieldTypes'
<1>1. Nodes' = Nodes
  BY DEF Nodes
<1>2. \A c \in Nodes : geo[c] \in Box
  BY DEF FieldTypes
<1>3. Placed(n) \in Box
  <2>1. geo[n] \in Box
    BY <1>2
  <2>2. /\ Minus(geo[n].rx, geo[n].w) \in Number
        /\ Minus(geo[n].by, geo[n].h) \in Number
    BY <2>1, BoxTypes, ArithmeticTypes
  <2>3. QED
    BY <2>1, <2>2, BoxTypes DEF Placed
<1> DEFINE g == Placed(n)
<1>4. /\ g.x \in Number /\ g.y \in Number /\ g.w \in Number /\ g.h \in Number
      /\ Plus(g.y, g.h) \in Number /\ Plus(g.x, g.w) \in Number
  <2>1. g.x \in Number /\ g.y \in Number /\ g.w \in Number /\ g.h \in Number
    BY <1>3, BoxTypes
  <2>2. QED
    BY <2>1, ArithmeticTypes
<1>5. ASSUME NEW c \in Children(n) PROVE Side(n, c) \in Box
  <2> DEFINE w == [d \in Children(n) |-> Scale(tot[d].mag, tot[n].mag, g.w)]
  <2>1. w[c] \in Number /\ Roll(g.x, c, w) \in Number
    BY <1>4, ShareTypes
  <2>2. geo[c] \in Box
    BY <1>2, TreeNodes
  <2> DEFINE from == geo[c]
             p == g.h
             q == w[c]
             r == Plus(g.y, g.h)
             t == Roll(g.x, c, w)
  <2>3. Side(n, c) = [from EXCEPT !.h = p, !.w = q, !.by = r, !.rx = t]
    BY DEF Side
  <2>4. from \in Box /\ p \in Number /\ q \in Number /\ r \in Number /\ t \in Number
    BY <1>4, <2>1, <2>2
  <2> HIDE DEF w, g, from, p, q, r, t
  <2>5. [from EXCEPT !.h = p, !.w = q, !.by = r, !.rx = t] \in Box
    BY <2>4, BoxTypes
  <2>6. QED
    BY <2>3, <2>5
<1>6. ASSUME NEW c \in Children(n) PROVE Stack(n, c) \in Box
  <2> DEFINE h == [d \in Children(n) |-> Scale(tot[d].mag, tot[n].mag, g.h)]
  <2>1. h[c] \in Number /\ Roll(g.y, c, h) \in Number
    BY <1>4, ShareTypes
  <2>2. geo[c] \in Box
    BY <1>2, TreeNodes
  <2> DEFINE from == geo[c]
             p == g.w
             q == h[c]
             r == Plus(g.x, g.w)
             t == Roll(g.y, c, h)
  <2>3. Stack(n, c) = [from EXCEPT !.w = p, !.h = q, !.rx = r, !.by = t]
    BY DEF Stack
  <2>4. from \in Box /\ p \in Number /\ q \in Number /\ r \in Number /\ t \in Number
    BY <1>4, <2>1, <2>2
  <2> HIDE DEF h, g, from, p, q, r, t
  <2>5. [from EXCEPT !.w = p, !.h = q, !.rx = r, !.by = t] \in Box
    BY <2>4, BoxTypes
  <2>6. QED
    BY <2>3, <2>5
<1>7. geo' \in [Nodes -> Box]
  <2>1. CASE n = 0
    BY <2>1 DEF visit_2, FieldTypes
  <2>2. CASE n # 0
    <3>1. geo' = [c \in Nodes |->
                    CASE c = n -> Placed(n)
                      [] c \in Children(n) /\ Class(n) \in Horizontal -> Side(n, c)
                      [] c \in Children(n) /\ Class(n) \in Vertical -> Stack(n, c)
                      [] OTHER -> geo[c]]
      BY <2>2 DEF visit_2
    <3>2. n \notin Children(n)
      BY TreeNodes
    <3>3. Class(n) \in Horizontal => Class(n) \notin Vertical
      BY DEF Horizontal, Vertical, Outlined
    <3>4. ASSUME NEW c \in Nodes PROVE geo'[c] \in Box
      <4>1. CASE c = n
        BY <1>3, <3>1, <3>2, <4>1
      <4>2. CASE c \in Children(n) /\ Class(n) \in Horizontal
        <5>1. geo'[c] = Side(n, c)
          BY <3>1, <3>2, <3>3, <4>2
        <5>2. QED
          BY <1>5, <4>2, <5>1
      <4>3. CASE c \in Children(n) /\ Class(n) \in Vertical
        <5>1. geo'[c] = Stack(n, c)
          BY <3>1, <3>2, <3>3, <4>3
        <5>2. QED
          BY <1>6, <4>3, <5>1
      <4>4. CASE ~(c = n) /\ ~(c \in Children(n) /\ Class(n) \in Horizontal)
                          /\ ~(c \in Children(n) /\ Class(n) \in Vertical)
        <5>1. geo'[c] = geo[c]
          BY <3>1, <4>4
        <5>2. QED
          BY <1>2, <5>1
      <4>5. QED
        BY <4>1, <4>2, <4>3, <4>4
    <3>5. geo' = [c \in Nodes |-> geo'[c]]
      BY <3>1
    <3>6. QED
      BY <3>4, <3>5
  <2>3. QED
    BY <2>1, <2>2
<1>8. self' \in [Nodes -> Nat] /\ rsize' \in [Nodes -> Nat]
  <2>1. rsize' = IF Class(n) = Leaf THEN [rsize EXCEPT ![n] = Size(RectangleSize)]
                 ELSE rsize
    BY DEF visit_2
  <2>2. rsize' \in [Nodes -> Nat]
    BY <2>1, SizeType DEF FieldTypes
  <2>3. self' = CASE Class(n) = Leaf -> [self EXCEPT ![n] = Size(RectangleSize)]
                  [] Class(n) \in Outlined ->
                       [self EXCEPT ![n] = IF inh[n].fixWidth THEN Size(OutlineSize) ELSE 0]
                  [] OTHER -> self
    BY DEF visit_2
  <2>4. self \in [Nodes -> Nat]
    BY DEF FieldTypes
  <2>5. Leaf \notin Outlined
    BY DEF Leaf, Outlined
  <2>6. CASE Class(n) = Leaf
    <3>1. self' = [self EXCEPT ![n] = Size(RectangleSize)]
      BY <2>3, <2>5, <2>6
    <3>2. QED
      BY <2>2, <2>4, <3>1, SizeType
  <2>7. CASE Class(n) \in Outlined
    <3>1. self' = [self EXCEPT ![n] = IF inh[n].fixWidth THEN Size(OutlineSize) ELSE 0]
      BY <2>3, <2>5, <2>7
    <3>2. QED
      BY <2>2, <2>4, <3>1, SizeType
  <2>8. CASE Class(n) # Leaf /\ Class(n) \notin Outlined
    <3>1. self' = self
      BY <2>3, <2>8
    <3>2. QED
      BY <2>2, <2>4, <3>1
  <2>9. QED
    BY <2>6, <2>7, <2>8
<1>9. inh' = inh /\ tot' = tot /\ right' = right
  BY DEF visit_2
<1>10. QED
  BY <1>1, <1>7, <1>8, <1>9 DEF FieldTypes

\* visit_*_3 keeps the types: a sum of vertex counts is a natural.
LEMMA Visit3Types ==
  ASSUME tree \in Trees, tree' = tree, FieldTypes, NEW n \in Nodes, visit_3(n)
  PROVE  FieldTypes'
<1>1. Nodes' = Nodes
  BY DEF Nodes
<1>2. rsize \in [Nodes -> Nat] /\ self \in [Nodes -> Nat] /\ right \in [Nodes -> Int]
  BY DEF FieldTypes
<1>3. SumFunctionOnSet(rsize, Children(n)) \in Nat
  BY <1>2, TreeNodes, SumType
<1>4. rsize' = IF Class(n) = Leaf THEN rsize ELSE
                [rsize EXCEPT ![n] = self[n] + SumFunctionOnSet(rsize, Children(n))]
  BY DEF visit_3
<1>5. rsize' \in [Nodes -> Nat]
  <2> DEFINE s == SumFunctionOnSet(rsize, Children(n))
  <2>1. self[n] + s \in Nat
    <3>1. s \in Nat /\ self[n] \in Nat
      BY <1>2, <1>3
    <3> HIDE DEF s
    <3>2. QED
      BY <3>1
  <2>2. rsize' = IF Class(n) = Leaf THEN rsize ELSE [rsize EXCEPT ![n] = self[n] + s]
    BY <1>4
  <2> HIDE DEF s
  <2>3. QED
    BY <1>2, <2>1, <2>2
<1>6. right' \in [Nodes -> Int]
  <2>1. right' = IF n = 0 THEN [right EXCEPT ![0] = rsize'[0],
                                            ![FirstChild] = rsize[FirstChild]]
                ELSE right
    BY DEF visit_3
  <2>2. rsize'[0] \in Int /\ rsize[FirstChild] \in Int
    BY <1>2, <1>5, TreeNodes
  <2>3. QED
    BY <1>2, <2>1, <2>2
<1>7. inh' = inh /\ tot' = tot /\ geo' = geo /\ self' = self
  BY DEF visit_3
<1>8. QED
  BY <1>1, <1>2, <1>5, <1>6, <1>7 DEF FieldTypes

\* What visit_*_4 hands to a child is no NaN.
LEMMA Visit4Roll ==
  ASSUME tree \in Trees, FieldTypes, NEW n \in Nodes, NEW c \in Children(n),
         NEW init \in Int
  PROVE  /\ Roll(init, c, rsize) \in Int
         /\ Roll(init, c, rsize)
              = init + SumFunctionOnSet(rsize, {d \in Children(n) : d <= c})
<1> DEFINE before == {d \in Children(n) : d <= c}
           s == SumFunctionOnSet(rsize, before)
<1>1. \A d \in Children(n) : rsize[d] \in Nat
  BY TreeNodes DEF FieldTypes
<1>2. IsFiniteSet(before)
  BY TreeNodes, FS_Subset
<1>3. tree.parent[c] = n
  BY TreeNodes
<1>4. Roll(init, c, rsize) = init + s
  <2>1. init # NaN /\ rsize[c] # NaN
    BY <1>1, Constants
  <2>2. QED
    BY <1>3, <2>1, Zenon DEF Roll
<1>5. s \in Nat
  <2>1. \A d \in before : rsize[d] \in Nat
    BY <1>1
  <2> HIDE DEF before
  <2>2. QED
    BY <1>2, <2>1, SumType
<1>6. QED
  <2> HIDE DEF s
  <2>1. Roll(init, c, rsize) \in Int
    BY <1>4, <1>5
  <2>2. QED
    BY <1>4, <2>1 DEF s

\* visit_*_4 keeps the types: an offset into the buffer is never NaN.
LEMMA Visit4Types ==
  ASSUME tree \in Trees, tree' = tree, FieldTypes, NEW n \in Nodes, visit_4(n)
  PROVE  FieldTypes'
<1>1. Nodes' = Nodes
  BY DEF Nodes
<1>2. rsize[n] \in Int /\ self[n] \in Int /\ right[n] \in Int
  BY DEF FieldTypes
<1> DEFINE start == renderOffset(n) + self[n]
<1>3. start \in Int
  BY <1>2 DEF renderOffset
<1>4. right' = IF n = 0 THEN right ELSE
                [c \in Nodes |-> IF c \in Children(n) THEN Roll(start, c, rsize)
                                                      ELSE right[c]]
  BY DEF visit_4
<1> HIDE DEF start
<1>5. \A c \in Children(n) : Roll(start, c, rsize) \in Int
  BY <1>3, Visit4Roll
<1>6. right' \in [Nodes -> Int]
  BY <1>4, <1>5 DEF FieldTypes
<1>7. inh' = inh /\ tot' = tot /\ geo' = geo /\ self' = self /\ rsize' = rsize
  BY DEF visit_4
<1>8. QED
  BY <1>1, <1>6, <1>7 DEF FieldTypes

\* Nothing is left to visit outside a traversal.
Quiet == phase # "pass" => todo = {}

\* The control variables: what TypeOK says apart from the fields.
ControlTypes ==
  /\ tree \in Trees /\ ignoreCL \in BOOLEAN /\ input \in Inputs
  /\ phase \in {"idle", "pass", "alloc", "share", "frame"}
  /\ pass \in 0 .. 4 /\ level \in Nat /\ todo \subseteq Nodes /\ ok \in BOOLEAN
  /\ vbo \in [id : Nat, size : Nat] /\ num_vertices \in Nat
  /\ clVBO \in Nat \cup {None} /\ renders \in 0 .. MaxRenders

TypeInv == ControlTypes /\ FieldTypes /\ Quiet

\* Memory of a tree that has just been loaded.
LEMMA BlankTypes ==
  ASSUME NEW t \in Trees, tree' = t,
         inh' = Blank(t, ZeroInput), tot' = Blank(t, [mag |-> 0, ur |-> 0]),
         geo' = Blank(t, ZeroBox),
         self' = Blank(t, 0), rsize' = Blank(t, 0), right' = Blank(t, 0)
  PROVE  FieldTypes'
<1>1. ZeroBox \in Box
  BY DEF ZeroBox, Box
<1>2. Nodes' = 0 .. t.size - 1
  BY DEF Nodes
<1>3. geo' \in [0 .. t.size - 1 -> Box]
  BY <1>1 DEF Blank
<1>4. inh' \in [0 .. t.size - 1 -> Inputs \cup {ZeroInput}]
  BY DEF Blank
<1>5. tot' \in [0 .. t.size - 1 -> [mag : Nat, ur : Nat]]
  BY DEF Blank
<1>6. /\ self' \in [0 .. t.size - 1 -> Nat] /\ rsize' \in [0 .. t.size - 1 -> Nat]
      /\ right' \in [0 .. t.size - 1 -> Int]
  BY DEF Blank
<1>7. QED
  BY <1>2, <1>3, <1>4, <1>5, <1>6 DEF FieldTypes

\* The page before its first render.
LEMMA InitTypes == Init => TypeInv
<1> SUFFICES ASSUME Init PROVE TypeInv
  OBVIOUS
<1>1. FieldTypes
  <2>1. ZeroBox \in Box
    BY DEF ZeroBox, Box
  <2>2. geo \in [Nodes -> Box]
    BY <2>1 DEF Init, Blank, Nodes
  <2>3. inh \in [Nodes -> Inputs \cup {ZeroInput}]
    BY DEF Init, Blank, Nodes
  <2>4. tot \in [Nodes -> [mag : Nat, ur : Nat]]
    BY DEF Init, Blank, Nodes
  <2>5. self \in [Nodes -> Nat] /\ rsize \in [Nodes -> Nat] /\ right \in [Nodes -> Int]
    BY DEF Init, Blank, Nodes
  <2>6. QED
    BY <2>2, <2>3, <2>4, <2>5 DEF FieldTypes
<1>2. ControlTypes /\ Quiet
  BY Constants DEF Init, ControlTypes, Quiet
<1>3. QED
  BY <1>1, <1>2 DEF TypeInv

\* A traversal starts at the root's level or at the last one.
LEMMA StartTypes ==
  ASSUME tree \in Trees, tree' = tree, NEW p \in 0 .. 4, StartPass(p)
  PROVE  /\ phase' = "pass" /\ pass' \in 0 .. 4 /\ level' \in Nat
         /\ todo' \subseteq Nodes' /\ Quiet'
<1>1. tree.depth \in Nat
  BY TreeFacts
<1>2. QED
  BY <1>1 DEF StartPass, LevelNodes, Nodes, Quiet

\* A visit of any pass.
LEMMA VisitTypes ==
  ASSUME TypeInv, Inv, NEW n \in Nodes, Visit(n)
  PROVE  TypeInv'
<1>1. /\ phase = "pass" /\ n \in todo /\ todo' = todo \ {n}
      /\ UNCHANGED <<tree, ignoreCL, input, vbo, num_vertices, clVBO,
                     phase, pass, level, ok, renders>>
  BY DEF Visit
<1>2. tree \in Trees /\ tree' = tree /\ input \in Inputs /\ FieldTypes /\ pass \in 0 .. 4
  BY <1>1 DEF TypeInv, ControlTypes
<1>3. FieldTypes'
  <2>1. CASE pass = 0
    BY <1>2, <2>1, Visit0Types DEF Visit
  <2>2. CASE pass = 1
    BY <1>2, <2>2, Visit1Types DEF Visit
  <2>3. CASE pass = 2
    BY <1>2, <2>3, Visit2Types DEF Visit
  <2>4. CASE pass = 3
    BY <1>2, <2>4, Visit3Types DEF Visit
  <2>5. CASE pass = 4
    BY <1>2, <2>5, Visit4Types DEF Visit
  <2>6. QED
    BY <1>2, <2>1, <2>2, <2>3, <2>4, <2>5
<1>4. ControlTypes' /\ Quiet'
  BY <1>1 DEF TypeInv, ControlTypes, Quiet, Nodes
<1>5. QED
  BY <1>3, <1>4 DEF TypeInv

\* Steps that leave the tree and its fields alone.
LEMMA SameFields ==
  ASSUME FieldTypes, UNCHANGED <<tree, fields>>
  PROVE  FieldTypes'
BY DEF FieldTypes, fields, Nodes

\* reallocateVBO: the new size is a natural.
LEMMA BufferTypes ==
  ASSUME TypeInv, reallocateVBO
  PROVE  TypeInv'
<1>1. /\ UNCHANGED <<tree, ignoreCL, input, fields, clVBO, pass, level, todo, ok, renders>>
      /\ phase = "alloc"
  BY DEF reallocateVBO
<1>2. FieldTypes' /\ Nodes' = Nodes
  BY <1>1, SameFields DEF TypeInv, Nodes
<1> DEFINE r == getRenderBufferSize
<1>3. r \in Nat
  BY TreeNodes DEF TypeInv, ControlTypes, FieldTypes, getRenderBufferSize
<1>4. ((r * VertexBytes) * 5) \div 4 \in Nat
  <2> HIDE DEF r
  <2> QED
    BY <1>3 DEF VertexBytes
<1>5. vbo \in [id : Nat, size : Nat] /\ num_vertices \in Nat
  BY DEF TypeInv, ControlTypes
<1>6. CASE r <= 0
  <2>1. phase' = "idle" /\ UNCHANGED <<vbo, num_vertices>>
    BY <1>6 DEF reallocateVBO
  <2>2. QED
    BY <1>1, <1>2, <2>1 DEF TypeInv, ControlTypes, Quiet
<1>7. CASE ~(r <= 0)
  <2>1. /\ phase' = "share" /\ num_vertices' = r
        /\ vbo' = IF Keeps(r * VertexBytes) THEN vbo
                  ELSE [id |-> vbo.id + 1, size |-> ((r * VertexBytes) * 5) \div 4]
    BY <1>7 DEF reallocateVBO
  <2>2. [id |-> vbo.id + 1, size |-> ((r * VertexBytes) * 5) \div 4] \in [id : Nat, size : Nat]
    BY <1>4, <1>5
  <2> HIDE DEF r
  <2>3. vbo' \in [id : Nat, size : Nat] /\ num_vertices' \in Nat
    BY <1>3, <1>5, <2>1, <2>2
  <2>4. QED
    BY <1>1, <1>2, <2>1, <2>3 DEF TypeInv, ControlTypes, Quiet
<1>8. QED
  BY <1>6, <1>7

\* setVBO, with and without a buffer to share.
LEMMA ShareStepTypes ==
  ASSUME TypeInv, setVBO
  PROVE  TypeInv'
<1>1. /\ UNCHANGED <<tree, ignoreCL, input, fields, vbo, num_vertices, renders>>
      /\ phase = "share"
  BY DEF setVBO
<1>2. FieldTypes' /\ Nodes' = Nodes
  BY <1>1, SameFields DEF TypeInv, Nodes
<1>3. tree \in Trees /\ tree' = tree /\ vbo.id \in Nat /\ clVBO \in Nat \cup {None}
  BY <1>1 DEF TypeInv, ControlTypes
<1>4. /\ ok' \in BOOLEAN /\ clVBO' \in Nat \cup {None}
      /\ \/ StartPass(4)
         \/ phase' = "frame" /\ UNCHANGED <<pass, level, todo>>
  <2>1. ok \in BOOLEAN
    BY DEF TypeInv, ControlTypes
  <2>2. QED
    BY <1>3, <2>1 DEF setVBO
<1>5. CASE StartPass(4)
  <2>1. /\ phase' = "pass" /\ pass' \in 0 .. 4 /\ level' \in Nat
        /\ todo' \subseteq Nodes' /\ Quiet'
    BY <1>3, <1>5, StartTypes
  <2>2. QED
    BY <1>1, <1>2, <1>4, <2>1 DEF TypeInv, ControlTypes
<1>6. CASE phase' = "frame" /\ UNCHANGED <<pass, level, todo>>
  BY <1>1, <1>2, <1>4, <1>6 DEF TypeInv, ControlTypes, Quiet
<1>7. QED
  BY <1>4, <1>5, <1>6

\* The next level is one of the tree: the last was not reached yet.
LEMMA LevelTypes ==
  ASSUME TypeInv, Inv, NextLevel
  PROVE  TypeInv'
<1>1. /\ phase = "pass" /\ todo = {} /\ ~LastLevel
      /\ level' = (IF pass \in TopDown THEN level + 1 ELSE level - 1)
      /\ todo' = LevelNodes(tree, level')
      /\ UNCHANGED <<tree, ignoreCL, input, fields, phase, pass, ok, renders,
                     vbo, num_vertices, clVBO>>
  BY DEF NextLevel, buffers
<1>2. FieldTypes' /\ Nodes' = Nodes
  BY <1>1, SameFields DEF TypeInv, Nodes
<1>3. level' \in Nat
  <2>1. level \in 0 .. tree.depth /\ tree.depth \in Nat
    BY <1>1, TreeFacts DEF Inv, Control
  <2>2. QED
    BY <1>1, <2>1 DEF LastLevel
<1>4. todo' \subseteq Nodes
  BY <1>1 DEF LevelNodes, Nodes
<1>5. QED
  BY <1>1, <1>2, <1>3, <1>4 DEF TypeInv, ControlTypes, Quiet

\* The next pass starts at a level of the tree.
LEMMA PassTypes ==
  ASSUME TypeInv, NextPass
  PROVE  TypeInv'
<1>1. /\ phase = "pass" /\ todo = {}
      /\ UNCHANGED <<tree, ignoreCL, input, fields, ok, renders,
                     vbo, num_vertices, clVBO>>
  BY DEF NextPass, buffers
<1>2. FieldTypes' /\ Nodes' = Nodes
  BY <1>1, SameFields DEF TypeInv, Nodes
<1>3. tree \in Trees /\ tree' = tree /\ pass \in 0 .. 4
  BY <1>1 DEF TypeInv, ControlTypes
<1>4. \/ \E p \in 0 .. 4 : StartPass(p)
      \/ phase' \in {"alloc", "frame"} /\ UNCHANGED <<pass, level, todo>>
  <2>1. CASE pass < 3
    <3>1. pass + 1 \in 0 .. 4 /\ pass < 3 /\ pass # 3 /\ pass # 4
      BY <1>3, <2>1
    <3>2. StartPass(pass + 1)
      BY <3>1, Zenon DEF NextPass
    <3>3. QED
      BY <3>1, <3>2, Zenon
  <2>2. CASE pass = 3
    BY <2>2 DEF NextPass, AfterTraversals
  <2>3. CASE pass = 4
    BY <2>3 DEF NextPass
  <2>4. QED
    BY <1>3, <2>1, <2>2, <2>3
<1>5. CASE \E p \in 0 .. 4 : StartPass(p)
  <2>1. /\ phase' = "pass" /\ pass' \in 0 .. 4 /\ level' \in Nat
        /\ todo' \subseteq Nodes' /\ Quiet'
    BY <1>3, <1>5, StartTypes
  <2>2. QED
    BY <1>1, <1>2, <2>1 DEF TypeInv, ControlTypes
<1>6. CASE phase' \in {"alloc", "frame"} /\ UNCHANGED <<pass, level, todo>>
  BY <1>1, <1>2, <1>6 DEF TypeInv, ControlTypes, Quiet
<1>7. QED
  BY <1>4, <1>5, <1>6

\* What the page does between two renders.
LEMMA PageTypes ==
  ASSUME TypeInv, \/ \E i \in Inputs : SetInput(i)
                  \/ \E t \in Trees : LoadTree(t)
                  \/ BeginLayout
  PROVE  TypeInv'
<1>1. CASE \E i \in Inputs : SetInput(i)
  <2>1. UNCHANGED <<tree, fields>>
    BY <1>1 DEF SetInput
  <2>2. FieldTypes' /\ Nodes' = Nodes
    BY <2>1, SameFields DEF TypeInv, Nodes
  <2>3. QED
    BY <1>1, <2>2 DEF TypeInv, ControlTypes, Quiet, SetInput, buffers, control
<1>2. CASE \E t \in Trees : LoadTree(t)
  <2>1. PICK t \in Trees : LoadTree(t)
    BY <1>2
  <2>2. FieldTypes'
    BY <2>1, BlankTypes DEF LoadTree
  <2>3. phase = "idle" /\ todo = {} /\ todo' = {} /\ tree' \in Trees
        /\ UNCHANGED <<ignoreCL, input, buffers, control>>
    BY <2>1 DEF LoadTree, TypeInv, Quiet, control
  <2>4. QED
    BY <2>2, <2>3 DEF TypeInv, ControlTypes, Quiet, buffers, control
<1>3. CASE BeginLayout
  <2>1. /\ tree \in Trees /\ tree' = tree /\ StartPass(0)
        /\ UNCHANGED <<ignoreCL, input, fields, vbo, num_vertices, clVBO>>
        /\ ok' = TRUE /\ renders < MaxRenders /\ renders' = renders + 1
    BY <1>3 DEF BeginLayout, TypeInv, ControlTypes
  <2>2. FieldTypes'
    BY <2>1, SameFields DEF TypeInv
  <2>3. /\ phase' = "pass" /\ pass' \in 0 .. 4 /\ level' \in Nat
        /\ todo' \subseteq Nodes' /\ Quiet'
    BY <2>1, StartTypes
  <2>4. renders' \in 0 .. MaxRenders
    BY <2>1, Constants DEF TypeInv, ControlTypes
  <2>5. QED
    BY <2>1, <2>2, <2>3, <2>4 DEF TypeInv, ControlTypes
<1>4. QED
  BY <1>1, <1>2, <1>3

\* The end of a render, and a failed WebCL call.
LEMMA EndTypes ==
  ASSUME TypeInv, KernelFails \/ renderFrame \/ UNCHANGED vars
  PROVE  TypeInv'
<1>1. /\ UNCHANGED <<tree, ignoreCL, input, fields, vbo, num_vertices, clVBO,
                     pass, level, renders>>
      /\ ok' \in BOOLEAN
      /\ \/ phase' \in {"idle", "alloc", "frame"} /\ todo' = {}
         \/ phase' = phase /\ todo' = todo
  BY DEF KernelFails, renderFrame, vars, buffers, control, TypeInv, Quiet, ControlTypes
<1>2. FieldTypes' /\ Nodes' = Nodes
  BY <1>1, SameFields DEF TypeInv, Nodes
<1>3. QED
  BY <1>1, <1>2 DEF TypeInv, ControlTypes, Quiet

\* Every step keeps the types.
LEMMA StepTypes == TypeInv /\ Inv /\ [Next]_vars => TypeInv'
<1> SUFFICES ASSUME TypeInv, Inv, [Next]_vars PROVE TypeInv'
  OBVIOUS
<1>1. QED
  BY VisitTypes, BufferTypes, ShareStepTypes, LevelTypes, PassTypes, PageTypes, EndTypes
     DEF Next

\* The types hold throughout, with the control invariant they rest on.
LEMMA SpecTypes == Spec => [](TypeInv /\ Inv)
<1>1. Init => TypeInv /\ Inv
  BY InitTypes, InitInv
<1>2. (TypeInv /\ Inv) /\ [Next]_vars => (TypeInv /\ Inv)'
  BY StepTypes, StepInv
<1>3. QED
  BY <1>1, <1>2, PTL DEF Spec

\* The memory of the engine keeps its shape in every render and on every tree:
\* a cell per node, whole numbers or the 0 / 0 of an empty container for the
\* edges, no NaN among the counts of vertices, and no traversal leaves the levels
\* of the tree (visit_*_0 to visit_*_4, Superconductor.layoutAndRender)
THEOREM MemoryKeepsItsShape == Spec => []TypeOK
<1>1. TypeInv => TypeOK
  BY DEF TypeInv, TypeOK, ControlTypes, FieldTypes
<1>2. QED
  BY <1>1, SpecTypes, PTL

-----------------------------------------------------------------------------
(***************************************************************************)
(* The totals.                                                             *)
(***************************************************************************)

\* What a polling place contributes under the inputs of the render.
Selected(n) ==
  LET d == tree.data[n] IN
  /\ input.minTurnout < d.turnout /\ d.turnout <= input.maxTurnout
  /\ d.inJavascript \/ input.showJavascript
Votes == [n \in Nodes |-> IF Class(n) = Leaf /\ Selected(n) THEN tree.data[n].votes ELSE 0]
Totals == [n \in Nodes |-> tot[n].mag]

\* Visited in the running bottom-up pass, and the nodes that then hold the
\* totals of disjoint parts of the tree.
ReachedUp(n) == tree.level[n] > level \/ (tree.level[n] = level /\ n \notin todo)
Tops == {n \in Nodes : /\ ReachedUp(n) \/ Class(n) = Leaf
                       /\ n = 0 \/ ~ReachedUp(tree.parent[n])}

\* The first pass sets the totals of the places, the second moves them up and
\* loses none on the way.
CarriedUp ==
  phase # "idle" /\ ok =>
    /\ phase = "pass" /\ pass = 0 =>
         \A n \in Leaves : Reached(n) => Totals[n] = Votes[n]
    /\ phase = "pass" /\ pass = 1 =>
         /\ \A n \in Leaves : Totals[n] = Votes[n]
         /\ SumFunctionOnSet(Totals, Tops) = SumFunctionOnSet(Votes, Leaves)
    /\ pass >= 2 => Totals[0] = SumFunctionOnSet(Votes, Leaves)

\* A sum of zeros.
LEMMA SumZero ==
  ASSUME NEW f, NEW S, IsFiniteSet(S), \A x \in S : f[x] = 0
  PROVE  SumFunctionOnSet(f, S) = 0
<1> DEFINE P == {s \in SUBSET S : SumFunctionOnSet(f, s) = 0}
<1>1. ASSUME NEW s \in SUBSET S, \A u \in SUBSET s : u # s => u \in P
      PROVE  s \in P
  <2>1. IsFiniteSet(s)
    BY FS_Subset
  <2>2. CASE s = {}
    BY <2>1, <2>2, SumUnfolds
  <2>3. CASE s # {}
    <3>1. Any(s) \in s
      BY <2>3 DEF Any
    <3>2. s \ {Any(s)} \in P /\ f[Any(s)] = 0
      BY <1>1, <3>1
    <3>3. QED
      BY <2>1, <2>3, <3>2, SumUnfolds
  <2>4. QED
    BY <2>2, <2>3
<1>2. S \in P
  <2> HIDE DEF P
  <2> QED
    BY <1>1, FiniteInduction
<1>3. QED
  BY <1>2

\* The sum over a single element.
LEMMA SumSingle ==
  ASSUME NEW f, NEW x, f[x] \in Int
  PROVE  SumFunctionOnSet(f, {x}) = f[x]
<1>1. IsFiniteSet({x}) /\ IsFiniteSet({})
  BY FS_Singleton, FS_EmptySet
<1>2. SumFunctionOnSet(f, {}) = 0
  BY <1>1, SumZero
<1>3. Any({x}) = x /\ {x} \ {x} = {}
  BY DEF Any
<1>4. SumFunctionOnSet(f, {x}) = f[x] + SumFunctionOnSet(f, {})
  BY <1>1, <1>3, SumUnfolds
<1>5. QED
  BY <1>2, <1>4

\* The votes of the selected places, node by node, are naturals.
LEMMA VotesType ==
  ASSUME tree \in Trees
  PROVE  /\ Votes \in [Nodes -> Nat]
         /\ Leaves \subseteq Nodes /\ IsFiniteSet(Leaves)
<1>1. \A n \in Nodes : Class(n) = Leaf => tree.data[n].votes \in Nat
  BY TreeNodes
<1>2. Leaves \subseteq Nodes /\ IsFiniteSet(Leaves)
  BY TreeNodes, FS_Subset DEF Leaves
<1>3. QED
  BY <1>1, <1>2 DEF Votes

\* So are the totals in memory.
LEMMA TotalsType ==
  ASSUME FieldTypes
  PROVE  Totals \in [Nodes -> Nat]
BY DEF FieldTypes, Totals

\* The votes of the places are those of the places that are counted.
LEMMA CountedIsTheSum ==
  ASSUME tree \in Trees
  PROVE  CountedVotes = SumFunctionOnSet(Votes, Leaves)
<1> DEFINE counted == {n \in Leaves : Selected(n)}
           rest == Leaves \ counted
           f == [n \in counted |-> tree.data[n].votes]
<1>1. CountedVotes = SumFunctionOnSet(f, counted)
  <2>1. CountedVotes = SumFunction(f)
    BY DEF CountedVotes, Selected
  <2>2. DOMAIN f = counted
    OBVIOUS
  <2> HIDE DEF f, counted
  <2>3. QED
    BY <2>1, <2>2 DEF SumFunction
<1>2. IsFiniteSet(Leaves) /\ counted \in SUBSET Leaves
  BY VotesType
<1>3. IsFiniteSet(counted) /\ IsFiniteSet(rest)
  BY <1>2, FS_Subset
<1>4. \A n \in counted : f[n] = Votes[n]
  BY DEF Votes, Leaves
<1>5. \A n \in rest : Votes[n] = 0
  BY DEF Votes, Leaves
<1>6. \A n \in Leaves : Votes[n] \in Nat
  BY VotesType
<1>7. SumFunctionOnSet(f, counted) = SumFunctionOnSet(Votes, counted)
  <2> HIDE DEF f, counted
  <2> QED
    BY <1>3, <1>4, SumSame
<1>8. SumFunctionOnSet(Votes, rest) = 0
  <2> HIDE DEF rest
  <2> QED
    BY <1>3, <1>5, SumZero
<1>9. SumFunctionOnSet(Votes, Leaves)
        = SumFunctionOnSet(Votes, counted) + SumFunctionOnSet(Votes, rest)
  <2> HIDE DEF counted
  <2> QED
    BY <1>2, <1>6, SumPart
<1>10. SumFunctionOnSet(Votes, counted) \in Nat
  <2>1. \A n \in counted : Votes[n] \in Nat
    BY <1>6
  <2> HIDE DEF counted
  <2>2. QED
    BY <1>3, <2>1, SumType
<1> DEFINE a == SumFunctionOnSet(Votes, counted)
<1>11. a \in Nat /\ CountedVotes = a /\ SumFunctionOnSet(Votes, Leaves) = a + 0
  BY <1>1, <1>7, <1>8, <1>9, <1>10
<1> HIDE DEF a
<1>12. QED
  BY <1>11

\* The first pass: a place counts its votes under the inputs of this render.
LEMMA PlaceCounts ==
  ASSUME Inv, TypeInv, CarriedUp, NEW n \in Nodes, Visit(n), pass = 0, ok
  PROVE  \A m \in Leaves' : Reached(m)' => Totals'[m] = Votes'[m]
<1>1. /\ phase = "pass" /\ n \in todo /\ todo' = todo \ {n}
      /\ tot' = IF Class(n) = Leaf THEN [tot EXCEPT ![n] = LeafTotals(n)] ELSE tot
      /\ UNCHANGED <<tree, input, level>>
  BY DEF Visit, visit_0
<1>2. tree \in Trees /\ FieldTypes
  BY DEF TypeInv, ControlTypes
<1>3. Nodes' = Nodes /\ Leaves' = Leaves /\ Votes' = Votes
  BY <1>1 DEF Nodes, Leaves, Votes, Class, Selected
<1>4. tree.level[n] = level /\ level \in Nat
  BY <1>1 DEF Inv, Control, LevelNodes, TypeInv, ControlTypes
<1> SUFFICES ASSUME NEW m \in Leaves, Reached(m)' PROVE Totals'[m] = Votes[m]
  BY <1>3
<1>5. m \in Nodes /\ Class(m) = Leaf
  BY DEF Leaves
<1>6. CASE m = n
  <2>1. n \in Nodes \ {0}
    BY <1>2, <1>5, <1>6, TreeNodes
  <2>2. Reached(tree.parent[n])
    <3>1. tree.level[n] = tree.level[tree.parent[n]] + 1
      BY <1>2, <2>1, TreeFacts DEF Nodes
    <3>2. tree.level[tree.parent[n]] \in Nat
      BY <1>2, <2>1, TreeFacts DEF Nodes
    <3>3. QED
      BY <1>4, <3>1, <3>2 DEF Reached
  <2>3. inh[n] = input
    BY <1>1, <2>1, <2>2 DEF Inv, Pushed
  <2>4. LeafTotals(n).mag = IF Selected(n) THEN tree.data[n].votes ELSE 0
    BY <2>3 DEF LeafTotals, Selected
  <2>5. Totals'[n] = LeafTotals(n).mag
    BY <1>1, <1>2, <1>3, <1>5, <1>6 DEF Totals, FieldTypes
  <2>6. QED
    BY <1>5, <1>6, <2>4, <2>5 DEF Votes
<1>7. CASE m # n
  <2>1. Reached(m)
    BY <1>1, <1>7 DEF Reached
  <2>2. Totals[m] = Votes[m]
    BY <1>1, <2>1 DEF CarriedUp
  <2>3. Totals'[m] = Totals[m]
    BY <1>1, <1>2, <1>3, <1>5, <1>7 DEF Totals, FieldTypes
  <2>4. QED
    BY <2>2, <2>3
<1>8. QED
  BY <1>6, <1>7

\* Visiting a node bottom-up puts it in the place of its children.
LEMMA TopsMove ==
  ASSUME Inv, TypeInv, NEW n \in Nodes, phase = "pass", n \in todo, todo' = todo \ {n},
         UNCHANGED <<tree, level>>
  PROVE  /\ Tops' = IF Class(n) = Leaf THEN Tops
                    ELSE (Tops \ Children(n)) \cup {n}
         /\ Children(n) \subseteq Tops
         /\ Class(n) # Leaf => n \notin Tops
<1>1. tree \in Trees /\ Nodes' = Nodes /\ \A m : Class(m)' = Class(m)
  BY DEF TypeInv, ControlTypes, Nodes, Class
<1>2. /\ \A m \in Nodes : tree.level[m] \in Nat
      /\ \A m \in Nodes \ {0} : tree.parent[m] \in Nodes
      /\ \A m \in Nodes \ {0} : tree.level[m] = tree.level[tree.parent[m]] + 1
      /\ tree.level[n] = level /\ level \in Nat
  <2>1. level \in Nat /\ n \in LevelNodes(tree, level)
    BY DEF Inv, Control, TypeInv, ControlTypes
  <2>2. tree.level[n] = level
    BY <2>1 DEF LevelNodes
  <2>3. QED
    BY <1>1, <2>1, <2>2, TreeFacts DEF Nodes
<1>3. ~ReachedUp(n) /\ \A m \in Nodes : ReachedUp(m)' <=> ReachedUp(m) \/ m = n
  BY <1>1, <1>2 DEF ReachedUp
<1>4. ASSUME NEW c \in Children(n)
      PROVE  c \in Nodes \ {0} /\ tree.parent[c] = n /\ ReachedUp(c) /\ c # n
  <2>1. c \in Nodes \ {0} /\ tree.parent[c] = n
    BY DEF Children
  <2>2. QED
    BY <1>2, <2>1 DEF ReachedUp
<1>5. Children(n) \subseteq Tops
  BY <1>3, <1>4 DEF Tops
<1>6. Class(n) # Leaf => n \notin Tops
  BY <1>3 DEF Tops
<1>7. n = 0 \/ ~ReachedUp(tree.parent[n])
  BY <1>2 DEF ReachedUp
<1>8. n # 0 => tree.parent[n] # n
  BY <1>2
<1>9. ASSUME NEW m \in Nodes, m # n
      PROVE  m \in Tops' <=> m \in Tops /\ m \notin Children(n)
  <2>1. m \in Tops' <=> (ReachedUp(m) \/ Class(m) = Leaf)
                         /\ (m = 0 \/ ~ReachedUp(tree.parent[m])')
    BY <1>1, <1>3, <1>9 DEF Tops
  <2>2. CASE m = 0
    BY <2>1, <2>2 DEF Tops, Children
  <2>3. CASE m # 0
    <3>1. tree.parent[m] \in Nodes
      BY <1>2, <2>3
    <3>2. ReachedUp(tree.parent[m])' <=> ReachedUp(tree.parent[m]) \/ tree.parent[m] = n
      BY <1>1, <1>2, <3>1 DEF ReachedUp
    <3>3. m \in Children(n) <=> tree.parent[m] = n
      BY <2>3 DEF Children
    <3>4. QED
      BY <2>1, <2>3, <3>2, <3>3 DEF Tops
  <2>4. QED
    BY <2>2, <2>3
<1>10. n \in Tops'
  <2>1. CASE n = 0
    BY <1>1, <1>3, <2>1 DEF Tops
  <2>2. CASE n # 0
    <3>1. ~ReachedUp(tree.parent[n])'
      BY <1>2, <1>7, <1>8, <2>2 DEF ReachedUp
    <3>2. ReachedUp(n)'
      BY <1>3
    <3>3. QED
      BY <1>1, <3>1, <3>2 DEF Tops
  <2>3. QED
    BY <2>1, <2>2
<1>11. Class(n) = Leaf => Children(n) = {} /\ n \in Tops
  BY <1>1, <1>7, TreeNodes DEF Tops
<1>12. Tops' \subseteq Nodes /\ Tops \subseteq Nodes
  BY <1>1 DEF Tops
<1>13. n \notin Children(n)
  BY <1>4
<1>14. QED
  <2>1. CASE Class(n) = Leaf
    <3>1. \A m : m \in Tops' <=> m \in Tops
      BY <1>9, <1>10, <1>11, <1>12, <2>1
    <3>2. QED
      BY <1>5, <2>1, <3>1
  <2>2. CASE Class(n) # Leaf
    <3>1. \A m : m \in Tops' <=> m \in (Tops \ Children(n)) \cup {n}
      BY <1>9, <1>10, <1>12
    <3>2. QED
      BY <1>5, <1>6, <2>2, <3>1
  <2>3. QED
    BY <2>1, <2>2

\* The second pass: a node takes over the totals of its children.
LEMMA FoldKeepsTheSum ==
  ASSUME Inv, TypeInv, CarriedUp, NEW n \in Nodes, Visit(n), pass = 1, ok
  PROVE  /\ \A m \in Leaves' : Totals'[m] = Votes'[m]
         /\ SumFunctionOnSet(Totals, Tops)' = SumFunctionOnSet(Votes, Leaves)'
<1>1. /\ phase = "pass" /\ n \in todo /\ todo' = todo \ {n} /\ visit_1(n)
      /\ UNCHANGED <<tree, input, level>>
  BY DEF Visit
<1>2. tree \in Trees /\ FieldTypes /\ FieldTypes'
  <2>1. TypeInv'
    BY VisitTypes
  <2>2. QED
    BY <2>1 DEF TypeInv, ControlTypes
<1>3. Nodes' = Nodes /\ Leaves' = Leaves /\ Votes' = Votes
  BY <1>1 DEF Nodes, Leaves, Votes, Class, Selected
<1>4. /\ \A m \in Leaves : Totals[m] = Votes[m]
      /\ SumFunctionOnSet(Totals, Tops) = SumFunctionOnSet(Votes, Leaves)
  BY <1>1 DEF CarriedUp
<1>5. /\ Tops' = IF Class(n) = Leaf THEN Tops
                 ELSE (Tops \ Children(n)) \cup {n}
      /\ Children(n) \subseteq Tops
      /\ Class(n) # Leaf => n \notin Tops
  BY <1>1, TopsMove
<1>6. Totals \in [Nodes -> Nat] /\ Totals' \in [Nodes -> Nat]
  BY <1>2, <1>3, TotalsType DEF FieldTypes, Totals
<1>7. CASE Class(n) = Leaf
  <2>1. tot' = tot
    BY <1>1, <1>7 DEF visit_1
  <2>2. Totals' = Totals
    BY <1>3, <2>1 DEF Totals
  <2>3. QED
    BY <1>3, <1>4, <1>5, <1>7, <2>2
<1>8. CASE Class(n) # Leaf
  <2> DEFINE f == [c \in Children(n) |-> tot[c].mag]
  <2>1. Totals'[n] = SumFunctionOnSet(f, Children(n))
    <3>1. DOMAIN f = Children(n)
      OBVIOUS
    <3>2. tot' = [tot EXCEPT ![n] =
                    [mag |-> SumFunction(f),
                     ur  |-> SumFunction([c \in Children(n) |-> tot[c].ur])]]
      BY <1>1, <1>8 DEF visit_1
    <3> HIDE DEF f
    <3>3. tot'[n].mag = SumFunction(f)
      BY <1>2, <3>2 DEF FieldTypes
    <3>4. QED
      BY <1>3, <3>1, <3>3 DEF Totals, SumFunction
  <2>2. \A m \in Nodes : m # n => Totals'[m] = Totals[m]
    BY <1>1, <1>2, <1>3 DEF Totals, visit_1, FieldTypes
  <2> DEFINE rest == Tops \ Children(n)
  <2>3. /\ IsFiniteSet(Tops) /\ IsFiniteSet(rest) /\ IsFiniteSet(Children(n))
        /\ Tops \subseteq Nodes /\ Children(n) \subseteq Nodes
    <3>1. Tops \subseteq Nodes
      BY DEF Tops
    <3>2. QED
      BY <1>2, <3>1, TreeNodes, FS_Subset
  <2>4. SumFunctionOnSet(f, Children(n)) = SumFunctionOnSet(Totals, Children(n))
    <3>1. \A c \in Children(n) : f[c] = Totals[c]
      BY <2>3 DEF Totals
    <3> HIDE DEF f
    <3>2. QED
      BY <2>3, <3>1, SumSame
  <2>5. SumFunctionOnSet(Totals, Tops)
          = SumFunctionOnSet(Totals, Children(n)) + SumFunctionOnSet(Totals, rest)
    <3>1. \A m \in Tops : Totals[m] \in Nat
      BY <1>6, <2>3
    <3>2. QED
      BY <1>5, <2>3, <3>1, SumPart
  <2>6. SumFunctionOnSet(Totals, rest) = SumFunctionOnSet(Totals', rest)
    <3>1. \A m \in rest : Totals[m] = Totals'[m]
      BY <1>5, <1>8, <2>2, <2>3
    <3> HIDE DEF rest
    <3>2. QED
      BY <2>3, <3>1, SumSame
  <2>7. SumFunctionOnSet(Totals', Tops')
          = Totals'[n] + SumFunctionOnSet(Totals', rest)
    <3>1. Tops' = rest \cup {n} /\ n \notin rest
      BY <1>5, <1>8
    <3>2. Tops' \ {n} = rest
      BY <3>1
    <3>3. IsFiniteSet(Tops')
      BY <2>3, <3>1, FS_AddElement
    <3>4. \A m \in Tops' : Totals'[m] \in Int
      BY <1>6, <2>3, <3>1
    <3>5. n \in Tops'
      BY <3>1
    <3> DEFINE F == Totals'
               U == Tops'
    <3>6. IsFiniteSet(U) /\ n \in U /\ \A m \in U : F[m] \in Int
      BY <3>3, <3>4, <3>5
    <3> HIDE DEF F, U
    <3>7. SumFunctionOnSet(F, U) = F[n] + SumFunctionOnSet(F, U \ {n})
      BY <3>6, SumRemove
    <3>8. QED
      BY <3>2, <3>7 DEF F, U
  <2>8. SumFunctionOnSet(Totals', Tops') = SumFunctionOnSet(Votes, Leaves)
    BY <1>4, <2>1, <2>4, <2>5, <2>6, <2>7
  <2>9. \A m \in Leaves : m # n /\ m \in Nodes
    BY <1>8 DEF Leaves
  <2>10. QED
    BY <1>3, <1>4, <2>2, <2>8, <2>9
<1>9. QED
  BY <1>7, <1>8

\* Steps after the second pass leave the root's total alone.
LEMMA CarriedAfter ==
  ASSUME CarriedUp, UNCHANGED <<tree, input, tot>>, phase # "idle", ok' => ok /\ pass >= 2,
         pass' >= 2
  PROVE  CarriedUp'
<1>1. Totals' = Totals /\ Votes' = Votes /\ Leaves' = Leaves
  BY DEF Totals, Votes, Leaves, Nodes, Class, Selected
<1> SUFFICES ASSUME ok' PROVE Totals[0] = SumFunctionOnSet(Votes, Leaves) /\ ~(pass' \in {0, 1})
  BY <1>1 DEF CarriedUp
<1>2. QED
  BY DEF CarriedUp

\* A visit of any pass.
LEMMA VisitCarried ==
  ASSUME Inv, TypeInv, CarriedUp, NEW n \in Nodes, Visit(n)
  PROVE  CarriedUp'
<1>1. phase = "pass" /\ pass \in 0 .. 4 /\ UNCHANGED <<tree, input, phase, pass, ok>>
  BY DEF Visit, TypeInv, ControlTypes
<1>2. CASE pass = 0 /\ ok
  <2>1. \A m \in Leaves' : Reached(m)' => Totals'[m] = Votes'[m]
    BY <1>2, PlaceCounts
  <2>2. pass' = 0
    BY <1>1, <1>2
  <2>3. QED
    BY <2>1, <2>2 DEF CarriedUp
<1>3. CASE pass = 1 /\ ok
  <2>1. /\ \A m \in Leaves' : Totals'[m] = Votes'[m]
        /\ SumFunctionOnSet(Totals, Tops)' = SumFunctionOnSet(Votes, Leaves)'
    BY <1>3, FoldKeepsTheSum
  <2>2. pass' = 1
    BY <1>1, <1>3
  <2>3. QED
    BY <2>1, <2>2 DEF CarriedUp
<1>4. CASE pass >= 2
  <2>1. tot' = tot
    <3>1. CASE pass = 2
      BY <3>1 DEF Visit, visit_2
    <3>2. CASE pass = 3
      BY <3>2 DEF Visit, visit_3
    <3>3. CASE pass = 4
      BY <3>3 DEF Visit, visit_4
    <3>4. QED
      BY <1>1, <1>4, <3>1, <3>2, <3>3
  <2>2. QED
    BY <1>1, <1>4, <2>1, CarriedAfter
<1>5. CASE ~ok
  BY <1>1, <1>5 DEF CarriedUp
<1>6. QED
  BY <1>1, <1>2, <1>3, <1>4, <1>5

\* A level is finished: its nodes have all been visited, and the next begins.
LEMMA LevelCarried ==
  ASSUME Inv, TypeInv, CarriedUp, NextLevel
  PROVE  CarriedUp'
<1>1. /\ phase = "pass" /\ todo = {} /\ ~LastLevel
      /\ level' = (IF pass \in TopDown THEN level + 1 ELSE level - 1)
      /\ todo' = LevelNodes(tree, level')
      /\ UNCHANGED <<tree, input, tot, phase, pass, ok>>
  BY DEF NextLevel, fields, buffers
<1>2. /\ tree \in Trees /\ level \in Nat /\ pass \in 0 .. 4
      /\ \A m \in Nodes : tree.level[m] \in Nat
      /\ \A m \in Nodes \ {0} : tree.parent[m] \in Nodes
  BY TreeFacts DEF TypeInv, ControlTypes, Nodes
<1>3. /\ Totals' = Totals /\ Votes' = Votes /\ Leaves' = Leaves /\ Nodes' = Nodes
      /\ \A m : Class(m)' = Class(m)
  BY <1>1 DEF Totals, Votes, Leaves, Nodes, Class, Selected
<1>4. CASE pass = 0
  <2>1. \A m \in Nodes : Reached(m)' => Reached(m)
    BY <1>1, <1>2, <1>4 DEF Reached, LevelNodes, Nodes, TopDown
  <2>2. Leaves \subseteq Nodes
    BY DEF Leaves
  <2>3. QED
    BY <1>1, <1>3, <1>4, <2>1, <2>2 DEF CarriedUp
<1>5. CASE pass = 1
  <2>1. level' = level - 1
    BY <1>1, <1>5 DEF TopDown
  <2>2. \A m \in Nodes : ReachedUp(m)' <=> ReachedUp(m)
    BY <1>1, <1>2, <2>1 DEF ReachedUp, LevelNodes, Nodes
  <2>3. Tops' = Tops
    <3>1. \A m \in Nodes \ {0} :
            ReachedUp(tree.parent[m])' <=> ReachedUp(tree.parent[m])
      BY <1>1, <1>2, <2>2 DEF ReachedUp
    <3>2. QED
      BY <1>1, <1>3, <2>2, <3>1 DEF Tops
  <2>4. QED
    BY <1>1, <1>3, <1>5, <2>3 DEF CarriedUp
<1>6. CASE pass >= 2
  BY <1>1, <1>6, CarriedAfter
<1>7. QED
  BY <1>2, <1>4, <1>5, <1>6

\* The ends of the first two passes.
LEMMA PassCarried ==
  ASSUME Inv, TypeInv, CarriedUp, NextPass
  PROVE  CarriedUp'
<1>1. /\ phase = "pass" /\ todo = {} /\ LastLevel
      /\ UNCHANGED <<tree, input, tot, ok>>
  BY DEF NextPass, fields, buffers
<1>2. /\ tree \in Trees /\ FieldTypes /\ level \in Nat /\ pass \in 0 .. 4 /\ 0 \in Nodes
      /\ \A m \in Nodes : tree.level[m] \in 0 .. tree.depth
      /\ tree.depth \in Nat
      /\ \A m \in Nodes \ {0} : tree.parent[m] \in Nodes
      /\ \A m \in Nodes : tree.level[m] = 0 <=> m = 0
  BY TreeFacts, TreeNodes DEF TypeInv, ControlTypes, Nodes
<1>3. /\ Totals' = Totals /\ Votes' = Votes /\ Leaves' = Leaves /\ Nodes' = Nodes
      /\ \A m : Class(m)' = Class(m)
  BY <1>1 DEF Totals, Votes, Leaves, Nodes, Class, Selected
<1>4. pass < 3 => StartPass(pass + 1)
  <2> SUFFICES ASSUME pass < 3 PROVE StartPass(pass + 1)
    OBVIOUS
  <2>1. pass < 3 /\ pass # 3 /\ pass # 4
    BY <1>2
  <2>2. QED
    BY <2>1, Zenon DEF NextPass
<1>5. CASE pass = 0
  <2>1. StartPass(1)
    BY <1>4, <1>5
  <2>2. pass' = 1 /\ phase' = "pass" /\ level' = tree.depth /\ todo' = LevelNodes(tree, level')
    BY <2>1 DEF StartPass, TopDown
  <2>3. \A m \in Nodes : ~ReachedUp(m)'
    BY <1>1, <1>2, <2>2 DEF ReachedUp, LevelNodes, Nodes
  <2>4. Tops' = Leaves'
    <3>1. \A m \in Nodes : Class(m) = Leaf => m # 0
      BY <1>2, TreeNodes
    <3>2. \A m \in Nodes : m \in Tops' <=> Class(m) = Leaf /\ (m = 0 \/ ~ReachedUp(tree.parent[m])')
      BY <1>1, <1>3, <2>3 DEF Tops
    <3>3. \A m \in Nodes \ {0} : ~ReachedUp(tree.parent[m])'
      BY <1>1, <1>2, <2>3 DEF ReachedUp
    <3>4. \A m \in Nodes : m \in Tops' <=> Class(m) = Leaf
      BY <3>1, <3>2, <3>3
    <3>5. Tops' \subseteq Nodes
      BY <1>3 DEF Tops
    <3>6. QED
      BY <1>3, <3>4, <3>5 DEF Leaves
  <2>5. ok => \A m \in Leaves : Totals[m] = Votes[m]
    <3>1. \A m \in Nodes : Reached(m)
      BY <1>1, <1>2, <1>5 DEF Reached, LastLevel, TopDown
    <3>2. QED
      BY <1>1, <1>5, <3>1 DEF CarriedUp, Leaves
  <2>6. ok => SumFunctionOnSet(Totals, Leaves) = SumFunctionOnSet(Votes, Leaves)
    <3> SUFFICES ASSUME ok
                 PROVE  SumFunctionOnSet(Totals, Leaves) = SumFunctionOnSet(Votes, Leaves)
      OBVIOUS
    <3>1. IsFiniteSet(Leaves)
      BY <1>2, VotesType
    <3>2. QED
      BY <2>5, <3>1, SumSame
  <2>7. QED
    BY <1>1, <1>3, <2>2, <2>4, <2>5, <2>6 DEF CarriedUp
<1>6. CASE pass = 1
  <2>1. StartPass(2)
    BY <1>4, <1>6
  <2>2. pass' = 2 /\ phase' = "pass"
    BY <2>1 DEF StartPass
  <2>3. Tops = {0}
    <3>1. \A m \in Nodes : ReachedUp(m)
      BY <1>1, <1>2, <1>6 DEF ReachedUp, LastLevel, TopDown
    <3>2. QED
      BY <1>2, <3>1 DEF Tops
  <2>4. SumFunctionOnSet(Totals, {0}) = Totals[0]
    <3>1. Totals[0] \in Nat
      BY <1>2, TotalsType
    <3>2. QED
      BY <3>1, SumSingle
  <2>5. ok => Totals[0] = SumFunctionOnSet(Votes, Leaves)
    BY <1>1, <1>6, <2>3, <2>4 DEF CarriedUp
  <2>6. QED
    BY <1>1, <1>3, <2>2, <2>5 DEF CarriedUp
<1>7. CASE pass >= 2
  <2>1. pass' >= 2
    <3>1. CASE pass = 2
      BY <1>4, <3>1 DEF StartPass
    <3>2. CASE pass = 3
      BY <3>2 DEF NextPass, AfterTraversals, StartPass
    <3>3. CASE pass = 4
      BY <3>3 DEF NextPass
    <3>4. QED
      BY <1>2, <1>7, <3>1, <3>2, <3>3
  <2>2. QED
    BY <1>1, <1>7, <2>1, CarriedAfter
<1>8. QED
  BY <1>2, <1>5, <1>6, <1>7

\* Steps outside the traversals.
LEMMA OtherCarried ==
  ASSUME Inv, TypeInv, CarriedUp,
         \/ \E i \in Inputs : SetInput(i)
         \/ \E t \in Trees : LoadTree(t)
         \/ BeginLayout \/ KernelFails
         \/ reallocateVBO \/ setVBO \/ renderFrame \/ UNCHANGED vars
  PROVE  CarriedUp'
<1>1. CASE \/ \E i \in Inputs : SetInput(i)
           \/ \E t \in Trees : LoadTree(t)
           \/ renderFrame \/ KernelFails
  <2>1. phase' = "idle" \/ ~ok'
    BY <1>1 DEF SetInput, LoadTree, renderFrame, KernelFails, control
  <2>2. QED
    BY <2>1 DEF CarriedUp
<1>2. CASE BeginLayout
  <2>1. /\ pass' = 0 /\ level' = 0 /\ todo' = LevelNodes(tree, 0) /\ tree' = tree
        /\ tree \in Trees
    BY <1>2 DEF BeginLayout, StartPass, TopDown, TypeInv, ControlTypes
  <2>2. \A m \in Nodes' : tree.level[m] \in Nat
    BY <2>1, TreeFacts DEF Nodes
  <2>3. \A m \in Leaves' : ~Reached(m)'
    BY <2>1, <2>2 DEF Reached, LevelNodes, Nodes, Leaves
  <2>4. QED
    BY <2>1, <2>3 DEF CarriedUp
<1>3. CASE reallocateVBO
  <2>1. /\ UNCHANGED <<tree, input, tot, pass, ok>> /\ phase = "alloc"
    BY <1>3 DEF reallocateVBO, fields
  <2>2. CASE ok
    <3>1. pass = 3
      BY <2>1, <2>2 DEF Inv, Control
    <3>2. QED
      BY <2>1, <3>1, CarriedAfter
  <2>3. CASE ~ok
    BY <2>1, <2>3 DEF CarriedUp
  <2>4. QED
    BY <2>2, <2>3
<1>4. CASE setVBO
  <2>1. /\ UNCHANGED <<tree, input, tot>> /\ phase = "share" /\ (ok' => ok)
        /\ ok' => StartPass(4)
    BY <1>4 DEF setVBO, fields
  <2>2. CASE ok'
    <3>1. pass = 3 /\ pass' = 4
      BY <2>1, <2>2 DEF Inv, Control, StartPass
    <3>2. QED
      BY <2>1, <3>1, CarriedAfter
  <2>3. CASE ~ok'
    BY <2>3 DEF CarriedUp
  <2>4. QED
    BY <2>2, <2>3
<1>5. CASE UNCHANGED vars
  <2>1. UNCHANGED <<tree, input, tot, phase, pass, level, todo, ok>>
    BY <1>5 DEF vars, fields, control
  <2>2. /\ Totals' = Totals /\ Votes' = Votes /\ Leaves' = Leaves /\ Tops' = Tops
        /\ \A m : Reached(m)' = Reached(m)
    BY <2>1 DEF Totals, Votes, Leaves, Nodes, Class, Selected, Tops, ReachedUp, Reached
  <2>3. QED
    BY <2>1, <2>2 DEF CarriedUp
<1>6. QED
  BY <1>1, <1>2, <1>3, <1>4, <1>5

\* Nothing has been carried up before the first render.
LEMMA InitCarried == Init => CarriedUp
  BY DEF Init, CarriedUp

\* Every step keeps what has been carried up so far.
LEMMA StepCarried == TypeInv /\ Inv /\ CarriedUp /\ [Next]_vars => CarriedUp'
  BY VisitCarried, LevelCarried, PassCarried, OtherCarried DEF Next

\* The partial totals account for all votes throughout.
LEMMA SpecCarried == Spec => [](TypeInv /\ Inv /\ CarriedUp)
<1>1. Init => TypeInv /\ Inv /\ CarriedUp
  BY InitTypes, InitInv, InitCarried
<1>2. (TypeInv /\ Inv /\ CarriedUp) /\ [Next]_vars => (TypeInv /\ Inv /\ CarriedUp)'
  BY StepTypes, StepInv, StepCarried
<1>3. QED
  BY <1>1, <1>2, PTL DEF Spec

\* On every tree, however deep and in whatever order the nodes of a level are
\* visited, the total at the root of a completed render is the sum of the votes
\* of the places its inputs select, with nothing of the render before left in it
\* (the totalmag folds of visit_*_0 and visit_*_1)
THEOREM VotesReachTheRoot == Spec => []TotalsReachTheRoot
<1>1. TypeInv /\ Inv /\ CarriedUp => TotalsReachTheRoot
  <2> SUFFICES ASSUME TypeInv, Inv, CarriedUp, Complete
               PROVE  tot[0].mag = CountedVotes
    BY DEF TotalsReachTheRoot
  <2>1. tree \in Trees /\ 0 \in Nodes
    BY TreeNodes DEF TypeInv, ControlTypes
  <2>2. phase = "frame" /\ ok /\ pass = 4
    BY DEF Complete, Inv, Control
  <2>3. Totals[0] = SumFunctionOnSet(Votes, Leaves)
    BY <2>2 DEF CarriedUp
  <2>4. QED
    BY <2>1, <2>3, CountedIsTheSum DEF Totals
<1>2. QED
  BY <1>1, SpecCarried, PTL

=============================================================================
