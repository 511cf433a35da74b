--------------------------- MODULE TreemapEngine ---------------------------
(***************************************************************************)
(* The layout engine of the election treemap and the synchronous render    *)
(* that drives it: Superconductor.layoutAndRender (main.js), CLRunner      *)
(* .layout, setVBO and the traversals (CLRunner.js), GLRunner              *)
(* .reallocateVBO and renderFrame (GLRunner.js), and the five passes of    *)
(* kernels.visualization.js.                                               *)
(*                                                                         *)
(* A pass visits the levels of the tree downwards (0, 2, 4) or upwards     *)
(* (1, 3); the nodes of one level are visited by one NDRange, so in any    *)
(* order.  The visits share one memory: what a visit reads was written by  *)
(* an earlier pass, an earlier level - or by the previous render, which is *)
(* the mistake the properties look for.                                    *)
(*                                                                         *)
(* Abstractions.  Of the six inputs a node inherits five are one record;   *)
(* showFraud, which only chooses a colour, is left out with the colours,   *)
(* functions of the inputs and the leaf's data.                            *)
(* Numbers are exact integers, with NaN for 0 / 0; an instance chooses     *)
(* Width, Height and FullVotes so that the divisions it makes are exact.   *)
(***************************************************************************)
EXTENDS Integers, FiniteSets, FiniteSetsExt

CONSTANTS
  Trees,          \* the trees that may be loaded
  Inputs,         \* the values the page may give the root's inputs
  Width, Height,  \* the root's size
  FullVotes,      \* 63895164 in the grammar: the votes of the whole country
  RectangleSize,  \* vertices of a rectangle and of an outline
  OutlineSize,
  MaxRenders,     \* bound on the renders of a behaviour
  NaN, None

VARIABLES
  tree,           \* the loaded tree
  ignoreCL,       \* the configuration: canvas and plain JS, or WebCL
  input,          \* the root's inputs
  inh,            \* fld_node_<input>, the inputs each node sees
  tot,            \* fld_node_totalmag and fld_node_votesur
  geo,            \* fld_node_x, y, w, h, by, rx
  self,           \* fld_<class>___selfrendersize__
  rsize,          \* fld_node___rendersize__ (iroot's at 0)
  right,          \* fld_node___renderrightoffset__ (iroot's at 0)
  phase,          \* where layoutAndRender is
  pass, level,    \* the running traversal and its level
  todo,           \* nodes of that level not visited yet
  ok,             \* no kernel or buffer call of this render failed
  vbo,            \* GLRunner.vbo and vbo_size
  num_vertices,
  clVBO,          \* the WebGL buffer the WebCL buffer stands for
  draws,          \* what the render pass wrote since the frame began
  renders

fields == <<inh, tot, geo, self, rsize, right>>
buffers == <<vbo, num_vertices, clVBO, draws>>
control == <<phase, pass, level, todo, ok, renders>>
vars == <<tree, ignoreCL, input, fields, buffers, control>>

-----------------------------------------------------------------------------
(* The tree, as flattened: nodes in level order, siblings contiguous.      *)

Nodes == 0 .. tree.size - 1
Children(n) == {c \in Nodes \ {0} : tree.parent[c] = n}
FirstChild == Min(Children(0))
LevelNodes(t, l) == {n \in 0 .. t.size - 1 : t.level[n] = l}

Leaf == "pollingplace"
Outlined == {"district", "countrycontainer"}     \* draw an outline
Horizontal == Outlined \cup {"hsquare"}          \* children side by side
Vertical == {"region", "vsquare"}                \* children stacked

IsTree(t) ==
  /\ t.size \in Nat \ {0, 1}
  /\ t.depth \in Nat                          \* levels.length - 1
  /\ t.level \in [0 .. t.size - 1 -> 0 .. t.depth]
  /\ t.parent \in [1 .. t.size - 1 -> 0 .. t.size - 1]
  /\ \A n \in 0 .. t.size - 1 : t.level[n] = 0 <=> n = 0
  /\ \A n \in 1 .. t.size - 1 : t.level[n] = t.level[t.parent[n]] + 1
  /\ \A m, n \in 1 .. t.size - 1 : m <= n => t.parent[m] <= t.parent[n]
  /\ t.class \in [0 .. t.size - 1 -> {"root", Leaf} \cup Horizontal \cup Vertical]
  /\ \A n \in 0 .. t.size - 1 : t.class[n] = "root" <=> n = 0
  /\ \A n \in 1 .. t.size - 1 : t.class[t.parent[n]] # Leaf
  /\ \A n \in 0 .. t.size - 1 : t.class[n] = Leaf =>
       {t.data[n].votes, t.data[n].ur, t.data[n].urProjected} \subseteq Nat
  /\ \A l \in 0 .. t.depth : LevelNodes(t, l) # {}
  /\ \E c \in 1 .. t.size - 1 : {n \in 1 .. t.size - 1 : t.parent[n] = 0} = {c}

ASSUME TreesAreFlat == \A t \in Trees : IsTree(t)
ASSUME ConstantsAssumption ==
  /\ {Width, Height, FullVotes, RectangleSize, OutlineSize, MaxRenders} \subseteq Nat
  /\ FullVotes # 0
  /\ NaN \notin Int

Class(n) == tree.class[n]

-----------------------------------------------------------------------------
(* Arithmetic of the visits.                                               *)

Plus(a, b) == IF NaN \in {a, b} THEN NaN ELSE a + b
Minus(a, b) == IF NaN \in {a, b} THEN NaN ELSE a - b
\* (part / whole) * v
Scale(part, whole, v) ==
  IF v = NaN \/ whole = 0 THEN NaN ELSE (part * v) \div whole

\* What a loop over the children with "init + value of $-" leaves in child c
Roll(init, c, val) ==
  LET before == {d \in Children(tree.parent[c]) : d <= c} IN
  IF init = NaN \/ val[c] = NaN THEN NaN
  ELSE init + SumFunctionOnSet(val, before)

-----------------------------------------------------------------------------
(* The visits, one operator per pass; Class(n) is the dispatch on          *)
(* displayname.                                                            *)

\* pollingplace_magnitude, _totalMag and _votesUR
LeafTotals(n) ==
  LET d == tree.data[n]
      i == inh[n]
      counted == i.minTurnout < d.turnout /\ d.turnout <= i.maxTurnout
      shown == d.inJavascript \/ i.showJavascript
      projected == d.turnout > 83 /\ i.showProjected
  IN  [mag |-> IF counted /\ shown THEN d.votes ELSE 0,
       ur  |-> IF ~counted THEN 0 ELSE IF projected THEN d.urProjected ELSE d.ur]

\* Mutant: a vertical container does not hand its inputs on
visit_0_ForgetsRegions(n) ==
  /\ inh' = [c \in Nodes |-> IF c \in Children(n) /\ Class(n) \notin Vertical
                             THEN IF n = 0 THEN input ELSE inh[n] ELSE inh[c]]
  /\ tot' = IF Class(n) = Leaf THEN [tot EXCEPT ![n] = LeafTotals(n)] ELSE tot
  /\ geo' = IF n = 0 THEN [geo EXCEPT ![FirstChild].by = Height,
                                      ![FirstChild].rx = Width] ELSE geo
  /\ self' = self
  /\ UNCHANGED <<rsize, right, draws>>

\* Inputs down, totals of the leaves
visit_0(n) ==
  /\ inh' = [c \in Nodes |-> IF c \in Children(n)
                             THEN IF n = 0 THEN input ELSE inh[n] ELSE inh[c]]
  /\ tot' = IF Class(n) = Leaf THEN [tot EXCEPT ![n] = LeafTotals(n)] ELSE tot
  /\ geo' = IF n = 0 THEN [geo EXCEPT ![FirstChild].by = Height,
                                      ![FirstChild].rx = Width] ELSE geo
  /\ self' = IF Class(n) \in {"root", "region", "hsquare", "vsquare"}
             THEN [self EXCEPT ![n] = 0] ELSE self
  /\ UNCHANGED <<rsize, right, draws>>

\* Totals up; the root then sizes its child (its own votesUR, a ratio in the
\* code, is kept as the numerator)
visit_1(n) ==
  LET sum == [mag |-> SumFunction([c \in Children(n) |-> tot[c].mag]),
              ur  |-> SumFunction([c \in Children(n) |-> tot[c].ur])]
      m == tot[FirstChild].mag
  IN  /\ tot' = IF Class(n) = Leaf THEN tot ELSE [tot EXCEPT ![n] = sum]
      /\ geo' = IF n # 0 THEN geo ELSE
                  [geo EXCEPT
                     ![FirstChild].h = Scale(m, FullVotes, Height),
                     ![FirstChild].w = IF input.fixWidth THEN Width
                                       ELSE Scale(m, FullVotes, Width)]
      /\ UNCHANGED <<inh, self, rsize, right, draws>>

\* Where node n lies, from the edges its parent gave it
Placed(n) == [geo[n] EXCEPT !.x = Minus(geo[n].rx, geo[n].w),
                            !.y = Minus(geo[n].by, geo[n].h)]

\* Mutant: every child gets the same width
Side_Even(n, c) ==
  LET g == Placed(n)
      w == [d \in Children(n) |-> Scale(1, Cardinality(Children(n)), g.w)]
  IN  [geo[c] EXCEPT !.h = g.h, !.w = w[c], !.by = Plus(g.y, g.h),
                     !.rx = Roll(g.x, c, w)]

Side(n, c) ==        \* child c of a horizontal container
  LET g == Placed(n)
      w == [d \in Children(n) |-> Scale(tot[d].mag, tot[n].mag, g.w)]
  IN  [geo[c] EXCEPT !.h = g.h, !.w = w[c], !.by = Plus(g.y, g.h),
                     !.rx = Roll(g.x, c, w)]

\* Mutant: the bottom edge of a child ignores the children before it
Stack_NoFold(n, c) ==
  LET g == Placed(n)
      h == Scale(tot[c].mag, tot[n].mag, g.h)
  IN  [geo[c] EXCEPT !.w = g.w, !.h = h, !.rx = Plus(g.x, g.w), !.by = Plus(g.y, h)]

Stack(n, c) ==       \* child c of a vertical container
  LET g == Placed(n)
      h == [d \in Children(n) |-> Scale(tot[d].mag, tot[n].mag, g.h)]
  IN  [geo[c] EXCEPT !.w = g.w, !.h = h[c], !.rx = Plus(g.x, g.w),
                     !.by = Roll(g.y, c, h)]

\* In the canvas configuration the functions that answer sizes answer nothing
Size(vertices) == IF ignoreCL THEN 0 ELSE vertices

\* Sizes and positions down, vertices of each node
visit_2(n) ==
  /\ geo' = IF n = 0 THEN geo ELSE
              [c \in Nodes |->
                 CASE c = n -> Placed(n)
                   [] c \in Children(n) /\ Class(n) \in Horizontal -> Side(n, c)
                   [] c \in Children(n) /\ Class(n) \in Vertical -> Stack(n, c)
                   [] OTHER -> geo[c]]
  /\ self' = CASE Class(n) = Leaf -> [self EXCEPT ![n] = Size(RectangleSize)]
               [] Class(n) \in Outlined ->
                    [self EXCEPT ![n] = IF inh[n].fixWidth THEN Size(OutlineSize) ELSE 0]
               [] OTHER -> self
  /\ rsize' = IF Class(n) = Leaf THEN [rsize EXCEPT ![n] = Size(RectangleSize)] ELSE rsize
  /\ UNCHANGED <<inh, tot, right, draws>>

\* Vertices up; the root hands its child the end of the buffer
visit_3(n) ==
  /\ rsize' = IF Class(n) = Leaf THEN rsize ELSE
                [rsize EXCEPT ![n] = self[n]
                                     + SumFunctionOnSet(rsize, Children(n))]
  /\ right' = IF n = 0 THEN [right EXCEPT ![0] = rsize'[0],
                                          ![FirstChild] = rsize[FirstChild]]
              ELSE right
  /\ UNCHANGED <<inh, tot, geo, self, draws>>

renderOffset(n) == right[n] - rsize[n]

Drawn(n) ==
  Class(n) = Leaf \/ (Class(n) \in Outlined /\ inh[n].fixWidth)

\* Vertices written, the rest of the node's share handed to its children
visit_4(n) ==
  /\ draws' = IF Drawn(n)
              THEN draws \cup {[node |-> n, at |-> renderOffset(n),
                                len |-> Size(IF Class(n) = Leaf THEN RectangleSize
                                                                ELSE OutlineSize),
                                after |-> {d.node : d \in draws},
                                box |-> geo[n], flags |-> inh[n]]}
              ELSE draws
  /\ right' = IF n = 0 THEN right ELSE
                [c \in Nodes |->
                   IF c \in Children(n)
                   THEN Roll(renderOffset(n) + self[n], c, rsize)
                   ELSE right[c]]
  /\ UNCHANGED <<inh, tot, geo, self, rsize>>

-----------------------------------------------------------------------------
(* Memory after loading: the flattener writes the data, every computed     *)
(* field is zero.                                                          *)

Blank(t, v) == [n \in 0 .. t.size - 1 |-> v]
ZeroBox == [x |-> 0, y |-> 0, w |-> 0, h |-> 0, by |-> 0, rx |-> 0]
ZeroInput == [fixWidth |-> FALSE, minTurnout |-> 0, maxTurnout |-> 0,
              showJavascript |-> FALSE, showProjected |-> FALSE]

Init ==
  /\ tree \in Trees
  /\ ignoreCL \in BOOLEAN
  /\ input \in Inputs
  /\ inh = Blank(tree, ZeroInput)
  /\ tot = Blank(tree, [mag |-> 0, ur |-> 0])
  /\ geo = Blank(tree, ZeroBox)
  /\ self = Blank(tree, 0) /\ rsize = Blank(tree, 0) /\ right = Blank(tree, 0)
  /\ phase = "idle" /\ pass = 0 /\ level = 0 /\ todo = {} /\ ok = TRUE
  /\ vbo = [id |-> 0, size |-> 0] /\ num_vertices = 0 /\ clVBO = None
  /\ draws = {} /\ renders = 0

-----------------------------------------------------------------------------
(* The page between two renders.                                           *)

\* CLDataWrapper.set on fields of the root
SetInput(i) ==
  /\ phase = "idle"
  /\ input' = i
  /\ UNCHANGED <<tree, ignoreCL, fields, buffers, control>>

\* Another tree is loaded; the WebGL and WebCL buffers stay
LoadTree(t) ==
  /\ phase = "idle"
  /\ tree' = t
  /\ inh' = Blank(t, ZeroInput)
  /\ tot' = Blank(t, [mag |-> 0, ur |-> 0])
  /\ geo' = Blank(t, ZeroBox)
  /\ self' = Blank(t, 0) /\ rsize' = Blank(t, 0) /\ right' = Blank(t, 0)
  /\ UNCHANGED <<ignoreCL, input, buffers, control>>

-----------------------------------------------------------------------------
(* One render.                                                             *)

\* Mutant: the render pass runs upwards
TopDown_NotRender == {0, 2}
TopDown == {0, 2, 4}
StartPass(p) ==
  /\ phase' = "pass"
  /\ pass' = p
  /\ level' = IF p \in TopDown THEN 0 ELSE tree.depth
  /\ todo' = LevelNodes(tree, level')

\* layoutAndRender up to the first traversal; resetCanvas wipes the canvas
BeginLayout ==
  /\ phase = "idle"
  /\ renders < MaxRenders
  /\ renders' = renders + 1
  /\ ok' = TRUE
  /\ draws' = {}
  /\ StartPass(0)
  /\ UNCHANGED <<tree, ignoreCL, input, fields, vbo, num_vertices, clVBO>>

Visit(n) ==
  /\ phase = "pass"
  /\ n \in todo
  /\ todo' = todo \ {n}
  /\ CASE pass = 0 -> visit_0(n)
       [] pass = 1 -> visit_1(n)
       [] pass = 2 -> visit_2(n)
       [] pass = 3 -> visit_3(n)
       [] pass = 4 -> visit_4(n)
  /\ UNCHANGED <<tree, ignoreCL, input, vbo, num_vertices, clVBO,
                 phase, pass, level, ok, renders>>

\* Mutants: a bottom-up loop that runs one level too far, a top-down loop that
\* stops one level early
LastLevel_TooFar == IF pass \in TopDown THEN level = tree.depth ELSE level = -1
LastLevel_Early == IF pass \in TopDown THEN level = tree.depth - 1 ELSE level = 0

LastLevel == IF pass \in TopDown THEN level = tree.depth ELSE level = 0

\* queue.finish(), then the next level
NextLevel ==
  /\ phase = "pass" /\ todo = {} /\ ~LastLevel
  /\ level' = IF pass \in TopDown THEN level + 1 ELSE level - 1
  /\ todo' = LevelNodes(tree, level')
  /\ UNCHANGED <<tree, ignoreCL, input, fields, buffers, phase, pass, ok, renders>>

AfterTraversals == IF ignoreCL THEN StartPass(4)
                   ELSE phase' = "alloc" /\ UNCHANGED <<pass, level, todo>>

\* The end of a traversal: the next one, the buffers, or the frame
NextPass ==
  /\ phase = "pass" /\ todo = {} /\ LastLevel
  /\ CASE pass < 3 -> StartPass(pass + 1)
       [] pass = 3 -> AfterTraversals
       [] pass = 4 -> phase' = "frame" /\ UNCHANGED <<pass, level, todo>>
  /\ UNCHANGED <<tree, ignoreCL, input, fields, buffers, ok, renders>>

\* A WebCL call of a traversal throws: runTraversals and runRenderTraversal
\* log the error, and layout goes on behind them
KernelFails ==
  /\ phase = "pass" /\ ~ignoreCL
  /\ ok' = FALSE
  /\ phase' = IF pass < 4 THEN "alloc" ELSE "frame"
  /\ todo' = {}
  /\ UNCHANGED <<tree, ignoreCL, input, fields, buffers, pass, level, renders>>

VertexBytes == 32

getRenderBufferSize == rsize[0]

\* Mutant: only a buffer that is much too large is replaced
Keeps_Small(requested) == vbo.size > 0 /\ 4 * (vbo.size - requested) <= vbo.size

\* The buffer is kept while it is large enough and at most a quarter unused
Keeps(requested) ==
  /\ vbo.size >= requested
  /\ 4 * (vbo.size - requested) <= vbo.size

\* reallocateVBO; an empty request throws, and the render is over
reallocateVBO ==
  /\ phase = "alloc"
  /\ LET requested == getRenderBufferSize * VertexBytes IN
     IF getRenderBufferSize <= 0
     THEN phase' = "idle" /\ UNCHANGED <<vbo, num_vertices, draws>>
     ELSE /\ phase' = "share"
          /\ num_vertices' = getRenderBufferSize
          /\ vbo' = IF Keeps(requested) THEN vbo
                    ELSE [id |-> vbo.id + 1, size |-> (requested * 5) \div 4]
          /\ draws' = draws
  /\ UNCHANGED <<tree, ignoreCL, input, fields, clVBO, pass, level, todo, ok, renders>>

\* setVBO; when the buffer cannot be shared the old one is used, or, if it has
\* been released, acquiring it makes the render pass fail
setVBO ==
  /\ phase = "share"
  /\ \/ clVBO' = vbo.id /\ StartPass(4) /\ ok' = ok
     \/ /\ ok' = FALSE
        /\ \/ clVBO' = None /\ phase' = "frame" /\ UNCHANGED <<pass, level, todo>>
           \/ clVBO # None /\ clVBO' = clVBO /\ StartPass(4)
  /\ UNCHANGED <<tree, ignoreCL, input, fields, vbo, num_vertices, draws, renders>>

\* drawArrays over num_vertices, or nothing on a canvas
renderFrame ==
  /\ phase = "frame"
  /\ phase' = "idle"
  /\ UNCHANGED <<tree, ignoreCL, input, fields, buffers, pass, level, todo, ok, renders>>

Next ==
  \/ \E i \in Inputs : SetInput(i)
  \/ \E t \in Trees : LoadTree(t)
  \/ BeginLayout
  \/ \E n \in Nodes : Visit(n)
  \/ NextLevel \/ NextPass \/ KernelFails
  \/ reallocateVBO \/ setVBO \/ renderFrame

Spec == Init /\ [][Next]_vars

-----------------------------------------------------------------------------
(* Properties.                                                             *)

Box == [x : Int \cup {NaN}, y : Int \cup {NaN}, w : Int \cup {NaN},
        h : Int \cup {NaN}, by : Int \cup {NaN}, rx : Int \cup {NaN}]

\* Type invariant: the memory of the engine has a cell per node, and the
\* traversal is at a level of the tree
TypeOK ==
  /\ tree \in Trees /\ ignoreCL \in BOOLEAN /\ input \in Inputs
  /\ inh \in [Nodes -> Inputs \cup {ZeroInput}]
  /\ tot \in [Nodes -> [mag : Nat, ur : Nat]]
  /\ geo \in [Nodes -> Box]
  /\ self \in [Nodes -> Nat] /\ rsize \in [Nodes -> Nat] /\ right \in [Nodes -> Int]
  /\ phase \in {"idle", "pass", "alloc", "share", "frame"}
  /\ pass \in 0 .. 4 /\ level \in Nat /\ todo \subseteq Nodes /\ ok \in BOOLEAN
  /\ vbo \in [id : Nat, size : Nat] /\ num_vertices \in Nat
  /\ clVBO \in Nat \cup {None} /\ renders \in 0 .. MaxRenders

\* The render ran to its end without a failed call
Complete == phase = "frame" /\ ok

\* Once the first pass is over every node sees the inputs the page set before
\* this render, at whatever depth it lies: a level that ran before its parents'
\* level was finished, or a class that copies from the wrong node, would leave a
\* node with the inputs of the render before (visit_*_0)
NodesSeeTheInputs ==
  phase # "idle" /\ ok /\ pass >= 1 => \A n \in Nodes \ {0} : inh[n] = input

Leaves == {n \in Nodes : Class(n) = Leaf}
CountedVotes ==
  LET counts(n) == LET d == tree.data[n] IN
        /\ input.minTurnout < d.turnout /\ d.turnout <= input.maxTurnout
        /\ d.inJavascript \/ input.showJavascript
      counted == {n \in Leaves : counts(n)}
  IN  SumFunction([n \in counted |-> tree.data[n].votes])

\* The total the fold of visit_*_1 carries to the root is the sum over the
\* polling places the inputs select, however deep and under whatever classes
TotalsReachTheRoot == Complete => tot[0].mag = CountedVotes

Edges(n) == [lo |-> geo[n].x, hi |-> geo[n].rx, bottom |-> geo[n].y, top |-> geo[n].by]
Abut(S, from, to, lo(_), hi(_)) ==
  /\ \A c \in S : (IF c = Min(S) THEN lo(c) = from ELSE lo(c) = hi(c - 1))
  /\ hi(Max(S)) = to

\* When a frame is shown the children of a container with votes fill it: along
\* its axis each begins where the one before ends, the first at the container's
\* edge and the last at the other, and across they are as large as it (the rx
\* and by folds of visit_*_2 against the totals of visit_*_1)
ChildrenTileTheirParent ==
  Complete => \A n \in Nodes \ {0} :
    Children(n) # {} /\ tot[n].mag > 0 /\ geo[n].w # NaN /\ geo[n].h # NaN =>
      LET p == Edges(n)
          C == Children(n) IN
      IF Class(n) \in Horizontal
      THEN /\ Abut(C, p.lo, p.hi, LAMBDA c : Edges(c).lo, LAMBDA c : Edges(c).hi)
           /\ \A c \in C : Edges(c).bottom = p.bottom /\ Edges(c).top = p.top
      ELSE /\ Abut(C, p.bottom, p.top, LAMBDA c : Edges(c).bottom, LAMBDA c : Edges(c).top)
           /\ \A c \in C : Edges(c).lo = p.lo /\ Edges(c).hi = p.hi

\* The area of a polling place is its share of the votes, whatever mixture of
\* rows and columns lies between it and the root, and one with votes never has
\* an undefined size although empty containers do (0 / 0 in visit_*_2)
AreaIsVotes ==
  Complete => \A n \in Leaves : tot[n].mag > 0 =>
    LET g == geo[n]
        all == geo[FirstChild] IN
    /\ NaN \notin {g.w, g.h, g.x, g.y}
    /\ g.w * g.h * tot[0].mag = all.w * all.h * tot[n].mag

Covers(d, v) == d.at <= v /\ v < d.at + d.len

\* The vertices a frame draws, a redraw by a key press after a failed render
\* included, lie in the buffer.  While they are written every node stays in the buffer WebGL holds
\* and WebCL shares, and when the frame is drawn each of the num_vertices
\* vertices was written by exactly one node of this render: nothing is
\* overwritten, no vertex of an older frame shows, and a container comes before
\* its contents (__renderSize__ summed up in
\* visit_*_3, __renderRightOffset__ handed down in visit_*_4, reallocateVBO)
VerticesArePartitioned ==
  /\ num_vertices * VertexBytes <= vbo.size
  /\ ~ignoreCL /\ ok =>
    /\ phase = "pass" /\ pass = 4 =>
         /\ clVBO = vbo.id
         /\ \A d \in draws : 0 <= d.at /\ d.at + d.len <= num_vertices
    /\ phase = "frame" =>
         /\ \A v \in 0 .. num_vertices - 1 :
              Cardinality({d \in draws : Covers(d, v)}) = 1
         /\ \A d, e \in draws : d.node \in Children(e.node) => e.at + e.len <= d.at

\* What is drawn is the node where this layout put it and under this render's
\* inputs, every visible node is drawn once, and a container is painted before
\* its contents, which on a canvas would otherwise vanish under it
FrameShowsTheLayout ==
  Complete =>
    /\ {d.node : d \in draws} = {n \in Nodes \ {0} : Drawn(n)}
    /\ \A d \in draws :
         /\ d.box = geo[d.node] /\ d.flags = input
         /\ \A e \in draws :
              /\ e.node = d.node => e = d
              /\ d.node \in Children(e.node) => e.node \in d.after

=============================================================================
