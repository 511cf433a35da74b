----------------------- MODULE TreemapGeometryProofs -----------------------
(***************************************************************************)
(* Proofs about the vertex buffer and the boxes of the treemap engine, for *)
(* every set of trees and inputs.                                          *)
(*                                                                         *)
(* The buffer: the sizes the third pass counts and the fourth adds up are  *)
(* shared out by the render pass without a gap and without an overlap, and *)
(* what is drawn lies in the buffer.                                       *)
(*                                                                         *)
(* The boxes: what the first three passes leave in fld_node_x, y, w, h, by *)
(* and rx, and that where the shares of the children can be divided        *)
(* without a remainder, containers are tiled and areas are votes.          *)
(***************************************************************************)
EXTENDS TreemapEngineProofs

-----------------------------------------------------------------------------
(***************************************************************************)
(* The vertex buffer.                                                      *)
(***************************************************************************)

\* The vertices a node draws itself, and what its two counters should say.
Need(n) ==
  IF Class(n) = Leaf THEN RectangleSize
  ELSE IF Class(n) \in Outlined /\ inh[n].fixWidth THEN OutlineSize ELSE 0
Fits(n) == self[n] = Need(n) /\ (Class(n) = Leaf => rsize[n] = self[n])
Whole(n) == rsize[n] = self[n] + SumFunctionOnSet(rsize, Children(n))

\* The render is still sound and draws with WebGL.
Sound == phase # "idle" /\ ok /\ ~ignoreCL

\* A class that draws nothing never counts a vertex of its own.
Plain == \A n \in Nodes : Class(n) # Leaf /\ Class(n) \notin Outlined => self[n] = 0

\* The third pass counts the vertices of each node.
Sized ==
  Sound =>
    /\ phase = "pass" /\ pass = 2 => \A n \in Nodes : Reached(n) => Fits(n)
    /\ pass >= 3 => \A n \in Nodes : Fits(n)

\* The fourth adds them up.
Summed ==
  Sound =>
    /\ phase = "pass" /\ pass = 3 =>
         /\ \A n \in Nodes : ReachedUp(n) => Whole(n)
         /\ ReachedUp(0) => right[FirstChild] = rsize[FirstChild]
    /\ phase \in {"alloc", "share"} \/ pass = 4 =>
         /\ \A n \in Nodes : Whole(n)
         /\ right[FirstChild] = rsize[FirstChild]

\* The buffer holds what they add up to, and WebCL writes the one WebGL draws.
Held ==
  Sound =>
    /\ phase = "share" \/ pass = 4 => num_vertices = rsize[0]
    /\ pass = 4 => clVBO = vbo.id
Enough == num_vertices * VertexBytes <= vbo.size

\* A node that knows where it is in the buffer, and the vertices that are its
\* own: all of its part until it has handed the rest on to its children.
Given(n) == n # 0 /\ (tree.parent[n] = 0 \/ Reached(tree.parent[n]))
Owns(n, v) ==
  /\ Given(n)
  /\ renderOffset(n) <= v
  /\ IF Reached(n) THEN v < renderOffset(n) + self[n] ELSE v < right[n]

\* Every vertex has one owner, the parts lie in the buffer, and what was drawn
\* is what the nodes own.
Parted ==
  Sound /\ pass = 4 =>
    /\ \A n \in Nodes : Given(n) => 0 <= renderOffset(n) /\ right[n] <= num_vertices
    /\ \A v \in 0 .. num_vertices - 1 :
         /\ \E n \in Nodes : Owns(n, v)
         /\ \A m, n \in Nodes : Owns(m, v) /\ Owns(n, v) => m = n
    /\ \A d \in draws : d.at = renderOffset(d.node) /\ d.len = self[d.node]
    /\ \A n \in Nodes \ {0} : Reached(n) =>
         \A c \in Children(n) : renderOffset(n) + self[n] <= renderOffset(c)

BufferInv == Plain /\ Sized /\ Summed /\ Held /\ Enough /\ Parted

-----------------------------------------------------------------------------
(***************************************************************************)
(* Siblings side by side.                                                  *)
(***************************************************************************)

\* The sum of the values up to k: where a loop over the siblings stands after k.
UpTo(r, C, k) == SumFunctionOnSet(r, {d \in C : d <= k})

\* A sum of integers, and one of its elements taken out of it.
IntValued(f, S) == IsFiniteSet(S) /\ \A x \in S : f[x] \in Int

LEMMA TakenOut ==
  \A f, S : IntValued(f, S) =>
    \A x \in S : SumFunctionOnSet(f, S) = f[x] + SumFunctionOnSet(f, S \ {x})
<1>1. ASSUME NEW f, NEW S, IntValued(f, S)
      PROVE  \A x \in S : SumFunctionOnSet(f, S) = f[x] + SumFunctionOnSet(f, S \ {x})
  <2>1. IsFiniteSet(S) /\ \A x \in S : f[x] \in Int
    BY <1>1 DEF IntValued
  <2>2. QED
    BY <2>1, SumRemove
<1>2. QED
  BY <1>1

\* The siblings up to one of them, and the sum of their sizes.
LEMMA UpToTypes ==
  ASSUME NEW r, NEW C, C \subseteq Nat, IsFiniteSet(C), \A c \in C : r[c] \in Nat
  PROVE  /\ SumFunctionOnSet(r, C) \in Nat
         /\ \A k \in Int : UpTo(r, C, k) \in Nat /\ UpTo(r, C, k) <= SumFunctionOnSet(r, C)
         /\ \A c \in C : UpTo(r, C, c) = r[c] + UpTo(r, C, c - 1)
         /\ \A c, d \in C : c < d => UpTo(r, C, c) <= UpTo(r, C, d - 1)
<1>1. SumFunctionOnSet(r, C) \in Nat
  BY SumType
<1>2. ASSUME NEW k \in Int
      PROVE  UpTo(r, C, k) \in Nat /\ UpTo(r, C, k) <= SumFunctionOnSet(r, C)
  <2> DEFINE T == {d \in C : d <= k}
  <2>1. T \in SUBSET C /\ IsFiniteSet(T) /\ \A c \in T : r[c] \in Nat
    BY FS_Subset
  <2> HIDE DEF T
  <2>2. SumFunctionOnSet(r, T) \in Nat
    BY <2>1, SumType
  <2>3. SumFunctionOnSet(r, T) <= SumFunctionOnSet(r, C)
    BY <2>1, SumPart
  <2>4. QED
    BY <2>2, <2>3 DEF UpTo, T
<1>3. ASSUME NEW c \in C PROVE UpTo(r, C, c) = r[c] + UpTo(r, C, c - 1)
  <2> DEFINE T == {d \in C : d <= c}
  <2>1. IsFiniteSet(T) /\ \A d \in T : r[d] \in Int
    BY FS_Subset
  <2>2. c \in T /\ T \ {c} = {d \in C : d <= c - 1}
    <3>1. c \in Nat /\ c <= c
      OBVIOUS
    <3>2. ASSUME NEW d \in C PROVE (d <= c /\ d # c) <=> d <= c - 1
      <4>1. d \in Nat /\ c \in Nat
        OBVIOUS
      <4>2. QED
        BY <4>1
    <3>3. T \ {c} = {d \in C : d <= c - 1}
      BY <3>2, Zenon
    <3>4. QED
      BY <3>1, <3>3
  <2>3. UpTo(r, C, c) = SumFunctionOnSet(r, T)
    BY DEF UpTo
  <2>4. UpTo(r, C, c - 1) = SumFunctionOnSet(r, T \ {c})
    BY <2>2 DEF UpTo
  <2>5. SumFunctionOnSet(r, T) = r[c] + SumFunctionOnSet(r, T \ {c})
    <3> HIDE DEF T
    <3>1. c \in T /\ IntValued(r, T)
      BY <2>1, <2>2 DEF IntValued
    <3>2. QED
      BY <3>1, TakenOut
  <2>6. QED
    BY <2>3, <2>4, <2>5
<1>4. ASSUME NEW c \in C, NEW d \in C, c < d
      PROVE  UpTo(r, C, c) <= UpTo(r, C, d - 1)
  <2> DEFINE S == {e \in C : e <= c}
             T == {e \in C : e <= d - 1}
  <2>1. S \in SUBSET T
    <3>1. \A e \in C : e <= c => e <= d - 1
      BY <1>4
    <3>2. QED
      BY <3>1
  <2>2. IsFiniteSet(T) /\ \A e \in T : r[e] \in Nat
    BY FS_Subset
  <2>3. SumFunctionOnSet(r, S) <= SumFunctionOnSet(r, T)
    <3> HIDE DEF S, T
    <3> QED
      BY <2>1, <2>2, SumPart
  <2>4. QED
    BY <2>3 DEF UpTo
<1>5. QED
  BY <1>1, <1>2, <1>3, <1>4

\* Siblings laid side by side cover the whole, each point once.
LEMMA SiblingsPartition ==
  ASSUME NEW r, NEW C, C \subseteq Nat, IsFiniteSet(C), \A c \in C : r[c] \in Nat,
         NEW v \in Nat
  PROVE  /\ v < SumFunctionOnSet(r, C) =>
              \E c \in C : UpTo(r, C, c - 1) <= v /\ v < UpTo(r, C, c)
         /\ \A c, d \in C :
              (/\ UpTo(r, C, c - 1) <= v /\ v < UpTo(r, C, c)
               /\ UpTo(r, C, d - 1) <= v /\ v < UpTo(r, C, d)) => c = d
<1>1. /\ SumFunctionOnSet(r, C) \in Nat
      /\ \A k \in Int : UpTo(r, C, k) \in Nat
      /\ \A c, d \in C : c < d => UpTo(r, C, c) <= UpTo(r, C, d - 1)
  BY UpToTypes
<1>2. ASSUME NEW c \in C, NEW d \in C,
             UpTo(r, C, c - 1) <= v, v < UpTo(r, C, c),
             UpTo(r, C, d - 1) <= v, v < UpTo(r, C, d)
      PROVE  c = d
  <2>1. /\ c \in Int /\ d \in Int /\ c - 1 \in Int /\ d - 1 \in Int
    OBVIOUS
  <2>2. /\ UpTo(r, C, c) \in Nat /\ UpTo(r, C, d) \in Nat
        /\ UpTo(r, C, c - 1) \in Nat /\ UpTo(r, C, d - 1) \in Nat
    BY <1>1, <2>1
  <2>3. ~(c < d)
    BY <1>1, <1>2, <2>2
  <2>4. ~(d < c)
    BY <1>1, <1>2, <2>2
  <2>5. QED
    BY <2>1, <2>3, <2>4
<1>3. ASSUME v < SumFunctionOnSet(r, C)
      PROVE  \E c \in C : UpTo(r, C, c - 1) <= v /\ v < UpTo(r, C, c)
  <2> DEFINE G == {c \in C : v < UpTo(r, C, c)}
  <2>1. C # {}
    <3>1. C = {} => SumFunctionOnSet(r, C) = 0
      BY SumUnfolds
    <3>2. QED
      BY <1>3, <3>1
  <2>2. \E m \in C : \A x \in C : x <= m
    BY <2>1, Extremes
  <2>3. G # {}
    <3>1. PICK m \in C : \A x \in C : x <= m
      BY <2>2
    <3>2. {d \in C : d <= m} = C
      BY <3>1
    <3>3. UpTo(r, C, m) = SumFunctionOnSet(r, C)
      BY <3>2 DEF UpTo
    <3>4. QED
      BY <1>3, <3>3
  <2>4. IsFiniteSet(G) /\ G \subseteq Nat
    BY FS_Subset
  <2>5. PICK c \in G : \A x \in G : c <= x
    <3> HIDE DEF G
    <3> QED
      BY <2>3, <2>4, Extremes
  <2>6. c \in C /\ v < UpTo(r, C, c) /\ c \in Nat
    BY <2>4, <2>5
  <2>7. UpTo(r, C, c - 1) <= v
    <3> DEFINE T == {d \in C : d <= c - 1}
    <3>1. CASE T = {}
      <4>1. IsFiniteSet(T)
        BY FS_Subset
      <4>2. SumFunctionOnSet(r, T) = 0
        <5> HIDE DEF T
        <5> QED
          BY <3>1, <4>1, SumUnfolds
      <4>3. QED
        BY <4>2 DEF UpTo
    <3>2. CASE T # {}
      <4>1. IsFiniteSet(T) /\ T \subseteq C
        BY FS_Subset
      <4>2. PICK m \in T : \A x \in T : x <= m
        <5> HIDE DEF T
        <5>1. T \subseteq Nat
          BY <4>1
        <5>2. QED
          BY <3>2, <4>1, <5>1, Extremes
      <4>3. m \in C /\ m \in Nat /\ m <= c - 1
        OBVIOUS
      <4>4. T = {d \in C : d <= m}
        <5>1. \A d \in C : d <= c - 1 <=> d <= m
          <6>1. \A d \in C : d \in Nat
            OBVIOUS
          <6>2. \A d \in C : d <= m => d <= c - 1
            BY <2>6, <4>3, <6>1
          <6>3. \A d \in C : d <= c - 1 => d <= m
            BY <4>2
          <6>4. QED
            BY <6>2, <6>3
        <5>2. QED
          BY <5>1
      <4>5. UpTo(r, C, c - 1) = UpTo(r, C, m)
        BY <4>4 DEF UpTo
      <4>6. m \notin G
        BY <2>5, <2>6, <4>3
      <4>7. UpTo(r, C, m) \in Nat /\ ~(v < UpTo(r, C, m))
        BY <1>1, <4>3, <4>6
      <4>8. QED
        BY <4>5, <4>7
    <3>3. QED
      BY <3>1, <3>2
  <2>8. QED
    BY <2>6, <2>7
<1>4. QED
  BY <1>2, <1>3

\* The first half of it, of the sizes of the children of any node.
Sizes(r, C) == C \subseteq Nat /\ IsFiniteSet(C) /\ \A c \in C : r[c] \in Nat

LEMMA SiblingsCover ==
  \A r, C : Sizes(r, C) =>
    \A v \in Nat : v < SumFunctionOnSet(r, C) =>
      \E c \in C : UpTo(r, C, c - 1) <= v /\ v < UpTo(r, C, c)
<1>1. ASSUME NEW r, NEW C, Sizes(r, C), NEW v \in Nat, v < SumFunctionOnSet(r, C)
      PROVE  \E c \in C : UpTo(r, C, c - 1) <= v /\ v < UpTo(r, C, c)
  <2>1. C \subseteq Nat /\ IsFiniteSet(C) /\ \A c \in C : r[c] \in Nat
    BY <1>1 DEF Sizes
  <2>2. QED
    BY <1>1, <2>1, SiblingsPartition
<1>2. QED
  BY <1>1

-----------------------------------------------------------------------------
(***************************************************************************)
(* The counters.                                                           *)
(***************************************************************************)

\* What depends on the tree only does not change while the tree stays.
LEMMA SameTree ==
  ASSUME tree' = tree
  PROVE  /\ Nodes' = Nodes /\ FirstChild' = FirstChild
         /\ \A m : Children(m)' = Children(m) /\ Class(m)' = Class(m)
<1>1. Nodes' = Nodes
  BY DEF Nodes
<1>2. \A m : Children(m)' = Children(m) /\ Class(m)' = Class(m)
  BY <1>1 DEF Children, Class
<1>3. FirstChild' = FirstChild
  BY <1>1 DEF FirstChild, Children
<1>4. QED
  BY <1>1, <1>2, <1>3

\* What the lemmas below need of the state.
LEMMA StateFacts ==
  ASSUME TypeInv
  PROVE  /\ tree \in Trees /\ FieldTypes /\ level \in Nat /\ pass \in 0 .. 4
         /\ \A m \in Nodes : /\ self[m] \in Nat /\ rsize[m] \in Nat /\ right[m] \in Int
                             /\ tree.level[m] \in 0 .. tree.depth
                             /\ (tree.level[m] = 0 <=> m = 0)
         /\ tree.depth \in Nat
         /\ \A m \in Nodes \ {0} : /\ tree.parent[m] \in Nodes
                                   /\ tree.level[m] = tree.level[tree.parent[m]] + 1
         /\ num_vertices \in Nat /\ vbo.id \in Nat /\ vbo.size \in Nat
<1>1. tree \in Trees /\ FieldTypes /\ level \in Nat /\ pass \in 0 .. 4
  BY DEF TypeInv, ControlTypes
<1>2. \A m \in Nodes : self[m] \in Nat /\ rsize[m] \in Nat /\ right[m] \in Int
  BY <1>1 DEF FieldTypes
<1>3. num_vertices \in Nat /\ vbo.id \in Nat /\ vbo.size \in Nat
  BY DEF TypeInv, ControlTypes
<1>4. QED
  BY <1>1, <1>2, <1>3, TreeFacts DEF Nodes

\* A visited node was waiting at the current level.
LEMMA VisitFacts ==
  ASSUME Inv, TypeInv, NEW n \in Nodes, Visit(n)
  PROVE  /\ phase = "pass" /\ n \in todo /\ todo' = todo \ {n} /\ tree.level[n] = level
         /\ UNCHANGED <<tree, ignoreCL, input, vbo, num_vertices, clVBO,
                        phase, pass, level, ok>>
         /\ Sound' <=> Sound
         /\ ~Reached(n) /\ \A m \in Nodes : Reached(m)' <=> Reached(m) \/ m = n
         /\ ~ReachedUp(n) /\ \A m \in Nodes : ReachedUp(m)' <=> ReachedUp(m) \/ m = n
<1>1. /\ phase = "pass" /\ n \in todo /\ todo' = todo \ {n}
      /\ UNCHANGED <<tree, ignoreCL, input, vbo, num_vertices, clVBO,
                     phase, pass, level, ok>>
  BY DEF Visit
<1>2. tree.level[n] = level /\ level \in Nat /\ \A m \in Nodes : tree.level[m] \in Nat
  BY <1>1, StateFacts DEF Inv, Control, LevelNodes
<1>3. Sound' <=> Sound
  BY <1>1 DEF Sound
<1>4. ~Reached(n) /\ \A m \in Nodes : Reached(m)' <=> Reached(m) \/ m = n
  BY <1>1, <1>2 DEF Reached
<1>5. ~ReachedUp(n) /\ \A m \in Nodes : ReachedUp(m)' <=> ReachedUp(m) \/ m = n
  BY <1>1, <1>2 DEF ReachedUp
<1>6. QED
  BY <1>1, <1>2, <1>3, <1>4, <1>5

\* Classes that draw nothing never count a vertex.
LEMMA VisitPlain ==
  ASSUME Inv, TypeInv, Plain, NEW n \in Nodes, Visit(n)
  PROVE  Plain'
<1>1. tree' = tree /\ pass \in 0 .. 4
  BY VisitFacts, StateFacts
<1>2. self \in [Nodes -> Nat]
  BY DEF TypeInv, FieldTypes
<1>3. /\ Class(n) # Leaf /\ Class(n) \notin Outlined => self'[n] = self[n] \/ self'[n] = 0
      /\ \A m \in Nodes : m # n => self'[m] = self[m]
  <2>1. CASE pass = 0
    BY <1>2, <2>1 DEF Visit, visit_0
  <2>2. CASE pass = 1
    BY <2>2 DEF Visit, visit_1
  <2>3. CASE pass = 2
    <3>1. self' = CASE Class(n) = Leaf -> [self EXCEPT ![n] = Size(RectangleSize)]
                    [] Class(n) \in Outlined ->
                         [self EXCEPT ![n] = IF inh[n].fixWidth THEN Size(OutlineSize) ELSE 0]
                    [] OTHER -> self
      BY <2>3 DEF Visit, visit_2
    <3>2. QED
      BY <1>2, <3>1
  <2>4. CASE pass = 3
    BY <2>4 DEF Visit, visit_3
  <2>5. CASE pass = 4
    BY <2>5 DEF Visit, visit_4
  <2>6. QED
    BY <1>1, <2>1, <2>2, <2>3, <2>4, <2>5
<1>4. QED
  BY <1>1, <1>3, SameTree DEF Plain

\* visit_*_2 counts the vertices of the node it visits, and no later pass changes them.
LEMMA VisitSized ==
  ASSUME Inv, TypeInv, Plain, Sized, NEW n \in Nodes, Visit(n)
  PROVE  Sized'
<1>1. /\ UNCHANGED <<tree, ignoreCL, phase, pass, ok>> /\ phase = "pass" /\ pass \in 0 .. 4
      /\ \A m \in Nodes : Reached(m)' <=> Reached(m) \/ m = n
      /\ Sound' <=> Sound
  BY VisitFacts, StateFacts
<1>2. Nodes' = Nodes /\ \A m : Class(m)' = Class(m)
  BY <1>1, SameTree
<1>3. self \in [Nodes -> Nat] /\ rsize \in [Nodes -> Nat]
  BY DEF TypeInv, FieldTypes
<1> SUFFICES ASSUME Sound, pass >= 2 PROVE Sized'
  BY <1>1 DEF Sized
<1>4. inh' = inh /\ \A m : Need(m)' = Need(m)
  <2>1. inh' = inh
    <3>1. CASE pass = 2
      BY <3>1 DEF Visit, visit_2
    <3>2. CASE pass = 3
      BY <3>2 DEF Visit, visit_3
    <3>3. CASE pass = 4
      BY <3>3 DEF Visit, visit_4
    <3>4. QED
      BY <1>1, <3>1, <3>2, <3>3
  <2>2. QED
    BY <1>2, <2>1 DEF Need
<1>5. CASE pass = 2
  <2>0. visit_2(n)
    BY <1>5 DEF Visit
  <2>1. /\ Size(RectangleSize) = RectangleSize /\ Size(OutlineSize) = OutlineSize
        /\ Leaf \notin Outlined
    BY DEF Sound, Size, Leaf, Outlined
  <2>2. self' = CASE Class(n) = Leaf -> [self EXCEPT ![n] = RectangleSize]
                  [] Class(n) \in Outlined ->
                       [self EXCEPT ![n] = IF inh[n].fixWidth THEN OutlineSize ELSE 0]
                  [] OTHER -> self
    BY <2>0, <2>1 DEF visit_2
  <2>3. rsize' = IF Class(n) = Leaf THEN [rsize EXCEPT ![n] = RectangleSize] ELSE rsize
    BY <2>0, <2>1 DEF visit_2
  <2>4. \A m \in Nodes : m # n => self'[m] = self[m] /\ rsize'[m] = rsize[m]
    BY <1>3, <2>2, <2>3
  <2>5. self'[n] = Need(n) /\ (Class(n) = Leaf => rsize'[n] = self'[n])
    <3>1. CASE Class(n) = Leaf
      BY <1>3, <2>1, <2>2, <2>3, <3>1 DEF Need
    <3>2. CASE Class(n) \in Outlined
      BY <1>3, <2>1, <2>2, <3>2 DEF Need
    <3>3. CASE Class(n) # Leaf /\ Class(n) \notin Outlined
      BY <2>2, <3>3 DEF Need, Plain
    <3>4. QED
      BY <3>1, <3>2, <3>3
  <2>6. \A m \in Nodes : Reached(m) => Fits(m)
    BY <1>1, <1>5 DEF Sized
  <2>7. ASSUME NEW m \in Nodes, Reached(m)' PROVE Fits(m)'
    <3>1. CASE m = n
      BY <1>2, <1>4, <2>5, <3>1 DEF Fits
    <3>2. CASE m # n
      <4>1. Fits(m)
        BY <1>1, <2>6, <2>7, <3>2
      <4>2. QED
        BY <1>2, <1>4, <2>4, <3>2, <4>1 DEF Fits
    <3>3. QED
      BY <3>1, <3>2
  <2>8. QED
    BY <1>1, <1>2, <1>5, <2>7 DEF Sized
<1>6. CASE pass >= 3
  <2>1. self' = self /\ \A m \in Nodes : Class(m) = Leaf => rsize'[m] = rsize[m]
    <3>1. CASE pass = 3
      BY <1>3, <3>1 DEF Visit, visit_3
    <3>2. CASE pass = 4
      BY <3>2 DEF Visit, visit_4
    <3>3. QED
      BY <1>1, <1>6, <3>1, <3>2
  <2>2. \A m \in Nodes : Fits(m)
    BY <1>6 DEF Sized
  <2>3. \A m \in Nodes : Fits(m)'
    BY <1>2, <1>4, <2>1, <2>2 DEF Fits
  <2>4. QED
    BY <1>1, <1>2, <1>6, <2>3 DEF Sized
<1>7. QED
  BY <1>1, <1>5, <1>6

\* visit_*_3 adds the sizes of the children, all visited before.
LEMMA VisitSummed ==
  ASSUME Inv, TypeInv, Sized, Summed, NEW n \in Nodes, Visit(n)
  PROVE  Summed'
<1>1. /\ UNCHANGED <<tree, ignoreCL, phase, pass, ok>> /\ phase = "pass" /\ pass \in 0 .. 4
      /\ tree.level[n] = level
      /\ ~ReachedUp(n) /\ \A m \in Nodes : ReachedUp(m)' <=> ReachedUp(m) \/ m = n
      /\ (Sound' <=> Sound) /\ tree \in Trees
  BY VisitFacts, StateFacts
<1>2. Nodes' = Nodes /\ FirstChild' = FirstChild
      /\ \A m : Class(m)' = Class(m) /\ Children(m)' = Children(m)
  BY <1>1, SameTree
<1>3. self \in [Nodes -> Nat] /\ rsize \in [Nodes -> Nat] /\ right \in [Nodes -> Int]
  BY DEF TypeInv, FieldTypes
<1>4. /\ \A m \in Nodes : tree.level[m] \in Nat /\ (tree.level[m] = 0 <=> m = 0)
      /\ level \in Nat /\ 0 \in Nodes /\ FirstChild \in Nodes \ {0}
      /\ Children(0) = {FirstChild}
      /\ \A m \in Nodes : IsFiniteSet(Children(m)) /\ m \notin Children(m)
      /\ \A m \in Nodes : Children(m) \subseteq Nodes \ {0}
      /\ \A m \in Nodes : \A c \in Children(m) :
           tree.parent[c] = m /\ tree.level[c] = tree.level[m] + 1
  BY <1>1, StateFacts, TreeNodes
<1> SUFFICES ASSUME Sound, pass >= 3 PROVE Summed'
  BY <1>1 DEF Summed
<1>5. CASE pass = 3
  <2>1. /\ rsize' = IF Class(n) = Leaf THEN rsize ELSE
                      [rsize EXCEPT ![n] = self[n] + SumFunctionOnSet(rsize, Children(n))]
        /\ right' = IF n = 0 THEN [right EXCEPT ![0] = rsize'[0],
                                                ![FirstChild] = rsize[FirstChild]]
                    ELSE right
        /\ self' = self
    BY <1>5 DEF Visit, visit_3
  <2>2. \A m \in Nodes : ReachedUp(m) => Whole(m)
    BY <1>1, <1>5 DEF Summed
  <2>3. \A m \in Nodes : m # n => rsize'[m] = rsize[m]
    BY <1>3, <2>1
  <2>4. ASSUME NEW m \in Nodes, n \notin Children(m)
        PROVE  SumFunctionOnSet(rsize', Children(m)) = SumFunctionOnSet(rsize, Children(m))
    <3>1. \A c \in Children(m) : rsize'[c] = rsize[c]
      BY <1>4, <2>3, <2>4
    <3> DEFINE f == rsize'
    <3>2. \A c \in Children(m) : f[c] = rsize[c]
      BY <3>1
    <3> HIDE DEF f
    <3>3. SumFunctionOnSet(f, Children(m)) = SumFunctionOnSet(rsize, Children(m))
      BY <1>4, <3>2, SumSame
    <3>4. QED
      BY <3>3 DEF f
  <2>5. Whole(n)'
    <3>1. rsize'[n] = self[n] + SumFunctionOnSet(rsize, Children(n))
      <4>1. CASE Class(n) = Leaf
        <5>1. Children(n) = {}
          BY <1>1, <4>1, TreeNodes
        <5>2. rsize[n] = self[n] /\ rsize' = rsize
          BY <1>5, <2>1, <4>1 DEF Sized, Fits
        <5>3. SumFunctionOnSet(rsize, Children(n)) = 0
          BY <1>4, <5>1, SumUnfolds
        <5>4. self[n] \in Nat
          BY <1>3
        <5>5. QED
          BY <5>2, <5>3, <5>4
      <4>2. CASE Class(n) # Leaf
        BY <1>3, <2>1, <4>2
      <4>3. QED
        BY <4>1, <4>2
    <3>2. QED
      BY <1>2, <1>4, <2>1, <2>4, <3>1 DEF Whole
  <2>6. ASSUME NEW m \in Nodes, ReachedUp(m), m # n
        PROVE  Whole(m)'
    <3>1. n \notin Children(m)
      BY <1>1, <1>4, <2>6 DEF ReachedUp
    <3>2. QED
      BY <1>2, <2>1, <2>2, <2>3, <2>4, <2>6, <3>1 DEF Whole
  <2>7. ASSUME ReachedUp(0)' PROVE right'[FirstChild] = rsize'[FirstChild]
    <3>1. CASE n = 0
      BY <1>3, <1>4, <2>1, <2>3, <3>1
    <3>2. CASE n # 0
      <4>1. ReachedUp(0)
        BY <1>1, <1>4, <2>7, <3>2
      <4>2. tree.level[n] = 0
        BY <1>1, <1>4, <4>1 DEF ReachedUp
      <4>3. QED
        BY <1>4, <3>2, <4>2
    <3>3. QED
      BY <3>1, <3>2
  <2>8. \A m \in Nodes : ReachedUp(m)' => Whole(m)'
    BY <1>1, <2>5, <2>6
  <2>9. QED
    BY <1>1, <1>2, <1>5, <2>7, <2>8 DEF Summed
<1>6. CASE pass = 4
  <2>1. /\ right' = IF n = 0 THEN right ELSE
                [c \in Nodes |-> IF c \in Children(n)
                                 THEN Roll(renderOffset(n) + self[n], c, rsize)
                                 ELSE right[c]]
        /\ self' = self /\ rsize' = rsize
    BY <1>6 DEF Visit, visit_4
  <2>2. right'[FirstChild] = right[FirstChild]
    <3>1. CASE n = 0
      BY <2>1, <3>1
    <3>2. CASE n # 0
      <4>1. FirstChild \notin Children(n)
        BY <1>4, <3>2
      <4>2. QED
        BY <1>4, <2>1, <3>2, <4>1
    <3>3. QED
      BY <3>1, <3>2
  <2>3. (\A m \in Nodes : Whole(m)) /\ right[FirstChild] = rsize[FirstChild]
    BY <1>6 DEF Summed
  <2>4. \A m \in Nodes : Whole(m)'
    BY <1>2, <2>1, <2>3 DEF Whole
  <2>5. QED
    BY <1>1, <1>2, <1>6, <2>1, <2>2, <2>3, <2>4 DEF Summed
<1>7. QED
  BY <1>1, <1>5, <1>6

\* Visits leave the buffers alone.
LEMMA VisitHeld ==
  ASSUME Inv, TypeInv, Held, Enough, NEW n \in Nodes, Visit(n)
  PROVE  Held' /\ Enough'
<1>1. /\ UNCHANGED <<vbo, num_vertices, clVBO, phase, pass>> /\ (Sound' <=> Sound)
      /\ phase = "pass"
  BY VisitFacts
<1>2. pass = 4 => rsize' = rsize
  BY DEF Visit, visit_4
<1>3. QED
  BY <1>1, <1>2 DEF Held, Enough

-----------------------------------------------------------------------------
(***************************************************************************)
(* The render pass.                                                        *)
(***************************************************************************)

\* What a visit of the render pass below the root does to the offsets.
LEMMA HandOver ==
  ASSUME Inv, TypeInv, Summed, Parted, NEW n \in Nodes \ {0}, Visit(n), pass = 4, Sound
  PROVE  LET start == renderOffset(n) + self[n]
             C == Children(n) IN
         /\ start \in Nat /\ renderOffset(n) \in Nat /\ self[n] \in Nat
         /\ right[n] = start + SumFunctionOnSet(rsize, C) /\ right[n] <= num_vertices
         /\ SumFunctionOnSet(rsize, C) \in Nat
         /\ \A m \in Nodes : m \notin C => /\ right'[m] = right[m]
                                           /\ renderOffset(m)' = renderOffset(m)
         /\ \A c \in C : /\ right'[c] = start + UpTo(rsize, C, c)
                         /\ renderOffset(c)' = start + UpTo(rsize, C, c - 1)
<1> DEFINE start == renderOffset(n) + self[n]
           C == Children(n)
           sum == SumFunctionOnSet(rsize, C)
<1>1. /\ tree \in Trees /\ FieldTypes /\ level \in Nat
      /\ self[n] \in Nat /\ rsize[n] \in Nat /\ right[n] \in Int
      /\ \A m \in Nodes : rsize[m] \in Nat /\ right[m] \in Int
  BY StateFacts
<1>2. /\ IsFiniteSet(C) /\ C \subseteq Nat /\ C \subseteq Nodes
      /\ \A c \in C : rsize[c] \in Nat
  BY <1>1, TreeNodes
<1>3. /\ right' = [c \in Nodes |-> IF c \in C THEN Roll(start, c, rsize) ELSE right[c]]
      /\ rsize' = rsize
  BY DEF Visit, visit_4
<1>4. Given(n)
  <2>1. /\ tree.parent[n] \in Nodes /\ tree.level[n] = tree.level[tree.parent[n]] + 1
        /\ tree.level[tree.parent[n]] \in 0 .. tree.depth
    BY StateFacts
  <2>2. tree.level[n] = level
    BY VisitFacts
  <2>3. QED
    BY <1>1, <2>1, <2>2 DEF Given, Reached
<1>5. 0 <= renderOffset(n) /\ right[n] <= num_vertices
  BY <1>4 DEF Parted
<1>6. rsize[n] = self[n] + sum
  <2>1. \A m \in Nodes : Whole(m)
    BY DEF Summed
  <2>2. QED
    BY <2>1 DEF Whole
<1>7. sum \in Nat
  <2> HIDE DEF C
  <2> QED
    BY <1>2, SumType
<1>8. start \in Nat /\ renderOffset(n) \in Nat /\ right[n] = start + sum
  <2> HIDE DEF sum
  <2> QED
    BY <1>1, <1>5, <1>6, <1>7 DEF renderOffset
<1>9. ASSUME NEW m \in Nodes, m \notin C
      PROVE  right'[m] = right[m] /\ renderOffset(m)' = renderOffset(m)
  BY <1>3, <1>9 DEF renderOffset
<1>10. ASSUME NEW c \in C
       PROVE  right'[c] = start + UpTo(rsize, C, c)
              /\ renderOffset(c)' = start + UpTo(rsize, C, c - 1)
  <2>1. Roll(start, c, rsize) = start + SumFunctionOnSet(rsize, {d \in Children(n) : d <= c})
    <3>1. start \in Int
      BY <1>8
    <3> HIDE DEF start
    <3>2. QED
      BY <1>1, <3>1, Visit4Roll
  <2>2. right'[c] = start + UpTo(rsize, C, c)
    BY <1>2, <1>3, <2>1 DEF UpTo
  <2>3. UpTo(rsize, C, c) = rsize[c] + UpTo(rsize, C, c - 1)
    <3> HIDE DEF C
    <3> QED
      BY <1>2, UpToTypes
  <2>4. UpTo(rsize, C, c - 1) \in Nat /\ rsize[c] \in Nat
    <3>1. c - 1 \in Int
      BY <1>2
    <3> HIDE DEF C
    <3>2. QED
      BY <1>2, <3>1, UpToTypes
  <2>5. renderOffset(c)' = right'[c] - rsize[c]
    BY <1>3 DEF renderOffset
  <2> DEFINE a == UpTo(rsize, C, c - 1)
             b == UpTo(rsize, C, c)
  <2>6. a \in Nat /\ b = rsize[c] + a /\ right'[c] = start + b /\ rsize[c] \in Nat
    BY <2>2, <2>3, <2>4
  <2> HIDE DEF a, b, start
  <2>7. right'[c] - rsize[c] = start + a
    BY <1>8, <2>6
  <2>8. QED
    BY <2>2, <2>5, <2>7 DEF a
<1>11. QED
  BY <1>1, <1>5, <1>7, <1>8, <1>9, <1>10

\* A visit below the root splits the node's part into its own vertices and
\* those of its children.
LEMMA VisitSplits ==
  ASSUME Inv, TypeInv, Summed, Parted, NEW n \in Nodes \ {0}, Visit(n), pass = 4, Sound,
         NEW v \in Nat
  PROVE  /\ \A m \in Nodes : m \notin Children(n) /\ m # n => (Owns(m, v)' <=> Owns(m, v))
         /\ \A c \in Children(n) : ~Owns(c, v)
         /\ \A c \in Children(n) : Owns(c, v)' => Owns(n, v) /\ ~Owns(n, v)'
         /\ Owns(n, v)' => Owns(n, v)
         /\ Owns(n, v) => Owns(n, v)' \/ \E c \in Children(n) : Owns(c, v)'
         /\ \A c, d \in Children(n) : Owns(c, v)' /\ Owns(d, v)' => c = d
<1> DEFINE start == renderOffset(n) + self[n]
           C == Children(n)
           sum == SumFunctionOnSet(rsize, C)
<1>1. /\ start \in Nat /\ renderOffset(n) \in Nat /\ self[n] \in Nat
      /\ right[n] = start + sum /\ sum \in Nat
      /\ \A m \in Nodes : m \notin C => /\ right'[m] = right[m]
                                        /\ renderOffset(m)' = renderOffset(m)
      /\ \A c \in C : /\ right'[c] = start + UpTo(rsize, C, c)
                      /\ renderOffset(c)' = start + UpTo(rsize, C, c - 1)
  BY HandOver, ZenonT(60)
<1>2. /\ tree' = tree /\ self' = self /\ tree.level[n] = level
      /\ ~Reached(n) /\ \A m \in Nodes : Reached(m)' <=> Reached(m) \/ m = n
  BY VisitFacts DEF Visit, visit_4
<1>3. /\ tree \in Trees /\ level \in Nat
      /\ \A m \in Nodes : tree.level[m] \in 0 .. tree.depth
      /\ \A m \in Nodes : rsize[m] \in Nat /\ right[m] \in Int /\ self[m] \in Nat
      /\ \A m \in Nodes \ {0} : /\ tree.parent[m] \in Nodes
                                /\ tree.level[m] = tree.level[tree.parent[m]] + 1
      /\ tree.depth \in Nat
  BY StateFacts
<1>4. /\ IsFiniteSet(C) /\ C \subseteq Nat /\ C \subseteq Nodes \ {0} /\ n \notin C
      /\ \A c \in C : rsize[c] \in Nat /\ tree.parent[c] = n
      /\ \A c \in C : tree.level[c] = level + 1
  BY <1>2, <1>3, TreeNodes
<1>5. Given(n) /\ Given(n)'
  <2>1. Reached(tree.parent[n])
    BY <1>2, <1>3 DEF Reached
  <2>2. tree.parent[n] \in Nodes
    BY <1>3
  <2>3. Reached(tree.parent[n])'
    BY <1>2, <2>1, <2>2 DEF Reached
  <2>4. QED
    BY <2>1, <2>3 DEF Given
<1>6. ASSUME NEW c \in C
      PROVE  ~Reached(c) /\ ~Reached(c)' /\ ~Given(c) /\ Given(c)'
  <2>1. ~Reached(c) /\ ~Reached(c)'
    BY <1>2, <1>3, <1>4 DEF Reached
  <2>2. ~Given(c)
    BY <1>2, <1>4 DEF Given
  <2>3. Reached(n)'
    BY <1>2
  <2>4. Given(c)'
    BY <1>2, <1>4, <2>3 DEF Given, Reached
  <2>5. QED
    BY <2>1, <2>2, <2>4
<1>7. ASSUME NEW m \in Nodes, m \notin C, m # n
      PROVE  (Given(m)' <=> Given(m)) /\ (Reached(m)' <=> Reached(m))
  <2>1. Reached(m)' <=> Reached(m)
    BY <1>2, <1>7
  <2>2. CASE m = 0
    BY <2>1, <2>2 DEF Given
  <2>3. CASE m # 0
    <3>1. tree.parent[m] \in Nodes /\ tree.parent[m] # n
      BY <1>3, <1>7, <2>3 DEF Children
    <3>2. Reached(tree.parent[m])' <=> Reached(tree.parent[m])
      BY <1>2, <3>1 DEF Reached, Visit
    <3>3. QED
      BY <1>2, <2>1, <3>2 DEF Given
  <2>4. QED
    BY <2>2, <2>3
<1>8. ASSUME NEW m \in Nodes, m \notin C, m # n
      PROVE  Owns(m, v)' <=> Owns(m, v)
  BY <1>1, <1>2, <1>7, <1>8 DEF Owns
<1>9. Owns(n, v) <=> renderOffset(n) <= v /\ v < start + sum
  BY <1>1, <1>2, <1>5 DEF Owns
<1>10. Owns(n, v)' <=> renderOffset(n) <= v /\ v < start
  <2>1. Reached(n)' /\ renderOffset(n)' = renderOffset(n) /\ self'[n] = self[n]
    BY <1>1, <1>2, <1>4
  <2>2. QED
    BY <1>5, <2>1 DEF Owns
<1>11. ASSUME NEW c \in C
       PROVE  Owns(c, v)' <=> /\ start + UpTo(rsize, C, c - 1) <= v
                              /\ v < start + UpTo(rsize, C, c)
  <2>1. /\ ~Reached(c)' /\ Given(c)'
        /\ right'[c] = start + UpTo(rsize, C, c)
        /\ renderOffset(c)' = start + UpTo(rsize, C, c - 1)
    BY <1>1, <1>6
  <2>2. QED
    BY <2>1, Zenon DEF Owns
<1>12. ASSUME NEW c \in C
       PROVE  /\ UpTo(rsize, C, c) \in Nat /\ UpTo(rsize, C, c - 1) \in Nat
              /\ UpTo(rsize, C, c) <= sum
  <2>1. c \in Int /\ c - 1 \in Int
    BY <1>4
  <2> HIDE DEF C
  <2>2. QED
    BY <1>4, <2>1, UpToTypes
<1>13. \A c \in C : ~Owns(c, v)
  BY <1>6 DEF Owns
<1>14. ASSUME NEW c \in C, Owns(c, v)' PROVE Owns(n, v) /\ ~Owns(n, v)'
  <2> DEFINE a == UpTo(rsize, C, c - 1)
             b == UpTo(rsize, C, c)
  <2>1. a \in Nat /\ b \in Nat /\ b <= sum /\ start + a <= v /\ v < start + b
    BY <1>11, <1>12, <1>14
  <2>2. renderOffset(n) <= start
    BY <1>1
  <2> HIDE DEF a, b, sum, start
  <2>3. renderOffset(n) <= v /\ v < start + sum /\ ~(v < start)
    BY <1>1, <2>1, <2>2
  <2>4. QED
    BY <1>9, <1>10, <2>3
<1>15. Owns(n, v)' => Owns(n, v)
  <2>1. v < start => v < start + sum
    <3> HIDE DEF sum, start
    <3> QED
      BY <1>1
  <2>2. QED
    BY <1>9, <1>10, <2>1
<1>16. ASSUME Owns(n, v), ~Owns(n, v)' PROVE \E c \in C : Owns(c, v)'
  <2> DEFINE w == v - start
  <2>1. w \in Nat /\ w < sum
    <3>1. start <= v /\ v < start + sum
      <4>1. renderOffset(n) <= v /\ v < start + sum /\ ~(v < start)
        BY <1>9, <1>10, <1>16
      <4> HIDE DEF sum, start
      <4>2. QED
        BY <1>1, <4>1
    <3> HIDE DEF sum, start
    <3>2. QED
      BY <1>1, <3>1
  <2>2. \E c \in C : UpTo(rsize, C, c - 1) <= w /\ w < UpTo(rsize, C, c)
    <3> HIDE DEF C, w
    <3>1. Sizes(rsize, C)
      BY <1>4 DEF Sizes
    <3>2. QED
      BY <1>4, <2>1, <3>1, SiblingsCover
  <2>3. PICK c \in C : UpTo(rsize, C, c - 1) <= w /\ w < UpTo(rsize, C, c)
    BY <2>2
  <2> DEFINE a == UpTo(rsize, C, c - 1)
             b == UpTo(rsize, C, c)
  <2>4. a \in Nat /\ b \in Nat /\ a <= w /\ w < b
    BY <1>12, <2>3
  <2> HIDE DEF a, b, start
  <2>5. start + a <= v /\ v < start + b
    BY <1>1, <2>4
  <2>6. QED
    BY <1>11, <2>5 DEF a, b
<1>17. ASSUME NEW c \in C, NEW d \in C, Owns(c, v)', Owns(d, v)'
       PROVE  c = d
  <2> DEFINE w == v - start
             a == UpTo(rsize, C, c - 1)
             b == UpTo(rsize, C, c)
             e == UpTo(rsize, C, d - 1)
             f == UpTo(rsize, C, d)
  <2>1. /\ a \in Nat /\ b \in Nat /\ e \in Nat /\ f \in Nat
        /\ start + a <= v /\ v < start + b /\ start + e <= v /\ v < start + f
    BY <1>11, <1>12, <1>17
  <2>2. w \in Nat /\ a <= w /\ w < b /\ e <= w /\ w < f
    <3> HIDE DEF a, b, e, f, start
    <3> QED
      BY <1>1, <2>1
  <2>3. \A x, y \in C :
          (/\ UpTo(rsize, C, x - 1) <= w /\ w < UpTo(rsize, C, x)
           /\ UpTo(rsize, C, y - 1) <= w /\ w < UpTo(rsize, C, y)) => x = y
    <3> HIDE DEF C, w
    <3> QED
      BY <1>4, <2>2, SiblingsPartition
  <2>4. QED
    BY <2>2, <2>3
<1>18. QED
  BY <1>8, <1>13, <1>14, <1>15, <1>16, <1>17

\* The root hands on nothing in the render pass.
LEMMA VisitRoot ==
  ASSUME Inv, TypeInv, Parted, Visit(0), pass = 4
  PROVE  Parted'
<1>1. /\ UNCHANGED <<tree, phase, pass, num_vertices>>
      /\ (Sound' <=> Sound)
      /\ ~Reached(0) /\ \A m \in Nodes : Reached(m)' <=> Reached(m) \/ m = 0
  <2>1. 0 \in Nodes
    BY StateFacts, TreeNodes
  <2>2. QED
    BY <2>1, VisitFacts
<1>2. UNCHANGED <<right, self, rsize, draws>>
  <2>1. visit_4(0)
    BY DEF Visit
  <2>2. tree.class[0] = "root"
    BY StateFacts, TreeFacts, TreeNodes DEF Nodes
  <2>3. ~Drawn(0)
    BY <2>2 DEF Drawn, Class, Leaf, Outlined
  <2>4. QED
    BY <2>1, <2>3 DEF visit_4
<1>3. /\ \A m \in Nodes \ {0} : tree.parent[m] \in Nodes
      /\ Nodes' = Nodes /\ \A m : Children(m)' = Children(m)
  BY <1>1, StateFacts, SameTree
<1>4. \A m : renderOffset(m)' = renderOffset(m)
  BY <1>2 DEF renderOffset
<1>5. \A m \in Nodes : Given(m)' <=> Given(m)
  <2> SUFFICES ASSUME NEW m \in Nodes PROVE Given(m)' <=> Given(m)
    OBVIOUS
  <2>1. CASE m = 0
    BY <2>1 DEF Given
  <2>2. CASE m # 0
    <3>1. tree.parent[m] \in Nodes
      BY <1>3, <2>2
    <3>2. Reached(tree.parent[m])' <=> Reached(tree.parent[m]) \/ tree.parent[m] = 0
      BY <1>1, <3>1 DEF Reached, Visit
    <3>3. QED
      BY <1>1, <2>2, <3>2 DEF Given
  <2>3. QED
    BY <2>1, <2>2
<1>6. \A m \in Nodes : \A v : Owns(m, v)' <=> Owns(m, v)
  <2> SUFFICES ASSUME NEW m \in Nodes, NEW v PROVE Owns(m, v)' <=> Owns(m, v)
    OBVIOUS
  <2>1. CASE m = 0
    BY <2>1 DEF Owns, Given
  <2>2. CASE m # 0
    <3>1. Reached(m)' <=> Reached(m)
      BY <1>1, <2>2
    <3>2. QED
      BY <1>2, <1>4, <1>5, <3>1 DEF Owns
  <2>3. QED
    BY <2>1, <2>2
<1> SUFFICES ASSUME Sound PROVE Parted'
  BY <1>1 DEF Parted
<1>7. /\ \A m \in Nodes : Given(m) => 0 <= renderOffset(m) /\ right[m] <= num_vertices
      /\ \A v \in 0 .. num_vertices - 1 :
           /\ \E m \in Nodes : Owns(m, v)
           /\ \A m, k \in Nodes : Owns(m, v) /\ Owns(k, v) => m = k
      /\ \A d \in draws : d.at = renderOffset(d.node) /\ d.len = self[d.node]
      /\ \A m \in Nodes \ {0} : Reached(m) =>
           \A c \in Children(m) : renderOffset(m) + self[m] <= renderOffset(c)
  BY DEF Parted
<1>8. \A m \in Nodes' : Given(m)' => 0 <= renderOffset(m)' /\ right'[m] <= num_vertices'
  BY <1>1, <1>2, <1>3, <1>4, <1>5, <1>7
<1>9. \A v \in 0 .. num_vertices' - 1 :
        /\ \E m \in Nodes' : Owns(m, v)'
        /\ \A m, k \in Nodes' : Owns(m, v)' /\ Owns(k, v)' => m = k
  BY <1>1, <1>3, <1>6, <1>7
<1>10. \A d \in draws' : d.at = renderOffset(d.node)' /\ d.len = self'[d.node]
  BY <1>2, <1>4, <1>7
<1>11. \A m \in Nodes' \ {0} : Reached(m)' =>
         \A c \in Children(m)' : renderOffset(m)' + self'[m] <= renderOffset(c)'
  BY <1>1, <1>2, <1>3, <1>4, <1>7
<1>12. QED
  BY <1>8, <1>9, <1>10, <1>11 DEF Parted

\* visit_*_4 hands the rest of a part to the children, one owner per vertex.
LEMMA VisitParted ==
  ASSUME Inv, TypeInv, Sized, Summed, Parted, NEW n \in Nodes \ {0}, Visit(n), pass = 4
  PROVE  Parted'
<1>1. /\ UNCHANGED <<tree, phase, pass, num_vertices>> /\ phase = "pass"
      /\ (Sound' <=> Sound) /\ tree.level[n] = level
      /\ ~Reached(n) /\ \A m \in Nodes : Reached(m)' <=> Reached(m) \/ m = n
  BY VisitFacts
<1> SUFFICES ASSUME Sound PROVE Parted'
  BY <1>1 DEF Parted
<1> DEFINE start == renderOffset(n) + self[n]
           C == Children(n)
           sum == SumFunctionOnSet(rsize, C)
<1>2. /\ start \in Nat /\ renderOffset(n) \in Nat /\ self[n] \in Nat
      /\ right[n] = start + sum /\ right[n] <= num_vertices /\ sum \in Nat
      /\ \A m \in Nodes : m \notin C => /\ right'[m] = right[m]
                                        /\ renderOffset(m)' = renderOffset(m)
      /\ \A c \in C : /\ right'[c] = start + UpTo(rsize, C, c)
                      /\ renderOffset(c)' = start + UpTo(rsize, C, c - 1)
  BY HandOver, ZenonT(60)
<1>3. self' = self /\ inh' = inh
  BY DEF Visit, visit_4
<1>4. /\ tree \in Trees /\ level \in Nat
      /\ \A m \in Nodes : tree.level[m] \in 0 .. tree.depth
      /\ \A m \in Nodes : rsize[m] \in Nat /\ right[m] \in Int /\ self[m] \in Nat
      /\ \A m \in Nodes \ {0} : /\ tree.parent[m] \in Nodes
                                /\ tree.level[m] = tree.level[tree.parent[m]] + 1
      /\ tree.depth \in Nat /\ num_vertices \in Nat
  BY StateFacts
<1>5. /\ IsFiniteSet(C) /\ C \subseteq Nat /\ C \subseteq Nodes \ {0} /\ n \notin C
      /\ \A c \in C : rsize[c] \in Nat /\ tree.parent[c] = n
      /\ \A c \in C : tree.level[c] = level + 1
      /\ Nodes' = Nodes /\ \A m : Children(m)' = Children(m)
  BY <1>1, <1>4, TreeNodes, SameTree
<1>6. /\ \A m \in Nodes : Given(m) => 0 <= renderOffset(m) /\ right[m] <= num_vertices
      /\ \A v \in 0 .. num_vertices - 1 :
           /\ \E m \in Nodes : Owns(m, v)
           /\ \A m, k \in Nodes : Owns(m, v) /\ Owns(k, v) => m = k
      /\ \A d \in draws : d.at = renderOffset(d.node) /\ d.len = self[d.node]
      /\ \A m \in Nodes \ {0} : Reached(m) =>
           \A c \in Children(m) : renderOffset(m) + self[m] <= renderOffset(c)
  BY DEF Parted
<1>7. ASSUME NEW c \in C
      PROVE  /\ UpTo(rsize, C, c) \in Nat /\ UpTo(rsize, C, c - 1) \in Nat
             /\ UpTo(rsize, C, c) <= sum
  <2>1. c \in Int /\ c - 1 \in Int
    BY <1>5
  <2> HIDE DEF C
  <2>2. QED
    BY <1>5, <2>1, UpToTypes
<1>8. ASSUME NEW m \in Nodes, Given(m)'
      PROVE  0 <= renderOffset(m)' /\ right'[m] <= num_vertices
  <2>1. CASE m \in C
    <3> DEFINE a == UpTo(rsize, C, m - 1)
               b == UpTo(rsize, C, m)
    <3>1. /\ a \in Nat /\ b \in Nat /\ b <= sum
          /\ right'[m] = start + b /\ renderOffset(m)' = start + a
      BY <1>2, <1>7, <2>1
    <3> HIDE DEF a, b, start, sum
    <3>2. 0 <= start + a /\ start + b <= num_vertices
      BY <1>2, <1>4, <3>1
    <3>3. QED
      BY <3>1, <3>2
  <2>2. CASE m \notin C
    <3>1. Given(m)
      <4>1. m # 0 /\ tree.parent[m] \in Nodes /\ tree.parent[m] # n
        BY <1>4, <1>8, <2>2 DEF Given, Children
      <4>2. Reached(tree.parent[m])' => Reached(tree.parent[m])
        BY <1>1, <4>1 DEF Reached, Visit
      <4>3. QED
        BY <1>1, <1>8, <4>1, <4>2 DEF Given
    <3>2. QED
      BY <1>2, <1>6, <2>2, <3>1
  <2>3. QED
    BY <2>1, <2>2
<1>9. ASSUME NEW v \in 0 .. num_vertices - 1
      PROVE  /\ \E m \in Nodes : Owns(m, v)'
             /\ \A m, k \in Nodes : Owns(m, v)' /\ Owns(k, v)' => m = k
  <2>0. v \in Nat
    BY <1>4
  <2>1. /\ \A m \in Nodes : m \notin C /\ m # n => (Owns(m, v)' <=> Owns(m, v))
        /\ \A c \in C : ~Owns(c, v)
        /\ \A c \in C : Owns(c, v)' => Owns(n, v) /\ ~Owns(n, v)'
        /\ Owns(n, v)' => Owns(n, v)
        /\ Owns(n, v) => Owns(n, v)' \/ \E c \in C : Owns(c, v)'
        /\ \A c, d \in C : Owns(c, v)' /\ Owns(d, v)' => c = d
    BY <2>0, VisitSplits
  <2>2. /\ \E m \in Nodes : Owns(m, v)
        /\ \A m, k \in Nodes : Owns(m, v) /\ Owns(k, v) => m = k
    BY <1>6
  <2>3. \E m \in Nodes : Owns(m, v)'
    <3>1. PICK m \in Nodes : Owns(m, v)
      BY <2>2
    <3>2. m \notin C
      BY <2>1, <3>1
    <3>3. CASE m = n
      <4>1. Owns(n, v)' \/ \E c \in C : Owns(c, v)'
        BY <2>1, <3>1, <3>3
      <4>2. QED
        BY <1>5, <4>1
    <3>4. CASE m # n
      BY <2>1, <3>1, <3>2, <3>4
    <3>5. QED
      BY <3>3, <3>4
  <2>4. ASSUME NEW m \in Nodes, Owns(m, v)'
        PROVE  IF m \in C THEN Owns(n, v) ELSE Owns(m, v)
    BY <2>1, <2>4
  <2>5. ASSUME NEW m \in Nodes, NEW k \in Nodes, Owns(m, v)', Owns(k, v)'
        PROVE  m = k
    <3>1. CASE m \in C /\ k \in C
      BY <2>1, <2>5, <3>1
    <3>2. CASE m \in C /\ k \notin C
      <4>1. Owns(n, v) /\ Owns(k, v)
        BY <2>4, <2>5, <3>2
      <4>2. k = n
        BY <2>2, <4>1
      <4>3. QED
        BY <2>1, <2>5, <3>2, <4>2
    <3>3. CASE m \notin C /\ k \in C
      <4>1. Owns(n, v) /\ Owns(m, v)
        BY <2>4, <2>5, <3>3
      <4>2. m = n
        BY <2>2, <4>1
      <4>3. QED
        BY <2>1, <2>5, <3>3, <4>2
    <3>4. CASE m \notin C /\ k \notin C
      BY <2>2, <2>4, <2>5, <3>4
    <3>5. QED
      BY <3>1, <3>2, <3>3, <3>4
  <2>6. QED
    BY <2>3, <2>5
<1>10. ASSUME NEW d \in draws'
       PROVE  d.at = renderOffset(d.node)' /\ d.len = self'[d.node]
  <2> DEFINE size == Size(IF Class(n) = Leaf THEN RectangleSize ELSE OutlineSize)
             new == [node |-> n, at |-> renderOffset(n), len |-> size,
                     after |-> {e.node : e \in draws}, box |-> geo[n], flags |-> inh[n]]
  <2>1. draws' = IF Drawn(n) THEN draws \cup {new} ELSE draws
    BY DEF Visit, visit_4
  <2>2. CASE d \in draws
    <3>1. d.node \in Nodes /\ Reached(d.node)
      BY <1>1, <2>2 DEF Inv, Painted, Sound
    <3>2. d.node \notin C
      BY <1>4, <1>5, <3>1 DEF Reached
    <3>3. QED
      BY <1>2, <1>3, <1>6, <2>2, <3>1, <3>2
  <2>3. CASE d \notin draws
    <3>1. Drawn(n) /\ d = new
      BY <2>1, <2>3
    <3>2. d.node = n /\ d.at = renderOffset(n) /\ d.len = size
      BY <3>1
    <3>3. size = self[n]
      <4>1. Fits(n)
        BY DEF Sized
      <4>2. QED
        BY <3>1, <4>1 DEF Fits, Need, Drawn, Size, Sound
    <3>4. QED
      BY <1>2, <1>3, <1>5, <3>2, <3>3
  <2>4. QED
    BY <2>2, <2>3
<1>11. ASSUME NEW m \in Nodes \ {0}, Reached(m)', NEW c \in Children(m)
       PROVE  renderOffset(m)' + self[m] <= renderOffset(c)'
  <2>1. CASE m = n
    <3> DEFINE a == UpTo(rsize, C, c - 1)
    <3>1. a \in Nat /\ renderOffset(c)' = start + a /\ renderOffset(n)' = renderOffset(n)
      BY <1>2, <1>5, <1>7, <1>11, <2>1
    <3>2. start <= start + a
      <4> HIDE DEF a, start
      <4> QED
        BY <1>2, <3>1
    <3>3. QED
      BY <2>1, <3>1, <3>2
  <2>2. CASE m # n
    <3>1. Reached(m)
      BY <1>1, <1>11, <2>2
    <3>2. m \notin C
      BY <1>4, <1>5, <3>1 DEF Reached
    <3>3. c \notin C /\ c \in Nodes
      BY <1>4, <1>5, <2>2 DEF Children
    <3>4. renderOffset(m) + self[m] <= renderOffset(c)
      BY <1>6, <3>1
    <3>5. renderOffset(m)' = renderOffset(m) /\ renderOffset(c)' = renderOffset(c)
      BY <1>2, <3>2, <3>3
    <3>6. QED
      BY <3>4, <3>5
  <2>3. QED
    BY <2>1, <2>2
<1>12. \A m \in Nodes' : Given(m)' => 0 <= renderOffset(m)' /\ right'[m] <= num_vertices'
  BY <1>1, <1>5, <1>8
<1>13. \A v \in 0 .. num_vertices' - 1 :
         /\ \E m \in Nodes' : Owns(m, v)'
         /\ \A m, k \in Nodes' : Owns(m, v)' /\ Owns(k, v)' => m = k
  BY <1>1, <1>5, <1>9
<1>14. \A m \in Nodes' \ {0} : Reached(m)' =>
         \A c \in Children(m)' : renderOffset(m)' + self'[m] <= renderOffset(c)'
  BY <1>3, <1>5, <1>11
<1>15. QED
  BY <1>10, <1>12, <1>13, <1>14 DEF Parted

-----------------------------------------------------------------------------
(***************************************************************************)
(* The other steps.                                                        *)
(***************************************************************************)

\* Steps that leave the fields alone.
LEMMA SameCounters ==
  ASSUME UNCHANGED <<tree, inh, self, rsize, right>>
  PROVE  /\ Nodes' = Nodes /\ FirstChild' = FirstChild
         /\ \A m : /\ Fits(m)' = Fits(m) /\ Whole(m)' = Whole(m)
                   /\ renderOffset(m)' = renderOffset(m) /\ Children(m)' = Children(m)
         /\ Plain' = Plain
<1>1. /\ Nodes' = Nodes /\ FirstChild' = FirstChild
      /\ \A m : Children(m)' = Children(m) /\ Class(m)' = Class(m)
  BY SameTree
<1>2. \A m : Fits(m)' = Fits(m)
  BY <1>1 DEF Fits, Need
<1>3. \A m : Whole(m)' = Whole(m)
  BY <1>1 DEF Whole
<1>4. \A m : renderOffset(m)' = renderOffset(m)
  BY DEF renderOffset
<1>5. Plain' = Plain
  BY <1>1 DEF Plain
<1>6. QED
  BY <1>1, <1>2, <1>3, <1>4, <1>5

\* Steps that also leave alone what has been visited, in the render pass.
LEMMA SameParts ==
  ASSUME TypeInv, Parted, (Sound /\ pass = 4)' => Sound /\ pass = 4,
         UNCHANGED <<tree, inh, self, rsize, right, draws, num_vertices>>,
         \A m \in Nodes : Reached(m)' <=> Reached(m)
  PROVE  Parted'
<1>1. /\ Nodes' = Nodes
      /\ \A m : renderOffset(m)' = renderOffset(m) /\ Children(m)' = Children(m)
  BY SameCounters
<1>2. \A m \in Nodes : Given(m)' <=> Given(m)
  <2> SUFFICES ASSUME NEW m \in Nodes PROVE Given(m)' <=> Given(m)
    OBVIOUS
  <2>1. CASE m = 0
    BY <2>1 DEF Given
  <2>2. CASE m # 0
    <3>1. tree.parent[m] \in Nodes
      BY <2>2, StateFacts
    <3>2. Reached(tree.parent[m])' <=> Reached(tree.parent[m])
      BY <3>1 DEF Reached
    <3>3. QED
      BY <2>2, <3>2 DEF Given
  <2>3. QED
    BY <2>1, <2>2
<1>3. \A m \in Nodes : \A v : Owns(m, v)' <=> Owns(m, v)
  BY <1>1, <1>2 DEF Owns
<1> SUFFICES ASSUME Sound, pass = 4 PROVE Parted'
  BY DEF Parted
<1>4. /\ \A m \in Nodes : Given(m) => 0 <= renderOffset(m) /\ right[m] <= num_vertices
      /\ \A v \in 0 .. num_vertices - 1 :
           /\ \E m \in Nodes : Owns(m, v)
           /\ \A m, k \in Nodes : Owns(m, v) /\ Owns(k, v) => m = k
      /\ \A d \in draws : d.at = renderOffset(d.node) /\ d.len = self[d.node]
      /\ \A m \in Nodes \ {0} : Reached(m) =>
           \A c \in Children(m) : renderOffset(m) + self[m] <= renderOffset(c)
  BY DEF Parted
<1>5. \A m \in Nodes' : Given(m)' => 0 <= renderOffset(m)' /\ right'[m] <= num_vertices'
  BY <1>1, <1>2, <1>4
<1>6. \A v \in 0 .. num_vertices' - 1 :
        /\ \E m \in Nodes' : Owns(m, v)'
        /\ \A m, k \in Nodes' : Owns(m, v)' /\ Owns(k, v)' => m = k
  BY <1>1, <1>3, <1>4
<1>7. \A d \in draws' : d.at = renderOffset(d.node)' /\ d.len = self'[d.node]
  BY <1>1, <1>4
<1>8. \A m \in Nodes' \ {0} : Reached(m)' =>
        \A c \in Children(m)' : renderOffset(m)' + self'[m] <= renderOffset(c)'
  BY <1>1, <1>4
<1>9. QED
  BY <1>5, <1>6, <1>7, <1>8 DEF Parted

\* A visit of any pass.
LEMMA VisitBuffer ==
  ASSUME Inv, TypeInv, BufferInv, NEW n \in Nodes, Visit(n)
  PROVE  BufferInv'
<1>1. Plain' /\ Sized' /\ Summed' /\ Held' /\ Enough'
  BY VisitPlain, VisitSized, VisitSummed, VisitHeld DEF BufferInv
<1>2. Parted'
  <2>1. CASE pass # 4
    BY <2>1, VisitFacts DEF Parted
  <2>2. CASE pass = 4 /\ n = 0
    BY <2>2, VisitRoot DEF BufferInv
  <2>3. CASE pass = 4 /\ n # 0
    BY <2>3, VisitParted DEF BufferInv
  <2>4. QED
    BY <2>1, <2>2, <2>3
<1>3. QED
  BY <1>1, <1>2 DEF BufferInv

\* The next level: what was visited stays visited.
LEMMA LevelBuffer ==
  ASSUME Inv, TypeInv, BufferInv, NextLevel
  PROVE  BufferInv'
<1>1. /\ phase = "pass" /\ todo = {} /\ ~LastLevel
      /\ level' = (IF pass \in TopDown THEN level + 1 ELSE level - 1)
      /\ todo' = LevelNodes(tree, level')
      /\ UNCHANGED <<tree, ignoreCL, inh, self, rsize, right, draws, num_vertices,
                     vbo, clVBO, phase, pass, ok>>
  BY DEF NextLevel, fields, buffers
<1>2. /\ tree \in Trees /\ level \in Nat /\ pass \in 0 .. 4
      /\ \A m \in Nodes : tree.level[m] \in 0 .. tree.depth
      /\ tree.depth \in Nat
  BY StateFacts
<1>3. /\ Nodes' = Nodes /\ FirstChild' = FirstChild
      /\ \A m : Fits(m)' = Fits(m) /\ Whole(m)' = Whole(m)
      /\ Plain' = Plain /\ Sound' = Sound
  BY <1>1, SameCounters DEF Sound
<1>4. pass \in TopDown => \A m \in Nodes : Reached(m)' <=> Reached(m)
  BY <1>1, <1>2 DEF Reached, LevelNodes, Nodes
<1>5. pass \notin TopDown => \A m \in Nodes : ReachedUp(m)' <=> ReachedUp(m)
  BY <1>1, <1>2 DEF ReachedUp, LevelNodes, Nodes
<1>6. Plain' /\ Held' /\ Enough'
  BY <1>1, <1>3 DEF BufferInv, Held, Enough
<1>7. Sized'
  <2>1. CASE pass = 2
    BY <1>1, <1>3, <1>4, <2>1 DEF BufferInv, Sized, TopDown
  <2>2. CASE pass # 2
    BY <1>1, <1>3, <2>2 DEF BufferInv, Sized
  <2>3. QED
    BY <2>1, <2>2
<1>8. Summed'
  <2>1. CASE pass = 3
    <3>1. 0 \in Nodes
      BY <1>2, TreeNodes
    <3>2. QED
      BY <1>1, <1>3, <1>5, <2>1, <3>1 DEF BufferInv, Summed, TopDown
  <2>2. CASE pass # 3
    BY <1>1, <1>3, <2>2 DEF BufferInv, Summed
  <2>3. QED
    BY <2>1, <2>2
<1>9. Parted'
  <2>1. CASE pass = 4
    BY <1>1, <1>3, <1>4, <2>1, SameParts DEF BufferInv, TopDown
  <2>2. CASE pass # 4
    BY <1>1, <2>2 DEF Parted
  <2>3. QED
    BY <2>1, <2>2
<1>10. QED
  BY <1>6, <1>7, <1>8, <1>9 DEF BufferInv

\* The next pass finds what the one before established at every node.
LEMMA PassBuffer ==
  ASSUME Inv, TypeInv, BufferInv, NextPass
  PROVE  BufferInv'
<1>1. /\ phase = "pass" /\ todo = {} /\ LastLevel
      /\ UNCHANGED <<tree, ignoreCL, inh, self, rsize, right, draws, num_vertices,
                     vbo, clVBO, ok>>
  BY DEF NextPass, fields, buffers
<1>2. /\ tree \in Trees /\ level \in Nat /\ pass \in 0 .. 4
      /\ \A m \in Nodes : tree.level[m] \in 0 .. tree.depth
      /\ \A m \in Nodes : tree.level[m] = 0 <=> m = 0
      /\ tree.depth \in Nat /\ 0 \in Nodes
  BY StateFacts, TreeNodes
<1>3. /\ Nodes' = Nodes /\ FirstChild' = FirstChild
      /\ \A m : Fits(m)' = Fits(m) /\ Whole(m)' = Whole(m)
      /\ Plain' = Plain
  BY <1>1, SameCounters
<1>4. pass < 3 => StartPass(pass + 1)
  <2> SUFFICES ASSUME pass < 3 PROVE StartPass(pass + 1)
    OBVIOUS
  <2>1. pass < 3 /\ pass # 3 /\ pass # 4
    BY <1>2
  <2>2. QED
    BY <2>1, Zenon DEF NextPass
<1>5. Plain' /\ Enough'
  BY <1>1, <1>3 DEF BufferInv, Enough
<1>6. CASE pass < 2
  <2>1. /\ phase' = "pass" /\ pass' \in {1, 2}
        /\ pass' = 2 => level' = 0 /\ todo' = LevelNodes(tree, level')
    BY <1>2, <1>4, <1>6 DEF StartPass, TopDown
  <2>2. pass' = 2 => \A m \in Nodes : ~Reached(m)'
    BY <1>1, <1>2, <2>1 DEF Reached, LevelNodes, Nodes
  <2>3. QED
    BY <1>3, <1>5, <2>1, <2>2 DEF BufferInv, Sized, Summed, Held, Parted
<1>7. CASE pass = 2
  <2>1. /\ phase' = "pass" /\ pass' = 3 /\ level' = tree.depth
        /\ todo' = LevelNodes(tree, level')
    BY <1>4, <1>7 DEF StartPass, TopDown
  <2>2. \A m \in Nodes : ~ReachedUp(m)'
    BY <1>1, <1>2, <2>1 DEF ReachedUp, LevelNodes, Nodes
  <2>3. \A m \in Nodes : Reached(m)
    BY <1>1, <1>2, <1>7 DEF Reached, LastLevel, TopDown
  <2>4. Sound' => Sound
    BY <1>1 DEF Sound
  <2>5. Sound' => \A m \in Nodes : Fits(m)
    BY <1>1, <1>7, <2>3, <2>4 DEF BufferInv, Sized
  <2>6. Sized'
    BY <1>3, <2>1, <2>5 DEF Sized
  <2>7. Summed' /\ Held' /\ Parted'
    BY <1>2, <1>3, <2>1, <2>2 DEF Summed, Held, Parted
  <2>8. QED
    BY <1>5, <2>6, <2>7 DEF BufferInv
<1>8. CASE pass = 3 /\ ignoreCL
  <2>1. ~Sound'
    BY <1>1, <1>8 DEF Sound
  <2>2. QED
    BY <1>5, <2>1 DEF BufferInv, Sized, Summed, Held, Parted
<1>9. CASE pass = 3 /\ ~ignoreCL
  <2>1. phase' = "alloc" /\ pass' = 3
    BY <1>9 DEF NextPass, AfterTraversals
  <2>2. \A m \in Nodes : ReachedUp(m)
    BY <1>1, <1>2, <1>9 DEF ReachedUp, LastLevel, TopDown
  <2>3. Sound' => Sound
    BY <1>1 DEF Sound
  <2>4. Sound => /\ \A m \in Nodes : Fits(m) /\ Whole(m)
                 /\ right[FirstChild] = rsize[FirstChild]
    BY <1>1, <1>2, <1>9, <2>2 DEF BufferInv, Sized, Summed
  <2>5. Sized' /\ Summed' /\ Held' /\ Parted'
    BY <1>1, <1>3, <2>1, <2>3, <2>4 DEF Sized, Summed, Held, Parted
  <2>6. QED
    BY <1>5, <2>5 DEF BufferInv
<1>10. CASE pass = 4
  <2>1. phase' = "frame" /\ UNCHANGED <<pass, level, todo>>
    BY <1>10 DEF NextPass
  <2>2. Sound' <=> Sound
    BY <1>1, <2>1 DEF Sound
  <2>3. \A m \in Nodes : Reached(m)' <=> Reached(m)
    BY <1>1, <2>1 DEF Reached
  <2>4. Parted'
    BY <1>1, <1>10, <2>1, <2>2, <2>3, SameParts DEF BufferInv
  <2>5. Sized' /\ Summed' /\ Held'
    BY <1>1, <1>3, <1>10, <2>1, <2>2 DEF BufferInv, Sized, Summed, Held
  <2>6. QED
    BY <1>5, <2>4, <2>5 DEF BufferInv
<1>11. QED
  BY <1>2, <1>6, <1>7, <1>8, <1>9, <1>10

\* An empty request ends the render; any other leaves a buffer that is large enough.
LEMMA AllocateBuffer ==
  ASSUME Inv, TypeInv, BufferInv, reallocateVBO
  PROVE  BufferInv'
<1>1. /\ UNCHANGED <<tree, ignoreCL, inh, self, rsize, right, clVBO, pass, level, todo, ok>>
      /\ phase = "alloc"
  BY DEF reallocateVBO, fields
<1>2. /\ Nodes' = Nodes /\ FirstChild' = FirstChild
      /\ \A m : Fits(m)' = Fits(m) /\ Whole(m)' = Whole(m)
      /\ Plain' = Plain
  BY <1>1, SameCounters
<1> DEFINE r == rsize[0]
           q == r * VertexBytes
<1>3. r \in Nat /\ vbo.size \in Nat
  BY StateFacts, TreeNodes
<1>4. CASE r <= 0
  <2>1. phase' = "idle" /\ UNCHANGED <<vbo, num_vertices>>
    BY <1>4 DEF reallocateVBO, getRenderBufferSize
  <2>2. QED
    BY <1>2, <2>1 DEF BufferInv, Sound, Sized, Summed, Held, Enough, Parted
<1>5. CASE ~(r <= 0)
  <2>1. /\ phase' = "share" /\ num_vertices' = r
        /\ vbo' = IF Keeps(q) THEN vbo
                  ELSE [id |-> vbo.id + 1, size |-> (q * 5) \div 4]
    BY <1>5 DEF reallocateVBO, getRenderBufferSize
  <2>2. Enough'
    <3>1. q \in Nat
      <4> HIDE DEF r
      <4> QED
        BY <1>3 DEF VertexBytes
    <3>2. q <= vbo'.size
      <4>1. CASE Keeps(q)
        BY <2>1, <4>1 DEF Keeps
      <4>2. CASE ~Keeps(q)
        <5>1. vbo'.size = (q * 5) \div 4
          BY <2>1, <4>2
        <5> HIDE DEF q
        <5>2. q <= (q * 5) \div 4
          BY <3>1
        <5>3. QED
          BY <5>1, <5>2
      <4>3. QED
        BY <4>1, <4>2
    <3>3. num_vertices' * VertexBytes = q
      BY <2>1
    <3> HIDE DEF q
    <3>4. QED
      BY <3>2, <3>3 DEF Enough, VertexBytes
  <2>3. Sound' => Sound /\ pass = 3
    BY <1>1 DEF Sound, Inv, Control
  <2>4. Sound' => /\ \A m \in Nodes : Fits(m) /\ Whole(m)
                  /\ right[FirstChild] = rsize[FirstChild]
    BY <1>1, <2>3 DEF BufferInv, Sized, Summed
  <2>5. Sized' /\ Summed' /\ Held' /\ Parted'
    BY <1>1, <1>2, <2>1, <2>3, <2>4 DEF Sized, Summed, Held, Parted
  <2>6. QED
    BY <1>2, <2>2, <2>5 DEF BufferInv
<1>6. QED
  BY <1>4, <1>5

\* At the start of the render pass the root's child owns the whole buffer.
LEMMA WholeIsOwned ==
  ASSUME Inv, TypeInv, Plain, num_vertices = rsize[0], draws = {},
         right[FirstChild] = rsize[FirstChild], Whole(0),
         UNCHANGED <<tree, inh, self, rsize, right, draws, num_vertices>>,
         \A m \in Nodes : ~Reached(m)'
  PROVE  Parted'
<1>1. /\ tree \in Trees /\ \A m \in Nodes : rsize[m] \in Nat /\ right[m] \in Int
      /\ \A m \in Nodes \ {0} : tree.parent[m] \in Nodes
  BY StateFacts
<1>2. /\ 0 \in Nodes /\ FirstChild \in Nodes \ {0} /\ Children(0) = {FirstChild}
      /\ tree.class[0] = "root"
  BY <1>1, TreeNodes, TreeFacts DEF Nodes
<1>3. Nodes' = Nodes /\ \A m : renderOffset(m)' = renderOffset(m)
  BY SameCounters
<1>4. rsize[FirstChild] \in Nat /\ right[FirstChild] \in Int
  BY <1>1, <1>2
<1>5. num_vertices = rsize[FirstChild] /\ renderOffset(FirstChild) = 0
  <2>1. self[0] = 0
    BY <1>2 DEF Plain, Class, Leaf, Outlined
  <2>2. SumFunctionOnSet(rsize, {FirstChild}) = rsize[FirstChild]
    <3>1. rsize[FirstChild] \in Int
      BY <1>4
    <3>2. QED
      BY <3>1, SumSingle
  <2>3. rsize[0] = 0 + rsize[FirstChild]
    BY <1>2, <2>1, <2>2 DEF Whole
  <2>4. QED
    BY <1>4, <2>3 DEF renderOffset
<1>6. \A m \in Nodes : Given(m)' <=> m = FirstChild
  <2> SUFFICES ASSUME NEW m \in Nodes PROVE Given(m)' <=> m = FirstChild
    OBVIOUS
  <2>1. CASE m = 0
    BY <1>2, <2>1 DEF Given
  <2>2. CASE m # 0
    <3>1. tree.parent[m] \in Nodes
      BY <1>1, <2>2
    <3>2. ~Reached(tree.parent[m])'
      BY <3>1 DEF Reached
    <3>3. m \in Children(0) <=> tree.parent[m] = 0
      BY <2>2 DEF Children
    <3>4. QED
      BY <1>2, <2>2, <3>2, <3>3 DEF Given
  <2>3. QED
    BY <2>1, <2>2
<1>7. \A m \in Nodes : \A v \in Nat :
        Owns(m, v)' <=> m = FirstChild /\ v < num_vertices
  <2> SUFFICES ASSUME NEW m \in Nodes, NEW v \in Nat
               PROVE  Owns(m, v)' <=> m = FirstChild /\ v < num_vertices
    OBVIOUS
  <2>1. CASE m = FirstChild
    <3>1. ~Reached(m)' /\ Given(m)'
      BY <1>6, <2>1
    <3>2. renderOffset(m)' = 0 /\ right'[m] = num_vertices
      BY <1>3, <1>5, <2>1
    <3>3. QED
      BY <2>1, <3>1, <3>2 DEF Owns
  <2>2. CASE m # FirstChild
    BY <1>6, <2>2 DEF Owns
  <2>3. QED
    BY <2>1, <2>2
<1>8. \A m \in Nodes' : Given(m)' => 0 <= renderOffset(m)' /\ right'[m] <= num_vertices'
  BY <1>3, <1>4, <1>5, <1>6
<1>9. \A v \in 0 .. num_vertices' - 1 :
        /\ \E m \in Nodes' : Owns(m, v)'
        /\ \A m, k \in Nodes' : Owns(m, v)' /\ Owns(k, v)' => m = k
  <2> SUFFICES ASSUME NEW v \in 0 .. num_vertices - 1
               PROVE  /\ \E m \in Nodes : Owns(m, v)'
                      /\ \A m, k \in Nodes : Owns(m, v)' /\ Owns(k, v)' => m = k
    BY <1>3
  <2>1. v \in Nat /\ v < num_vertices
    BY <1>4, <1>5
  <2>2. \A m \in Nodes : Owns(m, v)' <=> m = FirstChild
    BY <1>7, <2>1
  <2>3. QED
    BY <1>2, <2>2
<1>10. QED
  BY <1>3, <1>8, <1>9 DEF Parted

\* setVBO: the render pass starts in the buffer WebGL draws, or the render has failed.
LEMMA ShareBuffer ==
  ASSUME Inv, TypeInv, BufferInv, setVBO
  PROVE  BufferInv'
<1>1. /\ UNCHANGED <<tree, ignoreCL, inh, self, rsize, right, vbo, num_vertices, draws>>
      /\ phase = "share"
      /\ ok' => ok /\ clVBO' = vbo.id /\ StartPass(4)
  BY DEF setVBO, fields
<1>2. /\ Nodes' = Nodes /\ FirstChild' = FirstChild
      /\ \A m : Fits(m)' = Fits(m) /\ Whole(m)' = Whole(m)
      /\ Plain' = Plain
  BY <1>1, SameCounters
<1>3. Plain' /\ Enough'
  BY <1>1, <1>2 DEF BufferInv, Enough
<1>4. CASE ~Sound'
  BY <1>3, <1>4 DEF BufferInv, Sized, Summed, Held, Parted
<1>5. CASE Sound'
  <2>1. ok' /\ Sound /\ pass = 3
    BY <1>1, <1>5 DEF Sound, Inv, Control
  <2>2. /\ phase' = "pass" /\ pass' = 4 /\ level' = 0 /\ todo' = LevelNodes(tree, level')
        /\ clVBO' = vbo.id
    BY <1>1, <2>1 DEF StartPass, TopDown
  <2>3. /\ \A m \in Nodes : Fits(m) /\ Whole(m)
        /\ right[FirstChild] = rsize[FirstChild] /\ num_vertices = rsize[0]
    BY <1>1, <2>1 DEF BufferInv, Sized, Summed, Held
  <2>4. draws = {}
    BY <2>1 DEF Inv, Painted, Sound
  <2>5. /\ \A m \in Nodes : tree.level[m] \in 0 .. tree.depth
        /\ tree.depth \in Nat /\ 0 \in Nodes
    BY StateFacts, TreeNodes
  <2>6. \A m \in Nodes : ~Reached(m)'
    BY <1>1, <2>2, <2>5 DEF Reached, LevelNodes, Nodes
  <2>7. Whole(0) /\ Plain
    BY <2>3, <2>5 DEF BufferInv
  <2>8. Parted'
    BY <1>1, <2>3, <2>4, <2>6, <2>7, WholeIsOwned
  <2>9. Sized' /\ Summed' /\ Held'
    BY <1>1, <1>2, <2>2, <2>3 DEF Sized, Summed, Held
  <2>10. QED
    BY <1>3, <2>8, <2>9 DEF BufferInv
<1>6. QED
  BY <1>4, <1>5

\* The page, a failed call and the end of the frame.
LEMMA OtherBuffer ==
  ASSUME Inv, TypeInv, BufferInv,
         \/ \E i \in Inputs : SetInput(i)
         \/ \E t \in Trees : LoadTree(t)
         \/ BeginLayout \/ KernelFails \/ renderFrame
  PROVE  BufferInv'
<1>1. UNCHANGED <<num_vertices, vbo>>
  BY DEF SetInput, LoadTree, BeginLayout, KernelFails, renderFrame, buffers
<1>2. Plain'
  <2>1. CASE UNCHANGED <<tree, fields>>
    BY <2>1, SameCounters DEF BufferInv, fields
  <2>2. CASE \E t \in Trees : LoadTree(t)
    <3>1. PICK t \in Trees : tree' = t /\ self' = Blank(t, 0)
      BY <2>2 DEF LoadTree
    <3>2. QED
      BY <3>1 DEF Plain, Blank, Nodes
  <2>3. QED
    BY <2>1, <2>2 DEF SetInput, BeginLayout, KernelFails, renderFrame
<1>3. ~Sound' \/ (phase' = "pass" /\ pass' = 0)
  <2>1. CASE \E i \in Inputs : SetInput(i)
    BY <2>1 DEF SetInput, control, Sound
  <2>2. CASE \E t \in Trees : LoadTree(t)
    BY <2>2 DEF LoadTree, control, Sound
  <2>3. CASE BeginLayout
    BY <2>3 DEF BeginLayout, StartPass
  <2>4. CASE KernelFails \/ renderFrame
    BY <2>4 DEF KernelFails, renderFrame, Sound
  <2>5. QED
    BY <2>1, <2>2, <2>3, <2>4
<1>4. QED
  BY <1>1, <1>2, <1>3 DEF BufferInv, Sized, Summed, Held, Enough, Parted

\* A step that changes nothing.
LEMMA StutterBuffer ==
  ASSUME Inv, TypeInv, BufferInv, UNCHANGED vars
  PROVE  BufferInv'
<1>1. UNCHANGED <<tree, ignoreCL, inh, self, rsize, right, draws, num_vertices,
                  vbo, clVBO, phase, pass, level, todo, ok>>
  BY DEF vars, fields, buffers, control
<1>2. /\ Nodes' = Nodes /\ FirstChild' = FirstChild
      /\ \A m : Fits(m)' = Fits(m) /\ Whole(m)' = Whole(m)
      /\ Plain' = Plain
  BY <1>1, SameCounters
<1>3. (Sound' <=> Sound) /\ \A m : (Reached(m)' <=> Reached(m)) /\ (ReachedUp(m)' <=> ReachedUp(m))
  BY <1>1 DEF Sound, Reached, ReachedUp
<1>4. Parted'
  BY <1>1, <1>3, SameParts DEF BufferInv
<1>5. QED
  BY <1>1, <1>2, <1>3, <1>4 DEF BufferInv, Sized, Summed, Held, Enough

\* No buffer and no vertices before the first render.
LEMMA InitBuffer == Init => BufferInv
<1> SUFFICES ASSUME Init PROVE BufferInv
  OBVIOUS
<1>1. phase = "idle" /\ num_vertices = 0 /\ vbo.size = 0 /\ self = Blank(tree, 0)
  BY DEF Init
<1>2. Enough
  BY <1>1 DEF Enough, VertexBytes
<1>3. Plain
  BY <1>1 DEF Plain, Blank, Nodes
<1>4. ~Sound
  BY <1>1 DEF Sound
<1>5. QED
  BY <1>2, <1>3, <1>4 DEF BufferInv, Sized, Summed, Held, Parted

\* Every step keeps the sharing of the buffer.
LEMMA StepBuffer == Inv /\ TypeInv /\ BufferInv /\ [Next]_vars => BufferInv'
  BY VisitBuffer, LevelBuffer, PassBuffer, AllocateBuffer, ShareBuffer, OtherBuffer,
     StutterBuffer DEF Next

\* The buffer is shared out throughout.
LEMMA SpecBuffer == Spec => [](Inv /\ TypeInv /\ BufferInv)
<1>1. Init => Inv /\ TypeInv /\ BufferInv
  BY InitInv, InitTypes, InitBuffer
<1>2. (Inv /\ TypeInv /\ BufferInv) /\ [Next]_vars => (Inv /\ TypeInv /\ BufferInv)'
  BY StepInv, StepTypes, StepBuffer
<1>3. QED
  BY <1>1, <1>2, PTL DEF Spec

\* What a drawing covers is what its node owns.
LEMMA DrawsAreOwned ==
  ASSUME Inv, TypeInv, BufferInv, Sound, pass = 4, NEW d \in draws
  PROVE  /\ d.node \in Nodes \ {0} /\ Reached(d.node) /\ Given(d.node)
         /\ d.at = renderOffset(d.node) /\ d.len = self[d.node]
         /\ 0 <= d.at /\ d.at + d.len <= num_vertices
         /\ \A v : Covers(d, v) <=> Owns(d.node, v)
<1>1. d.at = renderOffset(d.node) /\ d.len = self[d.node]
  BY DEF BufferInv, Parted
<1>2. d.node \in Nodes /\ Reached(d.node) /\ Drawn(d.node)
  BY DEF Inv, Painted, Sound
<1>3. /\ tree \in Trees /\ level \in Nat /\ tree.depth \in Nat
      /\ \A m \in Nodes : /\ self[m] \in Nat /\ rsize[m] \in Nat /\ right[m] \in Int
                          /\ tree.level[m] \in 0 .. tree.depth
      /\ \A m \in Nodes \ {0} : /\ tree.parent[m] \in Nodes
                                /\ tree.level[m] = tree.level[tree.parent[m]] + 1
      /\ num_vertices \in Nat
  BY StateFacts
<1>4. d.node # 0
  <2>1. tree.class[0] = "root"
    BY <1>3, TreeFacts, TreeNodes DEF Nodes
  <2>2. ~Drawn(0)
    BY <2>1 DEF Drawn, Class, Leaf, Outlined
  <2>3. QED
    BY <1>2, <2>2
<1> DEFINE n == d.node
<1>5. Given(n)
  BY <1>2, <1>3, <1>4 DEF Given, Reached
<1>6. 0 <= renderOffset(n) /\ right[n] <= num_vertices
  BY <1>2, <1>5 DEF BufferInv, Parted
<1>7. renderOffset(n) + self[n] <= right[n]
  <2> DEFINE s == SumFunctionOnSet(rsize, Children(n))
  <2>1. rsize[n] = self[n] + s
    BY <1>2 DEF BufferInv, Summed, Whole
  <2>2. s \in Nat
    <3>1. IsFiniteSet(Children(n)) /\ \A c \in Children(n) : rsize[c] \in Nat
      BY <1>3, TreeNodes
    <3>2. QED
      BY <3>1, SumType
  <2>3. self[n] \in Nat /\ rsize[n] \in Nat /\ right[n] \in Int
    BY <1>2, <1>3
  <2> HIDE DEF s, n
  <2>4. QED
    BY <2>1, <2>2, <2>3 DEF renderOffset
<1>8. 0 <= d.at /\ d.at + d.len <= num_vertices
  <2>1. self[n] \in Nat /\ rsize[n] \in Nat /\ right[n] \in Int /\ renderOffset(n) \in Int
    BY <1>2, <1>3 DEF renderOffset
  <2> DEFINE a == renderOffset(n)
  <2> HIDE DEF a
  <2>2. 0 <= a /\ a + self[n] <= num_vertices
    <3> HIDE DEF n
    <3> QED
      BY <1>3, <1>6, <1>7, <2>1 DEF a
  <2>3. QED
    BY <1>1, <2>2 DEF a
<1>9. \A v : Covers(d, v) <=> Owns(d.node, v)
  BY <1>1, <1>2, <1>5 DEF Covers, Owns
<1>10. QED
  BY <1>1, <1>2, <1>4, <1>5, <1>8, <1>9

\* The vertex buffer, on every tree and in whatever order the nodes of a level
\* are visited: what a frame draws lies in the buffer, while it is written every
\* node stays in the part it was given, and a completed frame has each of its
\* vertices from exactly one node of this render (__renderSize__ of visit_*_3,
\* __renderRightOffset__ of visit_*_4, reallocateVBO, setVBO)
THEOREM BufferIsShared == Spec => []VerticesArePartitioned
<1>1. Inv /\ TypeInv /\ BufferInv => VerticesArePartitioned
  <2> SUFFICES ASSUME Inv, TypeInv, BufferInv PROVE VerticesArePartitioned
    OBVIOUS
  <2>1. num_vertices * VertexBytes <= vbo.size
    BY DEF BufferInv, Enough
  <2>2. ASSUME ~ignoreCL, ok, phase = "pass", pass = 4
        PROVE  /\ clVBO = vbo.id
               /\ \A d \in draws : 0 <= d.at /\ d.at + d.len <= num_vertices
    <3>1. Sound
      BY <2>2 DEF Sound
    <3>2. clVBO = vbo.id
      BY <2>2, <3>1 DEF BufferInv, Held
    <3>3. QED
      BY <2>2, <3>1, <3>2, DrawsAreOwned
  <2>3. ASSUME ~ignoreCL, ok, phase = "frame"
        PROVE  /\ \A v \in 0 .. num_vertices - 1 :
                    Cardinality({d \in draws : Covers(d, v)}) = 1
               /\ \A d, e \in draws : d.node \in Children(e.node) => e.at + e.len <= d.at
    <3>1. Sound /\ pass = 4 /\ level = tree.depth /\ todo = {}
      BY <2>3 DEF Sound, Inv, Control
    <3>2. \A m \in Nodes : Reached(m)
      BY <3>1, StateFacts DEF Reached
    <3>3. \A d \in draws :
            /\ d.node \in Nodes \ {0} /\ d.at = renderOffset(d.node) /\ d.len = self[d.node]
            /\ \A v : Covers(d, v) <=> Owns(d.node, v)
      BY <3>1, DrawsAreOwned
    <3>4. /\ \A m \in Nodes : (\E d \in draws : d.node = m) <=> Reached(m) /\ Drawn(m)
          /\ \A d, e \in draws : e.node = d.node => e = d
      BY <3>1 DEF Inv, Painted, Sound
    <3>5. ASSUME NEW v \in 0 .. num_vertices - 1
          PROVE  Cardinality({d \in draws : Covers(d, v)}) = 1
      <4>1. PICK m \in Nodes : Owns(m, v)
        BY <3>1 DEF BufferInv, Parted
      <4>2. \A k \in Nodes : Owns(k, v) => k = m
        BY <3>1, <4>1 DEF BufferInv, Parted
      <4>3. Drawn(m)
        <5>1. Reached(m) /\ self[m] \in Nat /\ right[m] \in Int /\ rsize[m] \in Nat
          BY <3>2, StateFacts
        <5>2. renderOffset(m) <= v /\ v < renderOffset(m) + self[m]
          BY <4>1, <5>1 DEF Owns
        <5>3. v \in Int /\ renderOffset(m) \in Int
          BY <5>1, StateFacts DEF renderOffset
        <5>4. self[m] # 0
          <6> DEFINE a == renderOffset(m)
          <6> HIDE DEF a
          <6>1. a \in Int /\ a <= v /\ v < a + self[m]
            BY <5>2, <5>3 DEF a
          <6>2. QED
            BY <5>1, <5>3, <6>1
        <5>5. Fits(m)
          BY <3>1 DEF BufferInv, Sized
        <5>6. QED
          BY <5>4, <5>5 DEF Fits, Need, Drawn
      <4>4. PICK d \in draws : d.node = m
        BY <3>2, <3>4, <4>3
      <4>5. {e \in draws : Covers(e, v)} = {d}
        <5>1. Covers(d, v)
          BY <3>3, <4>1, <4>4
        <5>2. \A e \in draws : Covers(e, v) => e = d
          <6> SUFFICES ASSUME NEW e \in draws, Covers(e, v) PROVE e = d
            OBVIOUS
          <6>1. e.node = m
            BY <3>3, <4>2
          <6>2. QED
            BY <3>4, <4>4, <6>1
        <5>3. QED
          BY <5>1, <5>2
      <4>6. QED
        BY <4>5, FS_Singleton
    <3>6. ASSUME NEW d \in draws, NEW e \in draws, d.node \in Children(e.node)
          PROVE  e.at + e.len <= d.at
      <4>1. renderOffset(e.node) + self[e.node] <= renderOffset(d.node)
        BY <3>1, <3>2, <3>3, <3>6 DEF BufferInv, Parted
      <4>2. QED
        BY <3>3, <4>1
    <3>7. QED
      BY <3>5, <3>6
  <2>4. QED
    BY <2>1, <2>2, <2>3 DEF VerticesArePartitioned
<1>2. QED
  BY <1>1, SpecBuffer, PTL

-----------------------------------------------------------------------------
(***************************************************************************)
(* The boxes.                                                              *)
(***************************************************************************)

\* The total of a container is that of its children.
Folded(n) == Class(n) # Leaf => Totals[n] = SumFunctionOnSet(Totals, Children(n))

\* The second pass adds the totals up.
Added ==
  phase # "idle" /\ ok =>
    /\ pass = 1 => \A n \in Nodes : ReachedUp(n) => Folded(n)
    /\ pass >= 2 => \A n \in Nodes : Folded(n)

\* The root gives its child two edges in the first pass, two sides in the second.
Cornered ==
  phase # "idle" /\ ok =>
    /\ (pass = 0 /\ Reached(0)) \/ pass >= 1 =>
         geo[FirstChild].by = Height /\ geo[FirstChild].rx = Width
    /\ (pass = 1 /\ ReachedUp(0)) \/ pass >= 2 =>
         /\ geo[FirstChild].h = Scale(tot[FirstChild].mag, FullVotes, Height)
         /\ geo[FirstChild].w = IF input.fixWidth THEN Width
                                ELSE Scale(tot[FirstChild].mag, FullVotes, Width)

\* What the children of a container get of its width or height v.
Shares(n, v) == [d \in Children(n) |-> Scale(tot[d].mag, tot[n].mag, v)]

\* A node the third pass has visited knows where it lies, and its children stand
\* in a row or in a column.
InRow(n, c) ==
  /\ geo[c].h = geo[n].h /\ geo[c].w = Shares(n, geo[n].w)[c]
  /\ geo[c].by = Plus(geo[n].y, geo[n].h)
  /\ geo[c].rx = Roll(geo[n].x, c, Shares(n, geo[n].w))
InColumn(n, c) ==
  /\ geo[c].w = geo[n].w /\ geo[c].h = Shares(n, geo[n].h)[c]
  /\ geo[c].rx = Plus(geo[n].x, geo[n].w)
  /\ geo[c].by = Roll(geo[n].y, c, Shares(n, geo[n].h))
Arranged(n) ==
  /\ geo[n].x = Minus(geo[n].rx, geo[n].w) /\ geo[n].y = Minus(geo[n].by, geo[n].h)
  /\ Class(n) \in Horizontal => \A c \in Children(n) : InRow(n, c)
  /\ Class(n) \in Vertical => \A c \in Children(n) : InColumn(n, c)

Laid ==
  phase # "idle" /\ ok =>
    /\ pass = 2 => \A n \in Nodes \ {0} : Reached(n) => Arranged(n)
    /\ pass >= 3 => \A n \in Nodes \ {0} : Arranged(n)

GeometryInv == Added /\ Cornered /\ Laid

\* Where no division among siblings leaves a remainder.
SharesAreWhole ==
  \A n \in Nodes \ {0} : \A c \in Children(n) :
    LET v == IF Class(n) \in Horizontal THEN geo[n].w ELSE geo[n].h IN
    tot[n].mag > 0 /\ v # NaN => (tot[c].mag * v) % tot[n].mag = 0

-----------------------------------------------------------------------------
(***************************************************************************)
(* The totals.                                                             *)
(***************************************************************************)

\* visit_*_1 adds up the totals of the children, all visited before.
LEMMA VisitAdded ==
  ASSUME Inv, TypeInv, Added, NEW n \in Nodes, Visit(n)
  PROVE  Added'
<1>1. /\ UNCHANGED <<tree, input, phase, pass, ok>> /\ phase = "pass" /\ pass \in 0 .. 4
      /\ tree.level[n] = level
      /\ ~ReachedUp(n) /\ \A m \in Nodes : ReachedUp(m)' <=> ReachedUp(m) \/ m = n
      /\ tree \in Trees /\ FieldTypes
  BY VisitFacts, StateFacts
<1>2. Nodes' = Nodes /\ \A m : Class(m)' = Class(m) /\ Children(m)' = Children(m)
  BY <1>1, SameTree
<1>3. /\ \A m \in Nodes : tree.level[m] \in Nat
      /\ \A m \in Nodes : IsFiniteSet(Children(m)) /\ m \notin Children(m)
      /\ \A m \in Nodes : Children(m) \subseteq Nodes \ {0}
      /\ \A m \in Nodes : \A c \in Children(m) : tree.level[c] = tree.level[m] + 1
      /\ level \in Nat
  BY <1>1, StateFacts, TreeNodes
<1> SUFFICES ASSUME ok, pass >= 1 PROVE Added'
  BY <1>1 DEF Added
<1>4. CASE pass = 1
  <2>1. visit_1(n)
    BY <1>4 DEF Visit
  <2>2. \A m \in Nodes : m # n => Totals'[m] = Totals[m]
    BY <1>1, <1>2, <2>1 DEF Totals, visit_1, FieldTypes
  <2>3. ASSUME NEW m \in Nodes, n \notin Children(m)
        PROVE  SumFunctionOnSet(Totals', Children(m)) = SumFunctionOnSet(Totals, Children(m))
    <3> DEFINE f == Totals'
    <3>1. \A c \in Children(m) : f[c] = Totals[c]
      BY <1>3, <2>2, <2>3
    <3> HIDE DEF f
    <3>2. SumFunctionOnSet(f, Children(m)) = SumFunctionOnSet(Totals, Children(m))
      BY <1>3, <3>1, SumSame
    <3>3. QED
      BY <3>2 DEF f
  <2>4. Folded(n)'
    <3> SUFFICES ASSUME Class(n) # Leaf
                 PROVE  Totals'[n] = SumFunctionOnSet(Totals', Children(n))
      BY <1>2 DEF Folded
    <3> DEFINE f == [c \in Children(n) |-> tot[c].mag]
    <3>1. DOMAIN f = Children(n)
      OBVIOUS
    <3>2. tot' = [tot EXCEPT ![n] =
                    [mag |-> SumFunction(f),
                     ur  |-> SumFunction([c \in Children(n) |-> tot[c].ur])]]
      BY <2>1 DEF visit_1
    <3>3. \A c \in Children(n) : f[c] = Totals[c]
      BY <1>3 DEF Totals
    <3> HIDE DEF f
    <3>4. tot'[n].mag = SumFunction(f)
      BY <1>1, <3>2 DEF FieldTypes
    <3>5. Totals'[n] = SumFunctionOnSet(f, Children(n))
      BY <1>2, <3>1, <3>4 DEF Totals, SumFunction
    <3>6. SumFunctionOnSet(f, Children(n)) = SumFunctionOnSet(Totals, Children(n))
      BY <1>3, <3>3, SumSame
    <3>7. QED
      BY <1>3, <2>3, <3>5, <3>6
  <2>5. ASSUME NEW m \in Nodes, ReachedUp(m), m # n PROVE Folded(m)'
    <3>1. n \notin Children(m)
      BY <1>1, <1>3, <2>5 DEF ReachedUp
    <3>2. Folded(m)
      BY <1>1, <1>4, <2>5 DEF Added
    <3>3. QED
      BY <1>2, <2>2, <2>3, <2>5, <3>1, <3>2 DEF Folded
  <2>6. \A m \in Nodes : ReachedUp(m)' => Folded(m)'
    BY <1>1, <2>4, <2>5
  <2>7. QED
    BY <1>1, <1>2, <1>4, <2>6 DEF Added
<1>5. CASE pass >= 2
  <2>1. tot' = tot
    <3>1. CASE pass = 2
      BY <3>1 DEF Visit, visit_2
    <3>2. CASE pass = 3
      BY <3>2 DEF Visit, visit_3
    <3>3. CASE pass = 4
      BY <3>3 DEF Visit, visit_4
    <3>4. QED
      BY <1>1, <1>5, <3>1, <3>2, <3>3
  <2>2. Totals' = Totals
    BY <1>2, <2>1 DEF Totals
  <2>3. \A m \in Nodes : Folded(m)
    BY <1>1, <1>5 DEF Added
  <2>4. \A m \in Nodes : Folded(m)'
    BY <1>2, <2>2, <2>3 DEF Folded
  <2>5. QED
    BY <1>1, <1>2, <1>5, <2>4 DEF Added
<1>6. QED
  BY <1>1, <1>4, <1>5

-----------------------------------------------------------------------------
(***************************************************************************)
(* The boxes.                                                              *)
(***************************************************************************)

\* What the visits change in a box.
LEMMA BoxFields ==
  ASSUME NEW g \in Box, NEW a, NEW b, NEW c, NEW d
  PROVE  /\ LET e == [g EXCEPT !.x = a, !.y = b] IN
            /\ e.x = a /\ e.y = b /\ e.w = g.w /\ e.h = g.h /\ e.by = g.by /\ e.rx = g.rx
         /\ LET e == [g EXCEPT !.h = a, !.w = b, !.by = c, !.rx = d] IN
            /\ e.h = a /\ e.w = b /\ e.by = c /\ e.rx = d /\ e.x = g.x /\ e.y = g.y
         /\ LET e == [g EXCEPT !.w = a, !.h = b, !.rx = c, !.by = d] IN
            /\ e.w = a /\ e.h = b /\ e.rx = c /\ e.by = d /\ e.x = g.x /\ e.y = g.y
<1>1. /\ [g EXCEPT !.x = a, !.y = b].x = a /\ [g EXCEPT !.x = a, !.y = b].y = b
      /\ [g EXCEPT !.x = a, !.y = b].w = g.w /\ [g EXCEPT !.x = a, !.y = b].h = g.h
      /\ [g EXCEPT !.x = a, !.y = b].by = g.by /\ [g EXCEPT !.x = a, !.y = b].rx = g.rx
  BY DEF Box
<1>2. QED
  BY <1>1 DEF Box

\* Where a node lies and what its children get, once it is visited in the third pass.
LEMMA VisitBoxes ==
  ASSUME Inv, TypeInv, NEW n \in Nodes \ {0}, Visit(n), pass = 2
  PROVE  /\ \A m \in Nodes : m # n /\ m \notin Children(n) => geo'[m] = geo[m]
         /\ geo'[n].x = Minus(geo[n].rx, geo[n].w)
         /\ geo'[n].y = Minus(geo[n].by, geo[n].h)
         /\ geo'[n].w = geo[n].w /\ geo'[n].h = geo[n].h
         /\ geo'[n].by = geo[n].by /\ geo'[n].rx = geo[n].rx
         /\ Class(n) \in Horizontal => \A c \in Children(n) :
              /\ geo'[c].h = geo'[n].h
              /\ geo'[c].w = Shares(n, geo'[n].w)[c]
              /\ geo'[c].by = Plus(geo'[n].y, geo'[n].h)
              /\ geo'[c].rx = Roll(geo'[n].x, c, Shares(n, geo'[n].w))
         /\ Class(n) \in Vertical => \A c \in Children(n) :
              /\ geo'[c].w = geo'[n].w
              /\ geo'[c].h = Shares(n, geo'[n].h)[c]
              /\ geo'[c].rx = Plus(geo'[n].x, geo'[n].w)
              /\ geo'[c].by = Roll(geo'[n].y, c, Shares(n, geo'[n].h))
<1>1. visit_2(n)
  BY DEF Visit
<1>2. /\ tree \in Trees /\ n \notin Children(n) /\ Children(n) \subseteq Nodes
      /\ \A m \in Nodes : geo[m] \in Box
  BY StateFacts, TreeNodes DEF FieldTypes
<1>3. Class(n) \in Horizontal => Class(n) \notin Vertical
  BY DEF Horizontal, Vertical, Outlined
<1>4. geo' = [c \in Nodes |->
                CASE c = n -> Placed(n)
                  [] c \in Children(n) /\ Class(n) \in Horizontal -> Side(n, c)
                  [] c \in Children(n) /\ Class(n) \in Vertical -> Stack(n, c)
                  [] OTHER -> geo[c]]
  BY <1>1 DEF visit_2
<1>5. geo'[n] = Placed(n)
  BY <1>2, <1>4
<1>6. \A m \in Nodes : m # n /\ m \notin Children(n) => geo'[m] = geo[m]
  BY <1>4
<1> DEFINE g == Placed(n)
<1>7. /\ g.x = Minus(geo[n].rx, geo[n].w) /\ g.y = Minus(geo[n].by, geo[n].h)
      /\ g.w = geo[n].w /\ g.h = geo[n].h /\ g.by = geo[n].by /\ g.rx = geo[n].rx
  BY <1>2, BoxFields DEF Placed
<1>8. ASSUME Class(n) \in Horizontal, NEW c \in Children(n)
      PROVE  /\ geo'[c].h = g.h
             /\ geo'[c].w = Shares(n, g.w)[c]
             /\ geo'[c].by = Plus(g.y, g.h)
             /\ geo'[c].rx = Roll(g.x, c, Shares(n, g.w))
  <2>1. geo'[c] = Side(n, c)
    BY <1>2, <1>3, <1>4, <1>8
  <2>2. geo[c] \in Box
    BY <1>2
  <2> DEFINE w == [d \in Children(n) |-> Scale(tot[d].mag, tot[n].mag, g.w)]
             from == geo[c]
             p == g.h
             q == w[c]
             r == Plus(g.y, g.h)
             t == Roll(g.x, c, w)
  <2>3. Side(n, c) = [from EXCEPT !.h = p, !.w = q, !.by = r, !.rx = t]
    BY DEF Side
  <2>4. w = Shares(n, g.w)
    BY DEF Shares
  <2>5. q = Shares(n, g.w)[c] /\ t = Roll(g.x, c, Shares(n, g.w))
    BY <2>4
  <2>6. p = g.h /\ r = Plus(g.y, g.h) /\ from \in Box
    BY <2>2
  <2> HIDE DEF w, g, from, p, q, r, t
  <2>7. /\ Side(n, c).h = p /\ Side(n, c).w = q /\ Side(n, c).by = r /\ Side(n, c).rx = t
    BY <2>3, <2>6, BoxFields
  <2>8. QED
    BY <2>1, <2>5, <2>6, <2>7
<1>9. ASSUME Class(n) \in Vertical, NEW c \in Children(n)
      PROVE  /\ geo'[c].w = g.w
             /\ geo'[c].h = Shares(n, g.h)[c]
             /\ geo'[c].rx = Plus(g.x, g.w)
             /\ geo'[c].by = Roll(g.y, c, Shares(n, g.h))
  <2>1. geo'[c] = Stack(n, c)
    BY <1>2, <1>3, <1>4, <1>9
  <2>2. geo[c] \in Box
    BY <1>2
  <2> DEFINE h == [d \in Children(n) |-> Scale(tot[d].mag, tot[n].mag, g.h)]
             from == geo[c]
             p == g.w
             q == h[c]
             r == Plus(g.x, g.w)
             t == Roll(g.y, c, h)
  <2>3. Stack(n, c) = [from EXCEPT !.w = p, !.h = q, !.rx = r, !.by = t]
    BY DEF Stack
  <2>4. h = Shares(n, g.h)
    BY DEF Shares
  <2>5. q = Shares(n, g.h)[c] /\ t = Roll(g.y, c, Shares(n, g.h))
    BY <2>4
  <2>6. p = g.w /\ r = Plus(g.x, g.w) /\ from \in Box
    BY <2>2
  <2> HIDE DEF h, g, from, p, q, r, t
  <2>7. /\ Stack(n, c).w = p /\ Stack(n, c).h = q /\ Stack(n, c).rx = r /\ Stack(n, c).by = t
    BY <2>3, <2>6, BoxFields
  <2>8. QED
    BY <2>1, <2>5, <2>6, <2>7
<1> HIDE DEF g
<1>10. geo'[n] = g
  BY <1>5 DEF g
<1>11. /\ geo'[n].x = Minus(geo[n].rx, geo[n].w)
       /\ geo'[n].y = Minus(geo[n].by, geo[n].h)
       /\ geo'[n].w = geo[n].w /\ geo'[n].h = geo[n].h
       /\ geo'[n].by = geo[n].by /\ geo'[n].rx = geo[n].rx
  BY <1>7, <1>10
<1>12. /\ Class(n) \in Horizontal => \A c \in Children(n) :
            /\ geo'[c].h = geo'[n].h
            /\ geo'[c].w = Shares(n, geo'[n].w)[c]
            /\ geo'[c].by = Plus(geo'[n].y, geo'[n].h)
            /\ geo'[c].rx = Roll(geo'[n].x, c, Shares(n, geo'[n].w))
       /\ Class(n) \in Vertical => \A c \in Children(n) :
            /\ geo'[c].w = geo'[n].w
            /\ geo'[c].h = Shares(n, geo'[n].h)[c]
            /\ geo'[c].rx = Plus(geo'[n].x, geo'[n].w)
            /\ geo'[c].by = Roll(geo'[n].y, c, Shares(n, geo'[n].h))
  BY <1>8, <1>9, <1>10
<1>13. QED
  BY <1>6, <1>11, <1>12

\* The next state's rows and columns, in terms of its boxes.
LEMMA PrimedBoxes ==
  ASSUME tree' = tree, tot' = tot, NEW n
  PROVE  /\ \A c : InRow(n, c)' <=>
              /\ geo'[c].h = geo'[n].h
              /\ geo'[c].w = Shares(n, geo'[n].w)[c]
              /\ geo'[c].by = Plus(geo'[n].y, geo'[n].h)
              /\ geo'[c].rx = Roll(geo'[n].x, c, Shares(n, geo'[n].w))
         /\ \A c : InColumn(n, c)' <=>
              /\ geo'[c].w = geo'[n].w
              /\ geo'[c].h = Shares(n, geo'[n].h)[c]
              /\ geo'[c].rx = Plus(geo'[n].x, geo'[n].w)
              /\ geo'[c].by = Roll(geo'[n].y, c, Shares(n, geo'[n].h))
<1>1. \A m : Children(m)' = Children(m)
  BY SameTree
<1>2. Shares(n, geo[n].w)' = Shares(n, geo'[n].w) /\ Shares(n, geo[n].h)' = Shares(n, geo'[n].h)
  BY <1>1 DEF Shares
<1>3. \A c : /\ Roll(geo[n].x, c, Shares(n, geo[n].w))' = Roll(geo'[n].x, c, Shares(n, geo'[n].w))
             /\ Roll(geo[n].y, c, Shares(n, geo[n].h))' = Roll(geo'[n].y, c, Shares(n, geo'[n].h))
  BY <1>1, <1>2 DEF Roll
<1>4. QED
  BY <1>2, <1>3 DEF InRow, InColumn

\* An arranged node stays arranged while its box and its children's sides stay.
LEMMA ArrangedStays ==
  ASSUME tree' = tree, tot' = tot, NEW n, Arranged(n), geo'[n] = geo[n],
         \A c \in Children(n) : /\ geo'[c].w = geo[c].w /\ geo'[c].h = geo[c].h
                                /\ geo'[c].by = geo[c].by /\ geo'[c].rx = geo[c].rx
  PROVE  Arranged(n)'
<1>1. Children(n)' = Children(n) /\ Class(n)' = Class(n)
  BY SameTree
<1>2. ASSUME NEW c \in Children(n), InRow(n, c) PROVE InRow(n, c)'
  BY <1>2, PrimedBoxes DEF InRow
<1>3. ASSUME NEW c \in Children(n), InColumn(n, c) PROVE InColumn(n, c)'
  BY <1>3, PrimedBoxes DEF InColumn
<1>4. QED
  BY <1>1, <1>2, <1>3 DEF Arranged

\* The third pass: the visited node is arranged, the others stay so.
LEMMA VisitLaid ==
  ASSUME Inv, TypeInv, Laid, NEW n \in Nodes, Visit(n)
  PROVE  Laid'
<1>1. /\ UNCHANGED <<tree, phase, pass, ok>> /\ phase = "pass" /\ pass \in 0 .. 4
      /\ tree.level[n] = level /\ tree \in Trees
      /\ ~Reached(n) /\ \A m \in Nodes : Reached(m)' <=> Reached(m) \/ m = n
  BY VisitFacts, StateFacts
<1>2. Nodes' = Nodes /\ \A m : Class(m)' = Class(m) /\ Children(m)' = Children(m)
  BY <1>1, SameTree
<1>3. /\ \A m \in Nodes : tree.level[m] \in Nat /\ (tree.level[m] = 0 <=> m = 0)
      /\ \A m \in Nodes : m \notin Children(m) /\ Children(m) \subseteq Nodes \ {0}
      /\ \A m \in Nodes : \A c \in Children(m) :
           tree.parent[c] = m /\ tree.level[c] = tree.level[m] + 1
      /\ level \in Nat
  BY <1>1, StateFacts, TreeNodes
<1> SUFFICES ASSUME ok, pass >= 2 PROVE Laid'
  BY <1>1 DEF Laid
<1>4. tot' = tot
  <2>1. CASE pass = 2
    BY <2>1 DEF Visit, visit_2
  <2>2. CASE pass = 3
    BY <2>2 DEF Visit, visit_3
  <2>3. CASE pass = 4
    BY <2>3 DEF Visit, visit_4
  <2>4. QED
    BY <1>1, <2>1, <2>2, <2>3
<1>5. CASE pass = 2 /\ n # 0
  <2>1. ASSUME NEW m \in Nodes \ {0}, Reached(m), m # n PROVE Arranged(m)'
    <3>1. Arranged(m)
      BY <1>1, <1>5, <2>1 DEF Laid
    <3>2. m \notin Children(n)
      BY <1>1, <1>3, <2>1 DEF Reached
    <3>3. geo'[m] = geo[m]
      BY <1>5, <2>1, <3>2, VisitBoxes
    <3>4. ASSUME NEW c \in Children(m)
          PROVE  /\ geo'[c].w = geo[c].w /\ geo'[c].h = geo[c].h
                 /\ geo'[c].by = geo[c].by /\ geo'[c].rx = geo[c].rx
      <4>1. c \in Nodes /\ c \notin Children(n)
        BY <1>3, <2>1
      <4>2. QED
        BY <1>5, <4>1, VisitBoxes
    <3>5. QED
      BY <1>1, <1>4, <3>1, <3>3, <3>4, ArrangedStays
  <2>2. Arranged(n)'
    <3>1. /\ geo'[n].x = Minus(geo'[n].rx, geo'[n].w)
          /\ geo'[n].y = Minus(geo'[n].by, geo'[n].h)
      BY <1>5, VisitBoxes
    <3>2. /\ Class(n) \in Horizontal => \A c \in Children(n) :
               /\ geo'[c].h = geo'[n].h
               /\ geo'[c].w = Shares(n, geo'[n].w)[c]
               /\ geo'[c].by = Plus(geo'[n].y, geo'[n].h)
               /\ geo'[c].rx = Roll(geo'[n].x, c, Shares(n, geo'[n].w))
          /\ Class(n) \in Vertical => \A c \in Children(n) :
               /\ geo'[c].w = geo'[n].w
               /\ geo'[c].h = Shares(n, geo'[n].h)[c]
               /\ geo'[c].rx = Plus(geo'[n].x, geo'[n].w)
               /\ geo'[c].by = Roll(geo'[n].y, c, Shares(n, geo'[n].h))
      BY <1>5, VisitBoxes
    <3>3. /\ \A c : InRow(n, c)' <=>
               /\ geo'[c].h = geo'[n].h
               /\ geo'[c].w = Shares(n, geo'[n].w)[c]
               /\ geo'[c].by = Plus(geo'[n].y, geo'[n].h)
               /\ geo'[c].rx = Roll(geo'[n].x, c, Shares(n, geo'[n].w))
          /\ \A c : InColumn(n, c)' <=>
               /\ geo'[c].w = geo'[n].w
               /\ geo'[c].h = Shares(n, geo'[n].h)[c]
               /\ geo'[c].rx = Plus(geo'[n].x, geo'[n].w)
               /\ geo'[c].by = Roll(geo'[n].y, c, Shares(n, geo'[n].h))
      BY <1>1, <1>4, PrimedBoxes
    <3>4. QED
      BY <1>2, <3>1, <3>2, <3>3 DEF Arranged
  <2>3. \A m \in Nodes \ {0} : Reached(m)' => Arranged(m)'
    BY <1>1, <2>1, <2>2
  <2>4. QED
    BY <1>1, <1>2, <1>5, <2>3 DEF Laid
<1>6. CASE pass # 2 \/ n = 0
  <2>1. geo' = geo
    <3>1. CASE pass = 2
      BY <1>6, <3>1 DEF Visit, visit_2
    <3>2. CASE pass = 3
      BY <3>2 DEF Visit, visit_3
    <3>3. CASE pass = 4
      BY <3>3 DEF Visit, visit_4
    <3>4. QED
      BY <1>1, <3>1, <3>2, <3>3
  <2>2. \A m \in Nodes \ {0} : Arranged(m) => Arranged(m)'
    BY <1>1, <1>4, <2>1, ArrangedStays
  <2>3. pass = 2 => \A m \in Nodes \ {0} : Reached(m)' => Reached(m)
    BY <1>1, <1>6
  <2>4. QED
    BY <1>1, <1>2, <2>2, <2>3 DEF Laid
<1>7. QED
  BY <1>5, <1>6

\* The root gives its child edges in the first pass and sides in the second, and
\* the third pass leaves them.
LEMMA VisitCornered ==
  ASSUME Inv, TypeInv, Cornered, NEW n \in Nodes, Visit(n)
  PROVE  Cornered'
<1>1. /\ UNCHANGED <<tree, input, phase, pass, ok>> /\ phase = "pass" /\ pass \in 0 .. 4
      /\ tree.level[n] = level /\ tree \in Trees /\ FieldTypes
      /\ ~Reached(n) /\ \A m \in Nodes : Reached(m)' <=> Reached(m) \/ m = n
      /\ ~ReachedUp(n) /\ \A m \in Nodes : ReachedUp(m)' <=> ReachedUp(m) \/ m = n
  BY VisitFacts, StateFacts
<1>2. Nodes' = Nodes /\ FirstChild' = FirstChild
  BY <1>1, SameTree
<1>3. /\ \A m \in Nodes : tree.level[m] \in Nat /\ (tree.level[m] = 0 <=> m = 0)
      /\ level \in Nat /\ 0 \in Nodes /\ FirstChild \in Nodes \ {0}
      /\ \A m \in Nodes : FirstChild \in Children(m) => m = 0
      /\ Class(0) # Leaf /\ geo[FirstChild] \in Box
  <2>1. tree.class[0] = "root"
    BY <1>1, TreeFacts, TreeNodes DEF Nodes
  <2>2. \A m \in Nodes : FirstChild \in Children(m) => m = 0
    BY <1>1, TreeNodes DEF Children
  <2>3. QED
    BY <1>1, <2>1, <2>2, StateFacts, TreeNodes DEF Class, Leaf, FieldTypes
<1> SUFFICES ASSUME ok PROVE Cornered'
  BY <1>1 DEF Cornered
<1> DEFINE F == FirstChild
<1>4. CASE pass = 0
  <2>1. geo' = IF n = 0 THEN [geo EXCEPT ![F].by = Height, ![F].rx = Width] ELSE geo
    BY <1>4 DEF Visit, visit_0
  <2>2. Reached(0)' => geo'[F].by = Height /\ geo'[F].rx = Width
    <3>1. CASE n = 0
      <4> DEFINE g == [geo EXCEPT ![F].by = Height]
      <4>1. g \in [Nodes -> Box] /\ g[F].by = Height
        <5>1. Height \in Number
          BY Constants DEF Number
        <5>2. g \in [Nodes -> Box]
          BY <1>1, <1>3, <5>1, EditTypes DEF FieldTypes
        <5>3. g[F].by = Height
          BY <1>1, <1>3 DEF FieldTypes, Box
        <5>4. QED
          BY <5>2, <5>3
      <4>2. geo' = [g EXCEPT ![F].rx = Width]
        BY <2>1, <3>1
      <4> HIDE DEF g
      <4>3. g[F] \in Box
        BY <1>3, <4>1
      <4>4. geo'[F] = [g[F] EXCEPT !.rx = Width]
        BY <1>3, <4>1, <4>2
      <4>5. QED
        BY <4>1, <4>3, <4>4 DEF Box
    <3>2. CASE n # 0
      <4>1. Reached(0)' => Reached(0)
        BY <1>1, <1>3, <3>2
      <4>2. QED
        BY <1>1, <1>4, <2>1, <3>2, <4>1 DEF Cornered
    <3>3. QED
      BY <3>1, <3>2
  <2>3. QED
    BY <1>1, <1>2, <1>4, <2>2 DEF Cornered
<1>5. CASE pass = 1
  <2>1. visit_1(n)
    BY <1>5 DEF Visit
  <2>2. geo[F].by = Height /\ geo[F].rx = Width
    BY <1>1, <1>5 DEF Cornered
  <2>3. CASE n = 0
    <3> DEFINE hh == Scale(tot[F].mag, FullVotes, Height)
               ww == IF input.fixWidth THEN Width ELSE Scale(tot[F].mag, FullVotes, Width)
    <3>1. geo' = [geo EXCEPT ![F].h = hh, ![F].w = ww]
      BY <2>1, <2>3 DEF visit_1
    <3>2. tot'[F] = tot[F]
      BY <1>1, <1>3, <2>1, <2>3 DEF visit_1, FieldTypes
    <3>3. hh \in Number /\ ww \in Number
      <4>1. tot[F].mag \in Nat
        BY <1>1, <1>3 DEF FieldTypes
      <4>2. Height \in Number /\ Width \in Number /\ FullVotes \in Nat
        BY Constants DEF Number
      <4>3. Scale(tot[F].mag, FullVotes, Height) \in Number
            /\ Scale(tot[F].mag, FullVotes, Width) \in Number
        BY <4>1, <4>2, ArithmeticTypes
      <4>4. QED
        BY <4>2, <4>3
    <3> HIDE DEF hh, ww
    <3> DEFINE g == [geo EXCEPT ![F].h = hh]
    <3>4. g \in [Nodes -> Box] /\ g[F].h = hh /\ g[F].by = geo[F].by /\ g[F].rx = geo[F].rx
      <4>1. g \in [Nodes -> Box]
        BY <1>1, <1>3, <3>3, EditTypes DEF FieldTypes
      <4>2. g[F].h = hh /\ g[F].by = geo[F].by /\ g[F].rx = geo[F].rx
        BY <1>1, <1>3 DEF FieldTypes, Box
      <4>3. QED
        BY <4>1, <4>2
    <3>5. geo' = [g EXCEPT ![F].w = ww]
      BY <3>1
    <3> HIDE DEF g
    <3>6. g[F] \in Box
      BY <1>3, <3>4
    <3>7. geo'[F] = [g[F] EXCEPT !.w = ww]
      BY <1>3, <3>4, <3>5
    <3>8. geo'[F].by = Height /\ geo'[F].rx = Width /\ geo'[F].h = hh /\ geo'[F].w = ww
      BY <2>2, <3>4, <3>6, <3>7 DEF Box
    <3>9. QED
      BY <1>1, <1>2, <1>5, <3>2, <3>8 DEF Cornered, hh, ww
  <2>4. CASE n # 0
    <3>1. geo' = geo
      BY <2>1, <2>4 DEF visit_1
    <3>2. ~ReachedUp(0)'
      BY <1>1, <1>3, <2>4 DEF ReachedUp
    <3>3. QED
      BY <1>1, <1>2, <1>5, <2>2, <3>1, <3>2 DEF Cornered
  <2>5. QED
    BY <2>3, <2>4
<1>6. CASE pass >= 2
  <2>1. tot' = tot
    <3>1. CASE pass = 2
      BY <3>1 DEF Visit, visit_2
    <3>2. CASE pass = 3
      BY <3>2 DEF Visit, visit_3
    <3>3. CASE pass = 4
      BY <3>3 DEF Visit, visit_4
    <3>4. QED
      BY <1>1, <1>6, <3>1, <3>2, <3>3
  <2>2. /\ geo'[F].by = geo[F].by /\ geo'[F].rx = geo[F].rx
        /\ geo'[F].w = geo[F].w /\ geo'[F].h = geo[F].h
    <3>1. CASE pass = 2 /\ n # 0
      <4>1. CASE n = F
        BY <3>1, <4>1, VisitBoxes
      <4>2. CASE n # F
        <5>1. F \notin Children(n)
          BY <1>3, <3>1
        <5>2. geo'[F] = geo[F]
          BY <1>3, <3>1, <4>2, <5>1, VisitBoxes
        <5>3. QED
          BY <5>2
      <4>3. QED
        BY <4>1, <4>2
    <3>2. CASE pass = 2 /\ n = 0
      BY <3>2 DEF Visit, visit_2
    <3>3. CASE pass = 3
      BY <3>3 DEF Visit, visit_3
    <3>4. CASE pass = 4
      BY <3>4 DEF Visit, visit_4
    <3>5. QED
      BY <1>1, <1>6, <3>1, <3>2, <3>3, <3>4
  <2>3. QED
    BY <1>1, <1>2, <1>6, <2>1, <2>2 DEF Cornered
<1>7. QED
  BY <1>1, <1>4, <1>5, <1>6

\* Steps that leave totals and boxes alone.
LEMMA SameGeometry ==
  ASSUME UNCHANGED <<tree, input, tot, geo>>
  PROVE  /\ Nodes' = Nodes /\ FirstChild' = FirstChild
         /\ \A m : Folded(m) => Folded(m)'
         /\ \A m : Arranged(m) => Arranged(m)'
<1>1. /\ Nodes' = Nodes /\ FirstChild' = FirstChild
      /\ \A m : Class(m)' = Class(m) /\ Children(m)' = Children(m)
  BY SameTree
<1>2. Totals' = Totals
  BY <1>1 DEF Totals
<1>3. \A m : Folded(m) => Folded(m)'
  BY <1>1, <1>2 DEF Folded
<1>4. \A m : Arranged(m) => Arranged(m)'
  BY ArrangedStays
<1>5. QED
  BY <1>1, <1>3, <1>4

\* After the third pass nothing of the geometry changes.
LEMMA GeometryAfter ==
  ASSUME GeometryInv, UNCHANGED <<tree, input, tot, geo>>, phase # "idle",
         ok' => ok /\ pass \in Nat /\ pass >= 3, pass' \in Nat /\ pass' >= 3
  PROVE  GeometryInv'
<1> SUFFICES ASSUME ok' PROVE GeometryInv'
  BY DEF GeometryInv, Added, Cornered, Laid
<1>1. /\ \A m \in Nodes : Folded(m)
      /\ \A m \in Nodes \ {0} : Arranged(m)
      /\ geo[FirstChild].by = Height /\ geo[FirstChild].rx = Width
      /\ geo[FirstChild].h = Scale(tot[FirstChild].mag, FullVotes, Height)
      /\ geo[FirstChild].w = IF input.fixWidth THEN Width
                             ELSE Scale(tot[FirstChild].mag, FullVotes, Width)
  BY DEF GeometryInv, Added, Cornered, Laid
<1>2. Added' /\ Laid'
  BY <1>1, SameGeometry DEF Added, Laid
<1>3. Cornered'
  BY <1>1, SameGeometry DEF Cornered
<1>4. QED
  BY <1>2, <1>3 DEF GeometryInv

\* The next level: what was visited stays visited.
LEMMA LevelGeometry ==
  ASSUME Inv, TypeInv, GeometryInv, NextLevel
  PROVE  GeometryInv'
<1>1. /\ phase = "pass" /\ todo = {} /\ ~LastLevel
      /\ level' = (IF pass \in TopDown THEN level + 1 ELSE level - 1)
      /\ todo' = LevelNodes(tree, level')
      /\ UNCHANGED <<tree, input, tot, geo, phase, pass, ok>>
  BY DEF NextLevel, fields, buffers
<1>2. /\ tree \in Trees /\ level \in Nat /\ pass \in 0 .. 4 /\ 0 \in Nodes
      /\ \A m \in Nodes : tree.level[m] \in Nat
  BY StateFacts, TreeNodes
<1>3. pass \in TopDown => \A m \in Nodes : Reached(m)' => Reached(m)
  BY <1>1, <1>2 DEF Reached, LevelNodes, Nodes
<1>4. pass \notin TopDown => \A m \in Nodes : ReachedUp(m)' => ReachedUp(m)
  BY <1>1, <1>2 DEF ReachedUp, LevelNodes, Nodes
<1>5. Added'
  BY <1>1, <1>2, <1>4, SameGeometry DEF GeometryInv, Added, TopDown
<1>6. Laid'
  BY <1>1, <1>2, <1>3, SameGeometry DEF GeometryInv, Laid, TopDown
<1>7. Cornered'
  <2>1. (pass = 0 /\ Reached(0)') \/ pass >= 1 => (pass = 0 /\ Reached(0)) \/ pass >= 1
    BY <1>2, <1>3 DEF TopDown
  <2>2. (pass = 1 /\ ReachedUp(0)') \/ pass >= 2 => (pass = 1 /\ ReachedUp(0)) \/ pass >= 2
    BY <1>2, <1>4 DEF TopDown
  <2>3. QED
    BY <1>1, <2>1, <2>2, SameGeometry DEF GeometryInv, Cornered
<1>8. QED
  BY <1>5, <1>6, <1>7 DEF GeometryInv

\* The next pass finds what the one before left at every node.
LEMMA PassGeometry ==
  ASSUME Inv, TypeInv, GeometryInv, NextPass
  PROVE  GeometryInv'
<1>1. /\ phase = "pass" /\ todo = {} /\ LastLevel
      /\ UNCHANGED <<tree, input, tot, geo, ok>>
  BY DEF NextPass, fields, buffers
<1>2. /\ tree \in Trees /\ level \in Nat /\ pass \in 0 .. 4 /\ 0 \in Nodes
      /\ \A m \in Nodes : tree.level[m] \in 0 .. tree.depth
      /\ tree.depth \in Nat
  BY StateFacts, TreeNodes
<1>3. pass < 3 => StartPass(pass + 1)
  <2> SUFFICES ASSUME pass < 3 PROVE StartPass(pass + 1)
    OBVIOUS
  <2>1. pass < 3 /\ pass # 3 /\ pass # 4
    BY <1>2
  <2>2. QED
    BY <2>1, Zenon DEF NextPass
<1>4. pass \in TopDown => \A m \in Nodes : Reached(m)
  BY <1>1, <1>2 DEF Reached, LastLevel
<1>5. pass \notin TopDown => \A m \in Nodes : ReachedUp(m)
  BY <1>1, <1>2 DEF ReachedUp, LastLevel
<1> SUFFICES ASSUME ok PROVE GeometryInv'
  BY <1>1 DEF GeometryInv, Added, Cornered, Laid
<1>6. CASE pass = 0
  <2>1. /\ pass' = 1 /\ phase' = "pass" /\ level' = tree.depth
        /\ todo' = LevelNodes(tree, level')
    BY <1>3, <1>6 DEF StartPass, TopDown
  <2>2. \A m \in Nodes : ~ReachedUp(m)'
    BY <1>1, <1>2, <2>1 DEF ReachedUp, LevelNodes, Nodes
  <2>3. Added' /\ Laid'
    BY <2>1, <2>2, <1>1, SameGeometry DEF Added, Laid
  <2>4. Reached(0) /\ ~ReachedUp(0)'
    BY <1>2, <1>4, <1>6, <2>2 DEF TopDown
  <2>5. Cornered'
    BY <1>1, <1>6, <2>1, <2>4, SameGeometry DEF GeometryInv, Cornered
  <2>6. QED
    BY <2>3, <2>5 DEF GeometryInv
<1>7. CASE pass = 1
  <2>1. /\ pass' = 2 /\ phase' = "pass" /\ level' = 0
        /\ todo' = LevelNodes(tree, level')
    BY <1>3, <1>7 DEF StartPass, TopDown
  <2>2. \A m \in Nodes : ~Reached(m)'
    BY <1>1, <1>2, <2>1 DEF Reached, LevelNodes, Nodes
  <2>3. (\A m \in Nodes : Folded(m)) /\ ReachedUp(0)
    BY <1>1, <1>2, <1>5, <1>7 DEF GeometryInv, Added, TopDown
  <2>4. Added' /\ Laid'
    BY <1>1, <2>1, <2>2, <2>3, SameGeometry DEF Added, Laid
  <2>5. Cornered'
    BY <1>1, <1>7, <2>1, <2>3, SameGeometry DEF GeometryInv, Cornered
  <2>6. QED
    BY <2>4, <2>5 DEF GeometryInv
<1>8. CASE pass = 2
  <2>1. pass' = 3 /\ phase' = "pass"
    BY <1>3, <1>8 DEF StartPass
  <2>2. \A m \in Nodes \ {0} : Arranged(m)
    BY <1>1, <1>4, <1>8 DEF GeometryInv, Laid, TopDown
  <2>3. Added' /\ Laid'
    BY <1>1, <1>8, <2>1, <2>2, SameGeometry DEF GeometryInv, Added, Laid
  <2>4. Cornered'
    BY <1>1, <1>8, <2>1, SameGeometry DEF GeometryInv, Cornered
  <2>5. QED
    BY <2>3, <2>4 DEF GeometryInv
<1>9. CASE pass >= 3
  <2>1. pass' \in Nat /\ pass' >= 3
    <3>1. CASE pass = 3
      BY <3>1 DEF NextPass, AfterTraversals, StartPass
    <3>2. CASE pass = 4
      BY <3>2 DEF NextPass
    <3>3. QED
      BY <1>2, <1>9, <3>1, <3>2
  <2>2. QED
    BY <1>1, <1>2, <1>9, <2>1, GeometryAfter
<1>10. QED
  BY <1>2, <1>6, <1>7, <1>8, <1>9

\* Steps outside the traversals.
LEMMA OtherGeometry ==
  ASSUME Inv, TypeInv, GeometryInv,
         \/ \E i \in Inputs : SetInput(i)
         \/ \E t \in Trees : LoadTree(t)
         \/ BeginLayout \/ KernelFails
         \/ reallocateVBO \/ setVBO \/ renderFrame \/ UNCHANGED vars
  PROVE  GeometryInv'
<1>1. CASE \/ \E i \in Inputs : SetInput(i)
           \/ \E t \in Trees : LoadTree(t)
           \/ renderFrame \/ KernelFails
  <2>1. phase' = "idle" \/ ~ok'
    BY <1>1 DEF SetInput, LoadTree, renderFrame, KernelFails, control
  <2>2. QED
    BY <2>1 DEF GeometryInv, Added, Cornered, Laid
<1>2. CASE BeginLayout
  <2>1. /\ pass' = 0 /\ level' = 0 /\ todo' = LevelNodes(tree, 0) /\ tree' = tree
        /\ tree \in Trees
    BY <1>2, StateFacts DEF BeginLayout, StartPass, TopDown
  <2>2. tree.level[0] = 0 /\ 0 \in Nodes
    BY <2>1, StateFacts, TreeNodes
  <2>3. ~Reached(0)'
    BY <2>1, <2>2 DEF Reached, LevelNodes, Nodes
  <2>4. QED
    BY <2>1, <2>3 DEF GeometryInv, Added, Cornered, Laid
<1>3. CASE reallocateVBO
  <2>1. UNCHANGED <<tree, input, tot, geo, pass, ok>> /\ phase = "alloc"
    BY <1>3 DEF reallocateVBO, fields
  <2>2. CASE ok
    <3>1. pass = 3
      BY <2>1, <2>2 DEF Inv, Control
    <3>2. QED
      BY <2>1, <3>1, GeometryAfter
  <2>3. CASE ~ok
    BY <2>1, <2>3 DEF GeometryInv, Added, Cornered, Laid
  <2>4. QED
    BY <2>2, <2>3
<1>4. CASE setVBO
  <2>1. /\ UNCHANGED <<tree, input, tot, geo>> /\ phase = "share" /\ (ok' => ok)
        /\ ok' => StartPass(4)
    BY <1>4 DEF setVBO, fields
  <2>2. CASE ok'
    <3>1. pass = 3 /\ pass' = 4
      BY <2>1, <2>2 DEF Inv, Control, StartPass
    <3>2. QED
      BY <2>1, <3>1, GeometryAfter
  <2>3. CASE ~ok'
    BY <2>3 DEF GeometryInv, Added, Cornered, Laid
  <2>4. QED
    BY <2>2, <2>3
<1>5. CASE UNCHANGED vars
  <2>1. UNCHANGED <<tree, input, tot, geo, phase, pass, level, todo, ok>>
    BY <1>5 DEF vars, fields, control
  <2>2. \A m : Reached(m)' = Reached(m) /\ ReachedUp(m)' = ReachedUp(m)
    BY <2>1 DEF Reached, ReachedUp
  <2>3. Added' /\ Laid'
    BY <2>1, <2>2, SameGeometry DEF GeometryInv, Added, Laid
  <2>4. Cornered'
    BY <2>1, <2>2, SameGeometry DEF GeometryInv, Cornered
  <2>5. QED
    BY <2>3, <2>4 DEF GeometryInv
<1>6. QED
  BY <1>1, <1>2, <1>3, <1>4, <1>5

\* A visit of any pass.
LEMMA VisitGeometry ==
  ASSUME Inv, TypeInv, GeometryInv, NEW n \in Nodes, Visit(n)
  PROVE  GeometryInv'
BY VisitAdded, VisitCornered, VisitLaid DEF GeometryInv

\* Every step keeps the geometry.
LEMMA StepGeometry == Inv /\ TypeInv /\ GeometryInv /\ [Next]_vars => GeometryInv'
  BY VisitGeometry, LevelGeometry, PassGeometry, OtherGeometry DEF Next

\* The geometry holds throughout.
LEMMA SpecGeometry == Spec => [](Inv /\ TypeInv /\ GeometryInv)
<1>1. Init => Inv /\ TypeInv /\ GeometryInv
  BY InitTypes, InitInv DEF Init, GeometryInv, Added, Cornered, Laid
<1>2. (Inv /\ TypeInv /\ GeometryInv) /\ [Next]_vars => (Inv /\ TypeInv /\ GeometryInv)'
  BY StepTypes, StepInv, StepGeometry
<1>3. QED
  BY <1>1, <1>2, PTL DEF Spec

-----------------------------------------------------------------------------
(***************************************************************************)
(* Tiling.                                                                 *)
(***************************************************************************)

\* A division without remainder is undone by a multiplication.
LEMMA WholeDivision ==
  ASSUME NEW p \in Int, NEW m \in Nat \ {0}, p % m = 0
  PROVE  (p \div m) * m = p
  OBVIOUS

\* What two integers times the same positive number say of the integers.
LEMMA Cancel ==
  ASSUME NEW a \in Int, NEW b \in Int, NEW m \in Nat \ {0}, a * m = b * m
  PROVE  a = b
  OBVIOUS

\* Values that are in proportion have sums in proportion.
LEMMA SumInProportion ==
  ASSUME NEW f, NEW g, NEW S, IsFiniteSet(S), NEW v \in Int, NEW m \in Int,
         \A x \in S : f[x] \in Int /\ g[x] \in Int /\ f[x] * m = g[x] * v
  PROVE  SumFunctionOnSet(f, S) * m = SumFunctionOnSet(g, S) * v
<1> DEFINE P == {s \in SUBSET S : SumFunctionOnSet(f, s) * m = SumFunctionOnSet(g, s) * v}
<1>1. ASSUME NEW s \in SUBSET S, \A u \in SUBSET s : u # s => u \in P
      PROVE  s \in P
  <2>1. IsFiniteSet(s)
    BY FS_Subset
  <2>2. CASE s = {}
    <3>1. SumFunctionOnSet(f, s) = 0 /\ SumFunctionOnSet(g, s) = 0
      BY <2>1, <2>2, SumUnfolds
    <3>2. QED
      BY <3>1
  <2>3. CASE s # {}
    <3> DEFINE x == Any(s)
               r == s \ {x}
               a == SumFunctionOnSet(f, r)
               b == SumFunctionOnSet(g, r)
    <3>1. x \in s
      BY <2>3 DEF Any
    <3>2. IsFiniteSet(r) /\ r \in SUBSET S
      BY <2>1, FS_Subset
    <3>3. a * m = b * v /\ f[x] * m = g[x] * v /\ f[x] \in Int /\ g[x] \in Int
      BY <1>1, <3>1
    <3>4. a \in Int /\ b \in Int
      BY <3>2, SumType
    <3>5. SumFunctionOnSet(f, s) = f[x] + a /\ SumFunctionOnSet(g, s) = g[x] + b
      BY <2>1, <2>3, SumUnfolds
    <3> DEFINE c == f[x]
               d == g[x]
    <3>6. c * m = d * v /\ c \in Int /\ d \in Int /\ a * m = b * v
      BY <3>3
    <3> HIDE DEF a, b, c, d
    <3>7. (c + a) * m = c * m + a * m /\ (d + b) * v = d * v + b * v
      BY <3>4, <3>6
    <3>8. (c + a) * m = (d + b) * v
      BY <3>6, <3>7
    <3>9. QED
      BY <3>5, <3>8 DEF c, d
  <2>4. QED
    BY <2>2, <2>3
<1>2. S \in P
  <2> HIDE DEF P
  <2> QED
    BY <1>1, FiniteInduction
<1>3. QED
  BY <1>2

\* The first and the last of several siblings.
LEMMA EndsOf ==
  ASSUME NEW S, IsFiniteSet(S), S \subseteq Nat, S # {}
  PROVE  /\ Min(S) \in S /\ \A x \in S : Min(S) <= x
         /\ Max(S) \in S /\ \A x \in S : x <= Max(S)
<1>1. /\ \E m \in S : \A x \in S : m <= x
      /\ \E m \in S : \A x \in S : x <= m
  BY Extremes
<1>2. Min(S) \in S /\ \A x \in S : Min(S) <= x
  BY <1>1 DEF Min
<1>3. Max(S) \in S /\ \A x \in S : x <= Max(S)
  <2>1. PICK m \in S : \A x \in S : x <= m
    BY <1>1
  <2>2. \E x \in S : \A y \in S : x >= y
    BY <2>1
  <2>3. QED
    BY <2>2 DEF Max
<1>4. QED
  BY <1>2, <1>3

\* Nodes are numbered so that siblings follow each other.
LEMMA SiblingsFollow ==
  ASSUME tree \in Trees, NEW n \in Nodes, NEW c \in Children(n), c # Min(Children(n))
  PROVE  c - 1 \in Children(n) /\ \A d \in Children(n) : d <= c <=> d = c \/ d <= c - 1
<1>1. /\ Children(n) \subseteq Nodes \ {0} /\ IsFiniteSet(Children(n)) /\ Nodes \subseteq Nat
  BY TreeNodes
<1>2. Min(Children(n)) \in Children(n) /\ Min(Children(n)) <= c
  BY <1>1, EndsOf
<1>3. IsTree(tree) /\ tree.size \in Nat /\ tree.parent[c - 1] \in Nat
  <2>1. IsTree(tree) /\ tree.size \in Nat
    BY TreesAreFlat DEF IsTree
  <2>2. c - 1 \in 1 .. tree.size - 1
    BY <1>1, <1>2, <2>1 DEF Nodes
  <2>3. tree.parent[c - 1] \in 0 .. tree.size - 1
    BY <2>1, <2>2, TreeFacts
  <2>4. QED
    BY <2>1, <2>3
<1>4. c - 1 \in Nodes \ {0} /\ Min(Children(n)) <= c - 1
  BY <1>1, <1>2, <1>3 DEF Nodes
<1>5. /\ tree.parent[Min(Children(n))] <= tree.parent[c - 1]
      /\ tree.parent[c - 1] <= tree.parent[c]
  <2>1. \A m, k \in 1 .. tree.size - 1 : m <= k => tree.parent[m] <= tree.parent[k]
    BY <1>3 DEF IsTree
  <2>2. /\ c \in 1 .. tree.size - 1 /\ c - 1 \in 1 .. tree.size - 1
        /\ Min(Children(n)) \in 1 .. tree.size - 1
    BY <1>1, <1>2, <1>3, <1>4 DEF Nodes
  <2>3. QED
    BY <1>4, <2>1, <2>2
<1>6. tree.parent[Min(Children(n))] = n /\ tree.parent[c] = n /\ n \in Nat
  BY <1>1, <1>2, TreeNodes
<1>7. tree.parent[c - 1] = n
  BY <1>3, <1>5, <1>6
<1>8. c - 1 \in Children(n)
  BY <1>4, <1>7 DEF Children
<1>9. ASSUME NEW d \in Children(n) PROVE d <= c <=> d = c \/ d <= c - 1
  <2>1. c \in Nat /\ d \in Nat
    BY <1>1
  <2>2. QED
    BY <2>1
<1>10. QED
  BY <1>8, <1>9

\* The shares of the children of a container with votes.
LEMMA SharesType ==
  ASSUME tree \in Trees, FieldTypes, NEW n \in Nodes, tot[n].mag > 0, NEW v \in Int
  PROVE  \A c \in Children(n) :
           /\ Shares(n, v)[c] \in Int
           /\ (tot[c].mag * v) % tot[n].mag = 0 => Shares(n, v)[c] * tot[n].mag = tot[c].mag * v
<1> SUFFICES ASSUME NEW c \in Children(n)
             PROVE  /\ Shares(n, v)[c] \in Int
                    /\ (tot[c].mag * v) % tot[n].mag = 0 =>
                         Shares(n, v)[c] * tot[n].mag = tot[c].mag * v
  OBVIOUS
<1> DEFINE m == tot[n].mag
           t == tot[c].mag
           p == t * v
<1>1. m \in Nat \ {0} /\ t \in Nat
  BY TreeNodes DEF FieldTypes
<1>2. v # NaN
  BY Constants
<1>3. Shares(n, v)[c] = p \div m
  BY <1>1, <1>2 DEF Shares, Scale
<1> HIDE DEF m, t
<1>4. p \in Int
  BY <1>1
<1> HIDE DEF p
<1>5. p \div m \in Int
  BY <1>1, <1>4
<1>6. p % m = 0 => (p \div m) * m = p
  BY <1>1, <1>4, WholeDivision
<1>7. QED
  BY <1>3, <1>5, <1>6 DEF m, t, p

\* Boxes of children laid out with the fold of visit_*_2: each begins where the
\* one before ends, and where the shares are whole the last ends at the far edge.
LEMMA Tiling ==
  ASSUME tree \in Trees, FieldTypes, NEW n \in Nodes, Folded(n), Class(n) # Leaf,
         Children(n) # {}, tot[n].mag > 0, NEW v \in Int, NEW from \in Number,
         \A c \in Children(n) : (tot[c].mag * v) % tot[n].mag = 0
  PROVE  LET C == Children(n)
             hi(c) == Roll(from, c, Shares(n, v))
             lo(c) == Minus(hi(c), Shares(n, v)[c]) IN
         /\ \A c \in C : IF c = Min(C) THEN lo(c) = from
                         ELSE c - 1 \in C /\ lo(c) = hi(c - 1)
         /\ hi(Max(C)) = Plus(from, v)
<1> DEFINE C == Children(n)
           s == Shares(n, v)
           hi(c) == Roll(from, c, s)
           lo(c) == Minus(hi(c), s[c])
           upTo(k) == {d \in C : d <= k}
           m == tot[n].mag
<1>1. /\ C \subseteq Nodes /\ C \subseteq Nat /\ IsFiniteSet(C)
      /\ \A c \in C : tree.parent[c] = n
      /\ Min(C) \in C /\ \A c \in C : Min(C) <= c
      /\ Max(C) \in C /\ \A c \in C : c <= Max(C)
  <2>1. /\ C \subseteq Nodes /\ C \subseteq Nat /\ IsFiniteSet(C)
        /\ \A c \in C : tree.parent[c] = n
    BY TreeNodes
  <2>2. QED
    BY <2>1, EndsOf
<1>2. \A c \in C : c # Min(C) => c - 1 \in C /\ \A d \in C : d <= c <=> d = c \/ d <= c - 1
  BY SiblingsFollow
<1>3. \A c \in C : s[c] \in Int /\ s[c] * m = tot[c].mag * v
  BY SharesType
<1>4. NaN \notin Int
  BY Constants
<1>5. CASE from = NaN
  <2>1. \A c \in C : hi(c) = NaN
    BY <1>5 DEF Roll
  <2>2. \A c \in C : lo(c) = NaN
    BY <2>1 DEF Minus
  <2>3. Plus(from, v) = NaN
    BY <1>5 DEF Plus
  <2> HIDE DEF C, hi, lo
  <2>4. QED
    BY <1>1, <1>2, <1>5, <2>1, <2>2, <2>3 DEF C, hi, lo
<1>6. CASE from \in Int
  <2>1. \A k : IsFiniteSet(upTo(k)) /\ upTo(k) \subseteq C
    BY <1>1, FS_Subset
  <2>2. \A k : SumFunctionOnSet(s, upTo(k)) \in Int
    <3> SUFFICES ASSUME NEW k PROVE SumFunctionOnSet(s, upTo(k)) \in Int
      OBVIOUS
    <3>1. IsFiniteSet(upTo(k)) /\ \A c \in upTo(k) : s[c] \in Int
      BY <1>3, <2>1
    <3> HIDE DEF s, upTo
    <3>2. QED
      BY <3>1, SumType
  <2>3. \A c \in C : hi(c) = from + SumFunctionOnSet(s, upTo(c))
    <3> SUFFICES ASSUME NEW c \in C PROVE hi(c) = from + SumFunctionOnSet(s, upTo(c))
      OBVIOUS
    <3>1. from # NaN /\ s[c] # NaN
      BY <1>3, <1>4, <1>6
    <3>2. tree.parent[c] = n
      BY <1>1
    <3> HIDE DEF s
    <3>3. QED
      BY <3>1, <3>2, Zenon DEF Roll
  <2>4. ASSUME NEW c \in C
        PROVE  SumFunctionOnSet(s, upTo(c))
                 = s[c] + SumFunctionOnSet(s, upTo(c) \ {c})
    <3>1. c \in upTo(c)
      <4>1. c \in Nat
        BY <1>1
      <4>2. QED
        BY <4>1
    <3>2. IsFiniteSet(upTo(c)) /\ \A d \in upTo(c) : s[d] \in Int
      BY <1>3, <2>1
    <3> HIDE DEF s, upTo
    <3>3. QED
      BY <3>1, <3>2, SumRemove
  <2>5. ASSUME NEW c \in C
        PROVE  IF c = Min(C) THEN lo(c) = from ELSE c - 1 \in C /\ lo(c) = hi(c - 1)
    <3> DEFINE a == SumFunctionOnSet(s, upTo(c) \ {c})
               b == s[c]
               u == SumFunctionOnSet(s, upTo(c))
    <3>1. IsFiniteSet(upTo(c) \ {c}) /\ upTo(c) \ {c} \subseteq C
      BY <2>1, FS_Subset
    <3>2. a \in Int
      <4> DEFINE r == upTo(c) \ {c}
      <4>1. IsFiniteSet(r) /\ \A d \in r : s[d] \in Int
        BY <1>3, <3>1
      <4> HIDE DEF r, s, upTo
      <4>2. SumFunctionOnSet(s, r) \in Int
        BY <4>1, SumType
      <4>3. QED
        BY <4>2 DEF r
    <3>3. b \in Int /\ u = b + a /\ hi(c) = from + u /\ u \in Int
      BY <1>3, <2>2, <2>3, <2>4
    <3>4. lo(c) = hi(c) - b
      <4>1. hi(c) \in Int
        BY <1>6, <3>3
      <4>2. NaN \notin {hi(c), s[c]}
        BY <1>4, <3>3, <4>1
      <4> HIDE DEF s, hi
      <4>3. QED
        BY <4>2 DEF Minus
    <3> HIDE DEF a, b, u, hi, lo
    <3>5. lo(c) = from + a
      BY <1>6, <3>2, <3>3, <3>4
    <3>6. CASE c = Min(C)
      <4>1. upTo(c) \ {c} = {}
        BY <1>1, <3>6
      <4>2. a = 0
        BY <3>1, <4>1, SumUnfolds DEF a
      <4>3. QED
        BY <1>6, <3>5, <3>6, <4>2
    <3>7. CASE c # Min(C)
      <4>1. c - 1 \in C /\ upTo(c) \ {c} = upTo(c - 1)
        BY <1>1, <1>2, <3>7
      <4>2. hi(c - 1) = from + a
        BY <2>3, <4>1 DEF a
      <4>3. QED
        BY <3>5, <3>7, <4>1, <4>2
    <3>8. QED
      BY <3>6, <3>7
  <2>6. hi(Max(C)) = Plus(from, v)
    <3>1. upTo(Max(C)) = C
      BY <1>1
    <3> DEFINE w == SumFunctionOnSet(s, C)
               t == SumFunctionOnSet(Totals, C)
    <3>2. t = m
      BY DEF Folded, Totals
    <3>3. m \in Nat \ {0} /\ \A c \in C : tot[c].mag \in Nat
      BY <1>1 DEF FieldTypes
    <3>4. w * m = t * v
      <4>1. \A c \in C : s[c] \in Int /\ Totals[c] \in Int /\ s[c] * m = Totals[c] * v
        BY <1>1, <1>3, <3>3 DEF Totals
      <4>2. m \in Int /\ IsFiniteSet(C)
        BY <1>1, <3>3
      <4> DEFINE f == Totals
      <4>3. \A c \in C : s[c] \in Int /\ f[c] \in Int /\ s[c] * m = f[c] * v
        BY <4>1
      <4> HIDE DEF s, C, m, f
      <4>4. SumFunctionOnSet(s, C) * m = SumFunctionOnSet(f, C) * v
        BY <4>2, <4>3, SumInProportion
      <4>5. QED
        BY <4>4 DEF f
    <3>5. w \in Int
      BY <2>2, <3>1
    <3> HIDE DEF w, t, m
    <3>6. w * m = v * m
      BY <3>2, <3>3, <3>4
    <3>7. w = v
      BY <3>3, <3>5, <3>6, Cancel
    <3>8. hi(Max(C)) = from + v
      BY <1>1, <2>3, <3>1, <3>7 DEF w
    <3>9. Plus(from, v) = from + v
      BY <1>4, <1>6 DEF Plus
    <3>10. QED
      BY <3>8, <3>9
  <2> HIDE DEF C, hi, lo
  <2>7. QED
    BY <2>5, <2>6 DEF C, hi, lo
<1>7. QED
  BY <1>5, <1>6 DEF Number

\* Adding back what was taken away.
LEMMA PlusMinus ==
  ASSUME NEW a \in Number, NEW b \in Int
  PROVE  Plus(Minus(a, b), b) = a
<1>1. NaN \notin Int
  BY Constants
<1>2. CASE a = NaN
  BY <1>2 DEF Plus, Minus
<1>3. CASE a # NaN
  <2>1. a \in Int
    BY <1>3 DEF Number
  <2>2. Minus(a, b) = a - b /\ a - b \in Int
    BY <1>1, <2>1 DEF Minus
  <2>3. Plus(a - b, b) = (a - b) + b
    BY <1>1, <2>2 DEF Plus
  <2>4. QED
    BY <2>1, <2>2, <2>3
<1>4. QED
  BY <1>2, <1>3

\* A container stands in a row or in a column.
LEMMA RowOrColumn ==
  ASSUME tree \in Trees, NEW n \in Nodes \ {0}, Children(n) # {}
  PROVE  Class(n) # Leaf /\ (Class(n) \in Horizontal \/ Class(n) \in Vertical)
<1>1. Class(n) # Leaf
  BY TreeNodes
<1>2. Class(n) # "root"
  BY TreeFacts DEF Nodes, Class
<1>3. Class(n) \in {"root", Leaf} \cup Horizontal \cup Vertical
  <2>1. tree.class \in [0 .. tree.size - 1 -> {"root", Leaf} \cup Horizontal \cup Vertical]
    BY TreesAreFlat DEF IsTree
  <2>2. n \in 0 .. tree.size - 1
    BY DEF Nodes
  <2> HIDE DEF Horizontal, Vertical, Leaf
  <2>3. QED
    BY <2>1, <2>2 DEF Class
<1>4. QED
  BY <1>1, <1>2, <1>3

\* The state of a completed render.
LEMMA CompleteGeometry ==
  ASSUME Inv, TypeInv, GeometryInv, Complete
  PROVE  /\ tree \in Trees /\ FieldTypes
         /\ \A n \in Nodes : Folded(n)
         /\ \A n \in Nodes \ {0} : Arranged(n)
         /\ geo[FirstChild].by = Height /\ geo[FirstChild].rx = Width
         /\ geo[FirstChild].h = Scale(tot[FirstChild].mag, FullVotes, Height)
         /\ geo[FirstChild].w = IF input.fixWidth THEN Width
                                ELSE Scale(tot[FirstChild].mag, FullVotes, Width)
         /\ \A n \in Nodes : geo[n] \in Box /\ tot[n].mag \in Nat
<1>1. phase = "frame" /\ ok /\ pass = 4
  BY DEF Complete, Inv, Control
<1>2. tree \in Trees /\ FieldTypes
  BY StateFacts
<1>3. \A n \in Nodes : geo[n] \in Box /\ tot[n].mag \in Nat
  BY <1>2 DEF FieldTypes
<1>4. QED
  BY <1>1, <1>2, <1>3 DEF GeometryInv, Added, Cornered, Laid

\* In every completed render in which the shares of siblings can be divided
\* without a remainder, the children of a container with votes fill it without a
\* gap and without an overlap, whatever the tree, the classes on the way down and
\* the order of the visits (the rx and by folds of visit_*_2 over the totals of
\* visit_*_1)
THEOREM ContainersAreTiled == Spec => [](SharesAreWhole => ChildrenTileTheirParent)
<1>1. Inv /\ TypeInv /\ GeometryInv => (SharesAreWhole => ChildrenTileTheirParent)
  <2> SUFFICES ASSUME Inv, TypeInv, GeometryInv, SharesAreWhole, Complete,
                      NEW n \in Nodes \ {0}, Children(n) # {}, tot[n].mag > 0,
                      geo[n].w # NaN, geo[n].h # NaN
               PROVE  LET p == Edges(n)
                          C == Children(n) IN
                      IF Class(n) \in Horizontal
                      THEN /\ Abut(C, p.lo, p.hi, LAMBDA c : Edges(c).lo,
                                                  LAMBDA c : Edges(c).hi)
                           /\ \A c \in C : Edges(c).bottom = p.bottom /\ Edges(c).top = p.top
                      ELSE /\ Abut(C, p.bottom, p.top, LAMBDA c : Edges(c).bottom,
                                                       LAMBDA c : Edges(c).top)
                           /\ \A c \in C : Edges(c).lo = p.lo /\ Edges(c).hi = p.hi
    BY DEF ChildrenTileTheirParent
  <2> DEFINE C == Children(n)
  <2>1. /\ tree \in Trees /\ FieldTypes /\ Folded(n) /\ Arranged(n)
        /\ \A m \in Nodes \ {0} : Arranged(m)
        /\ \A m \in Nodes : geo[m] \in Box
    BY CompleteGeometry
  <2>2. C \subseteq Nodes \ {0} /\ C \subseteq Nat /\ IsFiniteSet(C)
    BY <2>1, TreeNodes
  <2>3. Class(n) # Leaf /\ (Class(n) \in Horizontal \/ Class(n) \in Vertical)
    BY <2>1, RowOrColumn
  <2>4. Min(C) \in C /\ Max(C) \in C
    BY <2>2, EndsOf
  <2>5. /\ geo[n].x \in Number /\ geo[n].y \in Number /\ geo[n].w \in Int /\ geo[n].h \in Int
        /\ geo[n].rx \in Number /\ geo[n].by \in Number
    BY <2>1 DEF Box, Number
  <2>6. \A c \in C : /\ geo[c].x = Minus(geo[c].rx, geo[c].w)
                     /\ geo[c].y = Minus(geo[c].by, geo[c].h)
    BY <2>1, <2>2 DEF Arranged
  <2>7. Plus(geo[n].x, geo[n].w) = geo[n].rx /\ Plus(geo[n].y, geo[n].h) = geo[n].by
    BY <2>1, <2>5, PlusMinus DEF Arranged
  <2>8. geo[n].x = Minus(geo[n].rx, geo[n].w) /\ geo[n].y = Minus(geo[n].by, geo[n].h)
    BY <2>1 DEF Arranged
  <2>9. CASE Class(n) \in Horizontal
    <3>1. \A c \in C : InRow(n, c)
      BY <2>1, <2>9 DEF Arranged
    <3>2. \A c \in C : (tot[c].mag * geo[n].w) % tot[n].mag = 0
      BY <2>9 DEF SharesAreWhole
    <3>3. /\ \A c \in C :
               LET hi(d) == Roll(geo[n].x, d, Shares(n, geo[n].w)) IN
               IF c = Min(C) THEN Minus(hi(c), Shares(n, geo[n].w)[c]) = geo[n].x
               ELSE c - 1 \in C /\ Minus(hi(c), Shares(n, geo[n].w)[c]) = hi(c - 1)
          /\ Roll(geo[n].x, Max(C), Shares(n, geo[n].w)) = Plus(geo[n].x, geo[n].w)
      BY <2>1, <2>3, <2>5, <3>2, Tiling
    <3>4. \A c \in C : /\ geo[c].rx = Roll(geo[n].x, c, Shares(n, geo[n].w))
                       /\ geo[c].w = Shares(n, geo[n].w)[c]
                       /\ geo[c].h = geo[n].h /\ geo[c].by = Plus(geo[n].y, geo[n].h)
      BY <3>1 DEF InRow
    <3>5. \A c \in C : IF c = Min(C) THEN geo[c].x = geo[n].x ELSE geo[c].x = geo[c - 1].rx
      BY <2>6, <3>3, <3>4
    <3>6. geo[Max(C)].rx = geo[n].rx
      BY <2>4, <2>7, <3>3, <3>4
    <3>7. \A c \in C : geo[c].y = geo[n].y /\ geo[c].by = geo[n].by
      BY <2>6, <2>7, <2>8, <3>4
    <3>8. QED
      BY <2>9, <3>5, <3>6, <3>7 DEF Edges, Abut
  <2>10. CASE Class(n) \notin Horizontal
    <3>1. \A c \in C : InColumn(n, c)
      BY <2>1, <2>3, <2>10 DEF Arranged
    <3>2. \A c \in C : (tot[c].mag * geo[n].h) % tot[n].mag = 0
      BY <2>10 DEF SharesAreWhole
    <3>3. /\ \A c \in C :
               LET hi(d) == Roll(geo[n].y, d, Shares(n, geo[n].h)) IN
               IF c = Min(C) THEN Minus(hi(c), Shares(n, geo[n].h)[c]) = geo[n].y
               ELSE c - 1 \in C /\ Minus(hi(c), Shares(n, geo[n].h)[c]) = hi(c - 1)
          /\ Roll(geo[n].y, Max(C), Shares(n, geo[n].h)) = Plus(geo[n].y, geo[n].h)
      BY <2>1, <2>3, <2>5, <3>2, Tiling
    <3>4. \A c \in C : /\ geo[c].by = Roll(geo[n].y, c, Shares(n, geo[n].h))
                       /\ geo[c].h = Shares(n, geo[n].h)[c]
                       /\ geo[c].w = geo[n].w /\ geo[c].rx = Plus(geo[n].x, geo[n].w)
      BY <3>1 DEF InColumn
    <3>5. \A c \in C : IF c = Min(C) THEN geo[c].y = geo[n].y ELSE geo[c].y = geo[c - 1].by
      BY <2>6, <3>3, <3>4
    <3>6. geo[Max(C)].by = geo[n].by
      BY <2>4, <2>7, <3>3, <3>4
    <3>7. \A c \in C : geo[c].x = geo[n].x /\ geo[c].rx = geo[n].rx
      BY <2>6, <2>7, <2>8, <3>4
    <3>8. QED
      BY <2>10, <3>5, <3>6, <3>7 DEF Edges, Abut
  <2>11. QED
    BY <2>9, <2>10
<1>2. QED
  BY <1>1, SpecGeometry, PTL

-----------------------------------------------------------------------------
(***************************************************************************)
(* Areas.                                                                  *)
(***************************************************************************)

\* A child that takes t of the m votes of its parent, along one side, takes that
\* share of the area: k is the area of the whole for each of its votes.
LEMMA AreaStep ==
  ASSUME NEW a \in Int, NEW b \in Int, NEW w \in Int, NEW t \in Int, NEW m \in Nat \ {0},
         NEW T \in Int, NEW k \in Int, a * m = t * w, (w * b) * T = k * m
  PROVE  (a * b) * T = k * t
<1> DEFINE p == (a * b) * T
           q == k * t
<1>1. p * m = (a * m) * (b * T)
  OBVIOUS
<1>2. (a * m) * (b * T) = t * ((w * b) * T)
  <2>1. (a * m) * (b * T) = (t * w) * (b * T)
    OBVIOUS
  <2>2. (t * w) * (b * T) = t * ((w * b) * T)
    OBVIOUS
  <2>3. QED
    BY <2>1, <2>2
<1>3. t * ((w * b) * T) = t * (k * m)
  OBVIOUS
<1>4. t * (k * m) = q * m
  OBVIOUS
<1>5. p \in Int /\ q \in Int
  OBVIOUS
<1> HIDE DEF p, q
<1>6. p * m = q * m
  BY <1>1, <1>2, <1>3, <1>4
<1>7. p = q
  BY <1>5, <1>6, Cancel
<1>8. QED
  BY <1>7 DEF p, q

\* A container has at least the votes of each child.
LEMMA ChildVotes ==
  ASSUME tree \in Trees, FieldTypes, NEW n \in Nodes, Folded(n), NEW c \in Children(n)
  PROVE  tot[c].mag <= tot[n].mag
<1>1. /\ IsFiniteSet(Children(n)) /\ Children(n) \subseteq Nodes /\ Class(n) # Leaf
  BY TreeNodes
<1>2. \A d \in Children(n) : Totals[d] \in Nat
  BY <1>1 DEF FieldTypes, Totals
<1> DEFINE a == SumFunctionOnSet(Totals, Children(n))
           b == SumFunctionOnSet(Totals, Children(n) \ {c})
<1>3. a = Totals[c] + b
  BY <1>1, <1>2, SumRemove
<1>4. b \in Nat
  <2> DEFINE r == Children(n) \ {c}
  <2>1. IsFiniteSet(r) /\ \A d \in r : Totals[d] \in Nat
    BY <1>1, <1>2, FS_Subset
  <2> HIDE DEF r
  <2>2. SumFunctionOnSet(Totals, r) \in Nat
    BY <2>1, SumType
  <2>3. QED
    BY <2>2 DEF r
<1>5. Totals[n] = a
  BY <1>1 DEF Folded
<1> HIDE DEF a, b
<1>6. Totals[c] <= Totals[n]
  BY <1>2, <1>3, <1>4, <1>5
<1>7. QED
  BY <1>1, <1>6 DEF Totals

\* A node that has its share of the area, and a definite place.
Proper(n) ==
  /\ tot[FirstChild].mag > 0 /\ geo[FirstChild].w \in Int /\ geo[FirstChild].h \in Int
  /\ geo[n].x \in Int /\ geo[n].y \in Int /\ geo[n].w \in Int /\ geo[n].h \in Int
  /\ geo[n].by \in Int /\ geo[n].rx \in Int
  /\ (geo[n].w * geo[n].h) * tot[FirstChild].mag
       = (geo[FirstChild].w * geo[FirstChild].h) * tot[n].mag

\* The root's child, when there are votes.
LEMMA ProperTop ==
  ASSUME Inv, TypeInv, GeometryInv, Complete, tot[FirstChild].mag > 0
  PROVE  Proper(FirstChild)
<1> DEFINE F == FirstChild
<1>1. /\ tree \in Trees /\ F \in Nodes \ {0}
      /\ geo[F].by = Height /\ geo[F].rx = Width
      /\ geo[F].h = Scale(tot[F].mag, FullVotes, Height)
      /\ geo[F].w = IF input.fixWidth THEN Width ELSE Scale(tot[F].mag, FullVotes, Width)
      /\ tot[F].mag \in Nat
      /\ Arranged(F)
  BY CompleteGeometry, TreeNodes
<1>2. Height \in Int /\ Width \in Int /\ FullVotes \in Nat \ {0} /\ NaN \notin Int
  BY ConstantsAssumption
<1>3. \A v \in Int : Scale(tot[F].mag, FullVotes, v) \in Int
  <2> SUFFICES ASSUME NEW v \in Int PROVE Scale(tot[F].mag, FullVotes, v) \in Int
    OBVIOUS
  <2> DEFINE t == tot[F].mag
             p == t * v
  <2>1. Scale(t, FullVotes, v) = p \div FullVotes
    BY <1>2 DEF Scale
  <2>2. p \in Int
    BY <1>1
  <2> HIDE DEF p
  <2>3. p \div FullVotes \in Int
    BY <1>2, <2>2
  <2>4. QED
    BY <2>1, <2>3
<1>4. geo[F].h \in Int /\ geo[F].w \in Int /\ geo[F].by \in Int /\ geo[F].rx \in Int
  BY <1>1, <1>2, <1>3
<1>5. geo[F].x \in Int /\ geo[F].y \in Int
  <2>1. geo[F].x = Minus(geo[F].rx, geo[F].w) /\ geo[F].y = Minus(geo[F].by, geo[F].h)
    BY <1>1 DEF Arranged
  <2>2. \A a, b \in Int : Minus(a, b) \in Int
    BY <1>2 DEF Minus
  <2>3. QED
    BY <1>4, <2>1, <2>2
<1>6. QED
  BY <1>4, <1>5 DEF Proper

\* A child with votes of a node with votes.
LEMMA ProperChild ==
  ASSUME Inv, TypeInv, GeometryInv, Complete, SharesAreWhole,
         NEW n \in Nodes \ {0}, tot[n].mag > 0, Proper(n),
         NEW c \in Children(n)
  PROVE  Proper(c)
<1> DEFINE F == FirstChild
           k == geo[F].w * geo[F].h
           m == tot[n].mag
           t == tot[c].mag
           T == tot[F].mag
<1>1. /\ tree \in Trees /\ FieldTypes /\ c \in Nodes \ {0} /\ F \in Nodes \ {0}
      /\ Arranged(n) /\ Arranged(c) /\ IsFiniteSet(Children(n))
  BY CompleteGeometry, TreeNodes
<1>2. m \in Nat \ {0} /\ t \in Nat /\ T \in Nat
  BY <1>1 DEF FieldTypes
<1>3. Class(n) \in Horizontal \/ Class(n) \in Vertical
  BY <1>1, RowOrColumn
<1>4. /\ NaN \notin Int
      /\ \A a, b \in Int : Minus(a, b) \in Int /\ Plus(a, b) \in Int
  BY Constants DEF Minus, Plus
<1>5. ASSUME NEW v \in Int, NEW from \in Int
      PROVE  Roll(from, c, Shares(n, v)) \in Int
  <2> DEFINE s == Shares(n, v)
             before == {d \in Children(n) : d <= c}
  <2>1. \A d \in Children(n) : s[d] \in Int
    BY <1>1, SharesType
  <2>2. IsFiniteSet(before) /\ tree.parent[c] = n
    BY <1>1, TreeNodes, FS_Subset
  <2>3. Roll(from, c, s) = from + SumFunctionOnSet(s, before)
    <3>1. from # NaN /\ s[c] # NaN
      BY <1>4, <2>1
    <3> HIDE DEF s
    <3>2. QED
      BY <2>2, <3>1, Zenon DEF Roll
  <2>4. SumFunctionOnSet(s, before) \in Int
    <3> HIDE DEF s, before
    <3>1. QED
      BY <2>1, <2>2, SumType DEF before
  <2>5. QED
    BY <2>3, <2>4
<1>6. /\ geo[n].x \in Int /\ geo[n].y \in Int /\ geo[n].w \in Int /\ geo[n].h \in Int
      /\ (geo[n].w * geo[n].h) * T = k * m
      /\ k \in Int
  <2>1. k \in Int
    BY DEF Proper
  <2>2. QED
    BY <2>1 DEF Proper
<1>7. ASSUME NEW a \in Int, NEW b \in Int, NEW w \in Int, a * m = t * w, (w * b) * T = k * m
      PROVE  (a * b) * T = k * t
  <2>1. t \in Int /\ T \in Int /\ k \in Int /\ m \in Nat \ {0}
    BY <1>2, <1>6
  <2> HIDE DEF t, T, k, m
  <2>2. QED
    BY <1>7, <2>1, AreaStep
<1>8. CASE Class(n) \in Horizontal
  <2>1. /\ geo[c].h = geo[n].h /\ geo[c].w = Shares(n, geo[n].w)[c]
        /\ geo[c].by = Plus(geo[n].y, geo[n].h)
        /\ geo[c].rx = Roll(geo[n].x, c, Shares(n, geo[n].w))
    BY <1>1, <1>8 DEF Arranged, InRow
  <2>2. (t * geo[n].w) % m = 0
    BY <1>4, <1>6, <1>8 DEF SharesAreWhole
  <2>3. geo[c].w \in Int /\ geo[c].w * m = t * geo[n].w
    BY <1>1, <1>6, <2>1, <2>2, SharesType
  <2>4. geo[c].h \in Int /\ geo[c].by \in Int /\ geo[c].rx \in Int
    <3>1. geo[n].y \in Int /\ geo[n].h \in Int
      BY <1>6
    <3>2. Plus(geo[n].y, geo[n].h) \in Int
      BY <1>4, <3>1
    <3>3. Roll(geo[n].x, c, Shares(n, geo[n].w)) \in Int
      BY <1>5, <1>6
    <3>4. QED
      BY <2>1, <3>1, <3>2, <3>3, Zenon
  <2>5. geo[c].x \in Int /\ geo[c].y \in Int
    BY <1>1, <1>4, <2>3, <2>4 DEF Arranged
  <2>6. (geo[c].w * geo[c].h) * T = k * t
    <3>1. geo[n].h \in Int /\ geo[n].w \in Int /\ geo[c].h = geo[n].h
      BY <1>6, <2>1
    <3> HIDE DEF t, T, k, m
    <3>2. (geo[n].w * geo[n].h) * T = k * m
      BY <1>6
    <3>3. QED
      BY <1>7, <2>3, <3>1, <3>2, Zenon
  <2>7. QED
    BY <2>3, <2>4, <2>5, <2>6 DEF Proper
<1>9. CASE Class(n) \in Vertical
  <2>0. Class(n) \notin Horizontal
    BY <1>9 DEF Horizontal, Vertical, Outlined
  <2>1. /\ geo[c].w = geo[n].w /\ geo[c].h = Shares(n, geo[n].h)[c]
        /\ geo[c].rx = Plus(geo[n].x, geo[n].w)
        /\ geo[c].by = Roll(geo[n].y, c, Shares(n, geo[n].h))
    BY <1>1, <1>9 DEF Arranged, InColumn
  <2>2. (t * geo[n].h) % m = 0
    BY <1>4, <1>6, <2>0 DEF SharesAreWhole
  <2>3. geo[c].h \in Int /\ geo[c].h * m = t * geo[n].h
    BY <1>1, <1>6, <2>1, <2>2, SharesType
  <2>4. geo[c].w \in Int /\ geo[c].by \in Int /\ geo[c].rx \in Int
    <3>1. geo[n].x \in Int /\ geo[n].w \in Int
      BY <1>6
    <3>2. Plus(geo[n].x, geo[n].w) \in Int
      BY <1>4, <3>1
    <3>3. Roll(geo[n].y, c, Shares(n, geo[n].h)) \in Int
      BY <1>5, <1>6
    <3>4. QED
      BY <2>1, <3>1, <3>2, <3>3, Zenon
  <2>5. geo[c].x \in Int /\ geo[c].y \in Int
    BY <1>1, <1>4, <2>3, <2>4 DEF Arranged
  <2>6. (geo[n].h * geo[n].w) * T = k * m
    BY <1>6
  <2>7. (geo[c].h * geo[n].w) * T = k * t
    BY <1>6, <1>7, <2>3, <2>6
  <2>8. (geo[c].w * geo[c].h) * T = k * t
    BY <1>6, <2>1, <2>3, <2>7
  <2>9. QED
    BY <2>3, <2>4, <2>5, <2>8 DEF Proper
<1>10. QED
  BY <1>3, <1>8, <1>9

\* So every node with votes, from the root's child down.
LEMMA AllProper ==
  ASSUME Inv, TypeInv, GeometryInv, Complete, SharesAreWhole
  PROVE  \A n \in Nodes \ {0} : tot[n].mag > 0 => Proper(n)
<1> DEFINE Bad == {n \in Nodes \ {0} : tot[n].mag > 0 /\ ~Proper(n)}
           Levels == {l \in 0 .. tree.depth : \E n \in Bad : tree.level[n] = l}
<1> SUFFICES ASSUME Bad # {} PROVE FALSE
  OBVIOUS
<1>1. /\ tree \in Trees /\ FieldTypes
      /\ \A n \in Nodes : Folded(n) /\ tot[n].mag \in Nat
  BY CompleteGeometry
<1>2. /\ tree.depth \in Nat /\ \A n \in Nodes : tree.level[n] \in 0 .. tree.depth
      /\ \A n \in Nodes \ {0} : /\ tree.parent[n] \in Nodes
                                /\ tree.level[n] = tree.level[tree.parent[n]] + 1
  BY StateFacts
<1>3. IsFiniteSet(Levels) /\ Levels \subseteq Nat /\ Levels # {}
  <2>1. IsFiniteSet(0 .. tree.depth)
    BY <1>2, FS_Interval
  <2>2. Levels \subseteq 0 .. tree.depth
    OBVIOUS
  <2>3. IsFiniteSet(Levels) /\ Levels \subseteq Nat
    <3> HIDE DEF Levels
    <3>1. IsFiniteSet(Levels)
      BY <2>1, <2>2, FS_Subset
    <3>2. 0 .. tree.depth \subseteq Nat
      BY <1>2
    <3>3. QED
      BY <2>2, <3>1, <3>2
  <2>4. Levels # {}
    <3>1. PICK n \in Bad : TRUE
      OBVIOUS
    <3>2. tree.level[n] \in Levels
      BY <1>2, <3>1
    <3>3. QED
      BY <3>2
  <2>5. QED
    BY <2>3, <2>4
<1>4. PICK l \in Levels : \A k \in Levels : l <= k
  <2> HIDE DEF Levels
  <2>1. QED
    BY <1>3, Extremes
<1>5. PICK n \in Bad : tree.level[n] = l
  BY <1>4
<1>6. \A m \in Bad : l <= tree.level[m]
  BY <1>2, <1>4
<1>7. CASE tree.parent[n] = 0
  <2>1. n = FirstChild
    BY <1>1, <1>5, <1>7, TreeNodes DEF Children
  <2>2. Proper(n)
    BY <1>5, <2>1, ProperTop
  <2>3. QED
    BY <1>5, <2>2
<1>8. CASE tree.parent[n] # 0
  <2> DEFINE p == tree.parent[n]
  <2>1. p \in Nodes \ {0} /\ n \in Children(p) /\ tree.level[p] < l
    BY <1>2, <1>5, <1>8 DEF Children
  <2>2. tot[n].mag <= tot[p].mag
    BY <1>1, <2>1, ChildVotes
  <2>3. tot[p].mag > 0
    <3>1. tot[n].mag \in Nat /\ tot[p].mag \in Nat /\ tot[n].mag > 0
      BY <1>1, <1>5, <2>1
    <3> HIDE DEF p
    <3>2. QED
      BY <2>2, <3>1
  <2>4. p \notin Bad
    BY <1>2, <1>6, <2>1
  <2>5. Proper(p)
    BY <2>1, <2>3, <2>4
  <2>6. Proper(n)
    <3> HIDE DEF p
    <3>1. QED
      BY <2>1, <2>3, <2>5, ProperChild
  <2>7. QED
    BY <1>5, <2>6
<1>9. QED
  BY <1>7, <1>8

\* In every completed render in which the shares of siblings can be divided
\* without a remainder, the area of a polling place is its share of the votes at
\* whatever depth and under whatever mixture of rows and columns it lies, and one
\* with votes has a definite place and size (Scale never divides by an empty
\* total on the way down to it)
THEOREM AreasAreVotes == Spec => [](SharesAreWhole => AreaIsVotes)
<1>1. Inv /\ TypeInv /\ GeometryInv => (SharesAreWhole => AreaIsVotes)
  <2> SUFFICES ASSUME Inv, TypeInv, GeometryInv, SharesAreWhole, Complete,
                      NEW n \in Leaves, tot[n].mag > 0
               PROVE  LET g == geo[n]
                          all == geo[FirstChild] IN
                      /\ NaN \notin {g.w, g.h, g.x, g.y}
                      /\ g.w * g.h * tot[0].mag = all.w * all.h * tot[n].mag
    BY DEF AreaIsVotes
  <2>1. /\ tree \in Trees /\ FieldTypes /\ Folded(0) /\ Children(0) = {FirstChild}
        /\ 0 \in Nodes /\ FirstChild \in Nodes /\ n \in Nodes \ {0}
    <3>1. tree \in Trees /\ FieldTypes /\ \A m \in Nodes : Folded(m)
      BY CompleteGeometry
    <3>2. n \in Nodes /\ Class(n) = Leaf
      BY DEF Leaves
    <3>3. QED
      BY <3>1, <3>2, TreeNodes
  <2>2. Proper(n)
    BY <2>1, AllProper
  <2>3. tot[0].mag = tot[FirstChild].mag
    <3>1. Class(0) # Leaf
      BY <2>1, TreeNodes
    <3>2. Totals[FirstChild] \in Int
      BY <2>1 DEF FieldTypes, Totals
    <3>3. Totals[0] = Totals[FirstChild]
      BY <2>1, <3>1, <3>2, SumSingle DEF Folded
    <3>4. QED
      BY <2>1, <3>3 DEF Totals
  <2>4. NaN \notin Int
    BY Constants
  <2>5. QED
    BY <2>2, <2>3, <2>4 DEF Proper
<1>2. QED
  BY <1>1, SpecGeometry, PTL

=============================================================================
