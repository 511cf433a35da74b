-------------------------- MODULE SelectorsProofs ---------------------------
(***************************************************************************)
(* Proofs about the writes of flattenNode and flattenEdges, and about the  *)
(* system that loads trees and runs style sheets on them.                  *)
(***************************************************************************)
EXTENDS Selectors, FlatTreeProofs

-----------------------------------------------------------------------------
(* Sequences of writes.                                                    *)

\* What occurs in two sequences end to end, in a sequence of one, and in one of n.
LEMMA OccursEnds ==
  \A R : \A p, q \in Seq(R) :
    p \o q \in Seq(R) /\ \A w : Occurs(w, p \o q) <=> Occurs(w, p) \/ Occurs(w, q)
<1> SUFFICES ASSUME NEW R, NEW p \in Seq(R), NEW q \in Seq(R)
             PROVE  p \o q \in Seq(R) /\ \A w : Occurs(w, p \o q) <=> Occurs(w, p) \/ Occurs(w, q)
  OBVIOUS
<1> DEFINE c == p \o q
           a == Len(p)
           b == Len(q)
<1>1. c \in Seq(R) /\ TwoEnds(c, p, q) /\ a \in Nat /\ b \in Nat
  BY EndsOf
<1> HIDE DEF c
<1>2. /\ Len(c) = a + b
      /\ \A i \in 1 .. a : c[i] = p[i]
      /\ \A i \in 1 .. b : c[a + i] = q[i]
  BY <1>1 DEF TwoEnds
<1> HIDE DEF a, b
<1>3. ASSUME NEW w, Occurs(w, c) PROVE Occurs(w, p) \/ Occurs(w, q)
  <2>1. PICK i \in 1 .. a + b : c[i] = w
    BY <1>2, <1>3 DEF Occurs
  <2>2. CASE i <= a
    <3>1. i \in 1 .. a
      BY <1>1, <2>2
    <3>2. p[i] = w
      BY <1>2, <2>1, <3>1
    <3>3. QED
      BY <3>1, <3>2 DEF Occurs, a
  <2>3. CASE ~(i <= a)
    <3>1. i - a \in 1 .. b /\ a + (i - a) = i
      BY <1>1, <2>3
    <3>2. q[i - a] = w
      BY <1>2, <2>1, <3>1
    <3>3. QED
      BY <3>1, <3>2 DEF Occurs, b
  <2>4. QED
    BY <2>2, <2>3
<1>4. ASSUME NEW w, Occurs(w, p) PROVE Occurs(w, c)
  <2>1. PICK i \in 1 .. a : p[i] = w
    BY <1>4 DEF Occurs, a
  <2>2. i \in 1 .. a + b /\ c[i] = w
    BY <1>1, <1>2, <2>1
  <2>3. QED
    BY <1>2, <2>2 DEF Occurs
<1>5. ASSUME NEW w, Occurs(w, q) PROVE Occurs(w, c)
  <2>1. PICK i \in 1 .. b : q[i] = w
    BY <1>5 DEF Occurs, b
  <2>2. a + i \in 1 .. a + b /\ c[a + i] = w
    BY <1>1, <1>2, <2>1
  <2>3. QED
    BY <1>2, <2>2 DEF Occurs
<1>6. QED
  BY <1>1, <1>3, <1>4, <1>5 DEF c

\* The one element of a sequence of one.
LEMMA OccursOne == \A R : \A y \in R : <<y>> \in Seq(R) /\ \A w : Occurs(w, <<y>>) <=> w = y
<1> SUFFICES ASSUME NEW R, NEW y \in R
             PROVE  <<y>> \in Seq(R) /\ \A w : Occurs(w, <<y>>) <=> w = y
  OBVIOUS
<1>1. Len(<<y>>) = 1 /\ <<y>>[1] = y /\ <<y>> \in Seq(R)
  OBVIOUS
<1> DEFINE s == <<y>>
<1> HIDE DEF s
<1>2. \A w : Occurs(w, s) <=> w = y
  BY <1>1 DEF Occurs, s
<1>3. QED
  BY <1>1, <1>2 DEF s

\* Nothing occurs in the empty sequence.
LEMMA OccursNone == \A R : <<>> \in Seq(R) /\ \A w : ~Occurs(w, <<>>)
<1>1. Len(<<>>) = 0 /\ \A R : <<>> \in Seq(R)
  OBVIOUS
<1>2. \A i : i \notin 1 .. 0
  OBVIOUS
<1> DEFINE s == <<>>
<1> HIDE DEF s
<1>3. \A w : ~Occurs(w, s)
  BY <1>1, <1>2 DEF Occurs, s
<1>4. QED
  BY <1>1, <1>3 DEF s

\* The elements of a sequence given by a function.
LEMMA OccursMany ==
  \A R : \A n \in Nat : \A f \in [1 .. n -> R] :
    f \in Seq(R) /\ Len(f) = n /\ \A w : Occurs(w, f) <=> \E c \in 1 .. n : w = f[c]
<1> SUFFICES ASSUME NEW R, NEW n \in Nat, NEW f \in [1 .. n -> R]
             PROVE  f \in Seq(R) /\ Len(f) = n /\ \A w : Occurs(w, f) <=> \E c \in 1 .. n : w = f[c]
  OBVIOUS
<1>1. f \in Seq(R) /\ Len(f) = n
  OBVIOUS
<1>2. QED
  BY <1>1 DEF Occurs

-----------------------------------------------------------------------------
(* Cells of a buffer.                                                      *)

\* A cell is in one column and at one index.
LEMMA OneCell ==
  \A n \in Nat : \A a, b \in Nat : \A x, y \in 0 .. n - 1 : a * n + x = b * n + y => a = b /\ x = y
<1>1. ASSUME NEW n \in Nat, NEW k \in Nat, 1 <= k PROVE n <= k * n
  BY <1>1
<1>2. ASSUME NEW n \in Nat, NEW a \in Nat, NEW b \in Nat, NEW x \in 0 .. n - 1, NEW y \in 0 .. n - 1,
             a < b, a * n + x = b * n + y
      PROVE  FALSE
  <2>1. b - a \in Nat /\ 1 <= b - a
    BY <1>2
  <2>2. n <= (b - a) * n
    BY <1>1, <2>1
  <2>3. (b - a) * n = b * n - a * n
    OBVIOUS
  <2> DEFINE p == a * n
             q == b * n
  <2>4. p \in Nat /\ q \in Nat
    OBVIOUS
  <2>5. n <= q - p /\ p + x = q + y
    BY <1>2, <2>2, <2>3
  <2> HIDE DEF p, q
  <2>6. QED
    BY <2>4, <2>5
<1>3. ASSUME NEW n \in Nat, NEW a \in Nat, NEW b \in Nat, NEW x \in 0 .. n - 1, NEW y \in 0 .. n - 1,
             a * n + x = b * n + y
      PROVE  a = b /\ x = y
  <2>1. ~(a < b)
    BY <1>2, <1>3
  <2>2. ~(b < a)
    BY <1>2, <1>3
  <2>3. a = b
    BY <2>1, <2>2
  <2> DEFINE p == a * n
  <2>4. p \in Nat /\ p + x = p + y
    BY <1>3, <2>3
  <2> HIDE DEF p
  <2>5. x = y
    BY <2>4
  <2>6. QED
    BY <2>3, <2>5
<1>4. QED
  BY <1>3

PlaceOf(n, a, x) == a * n + x
\* Neither is its place that of another cell.
LEMMA OnePlace ==
  \A n, a, b, x, y : /\ n \in Nat /\ a \in Nat /\ b \in Nat /\ x \in 0 .. n - 1 /\ y \in 0 .. n - 1
                      /\ PlaceOf(n, a, x) = PlaceOf(n, b, y)
                      => a = b /\ x = y
<1> SUFFICES ASSUME NEW n \in Nat, NEW a \in Nat, NEW b \in Nat, NEW x \in 0 .. n - 1, NEW y \in 0 .. n - 1,
                    PlaceOf(n, a, x) = PlaceOf(n, b, y)
             PROVE  a = b /\ x = y
  OBVIOUS
<1>1. a * n + x = b * n + y
  BY DEF PlaceOf
<1>2. QED
  BY <1>1, OneCell, Zenon

\* A cell has the value of its last write: of any of them, when they agree.
Offset(w, n) == w.col * n + w.idx
Agreed(W, b, n, w) == \A u : Occurs(u, W) /\ u.buf = b /\ Offset(u, n) = Offset(w, n) => u.val = w.val
\* The cell of a write no other write contradicts has its value, in the buffer Image makes.
LEMMA CellWritten ==
  \A R : \A W \in Seq(R) : \A b, n, size : \A w :
    Occurs(w, W) /\ w.buf = b /\ Agreed(W, b, n, w) => Image(W, b, n, size)[Offset(w, n)] = w.val
<1> SUFFICES ASSUME NEW R, NEW W \in Seq(R), NEW b, NEW n, NEW size, NEW w,
                    Occurs(w, W), w.buf = b, Agreed(W, b, n, w)
             PROVE  Image(W, b, n, size)[Offset(w, n)] = w.val
  OBVIOUS
<1> DEFINE off(k) == W[k].col * n + W[k].idx
           o == Offset(w, n)
           mine == {k \in DOMAIN W : W[k].buf = b}
           at == {off(k) : k \in mine}
           S == {k \in mine : off(k) = o}
           l == Max(S)
           m == Len(W)
<1>1. Image(W, b, n, size) = [x \in at \cup 0 .. size - 1 |->
                                IF x \in at THEN W[Max({k \in mine : off(k) = x})].val ELSE 0]
  BY Zenon DEF Image
<1>2. m \in Nat /\ DOMAIN W = 1 .. m
  OBVIOUS
<1>3. PICK h \in 1 .. m : W[h] = w
  BY DEF Occurs
<1>4. h \in S
  BY <1>2, <1>3 DEF Offset
<1>5. o \in at
  BY <1>4
<1> HIDE DEF at
<1>6. Image(W, b, n, size)[o] = W[l].val
  BY <1>1, <1>5
<1>7. S \in SUBSET Nat /\ \A k \in S : k <= m
  BY <1>2
<1>8. l \in S
  <2> HIDE DEF S
  <2>1. QED
    BY <1>2, <1>4, <1>7, GreatestOf
<1> HIDE DEF l
<1>9. l \in 1 .. m /\ W[l].buf = b /\ Offset(W[l], n) = o
  BY <1>2, <1>8 DEF Offset
<1>10. Occurs(W[l], W)
  BY <1>9 DEF Occurs
<1>11. W[l].val = w.val
  BY <1>9, <1>10 DEF Agreed
<1>12. QED
  BY <1>6, <1>11

-----------------------------------------------------------------------------
(* The columns of the edges.                                               *)

\* Each edge, and the leftmost child under each label of each class, has a column of its own.
EdgeNames == {"right_siblings", "left_siblings", "parent", "id"}
EdgeTable(E) ==
  /\ \A a \in EdgeNames : E[a] \in Nat /\ \A b \in EdgeNames : E[a] = E[b] => a = b
  /\ \A c \in DOMAIN E.kids : \A l \in DOMAIN E.kids[c] :
       E.kids[c][l] \in Nat /\ \A a \in EdgeNames : E.kids[c][l] # E[a]
  /\ \A c, d \in DOMAIN E.kids : \A l \in DOMAIN E.kids[c] : \A k \in DOMAIN E.kids[d] :
       E.kids[c][l] = E.kids[d][k] => c = d /\ l = k
\* The columns of the treemap, with and without WebCL.
LEMMA TreemapTable == EdgeTable(treemapEdges) /\ visualizationEdges = treemapEdges
<1>1. EdgeTable(treemapEdges)
  BY DEF EdgeTable, EdgeNames, treemapEdges
<1>2. visualizationEdges = treemapEdges
  BY DEF treemapEdges, visualizationEdges
<1>3. QED
  BY <1>1, <1>2

\* Those of the nested boxes.
LEMMA BoxesTable == EdgeTable(boxesEdges)
BY DEF EdgeTable, EdgeNames, boxesEdges

\* Those of the line graph.
LEMMA LinegraphTable == EdgeTable(linegraphEdges)
BY DEF EdgeTable, EdgeNames, linegraphEdges

\* Those of the sunburst.
LEMMA SunburstTable == EdgeTable(sunburstEdges)
BY DEF EdgeTable, EdgeNames, sunburstEdges

\* The engine finds the edges where the flattener of its files put them.
EdgesOf(e) == kbindings[e].edges
\* So it is in every example, also where other bindings flattened the file.
LEMMA TablesFit ==
  \A e \in DOMAIN kbindings :
    EdgeTable(EdgesOf(e)) /\ EdgesOf(kbindings[e].flattener) = EdgesOf(e)
<1>1. /\ kbindings.treemap = treemapBindings /\ kbindings.visualization = visualizationBindings
      /\ kbindings.boxes = boxesBindings /\ kbindings.linegraph = linegraphBindings
      /\ kbindings.sunburst = sunburstBindings
      /\ DOMAIN kbindings = {"treemap", "visualization", "boxes", "linegraph", "sunburst"}
  BY DEF kbindings
<1>2. /\ treemapBindings.edges = treemapEdges /\ treemapBindings.flattener = "treemap"
      /\ visualizationBindings.edges = visualizationEdges /\ visualizationBindings.flattener = "treemap"
      /\ boxesBindings.edges = boxesEdges /\ boxesBindings.flattener = "boxes"
      /\ linegraphBindings.edges = linegraphEdges /\ linegraphBindings.flattener = "linegraph"
      /\ sunburstBindings.edges = sunburstEdges /\ sunburstBindings.flattener = "sunburst"
  BY DEF treemapBindings, visualizationBindings, boxesBindings, linegraphBindings, sunburstBindings
<1>3. QED
  BY <1>1, <1>2, TreemapTable, BoxesTable, LinegraphTable, SunburstTable DEF EdgesOf

\* What the bindings of an engine promise of its fields: every column is in its buffer, a
\* class and its interface share none, and a field that can be set has a proxy.
Attributes == {"int", "float"}
SizesFit(Z) == (\A b \in Buffers : Z[b] \in Nat) /\ 1 <= Z["grammartokens"]
EdgesFit(E, z) ==
  /\ \A a \in EdgeNames : E[a] < z
  /\ \A c \in DOMAIN E.kids : \A l \in DOMAIN E.kids[c] : E.kids[c][l] < z
ColumnsFit(C, Z) == \A o \in DOMAIN C : \A b \in Attributes : C[o][b] \subseteq 0 .. Z[b] - 1
Apart(C, c, d) == \A b \in Attributes : C[c][b] \cap C[d][b] = {}
FieldsApart(C, I) == \A c \in DOMAIN I : c \in DOMAIN C /\ I[c] \in DOMAIN C => Apart(C, c, I[c])
FieldTable(C, I, Z, E, P) ==
  SizesFit(Z) /\ EdgesFit(E, Z["nodeindex"]) /\ ColumnsFit(C, Z) /\ FieldsApart(C, I) /\ DOMAIN C \subseteq P

treemapColumns == Join(treemapContainers, treemapNodes)
\* The fields of the treemap.
LEMMA TreemapColumns ==
  /\ DOMAIN treemapColumns = {"countrycontainer", "district", "hsquare", "iroot", "node", "pollingplace",
                              "region", "root", "vsquare"}
  /\ treemapColumns["countrycontainer"] = Cols(15 .. 30, 21 .. 40)
  /\ treemapColumns["district"] = Cols(45 .. 60, 61 .. 80)
  /\ treemapColumns["hsquare"] = Cols(75 .. 88, 101 .. 120)
  /\ treemapColumns["iroot"] = Cols(0 .. 4, 0 .. 8)
  /\ treemapColumns["node"] = Cols(5 .. 10, 9 .. 20)
  /\ treemapColumns["pollingplace"] = Cols(89 .. 102, 121 .. 124)
  /\ treemapColumns["region"] = Cols(31 .. 44, 41 .. 60)
  /\ treemapColumns["root"] = Cols(11 .. 14, {})
  /\ treemapColumns["vsquare"] = Cols(61 .. 74, 81 .. 100)
BY DEF treemapColumns, Join, treemapContainers, treemapNodes

\* Its table.
LEMMA TreemapFields ==
  FieldTable(treemapColumns, treemapIFaces, treemapSizes, treemapEdges,
             treemapContainerProxies \cup treemapNodeProxies)
<1> DEFINE C == treemapColumns
           Z == treemapSizes
<1>1. \A p, q : Cols(p, q)["int"] = p /\ Cols(p, q)["float"] = q
  BY DEF Cols
<1>2. SizesFit(Z)
  BY DEF SizesFit, Buffers, treemapSizes
<1>3. EdgesFit(treemapEdges, Z["nodeindex"])
  BY DEF EdgesFit, EdgeNames, treemapEdges, treemapSizes
<1>4. ColumnsFit(C, Z)
  <2>1. Z["int"] = 103 /\ Z["float"] = 125
    BY DEF treemapSizes
  <2> HIDE DEF C, Z
  <2>2. QED
    BY <1>1, <2>1, TreemapColumns DEF ColumnsFit, Attributes, C
<1>5. FieldsApart(C, treemapIFaces)
  <2>1. \A c \in DOMAIN treemapIFaces :
          /\ c \in {"root", "countrycontainer", "region", "district", "vsquare", "hsquare", "pollingplace"}
          /\ treemapIFaces[c] = IF c = "root" THEN "iroot" ELSE "node"
    BY DEF treemapIFaces
  <2>2. Apart(C, "root", "iroot")
    BY <1>1, TreemapColumns DEF Apart, Attributes
  <2>3. \A c \in {"countrycontainer", "region", "district", "vsquare", "hsquare", "pollingplace"} :
          Apart(C, c, "node")
    BY <1>1, TreemapColumns DEF Apart, Attributes
  <2> HIDE DEF C
  <2>4. QED
    BY <2>1, <2>2, <2>3 DEF FieldsApart
<1>6. DOMAIN C \subseteq treemapContainerProxies \cup treemapNodeProxies
  BY TreemapColumns DEF treemapContainerProxies, treemapNodeProxies
<1>7. QED
  BY <1>2, <1>3, <1>4, <1>5, <1>6 DEF FieldTable

\* The page without WebCL reads the same fields, though its tables are its own.
LEMMA VisualizationFields ==
  /\ Join(visualizationContainers, visualizationNodes) = treemapColumns
  /\ visualizationIFaces = treemapIFaces
  /\ visualizationTokens = treemapTokens
  /\ visualizationContainerProxies \cup visualizationNodeProxies
       = treemapContainerProxies \cup treemapNodeProxies
<1>1. visualizationContainers = treemapContainers
  BY Zenon DEF visualizationContainers, treemapContainers
<1>2. visualizationNodes = treemapNodes
  BY Zenon DEF visualizationNodes, treemapNodes
<1>3. visualizationIFaces = treemapIFaces
  BY Zenon DEF visualizationIFaces, treemapIFaces
<1>4. visualizationContainerProxies = treemapContainerProxies /\ visualizationNodeProxies = treemapNodeProxies
  BY Zenon DEF visualizationContainerProxies, treemapContainerProxies, visualizationNodeProxies,
               treemapNodeProxies
<1>5. visualizationTokens = treemapTokens
  BY Zenon DEF visualizationTokens, treemapTokens
<1>6. QED
  BY <1>1, <1>2, <1>3, <1>4, <1>5 DEF treemapColumns

\* The boxes.
LEMMA BoxesFields == FieldTable(boxesColumns, boxesIFaces, boxesSizes, boxesEdges, boxesProxies)
<1> DEFINE C == boxesColumns
           Z == boxesSizes
<1>1. \A p, q : Cols(p, q)["int"] = p /\ Cols(p, q)["float"] = q
  BY DEF Cols
<1>2. SizesFit(Z)
  BY DEF SizesFit, Buffers, boxesSizes
<1>3. EdgesFit(boxesEdges, Z["nodeindex"])
  BY DEF EdgesFit, EdgeNames, boxesEdges, boxesSizes
<1>4. /\ DOMAIN C = {"hbox", "iroot", "leaf", "node", "root"}
      /\ C["hbox"] = Cols(13 .. 26, 7 .. 16) /\ C["iroot"] = Cols(0 .. 3, 0 .. 1)
      /\ C["leaf"] = Cols(27 .. 30, {}) /\ C["node"] = Cols(4 .. 8, 2 .. 6) /\ C["root"] = Cols(9 .. 12, {})
  BY DEF boxesColumns
<1>5. Z["int"] = 31 /\ Z["float"] = 17
  BY DEF boxesSizes
<1> HIDE DEF C, Z
<1>6. ColumnsFit(C, Z)
  BY <1>1, <1>4, <1>5 DEF ColumnsFit, Attributes
<1>7. FieldsApart(C, boxesIFaces)
  <2>1. \A c \in DOMAIN boxesIFaces :
          c \in {"root", "hbox", "leaf"} /\ boxesIFaces[c] = IF c = "root" THEN "iroot" ELSE "node"
    BY DEF boxesIFaces
  <2>2. Apart(C, "root", "iroot") /\ Apart(C, "hbox", "node") /\ Apart(C, "leaf", "node")
    BY <1>1, <1>4 DEF Apart, Attributes
  <2>3. QED
    BY <2>1, <2>2 DEF FieldsApart
<1>8. DOMAIN C \subseteq boxesProxies
  BY <1>4 DEF boxesProxies
<1>9. QED
  BY <1>2, <1>3, <1>6, <1>7, <1>8 DEF FieldTable, C, Z

linegraphColumns == Join(linegraphUpper, linegraphLower)
\* The line graph.
LEMMA LinegraphFields ==
  FieldTable(linegraphColumns, linegraphIFaces, linegraphSizes, linegraphEdges,
             linegraphUpperProxies \cup linegraphLowerProxies)
<1> DEFINE C == linegraphColumns
           Z == linegraphSizes
<1>1. \A p, q : Cols(p, q)["int"] = p /\ Cols(p, q)["float"] = q
  BY DEF Cols
<1>2. SizesFit(Z)
  BY DEF SizesFit, Buffers, linegraphSizes
<1>3. EdgesFit(linegraphEdges, Z["nodeindex"])
  BY DEF EdgesFit, EdgeNames, linegraphEdges, linegraphSizes
<1>4. /\ DOMAIN C = {"generator", "iroot", "leaf", "node", "root", "second", "secondi", "spike"}
      /\ C["generator"] = Cols(68 .. 92, 45 .. 66) /\ C["iroot"] = Cols(0 .. 7, 0 .. 4)
      /\ C["leaf"] = Cols(26 .. 36, 20 .. 30) /\ C["node"] = Cols(16 .. 25, 13 .. 19)
      /\ C["root"] = Cols(37 .. 40, {}) /\ C["second"] = Cols(41 .. 67, 31 .. 44)
      /\ C["secondi"] = Cols(8 .. 15, 5 .. 12) /\ C["spike"] = Cols(93 .. 104, {})
  BY DEF linegraphColumns, Join, linegraphUpper, linegraphLower
<1>5. Z["int"] = 105 /\ Z["float"] = 67
  BY DEF linegraphSizes
<1> HIDE DEF C, Z
<1>6. ColumnsFit(C, Z)
  BY <1>1, <1>4, <1>5 DEF ColumnsFit, Attributes
<1>7. FieldsApart(C, linegraphIFaces)
  <2>1. \A c \in DOMAIN linegraphIFaces :
          \/ c = "root" /\ linegraphIFaces[c] = "iroot"
          \/ c = "second" /\ linegraphIFaces[c] = "secondi"
          \/ c = "generator" /\ linegraphIFaces[c] = "node"
          \/ c = "spike" /\ linegraphIFaces[c] = "leaf"
    BY DEF linegraphIFaces
  <2>2. /\ Apart(C, "root", "iroot") /\ Apart(C, "second", "secondi")
        /\ Apart(C, "generator", "node") /\ Apart(C, "spike", "leaf")
    BY <1>1, <1>4 DEF Apart, Attributes
  <2>3. QED
    BY <2>1, <2>2 DEF FieldsApart
<1>8. DOMAIN C \subseteq linegraphUpperProxies \cup linegraphLowerProxies
  BY <1>4 DEF linegraphUpperProxies, linegraphLowerProxies
<1>9. QED
  BY <1>2, <1>3, <1>6, <1>7, <1>8 DEF FieldTable, C, Z

\* The sunburst.
LEMMA SunburstFields ==
  FieldTable(sunburstColumns, sunburstIFaces, sunburstSizes, sunburstEdges, sunburstProxies)
<1> DEFINE C == sunburstColumns
           Z == sunburstSizes
<1>1. \A p, q : Cols(p, q)["int"] = p /\ Cols(p, q)["float"] = q
  BY DEF Cols
<1>2. SizesFit(Z)
  BY DEF SizesFit, Buffers, sunburstSizes
<1>3. EdgesFit(sunburstEdges, Z["nodeindex"])
  BY DEF EdgesFit, EdgeNames, sunburstEdges, sunburstSizes
<1>4. /\ DOMAIN C = {"iroot", "node", "radial", "root"}
      /\ C["iroot"] = Cols(5 .. 8, {}) /\ C["node"] = Cols(0 .. 4, 0 .. 8)
      /\ C["radial"] = Cols(9 .. 23, 9 .. 22) /\ C["root"] = Cols(24 .. 27, 23 .. 27)
  BY DEF sunburstColumns
<1>5. Z["int"] = 28 /\ Z["float"] = 28
  BY DEF sunburstSizes
<1> HIDE DEF C, Z
<1>6. ColumnsFit(C, Z)
  BY <1>1, <1>4, <1>5 DEF ColumnsFit, Attributes
<1>7. FieldsApart(C, sunburstIFaces)
  <2>1. \A c \in DOMAIN sunburstIFaces :
          \/ c = "root" /\ sunburstIFaces[c] = "iroot"
          \/ c = "radial" /\ sunburstIFaces[c] = "node"
    BY DEF sunburstIFaces
  <2>2. Apart(C, "root", "iroot") /\ Apart(C, "radial", "node")
    BY <1>1, <1>4 DEF Apart, Attributes
  <2>3. QED
    BY <2>1, <2>2 DEF FieldsApart
<1>8. DOMAIN C \subseteq sunburstProxies
  BY <1>4 DEF sunburstProxies
<1>9. QED
  BY <1>2, <1>3, <1>6, <1>7, <1>8 DEF FieldTable, C, Z

FieldsFit(T) == FieldTable(T.columns, T.ifaces, T.sizes, T.edges, T.proxies)
SameFields(T, U) ==
  /\ T.columns = U.columns /\ T.ifaces = U.ifaces /\ T.sizes = U.sizes /\ T.edges = U.edges
  /\ T.tokens = U.tokens
\* All engines: what the flattener writes with is what the page reads with.
LEMMA BindingsFit ==
  \A e \in DOMAIN kbindings :
    /\ FieldsFit(kbindings[e]) /\ SameFields(kbindings[kbindings[e].flattener], kbindings[e])
    /\ kbindings[e].flattener \in DOMAIN kbindings
<1>1. /\ kbindings.treemap = treemapBindings /\ kbindings.visualization = visualizationBindings
      /\ kbindings.boxes = boxesBindings /\ kbindings.linegraph = linegraphBindings
      /\ kbindings.sunburst = sunburstBindings
      /\ DOMAIN kbindings = {"treemap", "visualization", "boxes", "linegraph", "sunburst"}
  BY DEF kbindings
<1>2. FieldsFit(treemapBindings) /\ treemapBindings.flattener = "treemap"
  BY TreemapFields DEF FieldsFit, treemapBindings, treemapColumns
<1>3. SameFields(treemapBindings, visualizationBindings) /\ visualizationBindings.flattener = "treemap"
  BY VisualizationFields, TreemapTable
  DEF SameFields, treemapBindings, visualizationBindings, treemapColumns
<1>4. FieldsFit(visualizationBindings)
  <2>1. visualizationBindings.proxies = treemapBindings.proxies
    BY VisualizationFields DEF visualizationBindings, treemapBindings
  <2>2. QED
    BY <1>2, <1>3, <2>1 DEF FieldsFit, SameFields
<1>5. FieldsFit(boxesBindings) /\ boxesBindings.flattener = "boxes"
  BY BoxesFields DEF FieldsFit, boxesBindings
<1>6. FieldsFit(linegraphBindings) /\ linegraphBindings.flattener = "linegraph"
  BY LinegraphFields DEF FieldsFit, linegraphBindings, linegraphColumns
<1>7. FieldsFit(sunburstBindings) /\ sunburstBindings.flattener = "sunburst"
  BY SunburstFields DEF FieldsFit, sunburstBindings
<1>8. \A T : SameFields(T, T)
  BY DEF SameFields
<1>9. QED
  BY <1>1, <1>2, <1>3, <1>4, <1>5, <1>6, <1>7, <1>8

-----------------------------------------------------------------------------
(* What flattenEdges and flattenNode write.                                *)

WriteSet(V) == [buf : Buffers, col : Nat, idx : Nat, val : V]
SlotNames == {"right_siblings", "left_siblings", "parent"}
SlotVal(a, i, c, n, r) ==
  IF a = "parent" THEN i ELSE IF a = "right_siblings" THEN Flag(c < n) ELSE Flag(c > 1 \/ r > 0)
IsSlotWrite(E, w, i, first, n, r, a, c) == w = Write("nodeindex", E[a], first + (c - 1), SlotVal(a, i, c, n, r))
IsListWrite(E, w, i, lbl, class, first, n, r) ==
  \/ w = Write("nodeindex", E.kids[class][lbl], i, first - i)
  \/ \E c \in 1 .. n : \E a \in SlotNames : IsSlotWrite(E, w, i, first, n, r, a, c)

\* The writes of one list.
LEMMA ListWritesOf ==
  \A V : Int \subseteq V /\ EdgeTable(F.edges) =>
    \A i, first, n, r \in Nat : \A class \in DOMAIN F.edges.kids : \A lbl \in DOMAIN F.edges.kids[class] :
      /\ ListWrites(i, lbl, class, first, n, r) \in Seq(WriteSet(V))
      /\ \A w : Occurs(w, ListWrites(i, lbl, class, first, n, r))
                  <=> IsListWrite(F.edges, w, i, lbl, class, first, n, r)
<1> SUFFICES ASSUME NEW V, Int \subseteq V, EdgeTable(F.edges),
                    NEW i \in Nat, NEW first \in Nat, NEW n \in Nat, NEW r \in Nat,
                    NEW class \in DOMAIN F.edges.kids, NEW lbl \in DOMAIN F.edges.kids[class]
             PROVE  /\ ListWrites(i, lbl, class, first, n, r) \in Seq(WriteSet(V))
                    /\ \A w : Occurs(w, ListWrites(i, lbl, class, first, n, r))
                                <=> IsListWrite(F.edges, w, i, lbl, class, first, n, r)
  OBVIOUS
<1> DEFINE E == F.edges
           R == WriteSet(V)
           k == Write("nodeindex", E.kids[class][lbl], i, first - i)
           x == [c \in 1 .. n |-> Write("nodeindex", E.right_siblings, first + (c - 1), IF c < n THEN 1 ELSE 0)]
           y == [c \in 1 .. n |-> Write("nodeindex", E.parent, first + (c - 1), i)]
           z == [c \in 1 .. n |->
                   Write("nodeindex", E.left_siblings, first + (c - 1), IF c > 1 \/ r > 0 THEN 1 ELSE 0)]
           p == <<k>> \o x
           q == p \o y
           s == q \o z
           Is(w, a, c) == IsSlotWrite(E, w, i, first, n, r, a, c)
<1>1. ListWrites(i, lbl, class, first, n, r) = s
  BY DEF ListWrites
<1>2. /\ E.kids[class][lbl] \in Nat /\ E.right_siblings \in Nat /\ E.parent \in Nat
      /\ E.left_siblings \in Nat
  BY DEF EdgeTable, EdgeNames
<1>3. \A c \in 1 .. n : first + (c - 1) \in Nat
  OBVIOUS
<1>4. "nodeindex" \in Buffers /\ first - i \in V /\ 0 \in V /\ 1 \in V /\ i \in V
  BY DEF Buffers
<1> HIDE DEF E
<1>5. k \in R
  BY <1>2, <1>4 DEF WriteSet, Write
<1>6. x \in [1 .. n -> R]
  BY <1>2, <1>3, <1>4 DEF WriteSet, Write
<1>7. y \in [1 .. n -> R]
  BY <1>2, <1>3, <1>4 DEF WriteSet, Write
<1>8. z \in [1 .. n -> R]
  BY <1>2, <1>3, <1>4 DEF WriteSet, Write
<1>9. \A c \in 1 .. n : \A w : /\ w = x[c] <=> Is(w, "right_siblings", c)
                               /\ w = y[c] <=> Is(w, "parent", c)
                               /\ w = z[c] <=> Is(w, "left_siblings", c)
  BY DEF IsSlotWrite, SlotVal, Flag
<1> HIDE DEF R, k, x, y, z, Is
<1>10. <<k>> \in Seq(R) /\ \A w : Occurs(w, <<k>>) <=> w = k
  BY <1>5, OccursOne
<1>11. x \in Seq(R) /\ \A w : Occurs(w, x) <=> \E c \in 1 .. n : w = x[c]
  BY <1>6, OccursMany
<1>12. y \in Seq(R) /\ \A w : Occurs(w, y) <=> \E c \in 1 .. n : w = y[c]
  BY <1>7, OccursMany
<1>13. z \in Seq(R) /\ \A w : Occurs(w, z) <=> \E c \in 1 .. n : w = z[c]
  BY <1>8, OccursMany
<1> DEFINE u == <<k>>
<1> HIDE DEF u
<1>14. p \in Seq(R) /\ \A w : Occurs(w, p) <=> Occurs(w, u) \/ Occurs(w, x)
  BY <1>10, <1>11, OccursEnds DEF u
<1> HIDE DEF p
<1>15. q \in Seq(R) /\ \A w : Occurs(w, q) <=> Occurs(w, p) \/ Occurs(w, y)
  BY <1>12, <1>14, OccursEnds
<1> HIDE DEF q
<1>16. s \in Seq(R) /\ \A w : Occurs(w, s) <=> Occurs(w, q) \/ Occurs(w, z)
  BY <1>13, <1>15, OccursEnds
<1> HIDE DEF s
<1>17. \A w : Occurs(w, s) <=> \/ w = k
                               \/ \E c \in 1 .. n : w = x[c]
                               \/ \E c \in 1 .. n : w = y[c]
                               \/ \E c \in 1 .. n : w = z[c]
  BY <1>10, <1>11, <1>12, <1>13, <1>14, <1>15, <1>16 DEF u
<1>18. \A w : Occurs(w, s) <=> \/ w = k
                               \/ \E c \in 1 .. n : \E a \in SlotNames : Is(w, a, c)
  <2>1. \A w, c : (\E a \in SlotNames : Is(w, a, c))
                    <=> Is(w, "right_siblings", c) \/ Is(w, "parent", c) \/ Is(w, "left_siblings", c)
    BY DEF SlotNames
  <2>2. \A w : (\E c \in 1 .. n : \E a \in SlotNames : Is(w, a, c))
                 <=> \/ \E c \in 1 .. n : Is(w, "right_siblings", c)
                     \/ \E c \in 1 .. n : Is(w, "parent", c)
                     \/ \E c \in 1 .. n : Is(w, "left_siblings", c)
    BY <2>1, Zenon
  <2>3. \A w : /\ (\E c \in 1 .. n : w = x[c]) <=> (\E c \in 1 .. n : Is(w, "right_siblings", c))
               /\ (\E c \in 1 .. n : w = y[c]) <=> (\E c \in 1 .. n : Is(w, "parent", c))
               /\ (\E c \in 1 .. n : w = z[c]) <=> (\E c \in 1 .. n : Is(w, "left_siblings", c))
    BY <1>9, Zenon
  <2>4. QED
    BY <1>17, <2>2, <2>3, Zenon
<1>19. QED
  BY <1>1, <1>16, <1>18 DEF IsListWrite, R, k, Is, E

\* A laid out document is the document and its order.
LEMMA LaidFields ==
  \A t : /\ Laid(t).class = t.class /\ Laid(t).id = t.id /\ Laid(t).kids = t.kids /\ Laid(t).attrs = t.attrs
         /\ Laid(t).order = Order(t) /\ Laid(t).levels = levelsOf(t) /\ treeSize(Laid(t)) = treeSize(t)
         /\ Laid(t).childs = [v \in Nodes(t) |-> KidsOf(t, v)]
         /\ Laid(t).leftmost = [i \in 0 .. treeSize(t) - 1 |-> LeftmostChildIdx(t, i)]
BY DEF Laid, treeSize, Nodes

\* The objects in the lists before list g.
Before(t, v, g) == [h \in 1 .. g - 1 |-> t.kids[v][h].nodes]
\* rollCount of flattenEdges is where the list starts among the children.
LEMMA RollCount ==
  \A t : IsDocument(t) => \A v \in Nodes(t) : \A g \in 1 .. Len(t.kids[v]) :
    Len(FlattenSeq(Before(t, v, g))) = Rolls(t, v)[g - 1]
<1> SUFFICES ASSUME NEW t, IsDocument(t), NEW v \in Nodes(t), NEW g \in 1 .. Len(t.kids[v])
             PROVE  Len(FlattenSeq(Before(t, v, g))) = Rolls(t, v)[g - 1]
  OBVIOUS
<1> DEFINE m == Len(t.kids[v])
           s == Lists(t, v)
           D == Seq(Nodes(t))
           a == g - 1
           b == Before(t, v, g)
           c == Cut(s, 1, a)
<1>1. m \in Nat /\ s \in Seq(D) /\ Len(s) = m /\ \A h \in 1 .. m : s[h] = t.kids[v][h].nodes
  BY ListsTyped
<1>2. g \in 1 .. m
  OBVIOUS
<1> HIDE DEF m, s, D
<1>3. a \in 0 .. m /\ a \in Nat /\ \A h \in 1 .. a : h \in 1 .. m
  BY <1>1, <1>2
<1> DEFINE f(h) == t.kids[v][h].nodes
<1>4. b = [h \in 1 .. a |-> f(h)]
  BY DEF Before
<1> HIDE DEF a, b, c
<1>5. \A h \in 1 .. a : f(h) \in D
  <2>1. \A h \in 1 .. m : s[h] \in D
    BY <1>1
  <2>2. QED
    BY <1>1, <1>3, <2>1
<1>6. c \in Seq(D) /\ Len(c) = a /\ \A h \in 1 .. a : c[h] = s[h]
  BY <1>1, <1>3, CutOf DEF c
<1>7. \A h \in 1 .. a : c[h] = f(h)
  BY <1>1, <1>3, <1>6
<1> HIDE DEF f
<1>8. b \in Seq(D) /\ Len(b) = a /\ \A h \in 1 .. a : b[h] = f(h)
  BY <1>3, <1>4, <1>5
<1>9. b = c
  <2>1. \A h \in 1 .. Len(b) : b[h] = c[h]
    BY <1>7, <1>8
  <2>2. QED
    BY <1>6, <1>8, <2>1, SameElements
<1>10. Rolls(t, v)[a] = Len(FlattenSeq(c))
  BY <1>1, <1>3 DEF Rolls, Offsets, c, Cut, s
<1>11. QED
  BY <1>9, <1>10 DEF a, b

\* A node that does not throw: all its lists are declared.
LEMMA GoodNode ==
  \A t : \A v : Len(t.kids[v]) \in Nat /\ DOMAIN t.kids[v] = 1 .. Len(t.kids[v]) /\ ~Bad(t, v) =>
    /\ GoodLists(t, v) = Len(t.kids[v])
    /\ \A g \in 1 .. Len(t.kids[v]) : /\ t.class[v] \in DOMAIN F.edges.kids
                                      /\ t.kids[v][g].lbl \in DOMAIN F.edges.kids[t.class[v]]
<1> SUFFICES ASSUME NEW t, NEW v, Len(t.kids[v]) \in Nat, DOMAIN t.kids[v] = 1 .. Len(t.kids[v]), ~Bad(t, v)
             PROVE  /\ GoodLists(t, v) = Len(t.kids[v])
                    /\ \A g \in 1 .. Len(t.kids[v]) : Declared(t, v, g)
  BY DEF Declared
<1> DEFINE m == Len(t.kids[v])
           S == {g \in 1 .. m : ~Declared(t, v, g)}
           k == Min(S)
<1>1. GoodLists(t, v) = IF S = {} THEN m ELSE k - 1
  BY DEF GoodLists
<1>2. ~(GoodLists(t, v) < m)
  BY DEF Bad
<1>3. m \in Nat
  OBVIOUS
<1> HIDE DEF m
<1>4. S = {}
  <2>1. ASSUME S # {} PROVE FALSE
    <3>1. S \in SUBSET Nat
      OBVIOUS
    <3>2. k \in S
      <4> HIDE DEF S
      <4>1. QED
        BY <2>1, <3>1, LeastOf
    <3> HIDE DEF k
    <3>3. k \in 1 .. m
      BY <3>2
    <3>4. k - 1 < m
      BY <1>3, <3>3
    <3>5. QED
      BY <1>1, <1>2, <2>1, <3>4
  <2>2. QED
    BY <2>1
<1>5. QED
  BY <1>1, <1>4 DEF m

\* The writes of flattenEdges for a node.
ListWrite(t, E, w, i, g) ==
  IsListWrite(E, w, i, t.kids[Order(t)[i + 1]][g].lbl, t.class[Order(t)[i + 1]],
              Firsts(t)[i] + Rolls(t, Order(t)[i + 1])[g - 1], Len(ListAt(t, Order(t)[i + 1], g)),
              Rolls(t, Order(t)[i + 1])[g - 1])
\* flattenEdges writes the edges of each list, and nothing else.
LEMMA EdgeWritesOf ==
  \A V, t : Int \subseteq V /\ EdgeTable(F.edges) /\ IsDocument(t) =>
    \A i \in 0 .. Len(Order(t)) - 1 : ~Bad(Laid(t), Order(t)[i + 1]) =>
      /\ flattenEdges(Laid(t), i) \in Seq(WriteSet(V))
      /\ \A w : Occurs(w, flattenEdges(Laid(t), i))
                  <=> \E g \in 1 .. Len(t.kids[Order(t)[i + 1]]) : ListWrite(t, F.edges, w, i, g)
<1> SUFFICES ASSUME NEW V, NEW t, Int \subseteq V, EdgeTable(F.edges), IsDocument(t),
                    NEW i \in 0 .. Len(Order(t)) - 1, ~Bad(Laid(t), Order(t)[i + 1])
             PROVE  /\ flattenEdges(Laid(t), i) \in Seq(WriteSet(V))
                    /\ \A w : Occurs(w, flattenEdges(Laid(t), i))
                                <=> \E g \in 1 .. Len(t.kids[Order(t)[i + 1]]) : ListWrite(t, F.edges, w, i, g)
  OBVIOUS
<1> DEFINE R == WriteSet(V)
           D == Seq(R)
           T == Laid(t)
           o == Order(t)
           v == o[i + 1]
           m == Len(t.kids[v])
           f == Firsts(t)[i]
           r(g) == Rolls(t, v)[g - 1]
           l(g) == Len(ListAt(t, v, g))
           lbl(g) == t.kids[v][g].lbl
           class == t.class[v]
           W(g) == ListWrites(i, lbl(g), class, f + r(g), l(g), r(g))
           G == [g \in 1 .. m |-> W(g)]
<1>1. Grown(t) /\ Queued(t, o, Firsts(t))
  BY DocumentsGrow, OrderIsQueued
<1>2. i \in Nat /\ v \in Nodes(t) /\ f \in Nat
  BY <1>1, ChildOfNode
<1>3. m \in Nat /\ DOMAIN t.kids[v] = 1 .. m
  BY <1>2, ListsTyped
<1>4. \A g \in 1 .. m : r(g) \in Nat /\ l(g) \in Nat
  BY <1>2, ListsLaid
<1>5. GoodLists(T, v) = m /\ \A g \in 1 .. m : class \in DOMAIN F.edges.kids /\ lbl(g) \in DOMAIN F.edges.kids[class]
  <2>1. T.kids = t.kids /\ T.class = t.class
    BY LaidFields
  <2>2. Len(T.kids[v]) \in Nat /\ DOMAIN T.kids[v] = 1 .. Len(T.kids[v]) /\ ~Bad(T, v)
    BY <1>3, <2>1
  <2>3. /\ GoodLists(T, v) = Len(T.kids[v])
        /\ \A g \in 1 .. Len(T.kids[v]) : /\ T.class[v] \in DOMAIN F.edges.kids
                                          /\ T.kids[v][g].lbl \in DOMAIN F.edges.kids[T.class[v]]
    BY <2>2, GoodNode
  <2>4. QED
    BY <2>1, <2>3
<1>6. flattenEdges(T, i) = FlattenSeq(G)
  <2> DEFINE c(g) == Len(FlattenSeq([h \in 1 .. g - 1 |-> t.kids[v][h].nodes]))
             Z(g) == ListWrites(i, lbl(g), class, f + c(g), Len(t.kids[v][g].nodes), c(g))
  <2>1. T.order = o /\ T.kids = t.kids /\ T.class = t.class
    BY LaidFields
  <2>2. T.leftmost[i] = f
    <3>1. Len(o) = treeSize(t)
      BY <1>1, OrderIsWhole
    <3>2. i \in 0 .. treeSize(t) - 1
      BY <3>1
    <3>3. T.leftmost = [j \in 0 .. treeSize(t) - 1 |-> LeftmostChildIdx(t, j)]
      BY LaidFields
    <3>4. LeftmostChildIdx(t, i) = f
      BY <1>1, CounterIsFirst
    <3>5. QED
      BY <3>2, <3>3, <3>4
  <2>3. flattenEdges(T, i) = FlattenSeq([g \in 1 .. m |-> Z(g)])
    BY <1>5, <2>1, <2>2 DEF flattenEdges
  <2>4. \A g \in 1 .. m : c(g) = r(g)
    BY <1>2, RollCount DEF Before
  <2> HIDE DEF c
  <2>5. \A g \in 1 .. m : Z(g) = W(g)
    BY <2>4 DEF ListAt
  <2> HIDE DEF Z, W
  <2>6. QED
    BY <2>3, <2>5
<1>7. \A g \in 1 .. m : W(g) \in D /\ \A w : Occurs(w, W(g)) <=> ListWrite(t, F.edges, w, i, g)
  <2>1. ASSUME NEW g \in 1 .. m PROVE W(g) \in D /\ \A w : Occurs(w, W(g)) <=> ListWrite(t, F.edges, w, i, g)
    <3> DEFINE first == f + r(g)
               a == lbl(g)
               b == r(g)
               n == l(g)
    <3>6. r(g) \in Nat /\ l(g) \in Nat
      BY <1>4
    <3>7. class \in DOMAIN F.edges.kids /\ lbl(g) \in DOMAIN F.edges.kids[class]
      BY <1>5
    <3>8. f + r(g) \in Nat
      <4> HIDE DEF f, r
      <4>1. QED
        BY <1>2, <3>6
    <3>1. first \in Nat /\ n \in Nat /\ b \in Nat /\ class \in DOMAIN F.edges.kids
          /\ a \in DOMAIN F.edges.kids[class]
      <4> HIDE DEF f, r, l, lbl, class
      <4>1. QED
        BY <3>6, <3>7, <3>8
    <3>2. \A w : ListWrite(t, F.edges, w, i, g) <=> IsListWrite(F.edges, w, i, a, class, first, n, b)
      BY DEF ListWrite
    <3>3. W(g) = ListWrites(i, a, class, first, n, b)
      OBVIOUS
    <3> HIDE DEF first, a, b, n, class, W
    <3>4. /\ ListWrites(i, a, class, first, n, b) \in Seq(WriteSet(V))
          /\ \A w : Occurs(w, ListWrites(i, a, class, first, n, b))
                      <=> IsListWrite(F.edges, w, i, a, class, first, n, b)
      BY <1>2, <3>1, ListWritesOf
    <3>5. QED
      BY <3>2, <3>3, <3>4
  <2>2. QED
    BY <2>1
<1> HIDE DEF R, D, W, m
<1>8. G \in [1 .. m -> D]
  BY <1>7
<1>9. G \in Seq(D) /\ Len(G) = m /\ \A g \in 1 .. m : G[g] = W(g)
  <2>1. \A g \in 1 .. m : G[g] = W(g)
    OBVIOUS
  <2> HIDE DEF G
  <2>2. G \in Seq(D) /\ Len(G) = m
    BY <1>3, <1>8, OccursMany
  <2>3. QED
    BY <2>1, <2>2
<1> HIDE DEF G
<1>10. FlattenSeq(G) \in Seq(R)
  BY <1>9, FlattenAppend DEF D
<1>11. \A w : Occurs(w, FlattenSeq(G)) <=> OccursIn(w, G)
  BY <1>9, FlattenElements DEF D
<1>12. \A w : OccursIn(w, G) <=> \E g \in 1 .. m : Occurs(w, W(g))
  BY <1>9 DEF OccursIn
<1>13. \A w : Occurs(w, FlattenSeq(G)) <=> \E g \in 1 .. m : ListWrite(t, F.edges, w, i, g)
  <2>1. \A w : (\E g \in 1 .. m : Occurs(w, W(g))) <=> \E g \in 1 .. m : ListWrite(t, F.edges, w, i, g)
    BY <1>7, Zenon
  <2>2. QED
    BY <1>11, <1>12, <2>1, Zenon
<1>14. QED
  BY <1>6, <1>10, <1>13 DEF R, m

\* The attributes of a node are not written into the edges.
Values(t, toks) ==
  Int \cup {F.tokens[t.class[v]] : v \in Nodes(t)} \cup {IndexOf(toks, Lower[t.id[v]]) : v \in Nodes(t)}
    \cup UNION {{a.val : a \in ToSet(t.attrs[v])} : v \in Nodes(t)}
Stored(class, i, a) == IF IsStored(F, class, a) THEN <<Write(a.buf, a.col, i, a.val)>> ELSE <<>>
AttrWrites(t, v, i) == FlattenSeq([k \in DOMAIN t.attrs[v] |-> Stored(t.class[v], i, t.attrs[v][k])])
IsAttrWrite(t, v, i, a, w) == IsStored(F, t.class[v], a) /\ w = Write(a.buf, a.col, i, a.val)
\* An attribute goes into the column of its field, or nowhere.
LEMMA StoredOf ==
  \A t, toks : IsDocument(t) => \A v \in Nodes(t) : \A i \in Nat : \A a \in ToSet(t.attrs[v]) :
    /\ Stored(t.class[v], i, a) \in Seq(WriteSet(Values(t, toks)))
    /\ \A w : Occurs(w, Stored(t.class[v], i, a)) <=> IsAttrWrite(t, v, i, a, w)
<1> SUFFICES ASSUME NEW t, NEW toks, IsDocument(t), NEW v \in Nodes(t), NEW i \in Nat, NEW a \in ToSet(t.attrs[v])
             PROVE  /\ Stored(t.class[v], i, a) \in Seq(WriteSet(Values(t, toks)))
                    /\ \A w : Occurs(w, Stored(t.class[v], i, a)) <=> IsAttrWrite(t, v, i, a, w)
  OBVIOUS
<1> DEFINE R == WriteSet(Values(t, toks))
           y == Write(a.buf, a.col, i, a.val)
           p == IsStored(F, t.class[v], a)
<1>1. a.buf \in {"int", "float"} /\ a.col \in Nat
  BY DEF IsDocument, Nodes
<1>2. a.val \in Values(t, toks)
  BY DEF Values
<1>3. y \in R
  <2> DEFINE V == Values(t, toks)
  <2> HIDE DEF V
  <2>1. a.val \in V
    BY <1>2 DEF V
  <2>2. a.buf \in Buffers
    BY <1>1 DEF Buffers
  <2>3. y \in WriteSet(V)
    BY <1>1, <2>1, <2>2 DEF WriteSet, Write
  <2>4. QED
    BY <2>3 DEF V
<1>4. /\ p => Stored(t.class[v], i, a) = <<y>>
      /\ ~p => Stored(t.class[v], i, a) = <<>>
      /\ \A w : IsAttrWrite(t, v, i, a, w) <=> p /\ w = y
  BY DEF Stored, IsAttrWrite
<1> HIDE DEF R, y, p
<1>5. <<y>> \in Seq(R) /\ \A w : Occurs(w, <<y>>) <=> w = y
  BY <1>3, OccursOne
<1>6. <<>> \in Seq(R) /\ \A w : ~Occurs(w, <<>>)
  BY OccursNone
<1>7. CASE ~p
  BY <1>4, <1>6, <1>7 DEF R
<1>8. CASE p
  BY <1>4, <1>5, <1>8 DEF R
<1>9. QED
  BY <1>7, <1>8

\* All of them.
LEMMA AttrWritesOf ==
  \A t, toks : IsDocument(t) => \A v \in Nodes(t) : \A i \in Nat :
    /\ AttrWrites(t, v, i) \in Seq(WriteSet(Values(t, toks)))
    /\ \A w : Occurs(w, AttrWrites(t, v, i)) <=> \E a \in ToSet(t.attrs[v]) : IsAttrWrite(t, v, i, a, w)
<1> SUFFICES ASSUME NEW t, NEW toks, IsDocument(t), NEW v \in Nodes(t), NEW i \in Nat
             PROVE  /\ AttrWrites(t, v, i) \in Seq(WriteSet(Values(t, toks)))
                    /\ \A w : Occurs(w, AttrWrites(t, v, i)) <=> \E a \in ToSet(t.attrs[v]) : IsAttrWrite(t, v, i, a, w)
  OBVIOUS
<1> DEFINE R == WriteSet(Values(t, toks))
           D == Seq(R)
           A == ToSet(t.attrs[v])
           S(a) == Stored(t.class[v], i, a)
           G == [k \in DOMAIN t.attrs[v] |-> S(t.attrs[v][k])]
           m == Len(t.attrs[v])
           P(a, w) == IsAttrWrite(t, v, i, a, w)
<1>1. t.attrs[v] \in Seq(A)
  BY DEF IsDocument, Nodes
<1>2. /\ m \in Nat /\ DOMAIN t.attrs[v] = 1 .. m /\ \A k \in 1 .. m : t.attrs[v][k] \in A
      /\ \A a \in A : \E k \in 1 .. m : t.attrs[v][k] = a
  <2>1. \A a \in A : \E k \in DOMAIN t.attrs[v] : t.attrs[v][k] = a
    BY DEF ToSet
  <2> HIDE DEF A
  <2>2. QED
    BY <1>1, <2>1
<1>3. \A a \in A : S(a) \in D /\ \A w : Occurs(w, S(a)) <=> P(a, w)
  BY StoredOf
<1>4. AttrWrites(t, v, i) = FlattenSeq(G)
  BY DEF AttrWrites
<1> HIDE DEF A, S, D, R, P
<1>5. G \in [1 .. m -> D] /\ \A k \in 1 .. m : G[k] = S(t.attrs[v][k])
  BY <1>2, <1>3
<1> HIDE DEF G, m
<1>6. G \in Seq(D) /\ Len(G) = m
  BY <1>2, <1>5, OccursMany
<1>7. FlattenSeq(G) \in Seq(R) /\ \A w : Occurs(w, FlattenSeq(G)) <=> OccursIn(w, G)
  BY <1>6, FlattenAppend, FlattenElements DEF D
<1>8. ASSUME NEW w PROVE OccursIn(w, G) <=> \E a \in A : P(a, w)
  <2>1. OccursIn(w, G) <=> \E k \in 1 .. m : Occurs(w, G[k])
    BY <1>6 DEF OccursIn
  <2>2. \A k \in 1 .. m : Occurs(w, G[k]) <=> P(t.attrs[v][k], w)
    BY <1>2, <1>3, <1>5
  <2>3. QED
    BY <1>2, <2>1, <2>2
<1>9. QED
  BY <1>4, <1>7, <1>8 DEF R, A, P

\* The writes of flattenNode besides those of the lists.
TokenWrites(t, v, i) == <<Write("grammartokens", 0, i, F.tokens[t.class[v]])>>
IdWrites(t, v, i, toks) ==
  IF t.id[v] = None THEN <<>> ELSE <<Write("nodeindex", F.edges.id, i, IndexOf(toks, Lower[t.id[v]]))>>
IsTokenWrite(t, v, i, w) == w = Write("grammartokens", 0, i, F.tokens[t.class[v]])
IsIdWrite(t, v, i, toks, w) ==
  t.id[v] # None /\ w = Write("nodeindex", F.edges.id, i, IndexOf(toks, Lower[t.id[v]]))
\* flattenNode, part by part.
LEMMA NodeIs ==
  \A t, i, toks : ~Bad(Laid(t), Order(t)[i + 1]) =>
    flattenNode(Laid(t), i, toks)
      = flattenEdges(Laid(t), i)
          \o ((TokenWrites(t, Order(t)[i + 1], i) \o IdWrites(t, Order(t)[i + 1], i, toks))
                \o AttrWrites(t, Order(t)[i + 1], i))
<1>1. ASSUME NEW T, NEW i, NEW v, NEW toks, T.order[i + 1] = v, ~Bad(T, v)
      PROVE  flattenNode(T, i, toks)
               = flattenEdges(T, i) \o ((TokenWrites(T, v, i) \o IdWrites(T, v, i, toks)) \o AttrWrites(T, v, i))
  BY <1>1 DEF flattenNode, TokenWrites, IdWrites, AttrWrites, Stored
<1>2. ASSUME NEW t, NEW i, NEW toks, ~Bad(Laid(t), Order(t)[i + 1])
      PROVE  flattenNode(Laid(t), i, toks)
               = flattenEdges(Laid(t), i)
                   \o ((TokenWrites(t, Order(t)[i + 1], i) \o IdWrites(t, Order(t)[i + 1], i, toks))
                         \o AttrWrites(t, Order(t)[i + 1], i))
  <2> DEFINE T == Laid(t)
             v == Order(t)[i + 1]
  <2>1. T.order[i + 1] = v /\ T.class = t.class /\ T.id = t.id /\ T.attrs = t.attrs /\ ~Bad(T, v)
    BY <1>2, LaidFields
  <2> HIDE DEF T, v
  <2>2. flattenNode(T, i, toks)
          = flattenEdges(T, i) \o ((TokenWrites(T, v, i) \o IdWrites(T, v, i, toks)) \o AttrWrites(T, v, i))
    BY <1>1, <2>1
  <2>3. /\ TokenWrites(T, v, i) = TokenWrites(t, v, i)
        /\ IdWrites(T, v, i, toks) = IdWrites(t, v, i, toks)
        /\ AttrWrites(T, v, i) = AttrWrites(t, v, i)
    BY <2>1 DEF TokenWrites, IdWrites, AttrWrites
  <2>4. QED
    BY <2>2, <2>3 DEF T, v
<1>3. QED
  BY <1>2

\* The token of the class.
LEMMA TokenWritesOf ==
  \A t, toks : IsDocument(t) => \A v \in Nodes(t) : \A i \in Nat :
    /\ TokenWrites(t, v, i) \in Seq(WriteSet(Values(t, toks)))
    /\ \A w : Occurs(w, TokenWrites(t, v, i)) <=> IsTokenWrite(t, v, i, w)
<1> SUFFICES ASSUME NEW t, NEW toks, IsDocument(t), NEW v \in Nodes(t), NEW i \in Nat
             PROVE  /\ TokenWrites(t, v, i) \in Seq(WriteSet(Values(t, toks)))
                    /\ \A w : Occurs(w, TokenWrites(t, v, i)) <=> IsTokenWrite(t, v, i, w)
  OBVIOUS
<1> DEFINE V == Values(t, toks)
           R == WriteSet(V)
           x == F.tokens[t.class[v]]
           y == Write("grammartokens", 0, i, x)
<1>1. x \in V
  BY DEF Values
<1>2. TokenWrites(t, v, i) = <<y>> /\ \A w : IsTokenWrite(t, v, i, w) <=> w = y
  BY DEF TokenWrites, IsTokenWrite
<1> HIDE DEF V, x
<1>3. y \in R
  <2>1. "grammartokens" \in Buffers /\ 0 \in Nat
    BY DEF Buffers
  <2>2. QED
    BY <1>1, <2>1 DEF WriteSet, Write
<1> HIDE DEF R, y
<1>4. <<y>> \in Seq(R) /\ \A w : Occurs(w, <<y>>) <=> w = y
  BY <1>3, OccursOne
<1>5. QED
  BY <1>2, <1>4 DEF R, V

\* The token of the id.
LEMMA IdWritesOf ==
  \A t, toks : IsDocument(t) /\ EdgeTable(F.edges) => \A v \in Nodes(t) : \A i \in Nat :
    /\ IdWrites(t, v, i, toks) \in Seq(WriteSet(Values(t, toks)))
    /\ \A w : Occurs(w, IdWrites(t, v, i, toks)) <=> IsIdWrite(t, v, i, toks, w)
<1> SUFFICES ASSUME NEW t, NEW toks, IsDocument(t), EdgeTable(F.edges), NEW v \in Nodes(t), NEW i \in Nat
             PROVE  /\ IdWrites(t, v, i, toks) \in Seq(WriteSet(Values(t, toks)))
                    /\ \A w : Occurs(w, IdWrites(t, v, i, toks)) <=> IsIdWrite(t, v, i, toks, w)
  OBVIOUS
<1> DEFINE V == Values(t, toks)
           R == WriteSet(V)
           E == F.edges
           x == IndexOf(toks, Lower[t.id[v]])
           y == Write("nodeindex", E.id, i, x)
           p == t.id[v] # None
<1>1. x \in V
  BY DEF Values
<1>2. /\ p => IdWrites(t, v, i, toks) = <<y>>
      /\ ~p => IdWrites(t, v, i, toks) = <<>>
      /\ \A w : IsIdWrite(t, v, i, toks, w) <=> p /\ w = y
  BY DEF IdWrites, IsIdWrite
<1>3. E.id \in Nat
  BY DEF EdgeTable, EdgeNames
<1> HIDE DEF V, x, E, p
<1>4. y \in R
  BY <1>1, <1>3 DEF WriteSet, Write, Buffers
<1> HIDE DEF R, y
<1>5. <<y>> \in Seq(R) /\ \A w : Occurs(w, <<y>>) <=> w = y
  BY <1>4, OccursOne
<1>6. <<>> \in Seq(R) /\ \A w : ~Occurs(w, <<>>)
  BY OccursNone
<1>7. CASE ~p
  BY <1>2, <1>6, <1>7 DEF R, V
<1>8. CASE p
  BY <1>2, <1>5, <1>8 DEF R, V
<1>9. QED
  BY <1>7, <1>8

\* All of a node's writes.
InLists(t, E, w, i) == \E g \in 1 .. Len(t.kids[Order(t)[i + 1]]) : ListWrite(t, E, w, i, g)
InAttrs(t, w, i) == \E a \in ToSet(t.attrs[Order(t)[i + 1]]) : IsAttrWrite(t, Order(t)[i + 1], i, a, w)
NodeWrite(t, toks, w, i) ==
  \/ InLists(t, F.edges, w, i)
  \/ IsTokenWrite(t, Order(t)[i + 1], i, w)
  \/ IsIdWrite(t, Order(t)[i + 1], i, toks, w)
  \/ InAttrs(t, w, i)
\* flattenNode of a node that does not throw writes the edges of its lists, its tokens and its
\* attributes.
LEMMA NodeWritesOf ==
  \A t, toks : IsDocument(t) /\ EdgeTable(F.edges) => \A i \in 0 .. Len(Order(t)) - 1 :
    ~Bad(Laid(t), Order(t)[i + 1]) =>
      /\ flattenNode(Laid(t), i, toks) \in Seq(WriteSet(Values(t, toks)))
      /\ \A w : Occurs(w, flattenNode(Laid(t), i, toks)) <=> NodeWrite(t, toks, w, i)
<1> SUFFICES ASSUME NEW t, NEW toks, IsDocument(t), EdgeTable(F.edges), NEW i \in 0 .. Len(Order(t)) - 1,
                    ~Bad(Laid(t), Order(t)[i + 1])
             PROVE  /\ flattenNode(Laid(t), i, toks) \in Seq(WriteSet(Values(t, toks)))
                    /\ \A w : Occurs(w, flattenNode(Laid(t), i, toks)) <=> NodeWrite(t, toks, w, i)
  OBVIOUS
<1> DEFINE V == Values(t, toks)
           R == WriteSet(V)
           v == Order(t)[i + 1]
           p == flattenEdges(Laid(t), i)
           x == TokenWrites(t, v, i)
           y == IdWrites(t, v, i, toks)
           z == AttrWrites(t, v, i)
           q == x \o y
           r == q \o z
           s == p \o r
<1>1. i \in Nat /\ v \in Nodes(t)
  BY DocumentsGrow, OrderIsQueued, ChildOfNode
<1>2. flattenNode(Laid(t), i, toks) = s
  BY NodeIs
<1>3. Int \subseteq V
  BY DEF Values
<1>4. p \in Seq(R) /\ \A w : Occurs(w, p) <=> InLists(t, F.edges, w, i)
  <2> HIDE DEF V
  <2>1. QED
    BY <1>3, EdgeWritesOf DEF InLists
<1>5. x \in Seq(R) /\ \A w : Occurs(w, x) <=> IsTokenWrite(t, v, i, w)
  BY <1>1, TokenWritesOf
<1>6. y \in Seq(R) /\ \A w : Occurs(w, y) <=> IsIdWrite(t, v, i, toks, w)
  BY <1>1, IdWritesOf
<1>7. z \in Seq(R) /\ \A w : Occurs(w, z) <=> \E a \in ToSet(t.attrs[v]) : IsAttrWrite(t, v, i, a, w)
  BY <1>1, AttrWritesOf
<1> HIDE DEF R, p, x, y, z
<1>8. q \in Seq(R) /\ \A w : Occurs(w, q) <=> Occurs(w, x) \/ Occurs(w, y)
  BY <1>5, <1>6, OccursEnds
<1> HIDE DEF q
<1>9. r \in Seq(R) /\ \A w : Occurs(w, r) <=> Occurs(w, q) \/ Occurs(w, z)
  BY <1>7, <1>8, OccursEnds
<1> HIDE DEF r
<1>10. s \in Seq(R) /\ \A w : Occurs(w, s) <=> Occurs(w, p) \/ Occurs(w, r)
  BY <1>4, <1>9, OccursEnds
<1> HIDE DEF s
<1>11. ASSUME NEW w PROVE Occurs(w, s) <=> NodeWrite(t, toks, w, i)
  <2>1. Occurs(w, s) <=> Occurs(w, p) \/ Occurs(w, x) \/ Occurs(w, y) \/ Occurs(w, z)
    BY <1>8, <1>9, <1>10
  <2>2. Occurs(w, z) <=> InAttrs(t, w, i)
    BY <1>7 DEF InAttrs
  <2>3. QED
    BY <1>4, <1>5, <1>6, <2>1, <2>2 DEF NodeWrite
<1>12. QED
  BY <1>2, <1>10, <1>11 DEF R

\* flatten stops before the end, or reaches it.
LEMMA ReachedBound == \A t : treeSize(t) \in Nat => Reached(t) \in 0 .. treeSize(t)
<1> SUFFICES ASSUME NEW t, treeSize(t) \in Nat PROVE Reached(t) \in 0 .. treeSize(t)
  OBVIOUS
<1> DEFINE n == treeSize(t)
           S == {i \in 0 .. n - 1 : Bad(t, t.order[i + 1])}
           k == Min(S)
<1>1. Reached(t) = IF S = {} THEN n ELSE k
  BY DEF Reached
<1>2. S \in SUBSET Nat /\ \A x \in S : x \in 0 .. n - 1
  OBVIOUS
<1> HIDE DEF S
<1>3. S # {} => k \in S
  BY <1>2, LeastOf
<1> HIDE DEF k, n
<1>4. n \in Nat
  BY DEF n
<1>5. Reached(t) \in 0 .. n
  <2>1. CASE S = {}
    <3>1. Reached(t) = n
      BY <1>1, <2>1
    <3>2. QED
      BY <1>4, <3>1
  <2>2. CASE S # {}
    <3>1. Reached(t) = k /\ k \in 0 .. n - 1
      BY <1>1, <1>2, <1>3, <2>2
    <3>2. QED
      BY <1>4, <3>1
  <2>3. QED
    BY <2>1, <2>2
<1>6. QED
  BY <1>5 DEF n

\* When no node throws, all are good.
LEMMA ReachedAll ==
  \A t : IsDocument(t) /\ Reached(Laid(t)) = treeSize(t) =>
    \A i \in 0 .. treeSize(t) - 1 : ~Bad(Laid(t), Order(t)[i + 1])
<1> SUFFICES ASSUME NEW t, IsDocument(t), Reached(Laid(t)) = treeSize(t), NEW i \in 0 .. treeSize(t) - 1,
                    Bad(Laid(t), Order(t)[i + 1])
             PROVE  FALSE
  OBVIOUS
<1> DEFINE T == Laid(t)
           n == treeSize(t)
           S == {j \in 0 .. n - 1 : Bad(T, Order(t)[j + 1])}
           k == Min(S)
<1>1. T.order = Order(t) /\ treeSize(T) = n
  BY LaidFields
<1>2. n \in Nat
  BY ListsTyped
<1>3. Reached(T) = IF S = {} THEN n ELSE k
  BY <1>1 DEF Reached
<1>4. i \in S
  OBVIOUS
<1>5. k \in S
  <2>1. S \in SUBSET Nat
    OBVIOUS
  <2> HIDE DEF S
  <2>2. QED
    BY <1>4, <2>1, LeastOf
<1> HIDE DEF k, T
<1>6. k \in 0 .. n - 1
  BY <1>5
<1>7. Reached(T) = k /\ Reached(T) = n
  BY <1>3, <1>4 DEF T
<1> HIDE DEF n
<1>8. QED
  BY <1>2, <1>6, <1>7

\* The writes of a load that goes through.
AllWrites(t, toks) == FlattenSeq([i \in 1 .. treeSize(t) |-> flattenNode(Laid(t), i - 1, toks)])
\* The buffers of such a load.
LEMMA FlattenedIs ==
  \A t, toks : IsDocument(t) /\ Reached(Laid(t)) = treeSize(t) =>
    Flattened(Laid(t), toks)
      = [b \in Buffers |-> Image(AllWrites(t, toks), b, treeSize(t), F.sizes[b] * treeSize(t))]
<1> SUFFICES ASSUME NEW t, NEW toks, IsDocument(t), Reached(Laid(t)) = treeSize(t)
             PROVE  Flattened(Laid(t), toks)
                      = [b \in Buffers |-> Image(AllWrites(t, toks), b, treeSize(t), F.sizes[b] * treeSize(t))]
  OBVIOUS
<1> DEFINE T == Laid(t)
           n == treeSize(t)
<1>1. treeSize(T) = n /\ Reached(T) = n
  BY LaidFields
<1>2. n \in Nat
  BY ListsTyped
<1> HIDE DEF n, T
<1>3. Min({n, n + 1}) = n
  <2> DEFINE S == {n, n + 1}
  <2>1. S \in SUBSET Nat /\ n \in S /\ \A x \in S : x = n \/ x = n + 1
    BY <1>2
  <2> HIDE DEF S
  <2>2. Min(S) \in S /\ Min(S) <= n
    BY <2>1, LeastOf
  <2>3. Min(S) = n
    <3> DEFINE k == Min(S)
    <3>1. (k = n \/ k = n + 1) /\ k <= n
      BY <2>1, <2>2
    <3> HIDE DEF k
    <3>2. k = n
      BY <1>2, <3>1
    <3>3. QED
      BY <3>2 DEF k
  <2>4. QED
    BY <2>3 DEF S
<1>4. Flattened(T, toks)
        = [b \in Buffers |->
             Image(FlattenSeq([i \in 1 .. n |-> flattenNode(T, i - 1, toks)]), b, n, F.sizes[b] * n)]
  BY <1>1, <1>3 DEF Flattened
<1>5. AllWrites(t, toks) = FlattenSeq([i \in 1 .. n |-> flattenNode(T, i - 1, toks)])
  BY DEF AllWrites, n, T
<1>6. QED
  BY <1>4, <1>5 DEF n, T

\* All writes of all nodes.
LEMMA AllWritesOf ==
  \A t, toks : IsDocument(t) /\ EdgeTable(F.edges) /\ Reached(Laid(t)) = treeSize(t) =>
    /\ AllWrites(t, toks) \in Seq(WriteSet(Values(t, toks)))
    /\ \A w : Occurs(w, AllWrites(t, toks)) <=> \E i \in 0 .. treeSize(t) - 1 : NodeWrite(t, toks, w, i)
<1> SUFFICES ASSUME NEW t, NEW toks, IsDocument(t), EdgeTable(F.edges), Reached(Laid(t)) = treeSize(t)
             PROVE  /\ AllWrites(t, toks) \in Seq(WriteSet(Values(t, toks)))
                    /\ \A w : Occurs(w, AllWrites(t, toks))
                                <=> \E i \in 0 .. treeSize(t) - 1 : NodeWrite(t, toks, w, i)
  OBVIOUS
<1> DEFINE R == WriteSet(Values(t, toks))
           D == Seq(R)
           n == treeSize(t)
           P(w, i) == NodeWrite(t, toks, w, i)
           f(i) == flattenNode(Laid(t), i, toks)
           G == [i \in 1 .. n |-> f(i - 1)]
           W == AllWrites(t, toks)
<1>1. n \in Nat /\ n = Len(Order(t))
  BY ListsTyped, DocumentsGrow, OrderIsQueued, OrderIsWhole
<1>2. \A i \in 0 .. n - 1 : f(i) \in D /\ \A w : Occurs(w, f(i)) <=> P(w, i)
  <2>1. \A i \in 0 .. n - 1 : i \in 0 .. Len(Order(t)) - 1 /\ ~Bad(Laid(t), Order(t)[i + 1])
    BY <1>1, ReachedAll
  <2>2. QED
    BY <2>1, NodeWritesOf
<1>3. W = FlattenSeq(G)
  BY DEF AllWrites
<1> HIDE DEF f, R, D, n, P, W
<1>4. \A i \in 1 .. n : i - 1 \in 0 .. n - 1
  BY <1>1
<1>5. G \in [1 .. n -> D] /\ \A i \in 1 .. n : G[i] = f(i - 1)
  BY <1>2, <1>4
<1> HIDE DEF G
<1>6. G \in Seq(D) /\ Len(G) = n
  BY <1>1, <1>5, OccursMany
<1>7. W \in D /\ \A w : Occurs(w, W) <=> OccursIn(w, G)
  BY <1>3, <1>6, FlattenAppend, FlattenElements DEF D
<1>8. ASSUME NEW i \in 0 .. n - 1, NEW w, P(w, i) PROVE Occurs(w, W)
  <2>1. i + 1 \in 1 .. n /\ (i + 1) - 1 = i
    BY <1>1
  <2>2. Occurs(w, f(i))
    BY <1>2, <1>8
  <2>3. G[i + 1] = f(i)
    BY <1>5, <2>1
  <2>4. OccursIn(w, G)
    BY <1>6, <2>1, <2>2, <2>3 DEF OccursIn
  <2>5. QED
    BY <1>7, <2>4
<1>9. ASSUME NEW w, Occurs(w, W) PROVE \E i \in 0 .. n - 1 : P(w, i)
  <2>1. PICK i \in 1 .. n : Occurs(w, G[i])
    BY <1>6, <1>7, <1>9 DEF OccursIn
  <2>2. i - 1 \in 0 .. n - 1 /\ Occurs(w, f(i - 1))
    BY <1>4, <1>5, <2>1
  <2> DEFINE h == i - 1
  <2> HIDE DEF h
  <2>3. h \in 0 .. n - 1 /\ Occurs(w, f(h))
    BY <2>2 DEF h
  <2>4. QED
    BY <1>2, <2>3
<1>10. QED
  BY <1>7, <1>8, <1>9 DEF D, R, n, P, W

-----------------------------------------------------------------------------
(* The writes do not overwrite each other.                                 *)

\* The leftmost child of a list, and an edge of one of its objects.
HeadWrite(t, E, w, i, g) ==
  /\ i \in 0 .. Len(Order(t)) - 1 /\ g \in 1 .. Len(t.kids[Order(t)[i + 1]])
  /\ w = Write("nodeindex", ListCol(t, E, Order(t)[i + 1], g), i,
               (Firsts(t)[i] + Rolls(t, Order(t)[i + 1])[g - 1]) - i)
SlotWrite(t, E, w, i, g, c, x, a) ==
  /\ Slot(t, Order(t), Firsts(t), i, g, c, x) /\ a \in SlotNames
  /\ w = Write("nodeindex", E[a], x,
               SlotVal(a, i, c, Len(ListAt(t, Order(t)[i + 1], g)), Rolls(t, Order(t)[i + 1])[g - 1]))

\* The first is among the writes of a list.
LEMMA HeadIsListed == \A t, E, w, i, g : HeadWrite(t, E, w, i, g) => InLists(t, E, w, i)
<1> SUFFICES ASSUME NEW t, NEW E, NEW w, NEW i, NEW g, HeadWrite(t, E, w, i, g)
             PROVE  InLists(t, E, w, i)
  OBVIOUS
<1> DEFINE v == Order(t)[i + 1]
           r == Rolls(t, v)[g - 1]
           first == Firsts(t)[i] + r
           n == Len(ListAt(t, v, g))
           k == Write("nodeindex", E.kids[t.class[v]][t.kids[v][g].lbl], i, first - i)
<1>1. g \in 1 .. Len(t.kids[v]) /\ w = k
  BY Zenon DEF HeadWrite, ListCol
<1>2. IsListWrite(E, w, i, t.kids[v][g].lbl, t.class[v], first, n, r)
                <=> \/ w = k
                    \/ \E c \in 1 .. n : \E a \in SlotNames : IsSlotWrite(E, w, i, first, n, r, a, c)
  BY Zenon DEF IsListWrite
<1>3. ListWrite(t, E, w, i, g) <=> IsListWrite(E, w, i, t.kids[v][g].lbl, t.class[v], first, n, r)
  BY Zenon DEF ListWrite
<1>4. QED
  BY <1>1, <1>2, <1>3, Zenon DEF InLists

\* So is an edge of one of its objects.
LEMMA SlotIsListed ==
  \A t : IsDocument(t) => \A E, w, i, g, c, x, a : SlotWrite(t, E, w, i, g, c, x, a) => InLists(t, E, w, i)
<1> SUFFICES ASSUME NEW t, IsDocument(t), NEW E, NEW w, NEW i, NEW g, NEW c, NEW x, NEW a,
                    SlotWrite(t, E, w, i, g, c, x, a)
             PROVE  InLists(t, E, w, i)
  OBVIOUS
<1> DEFINE v == Order(t)[i + 1]
           first == Firsts(t)[i] + Rolls(t, v)[g - 1]
           n == Len(ListAt(t, v, g))
           r == Rolls(t, v)[g - 1]
<1>1. /\ i \in 0 .. Len(Order(t)) - 1 /\ g \in 1 .. Len(t.kids[v]) /\ c \in 1 .. n
      /\ x = first + c - 1 /\ a \in SlotNames /\ w = Write("nodeindex", E[a], x, SlotVal(a, i, c, n, r))
  BY DEF SlotWrite, Slot
<1>2. x = first + (c - 1)
  BY <1>1
<1> HIDE DEF first, n, r
<1>3. IsSlotWrite(E, w, i, first, n, r, a, c)
  BY <1>1, <1>2 DEF IsSlotWrite
<1>4. IsListWrite(E, w, i, t.kids[v][g].lbl, t.class[v], first, n, r)
  BY <1>1, <1>3 DEF IsListWrite
<1>5. ListWrite(t, E, w, i, g)
  BY <1>4 DEF ListWrite, first, n, r
<1>6. QED
  BY <1>1, <1>5 DEF InLists

\* There are no others.
LEMMA ListedIs ==
  \A t : IsDocument(t) => \A E, w : \A i \in 0 .. Len(Order(t)) - 1 : InLists(t, E, w, i) =>
    \/ \E g : HeadWrite(t, E, w, i, g)
    \/ \E g, c, x, a : SlotWrite(t, E, w, i, g, c, x, a)
<1> SUFFICES ASSUME NEW t, IsDocument(t), NEW E, NEW w, NEW i \in 0 .. Len(Order(t)) - 1, InLists(t, E, w, i)
             PROVE  \/ \E g : HeadWrite(t, E, w, i, g)
                    \/ \E g, c, x, a : SlotWrite(t, E, w, i, g, c, x, a)
  OBVIOUS
<1>1. PICK g \in 1 .. Len(t.kids[Order(t)[i + 1]]) : ListWrite(t, E, w, i, g)
  BY DEF InLists
<1> DEFINE v == Order(t)[i + 1]
           first == Firsts(t)[i] + Rolls(t, v)[g - 1]
           n == Len(ListAt(t, v, g))
           r == Rolls(t, v)[g - 1]
<1>2. \/ w = Write("nodeindex", ListCol(t, E, v, g), i, first - i)
      \/ \E c \in 1 .. n : \E a \in SlotNames : IsSlotWrite(E, w, i, first, n, r, a, c)
  BY <1>1 DEF ListWrite, IsListWrite, ListCol
<1>3. CASE w = Write("nodeindex", ListCol(t, E, v, g), i, first - i)
  <2>1. HeadWrite(t, E, w, i, g)
    BY <1>1, <1>3, Zenon DEF HeadWrite
  <2>2. QED
    BY <2>1
<1>4. CASE \E c \in 1 .. n : \E a \in SlotNames : IsSlotWrite(E, w, i, first, n, r, a, c)
  <2>1. PICK c \in 1 .. n, a \in SlotNames : IsSlotWrite(E, w, i, first, n, r, a, c)
    BY <1>4
  <2> DEFINE x == first + c - 1
  <2>2. x = first + (c - 1)
    OBVIOUS
  <2>3. Slot(t, Order(t), Firsts(t), i, g, c, x)
    BY DEF Slot
  <2> HIDE DEF x, first, n, r
  <2>4. w = Write("nodeindex", E[a], x, SlotVal(a, i, c, n, r))
    BY <2>1, <2>2 DEF IsSlotWrite
  <2>5. SlotWrite(t, E, w, i, g, c, x, a)
    BY <2>3, <2>4 DEF SlotWrite, n, r
  <2>6. QED
    BY <2>5
<1>5. QED
  BY <1>2, <1>3, <1>4

\* A document whose lists all have a column.
Declares(t, E) ==
  \A i \in 0 .. Len(Order(t)) - 1 : \A g \in 1 .. Len(t.kids[Order(t)[i + 1]]) :
    /\ t.class[Order(t)[i + 1]] \in DOMAIN E.kids
    /\ t.kids[Order(t)[i + 1]][g].lbl \in DOMAIN E.kids[t.class[Order(t)[i + 1]]]
\* A load that does not throw is of such a document.
LEMMA GoodDeclares ==
  \A t : IsDocument(t) /\ Reached(Laid(t)) = treeSize(t) => Declares(t, F.edges)
<1> SUFFICES ASSUME NEW t, IsDocument(t), Reached(Laid(t)) = treeSize(t),
                    NEW i \in 0 .. Len(Order(t)) - 1, NEW g \in 1 .. Len(t.kids[Order(t)[i + 1]])
             PROVE  /\ t.class[Order(t)[i + 1]] \in DOMAIN F.edges.kids
                    /\ t.kids[Order(t)[i + 1]][g].lbl \in DOMAIN F.edges.kids[t.class[Order(t)[i + 1]]]
  BY DEF Declares
<1> DEFINE v == Order(t)[i + 1]
           T == Laid(t)
<1>1. Len(Order(t)) = treeSize(t) /\ v \in Nodes(t)
  BY DocumentsGrow, OrderIsQueued, OrderIsWhole, ChildOfNode
<1>2. i \in 0 .. treeSize(t) - 1
  BY <1>1
<1>3. ~Bad(T, v)
  BY <1>2, ReachedAll
<1>4. T.kids = t.kids /\ T.class = t.class
  BY LaidFields
<1>5. Len(t.kids[v]) \in Nat /\ DOMAIN t.kids[v] = 1 .. Len(t.kids[v])
  BY <1>1, ListsTyped
<1> HIDE DEF T
<1>6. Len(T.kids[v]) \in Nat /\ DOMAIN T.kids[v] = 1 .. Len(T.kids[v]) /\ g \in 1 .. Len(T.kids[v])
  BY <1>4, <1>5
<1>7. T.class[v] \in DOMAIN F.edges.kids /\ T.kids[v][g].lbl \in DOMAIN F.edges.kids[T.class[v]]
  BY <1>3, <1>6, GoodNode
<1>8. QED
  BY <1>4, <1>7

\* The cell of a list's head: a column of its own.
LEMMA HeadCell ==
  \A t, E : IsDocument(t) /\ EdgeTable(E) /\ Declares(t, E) => \A w, i, g : HeadWrite(t, E, w, i, g) =>
    /\ w.buf = "nodeindex" /\ w.idx = i /\ i \in 0 .. treeSize(t) - 1 /\ w.col \in Nat
    /\ w.val = (Firsts(t)[i] + Rolls(t, Order(t)[i + 1])[g - 1]) - i
    /\ w.col = ListCol(t, E, Order(t)[i + 1], g) /\ \A a \in EdgeNames : w.col # E[a]
<1> SUFFICES ASSUME NEW t, NEW E, IsDocument(t), EdgeTable(E), Declares(t, E), NEW w, NEW i, NEW g,
                    HeadWrite(t, E, w, i, g)
             PROVE  /\ w.buf = "nodeindex" /\ w.idx = i /\ i \in 0 .. treeSize(t) - 1 /\ w.col \in Nat
                    /\ w.val = (Firsts(t)[i] + Rolls(t, Order(t)[i + 1])[g - 1]) - i
                    /\ w.col = ListCol(t, E, Order(t)[i + 1], g) /\ \A a \in EdgeNames : w.col # E[a]
  OBVIOUS
<1> DEFINE v == Order(t)[i + 1]
           l == ListCol(t, E, v, g)
           y == (Firsts(t)[i] + Rolls(t, v)[g - 1]) - i
<1>1. i \in 0 .. Len(Order(t)) - 1 /\ g \in 1 .. Len(t.kids[v]) /\ w = Write("nodeindex", l, i, y)
  BY Zenon DEF HeadWrite
<1>2. t.class[v] \in DOMAIN E.kids /\ t.kids[v][g].lbl \in DOMAIN E.kids[t.class[v]]
  BY <1>1 DEF Declares
<1>3. l \in Nat /\ \A a \in EdgeNames : l # E[a]
  <2>1. \A d \in DOMAIN E.kids : \A b \in DOMAIN E.kids[d] :
          E.kids[d][b] \in Nat /\ \A a \in EdgeNames : E.kids[d][b] # E[a]
    BY DEF EdgeTable
  <2> HIDE DEF v
  <2>2. QED
    BY <1>2, <2>1 DEF ListCol
<1>4. Len(Order(t)) = treeSize(t)
  BY DocumentsGrow, OrderIsQueued, OrderIsWhole
<1> HIDE DEF l, y
<1>5. w.buf = "nodeindex" /\ w.idx = i /\ w.col = l /\ w.val = y
  BY <1>1 DEF Write
<1>6. QED
  BY <1>1, <1>3, <1>4, <1>5 DEF l, y

\* The cell of an edge.
LEMMA SlotCell ==
  \A t, E : IsDocument(t) /\ EdgeTable(E) => \A w, i, g, c, x, a : SlotWrite(t, E, w, i, g, c, x, a) =>
    /\ w.buf = "nodeindex" /\ w.idx = x /\ x \in 0 .. treeSize(t) - 1 /\ w.col \in Nat /\ w.col = E[a]
    /\ a \in SlotNames /\ a \in EdgeNames /\ a # "id" /\ Slot(t, Order(t), Firsts(t), i, g, c, x)
    /\ w.val = SlotVal(a, i, c, Len(ListAt(t, Order(t)[i + 1], g)), Rolls(t, Order(t)[i + 1])[g - 1])
<1> SUFFICES ASSUME NEW t, NEW E, IsDocument(t), EdgeTable(E), NEW w, NEW i, NEW g, NEW c, NEW x, NEW a,
                    SlotWrite(t, E, w, i, g, c, x, a)
             PROVE  /\ w.buf = "nodeindex" /\ w.idx = x /\ x \in 0 .. treeSize(t) - 1 /\ w.col \in Nat
                    /\ w.col = E[a]
                    /\ a \in SlotNames /\ a \in EdgeNames /\ a # "id"
                    /\ Slot(t, Order(t), Firsts(t), i, g, c, x)
                    /\ w.val = SlotVal(a, i, c, Len(ListAt(t, Order(t)[i + 1], g)), Rolls(t, Order(t)[i + 1])[g - 1])
  OBVIOUS
<1> DEFINE v == Order(t)[i + 1]
           y == SlotVal(a, i, c, Len(ListAt(t, v, g)), Rolls(t, v)[g - 1])
<1>1. Slot(t, Order(t), Firsts(t), i, g, c, x) /\ a \in SlotNames /\ w = Write("nodeindex", E[a], x, y)
  BY DEF SlotWrite
<1>2. a \in EdgeNames /\ a # "id"
  BY <1>1 DEF SlotNames, EdgeNames
<1>3. E[a] \in Nat
  BY <1>2 DEF EdgeTable
<1>4. x \in 1 .. Len(Order(t)) - 1
  BY <1>1, DocumentsGrow, OrderIsQueued, SlotsOf DEF SlotOf
<1>5. Len(Order(t)) = treeSize(t) /\ treeSize(t) \in Nat
  BY DocumentsGrow, OrderIsQueued, OrderIsWhole, ListsTyped
<1>6. x \in 0 .. treeSize(t) - 1
  BY <1>4, <1>5
<1> HIDE DEF y
<1>7. w.buf = "nodeindex" /\ w.idx = x /\ w.col = E[a] /\ w.val = y
  BY <1>1 DEF Write
<1>8. QED
  BY <1>1, <1>2, <1>3, <1>6, <1>7 DEF y

\* Two lists with their heads in one cell are one.
LEMMA HeadsAgree ==
  \A t, E : IsDocument(t) /\ EdgeTable(E) /\ Declares(t, E) =>
    \A w, u, i, g, h, k : HeadWrite(t, E, w, i, g) /\ HeadWrite(t, E, u, h, k)
                            /\ w.col = u.col /\ w.idx = u.idx => u.val = w.val
<1> SUFFICES ASSUME NEW t, NEW E, IsDocument(t), EdgeTable(E), Declares(t, E),
                    NEW w, NEW u, NEW i, NEW g, NEW h, NEW k,
                    HeadWrite(t, E, w, i, g), HeadWrite(t, E, u, h, k), w.col = u.col, w.idx = u.idx
             PROVE  u.val = w.val
  OBVIOUS
<1> DEFINE v == Order(t)[i + 1]
<1>1. /\ w.idx = i /\ w.col = ListCol(t, E, v, g)
      /\ w.val = (Firsts(t)[i] + Rolls(t, v)[g - 1]) - i
  BY HeadCell
<1>2. /\ u.idx = h /\ u.col = ListCol(t, E, Order(t)[h + 1], k)
      /\ u.val = (Firsts(t)[h] + Rolls(t, Order(t)[h + 1])[k - 1]) - h
  BY HeadCell
<1>3. i = h /\ ListCol(t, E, v, g) = ListCol(t, E, v, k)
  BY <1>1, <1>2
<1>4. i \in 0 .. Len(Order(t)) - 1 /\ g \in 1 .. Len(t.kids[v]) /\ k \in 1 .. Len(t.kids[v])
  BY <1>3 DEF HeadWrite
<1>5. /\ t.class[v] \in DOMAIN E.kids /\ t.kids[v][g].lbl \in DOMAIN E.kids[t.class[v]]
      /\ t.kids[v][k].lbl \in DOMAIN E.kids[t.class[v]]
  BY <1>4 DEF Declares
<1>6. t.kids[v][g].lbl = t.kids[v][k].lbl
  <2>1. \A d \in DOMAIN E.kids : \A b, p \in DOMAIN E.kids[d] : E.kids[d][b] = E.kids[d][p] => b = p
    BY DEF EdgeTable
  <2> HIDE DEF v
  <2>2. QED
    BY <1>3, <1>5, <2>1 DEF ListCol
<1>7. v \in Nodes(t) /\ DOMAIN t.kids[v] = 1 .. Len(t.kids[v])
  BY <1>4, DocumentsGrow, OrderIsQueued, ChildOfNode, ListsTyped
<1>8. g = k
  <2>1. \A y \in Nodes(t) : \A p, q \in DOMAIN t.kids[y] : t.kids[y][p].lbl = t.kids[y][q].lbl => p = q
    BY DEF IsDocument, Nodes
  <2> HIDE DEF v
  <2>2. QED
    BY <1>4, <1>6, <1>7, <2>1
<1>9. QED
  BY <1>1, <1>2, <1>3, <1>8

\* Two edges in one cell are one.
LEMMA SlotsAgree ==
  \A t, E : IsDocument(t) /\ EdgeTable(E) =>
    \A w, u, i, g, c, x, a, h, k, d, y, b :
      SlotWrite(t, E, w, i, g, c, x, a) /\ SlotWrite(t, E, u, h, k, d, y, b) /\ w.col = u.col /\ w.idx = u.idx
        => u.val = w.val
<1> SUFFICES ASSUME NEW t, NEW E, IsDocument(t), EdgeTable(E),
                    NEW w, NEW u, NEW i, NEW g, NEW c, NEW x, NEW a, NEW h, NEW k, NEW d, NEW y, NEW b,
                    SlotWrite(t, E, w, i, g, c, x, a), SlotWrite(t, E, u, h, k, d, y, b),
                    w.col = u.col, w.idx = u.idx
             PROVE  u.val = w.val
  OBVIOUS
<1>1. /\ w.idx = x /\ w.col = E[a] /\ a \in EdgeNames /\ Slot(t, Order(t), Firsts(t), i, g, c, x)
      /\ w.val = SlotVal(a, i, c, Len(ListAt(t, Order(t)[i + 1], g)), Rolls(t, Order(t)[i + 1])[g - 1])
  BY SlotCell
<1>2. /\ u.idx = y /\ u.col = E[b] /\ b \in EdgeNames /\ Slot(t, Order(t), Firsts(t), h, k, d, y)
      /\ u.val = SlotVal(b, h, d, Len(ListAt(t, Order(t)[h + 1], k)), Rolls(t, Order(t)[h + 1])[k - 1])
  BY SlotCell
<1>3. a = b /\ x = y
  BY <1>1, <1>2 DEF EdgeTable
<1>4. i = h /\ g = k /\ c = d
  BY <1>1, <1>2, <1>3, DocumentsGrow, OrderIsQueued, SlotsDiffer
<1>5. QED
  BY <1>1, <1>2, <1>3, <1>4

\* Writes of edges into the same cell agree.
EdgeWrite(t, E, w) ==
  \/ \E i, g : HeadWrite(t, E, w, i, g)
  \/ \E i, g, c, x, a : SlotWrite(t, E, w, i, g, c, x, a)
EdgeCell(t, E, w) ==
  /\ w.buf = "nodeindex" /\ w.idx \in 0 .. treeSize(t) - 1 /\ w.col \in Nat
  /\ w.col # E.id
\* An edge is written into its buffer, at the index of a node, and not where the ids are.
LEMMA EdgeCells ==
  \A t, E : IsDocument(t) /\ EdgeTable(E) /\ Declares(t, E) => \A w : EdgeWrite(t, E, w) => EdgeCell(t, E, w)
<1> SUFFICES ASSUME NEW t, NEW E, IsDocument(t), EdgeTable(E), Declares(t, E), NEW w, EdgeWrite(t, E, w)
             PROVE  EdgeCell(t, E, w)
  OBVIOUS
<1>1. "id" \in EdgeNames
  BY DEF EdgeNames
<1>2. ASSUME NEW i, NEW g, HeadWrite(t, E, w, i, g) PROVE EdgeCell(t, E, w)
  BY <1>1, <1>2, HeadCell DEF EdgeCell
<1>3. ASSUME NEW i, NEW g, NEW c, NEW x, NEW a, SlotWrite(t, E, w, i, g, c, x, a) PROVE EdgeCell(t, E, w)
  <2>1. /\ w.buf = "nodeindex" /\ w.idx \in 0 .. treeSize(t) - 1 /\ w.col \in Nat /\ w.col = E[a]
        /\ a \in EdgeNames /\ a # "id"
    BY <1>3, SlotCell
  <2>2. E[a] = E["id"] => a = "id"
    BY <1>1, <2>1 DEF EdgeTable
  <2>3. QED
    BY <2>1, <2>2 DEF EdgeCell
<1>4. QED
  BY <1>2, <1>3 DEF EdgeWrite

\* Two writes of edges.
LEMMA EdgesAgree ==
  \A t, E : IsDocument(t) /\ EdgeTable(E) /\ Declares(t, E) =>
    \A w, u : EdgeWrite(t, E, w) /\ EdgeWrite(t, E, u) /\ w.col = u.col /\ w.idx = u.idx => u.val = w.val
<1> SUFFICES ASSUME NEW t, NEW E, IsDocument(t), EdgeTable(E), Declares(t, E), NEW w, NEW u,
                    EdgeWrite(t, E, w), EdgeWrite(t, E, u), w.col = u.col, w.idx = u.idx
             PROVE  u.val = w.val
  OBVIOUS
<1>1. ASSUME NEW y, NEW z, NEW i, NEW g, NEW h, NEW k, NEW d, NEW x, NEW a,
             HeadWrite(t, E, y, i, g), SlotWrite(t, E, z, h, k, d, x, a), y.col = z.col
      PROVE  FALSE
  <2>1. \A b \in EdgeNames : y.col # E[b]
    BY <1>1, HeadCell
  <2>2. z.col = E[a] /\ a \in EdgeNames
    BY <1>1, SlotCell
  <2>3. QED
    BY <1>1, <2>1, <2>2
<1>2. CASE \E i, g : HeadWrite(t, E, w, i, g)
  <2>1. PICK i, g : HeadWrite(t, E, w, i, g)
    BY <1>2
  <2>2. PICK h, k : HeadWrite(t, E, u, h, k)
    BY <1>1, <2>1 DEF EdgeWrite
  <2>3. QED
    BY <2>1, <2>2, HeadsAgree
<1>3. CASE \E i, g, c, x, a : SlotWrite(t, E, w, i, g, c, x, a)
  <2>1. PICK i, g, c, x, a : SlotWrite(t, E, w, i, g, c, x, a)
    BY <1>3
  <2>2. PICK h, k, d, y, b : SlotWrite(t, E, u, h, k, d, y, b)
    BY <1>1, <2>1 DEF EdgeWrite
  <2>3. QED
    BY <2>1, <2>2, SlotsAgree
<1>4. QED
  BY <1>2, <1>3 DEF EdgeWrite

IdCell(E, w, i) == w.col = E.id /\ w.idx = i
\* What else is written into the buffer of the edges is the column of the ids.
LEMMA NodeIndexWrites ==
  \A t : IsDocument(t) => \A toks, w : \A i \in 0 .. Len(Order(t)) - 1 :
    NodeWrite(t, toks, w, i) /\ w.buf = "nodeindex" => InLists(t, F.edges, w, i) \/ IdCell(F.edges, w, i)
<1> SUFFICES ASSUME NEW t, IsDocument(t), NEW toks, NEW w, NEW i \in 0 .. Len(Order(t)) - 1,
                    NodeWrite(t, toks, w, i), w.buf = "nodeindex"
             PROVE  InLists(t, F.edges, w, i) \/ IdCell(F.edges, w, i)
  OBVIOUS
<1> DEFINE v == Order(t)[i + 1]
<1>1. v \in Nodes(t)
  BY DocumentsGrow, OrderIsQueued, ChildOfNode
<1>2. \A b, c, x, y : Write(b, c, x, y).buf = b /\ Write(b, c, x, y).col = c /\ Write(b, c, x, y).idx = x
  BY DEF Write
<1>3. ~IsTokenWrite(t, v, i, w)
  BY <1>2 DEF IsTokenWrite
<1>4. ~InAttrs(t, w, i)
  <2>1. \A a \in ToSet(t.attrs[v]) : a.buf \in {"int", "float"}
    BY <1>1 DEF IsDocument, Nodes
  <2>2. QED
    BY <1>2, <2>1 DEF InAttrs, IsAttrWrite
<1>5. IsIdWrite(t, v, i, toks, w) => IdCell(F.edges, w, i)
  BY <1>2 DEF IsIdWrite, IdCell
<1>6. QED
  BY <1>3, <1>4, <1>5 DEF NodeWrite

\* A write of an edge is one of the load's, and none of the load's contradicts it.
Settled(t, E, W) ==
  \A w : EdgeWrite(t, E, w) => Occurs(w, W) /\ w.buf = "nodeindex" /\ Agreed(W, "nodeindex", treeSize(t), w)
\* All edges of a load are settled: no two of its writes into a cell differ.
LEMMA EdgesSettled ==
  \A t, toks : IsDocument(t) /\ EdgeTable(F.edges) /\ Reached(Laid(t)) = treeSize(t) =>
    Settled(t, F.edges, AllWrites(t, toks))
<1> SUFFICES ASSUME NEW t, NEW toks, IsDocument(t), EdgeTable(F.edges), Reached(Laid(t)) = treeSize(t)
             PROVE  Settled(t, F.edges, AllWrites(t, toks))
  OBVIOUS
<1> DEFINE E == F.edges
           W == AllWrites(t, toks)
           n == treeSize(t)
<1>1. n \in Nat /\ n = Len(Order(t)) /\ Declares(t, E)
  BY ListsTyped, DocumentsGrow, OrderIsQueued, OrderIsWhole, GoodDeclares
<1>2. /\ \A i \in 0 .. n - 1 : \A w : InLists(t, E, w, i) => Occurs(w, W)
      /\ \A w : Occurs(w, W) /\ w.buf = "nodeindex" =>
           \E i \in 0 .. n - 1 : InLists(t, E, w, i) \/ IdCell(E, w, i)
  <2>1. \A w : Occurs(w, W) <=> \E i \in 0 .. n - 1 : NodeWrite(t, toks, w, i)
    BY AllWritesOf
  <2>2. \A w : \A i \in 0 .. n - 1 : NodeWrite(t, toks, w, i) /\ w.buf = "nodeindex" =>
          InLists(t, E, w, i) \/ IdCell(E, w, i)
    BY <1>1, NodeIndexWrites
  <2>3. \A w, i : InLists(t, E, w, i) => NodeWrite(t, toks, w, i)
    BY DEF NodeWrite
  <2> HIDE DEF E, W
  <2>4. QED
    BY <2>1, <2>2, <2>3
<1> HIDE DEF E, W
<1>3. EdgeTable(E)
  BY DEF E
<1>4. ASSUME NEW w, EdgeWrite(t, E, w) PROVE Occurs(w, W)
  <2>1. ASSUME NEW i, NEW g, HeadWrite(t, E, w, i, g) PROVE Occurs(w, W)
    <3>1. i \in 0 .. n - 1
      BY <1>1, <2>1 DEF HeadWrite
    <3>2. InLists(t, E, w, i)
      BY <2>1, HeadIsListed
    <3>3. QED
      BY <1>2, <3>1, <3>2
  <2>2. ASSUME NEW i, NEW g, NEW c, NEW x, NEW a, SlotWrite(t, E, w, i, g, c, x, a) PROVE Occurs(w, W)
    <3>1. i \in 0 .. n - 1
      BY <1>1, <2>2 DEF SlotWrite, Slot
    <3>2. InLists(t, E, w, i)
      BY <2>2, SlotIsListed
    <3>3. QED
      BY <1>2, <3>1, <3>2
  <2>3. QED
    BY <1>4, <2>1, <2>2 DEF EdgeWrite
<1>5. ASSUME NEW u, Occurs(u, W), u.buf = "nodeindex"
      PROVE  EdgeWrite(t, E, u) \/ \E i \in 0 .. n - 1 : IdCell(E, u, i)
  <2>1. PICK i \in 0 .. n - 1 : InLists(t, E, u, i) \/ IdCell(E, u, i)
    BY <1>2, <1>5
  <2>2. CASE InLists(t, E, u, i)
    <3>1. \/ \E g : HeadWrite(t, E, u, i, g)
          \/ \E g, c, x, a : SlotWrite(t, E, u, i, g, c, x, a)
      BY <1>1, <2>2, ListedIs
    <3>2. QED
      BY <3>1 DEF EdgeWrite
  <2>3. QED
    BY <2>1, <2>2
<1>6. ASSUME NEW w, EdgeWrite(t, E, w), NEW u, Occurs(u, W), u.buf = "nodeindex", Offset(u, n) = Offset(w, n)
      PROVE  u.val = w.val
  <2>1. w.idx \in 0 .. n - 1 /\ w.col \in Nat /\ w.col # E.id
    BY <1>1, <1>3, <1>6, EdgeCells DEF EdgeCell
  <2>2. u.idx \in 0 .. n - 1 /\ u.col \in Nat
    <3>1. EdgeWrite(t, E, u) \/ \E i \in 0 .. n - 1 : IdCell(E, u, i)
      BY <1>5, <1>6
    <3>2. E.id \in Nat
      BY <1>3 DEF EdgeTable, EdgeNames
    <3>3. EdgeWrite(t, E, u) => u.idx \in 0 .. n - 1 /\ u.col \in Nat
      BY <1>1, <1>3, EdgeCells DEF EdgeCell
    <3>4. QED
      BY <3>1, <3>2, <3>3 DEF IdCell
  <2>3. u.col = w.col /\ u.idx = w.idx
    BY <1>1, <1>6, <2>1, <2>2, OneCell DEF Offset
  <2>4. EdgeWrite(t, E, u)
    BY <1>5, <1>6, <2>1, <2>3 DEF IdCell
  <2>5. QED
    BY <1>1, <1>3, <1>6, <2>3, <2>4, EdgesAgree
<1>7. ASSUME NEW w, EdgeWrite(t, E, w)
      PROVE  Occurs(w, W) /\ w.buf = "nodeindex" /\ Agreed(W, "nodeindex", n, w)
  <2>1. w.buf = "nodeindex"
    BY <1>1, <1>3, <1>7, EdgeCells DEF EdgeCell
  <2>2. Agreed(W, "nodeindex", n, w)
    BY <1>6, <1>7 DEF Agreed
  <2>3. QED
    BY <1>4, <1>7, <2>1, <2>2
<1>8. QED
  BY <1>7 DEF Settled, E, W

\* The memory of a load that goes through holds the edges.
LEMMA LoadHolds ==
  \A t, toks : IsDocument(t) /\ EdgeTable(F.edges) /\ Reached(Laid(t)) = treeSize(t) =>
    EdgesHold(t, F.edges, Flattened(Laid(t), toks)["nodeindex"])
<1> SUFFICES ASSUME NEW t, NEW toks, IsDocument(t), EdgeTable(F.edges), Reached(Laid(t)) = treeSize(t)
             PROVE  EdgesHold(t, F.edges, Flattened(Laid(t), toks)["nodeindex"])
  OBVIOUS
<1> DEFINE E == F.edges
           W == AllWrites(t, toks)
           n == treeSize(t)
           R == WriteSet(Values(t, toks))
           size == F.sizes["nodeindex"] * n
           N == Image(W, "nodeindex", n, size)
<1>1. Flattened(Laid(t), toks)["nodeindex"] = N
  <2>1. "nodeindex" \in Buffers
    BY DEF Buffers
  <2>2. Flattened(Laid(t), toks) = [b \in Buffers |-> Image(W, b, n, F.sizes[b] * n)]
    BY FlattenedIs
  <2>3. QED
    BY <2>1, <2>2
<1>2. W \in Seq(R) /\ Settled(t, E, W)
  BY AllWritesOf, EdgesSettled
<1>3. EdgeTable(E) /\ Declares(t, E)
  BY GoodDeclares
<1> HIDE DEF E, W, R, size
<1>4. ASSUME NEW w, EdgeWrite(t, E, w) PROVE Cell(N, n, w.col, w.idx) = w.val
  <2>1. Occurs(w, W) /\ w.buf = "nodeindex" /\ Agreed(W, "nodeindex", n, w)
    BY <1>2, <1>4 DEF Settled
  <2>2. N[Offset(w, n)] = w.val
    BY <1>2, <2>1, CellWritten
  <2>3. QED
    BY <2>2 DEF Offset, Cell
<1> HIDE DEF N
<1>5. ASSUME NEW i \in 0 .. Len(Order(t)) - 1, NEW g \in 1 .. Len(t.kids[Order(t)[i + 1]])
      PROVE  HeadHolds(t, E, N, i, g)
  <2> DEFINE v == Order(t)[i + 1]
             f == Firsts(t)[i]
             r == Rolls(t, v)[g - 1]
             l == ListCol(t, E, v, g)
             y == (f + r) - i
             w == Write("nodeindex", l, i, y)
  <2>1. HeadWrite(t, E, w, i, g)
    BY Zenon DEF HeadWrite
  <2>2. w.col = l /\ w.idx = i /\ w.val = y
    <3> HIDE DEF l, y
    <3>1. QED
      BY DEF Write
  <2>3. Cell(N, n, l, i) = y
    <3> HIDE DEF w, l, y
    <3>1. EdgeWrite(t, E, w)
      BY <2>1 DEF EdgeWrite
    <3>2. QED
      BY <1>4, <2>2, <3>1
  <2>4. f \in Nat /\ r \in Nat /\ i \in Nat
    BY DocumentsGrow, OrderIsQueued, ChildOfNode, ListsLaid
  <2>5. y = f + (r - i)
    <3> HIDE DEF f, r
    <3>1. QED
      BY <2>4
  <2> HIDE DEF y, f, r, l
  <2>6. Cell(N, n, l, i) = f + (r - i)
    BY <2>3, <2>5
  <2>7. QED
    BY <2>6 DEF HeadHolds, l, f, r, n
<1>6. ASSUME NEW i, NEW g, NEW c, NEW x, Slot(t, Order(t), Firsts(t), i, g, c, x)
      PROVE  SlotHolds(t, E, N, i, g, c, x)
  <2> DEFINE v == Order(t)[i + 1]
             m == Len(ListAt(t, v, g))
             r == Rolls(t, v)[g - 1]
             y(a) == SlotVal(a, i, c, m, r)
             w(a) == Write("nodeindex", E[a], x, y(a))
  <2>1. \A a \in SlotNames : SlotWrite(t, E, w(a), i, g, c, x, a)
    BY <1>6, Zenon DEF SlotWrite
  <2>2. \A a : w(a).col = E[a] /\ w(a).idx = x /\ w(a).val = y(a)
    <3> HIDE DEF y
    <3>1. QED
      BY DEF Write
  <2>3. \A a \in SlotNames : Cell(N, n, E[a], x) = y(a)
    <3> HIDE DEF w, y
    <3>1. \A a \in SlotNames : EdgeWrite(t, E, w(a))
      BY <2>1 DEF EdgeWrite
    <3>2. QED
      BY <1>4, <2>2, <3>1
  <2> HIDE DEF m, r
  <2>4. y("parent") = i /\ y("right_siblings") = Flag(c < m) /\ y("left_siblings") = Flag(c > 1 \/ r > 0)
    BY DEF SlotVal
  <2>5. "parent" \in SlotNames /\ "right_siblings" \in SlotNames /\ "left_siblings" \in SlotNames
    BY DEF SlotNames
  <2> HIDE DEF y
  <2>6. QED
    BY <2>3, <2>4, <2>5 DEF SlotHolds, n, m, r
<1>7. EdgesHold(t, E, N)
  BY <1>5, <1>6 DEF EdgesHold
<1>8. QED
  BY <1>1, <1>7 DEF E

-----------------------------------------------------------------------------
(* The attributes are in the memory, and the memory is as large as it must be. *)

\* The columns of the edges are within their buffer.
LEMMA EdgeInRange ==
  \A t, E : \A z \in Nat : IsDocument(t) /\ EdgeTable(E) /\ Declares(t, E) /\ EdgesFit(E, z) =>
    \A w : EdgeWrite(t, E, w) => w.col \in 0 .. z - 1
<1> SUFFICES ASSUME NEW t, NEW E, NEW z \in Nat, IsDocument(t), EdgeTable(E), Declares(t, E), EdgesFit(E, z),
                    NEW w, EdgeWrite(t, E, w)
             PROVE  w.col \in 0 .. z - 1
  OBVIOUS
<1>1. w.col \in Nat
  BY EdgeCells DEF EdgeCell
<1>2. ASSUME NEW i, NEW g, HeadWrite(t, E, w, i, g) PROVE w.col < z
  <2> DEFINE v == Order(t)[i + 1]
  <2>1. w.col = ListCol(t, E, v, g)
    BY <1>2, HeadCell
  <2>2. i \in 0 .. Len(Order(t)) - 1 /\ g \in 1 .. Len(t.kids[v])
    BY <1>2 DEF HeadWrite
  <2>3. t.class[v] \in DOMAIN E.kids /\ t.kids[v][g].lbl \in DOMAIN E.kids[t.class[v]]
    BY <2>2 DEF Declares
  <2> HIDE DEF v
  <2>4. QED
    BY <2>1, <2>3 DEF ListCol, EdgesFit
<1>3. ASSUME NEW i, NEW g, NEW c, NEW x, NEW a, SlotWrite(t, E, w, i, g, c, x, a) PROVE w.col < z
  <2>1. w.col = E[a] /\ a \in EdgeNames
    BY <1>3, SlotCell
  <2>2. QED
    BY <2>1 DEF EdgesFit
<1>4. w.col < z
  BY <1>2, <1>3 DEF EdgeWrite
<1>5. QED
  BY <1>1, <1>4

\* A write into a buffer at the index of a node and in a column of the buffer.
InRange(w, n) == w.buf \in Buffers /\ w.idx \in 0 .. n - 1 /\ w.col \in 0 .. F.sizes[w.buf] - 1
\* So are those of the attributes,
LEMMA AttrInRange ==
  \A t : IsDocument(t) /\ FieldsFit(F) => \A i \in 0 .. treeSize(t) - 1 : \A v \in Nodes(t) :
    \A a \in ToSet(t.attrs[v]) : \A w : IsAttrWrite(t, v, i, a, w) =>
      InRange(w, treeSize(t)) /\ w.buf \in Attributes
<1> SUFFICES ASSUME NEW t, IsDocument(t), FieldsFit(F), NEW i \in 0 .. treeSize(t) - 1, NEW v \in Nodes(t),
                    NEW a \in ToSet(t.attrs[v]), NEW w, IsAttrWrite(t, v, i, a, w)
             PROVE  InRange(w, treeSize(t)) /\ w.buf \in Attributes
  OBVIOUS
<1>1. w.buf = a.buf /\ w.col = a.col /\ w.idx = i /\ IsStored(F, t.class[v], a)
  BY DEF IsAttrWrite, Write
<1>2. a.buf \in Attributes
  BY DEF IsDocument, Nodes, Attributes
<1>3. a.owner \in DOMAIN F.columns /\ a.col \in F.columns[a.owner][a.buf]
  BY <1>1 DEF IsStored
<1>4. ColumnsFit(F.columns, F.sizes)
  BY DEF FieldsFit, FieldTable
<1>5. a.col \in 0 .. F.sizes[a.buf] - 1
  BY <1>2, <1>3, <1>4 DEF ColumnsFit
<1>6. a.buf \in Buffers
  BY <1>2 DEF Attributes, Buffers
<1>7. QED
  BY <1>1, <1>2, <1>5, <1>6 DEF InRange

\* and all of a node.
LEMMA NodeInRange ==
  \A t, toks : IsDocument(t) /\ EdgeTable(F.edges) /\ FieldsFit(F) /\ Reached(Laid(t)) = treeSize(t) =>
    \A i \in 0 .. treeSize(t) - 1 : \A w : NodeWrite(t, toks, w, i) => InRange(w, treeSize(t))
<1> SUFFICES ASSUME NEW t, NEW toks, IsDocument(t), EdgeTable(F.edges), FieldsFit(F),
                    Reached(Laid(t)) = treeSize(t), NEW i \in 0 .. treeSize(t) - 1, NEW w,
                    NodeWrite(t, toks, w, i)
             PROVE  InRange(w, treeSize(t))
  OBVIOUS
<1> DEFINE E == F.edges
           n == treeSize(t)
           v == Order(t)[i + 1]
           z == F.sizes["nodeindex"]
<1>1. n \in Nat /\ n = Len(Order(t)) /\ Declares(t, E)
  BY ListsTyped, DocumentsGrow, OrderIsQueued, OrderIsWhole, GoodDeclares
<1>2. v \in Nodes(t)
  BY <1>1, DocumentsGrow, OrderIsQueued, ChildOfNode
<1>3. z \in Nat /\ EdgesFit(E, z) /\ 1 <= F.sizes["grammartokens"] /\ F.sizes["grammartokens"] \in Nat
  <2>1. "nodeindex" \in Buffers /\ "grammartokens" \in Buffers
    BY DEF Buffers
  <2>2. QED
    BY <2>1 DEF FieldsFit, FieldTable, SizesFit
<1> HIDE DEF E, z
<1>4. EdgeTable(E)
  BY DEF E
<1>5. CASE InLists(t, E, w, i)
  <2>1. EdgeWrite(t, E, w)
    BY <1>1, <1>5, ListedIs DEF EdgeWrite
  <2>2. w.buf = "nodeindex" /\ w.idx \in 0 .. n - 1
    BY <1>1, <1>4, <2>1, EdgeCells DEF EdgeCell
  <2>3. w.col \in 0 .. z - 1
    BY <1>1, <1>3, <1>4, <2>1, EdgeInRange
  <2>4. QED
    BY <2>2, <2>3 DEF InRange, z, Buffers
<1>6. CASE IsTokenWrite(t, v, i, w)
  <2>1. w.buf = "grammartokens" /\ w.col = 0 /\ w.idx = i
    BY <1>6 DEF IsTokenWrite, Write
  <2>2. 0 \in 0 .. F.sizes["grammartokens"] - 1
    BY <1>3
  <2>3. QED
    BY <2>1, <2>2 DEF InRange, Buffers
<1>7. CASE IsIdWrite(t, v, i, toks, w)
  <2>1. w.buf = "nodeindex" /\ w.col = E.id /\ w.idx = i
    BY <1>7 DEF IsIdWrite, Write, E
  <2>2. E.id \in Nat /\ E.id < z
    <3>1. "id" \in EdgeNames
      BY DEF EdgeNames
    <3>2. QED
      BY <1>3, <1>4, <3>1 DEF EdgeTable, EdgesFit
  <2>3. E.id \in 0 .. z - 1
    BY <1>3, <2>2
  <2>4. QED
    BY <2>1, <2>3 DEF InRange, Buffers, z
<1>8. CASE InAttrs(t, w, i)
  BY <1>2, <1>8, AttrInRange DEF InAttrs
<1>9. QED
  BY <1>5, <1>6, <1>7, <1>8 DEF NodeWrite, E

\* A cell in range.
LEMMA CellInRange ==
  \A n, s \in Nat : \A c \in 0 .. s - 1 : \A x \in 0 .. n - 1 : c * n + x \in 0 .. s * n - 1
<1> SUFFICES ASSUME NEW n \in Nat, NEW s \in Nat, NEW c \in 0 .. s - 1, NEW x \in 0 .. n - 1
             PROVE  c * n + x \in 0 .. s * n - 1
  OBVIOUS
<1> DEFINE k == s - c
           p == c * n
           q == k * n
           r == s * n
<1>1. k \in Nat /\ 1 <= k
  OBVIOUS
<1>2. n <= q
  <2> HIDE DEF k
  <2>1. QED
    BY <1>1
<1>3. p \in Nat /\ r \in Nat /\ q \in Nat
  <2> HIDE DEF k
  <2>1. QED
    BY <1>1
<1>4. r = p + q
  <2>1. k * n = s * n - c * n
    OBVIOUS
  <2> HIDE DEF k, q
  <2>2. q = r - p
    BY <2>1 DEF q
  <2> HIDE DEF p, r
  <2>3. QED
    BY <1>3, <2>2
<1> HIDE DEF p, q, r, k
<1>5. p + x \in 0 .. r - 1
  BY <1>2, <1>3, <1>4
<1>6. QED
  BY <1>5 DEF p, r

\* The writes into a buffer are in its s columns of n cells; none of them is into cell o.
Within(W, b, n, s) == \A w : Occurs(w, W) /\ w.buf = b => w.idx \in 0 .. n - 1 /\ w.col \in 0 .. s - 1
Misses(W, b, n, o) == \A w : Occurs(w, W) /\ w.buf = b => Offset(w, n) # o
Filled(W, b, n, s) ==
  /\ DOMAIN Image(W, b, n, s * n) = 0 .. s * n - 1
  /\ \A o \in 0 .. s * n - 1 : Misses(W, b, n, o) => Image(W, b, n, s * n)[o] = 0
\* Writes in range do not make a buffer larger; what is not written is zero.
LEMMA ImageFilled ==
  \A R : \A W \in Seq(R) : \A b : \A n, s \in Nat : Within(W, b, n, s) => Filled(W, b, n, s)
<1> SUFFICES ASSUME NEW R, NEW W \in Seq(R), NEW b, NEW n \in Nat, NEW s \in Nat, Within(W, b, n, s)
             PROVE  Filled(W, b, n, s)
  OBVIOUS
<1> SUFFICES ASSUME \A w : Occurs(w, W) /\ w.buf = b => w.idx \in 0 .. n - 1 /\ w.col \in 0 .. s - 1
             PROVE  /\ DOMAIN Image(W, b, n, s * n) = 0 .. s * n - 1
                    /\ \A o \in 0 .. s * n - 1 :
                         (\A w : Occurs(w, W) /\ w.buf = b => Offset(w, n) # o)
                           => Image(W, b, n, s * n)[o] = 0
  BY Zenon DEF Within, Filled, Misses
<1> DEFINE off(k) == W[k].col * n + W[k].idx
           mine == {k \in DOMAIN W : W[k].buf = b}
           at == {off(k) : k \in mine}
           size == s * n
           f(x) == IF x \in at THEN W[Max({k \in mine : off(k) = x})].val ELSE 0
           S == at \cup 0 .. size - 1
<1>1. Image(W, b, n, size) = [x \in S |-> f(x)]
  BY Zenon DEF Image
<1>2. \A k \in mine : Occurs(W[k], W) /\ W[k].buf = b
  <2>1. DOMAIN W = 1 .. Len(W)
    OBVIOUS
  <2>2. QED
    BY <2>1 DEF Occurs
<1>3. \A k \in mine : off(k) = Offset(W[k], n)
  BY DEF Offset
<1>4. \A k \in mine : off(k) \in 0 .. size - 1
  <2> SUFFICES ASSUME NEW k \in mine PROVE off(k) \in 0 .. size - 1
    OBVIOUS
  <2> DEFINE w == W[k]
  <2>1. Occurs(w, W) /\ w.buf = b
    BY <1>2
  <2> HIDE DEF w
  <2>2. w.idx \in 0 .. n - 1 /\ w.col \in 0 .. s - 1
    BY <2>1
  <2>3. w.col * n + w.idx \in 0 .. s * n - 1
    BY <2>2, CellInRange
  <2>4. QED
    BY <2>3 DEF w
<1>5. S = 0 .. size - 1
  <2> DEFINE U == 0 .. size - 1
  <2> HIDE DEF U, off, mine
  <2>1. \A k \in mine : off(k) \in U
    BY <1>4 DEF U
  <2>2. at \cup U = U
    BY <2>1
  <2>3. QED
    BY <2>2 DEF U
<1>6. ASSUME NEW o \in 0 .. size - 1, \A w : Occurs(w, W) /\ w.buf = b => Offset(w, n) # o
      PROVE  Image(W, b, n, size)[o] = 0
  <2>1. \A k \in mine : off(k) # o
    BY <1>2, <1>3, <1>6
  <2>2. o \notin at
    BY <2>1
  <2>3. f(o) = 0
    BY <2>2
  <2> HIDE DEF f
  <2>4. QED
    BY <1>1, <1>5, <2>3
<1> HIDE DEF f
<1>7. DOMAIN Image(W, b, n, size) = 0 .. size - 1
  BY <1>1, <1>5
<1>8. QED
  BY <1>6, <1>7

\* A load that goes through leaves every buffer as large as the tree and its bindings ask for.
LEMMA LoadFills ==
  \A t, toks : IsDocument(t) /\ EdgeTable(F.edges) /\ FieldsFit(F) /\ Reached(Laid(t)) = treeSize(t) =>
    \A b \in Buffers : DOMAIN Flattened(Laid(t), toks)[b] = 0 .. F.sizes[b] * treeSize(t) - 1
<1> SUFFICES ASSUME NEW t, NEW toks, IsDocument(t), EdgeTable(F.edges), FieldsFit(F),
                    Reached(Laid(t)) = treeSize(t), NEW b \in Buffers
             PROVE  DOMAIN Flattened(Laid(t), toks)[b] = 0 .. F.sizes[b] * treeSize(t) - 1
  OBVIOUS
<1> DEFINE W == AllWrites(t, toks)
           n == treeSize(t)
           s == F.sizes[b]
           R == WriteSet(Values(t, toks))
<1>1. Flattened(Laid(t), toks)[b] = Image(W, b, n, s * n)
  <2>1. Flattened(Laid(t), toks) = [c \in Buffers |-> Image(W, c, n, F.sizes[c] * n)]
    BY FlattenedIs
  <2>2. QED
    BY <2>1
<1>2. W \in Seq(R) /\ \A w : Occurs(w, W) <=> \E i \in 0 .. n - 1 : NodeWrite(t, toks, w, i)
  BY AllWritesOf
<1>3. n \in Nat
  BY ListsTyped
<1>4. s \in Nat
  BY DEF FieldsFit, FieldTable, SizesFit
<1>5. \A w : Occurs(w, W) => InRange(w, n)
  BY <1>2, NodeInRange
<1>6. \A w : Occurs(w, W) /\ w.buf = b => w.idx \in 0 .. n - 1 /\ w.col \in 0 .. s - 1
  BY <1>5 DEF InRange
<1> HIDE DEF W, n, s, R
<1>7. DOMAIN Image(W, b, n, s * n) = 0 .. s * n - 1
  <2>1. Within(W, b, n, s)
    BY <1>6 DEF Within
  <2>2. Filled(W, b, n, s)
    BY <1>2, <1>3, <1>4, <2>1, ImageFilled
  <2>3. QED
    BY <2>2, Zenon DEF Filled
<1>8. QED
  BY <1>1, <1>7 DEF s, n

\* The writes into the buffers of the attributes are those of attributes.
LEMMA AttrBufferWrites ==
  \A t, toks : IsDocument(t) /\ EdgeTable(F.edges) /\ Reached(Laid(t)) = treeSize(t) =>
    \A w : w.buf \in Attributes =>
      (Occurs(w, AllWrites(t, toks)) <=> \E i \in 0 .. treeSize(t) - 1 : InAttrs(t, w, i))
<1> SUFFICES ASSUME NEW t, NEW toks, IsDocument(t), EdgeTable(F.edges), Reached(Laid(t)) = treeSize(t),
                    NEW w, w.buf \in Attributes
             PROVE  Occurs(w, AllWrites(t, toks)) <=> \E i \in 0 .. treeSize(t) - 1 : InAttrs(t, w, i)
  OBVIOUS
<1> DEFINE n == treeSize(t)
           E == F.edges
<1>1. n = Len(Order(t)) /\ Declares(t, E)
  BY DocumentsGrow, OrderIsQueued, OrderIsWhole, GoodDeclares
<1>2. Occurs(w, AllWrites(t, toks)) <=> \E i \in 0 .. n - 1 : NodeWrite(t, toks, w, i)
  BY AllWritesOf
<1>3. w.buf # "nodeindex" /\ w.buf # "grammartokens"
  BY DEF Attributes
<1>4. ASSUME NEW i \in 0 .. n - 1 PROVE ~InLists(t, E, w, i)
  <2>1. InLists(t, E, w, i) => EdgeWrite(t, E, w)
    BY <1>1, <1>4, ListedIs DEF EdgeWrite
  <2>2. ~EdgeWrite(t, E, w)
    BY <1>1, <1>3, EdgeCells DEF EdgeCell
  <2>3. QED
    BY <2>1, <2>2
<1>5. \A v, i : ~IsTokenWrite(t, v, i, w) /\ ~IsIdWrite(t, v, i, toks, w)
  BY <1>3 DEF IsTokenWrite, IsIdWrite, Write
<1>6. \A i \in 0 .. n - 1 : NodeWrite(t, toks, w, i) <=> InAttrs(t, w, i)
  BY <1>4, <1>5 DEF NodeWrite
<1>7. QED
  BY <1>2, <1>6

\* Two attributes of an object do not share a column: they are of different fields, and a class
\* has no column of its interface.
LEMMA AttrsDiffer ==
  \A t : IsDocument(t) /\ FieldsFit(F) => \A v \in Nodes(t) : \A a, b \in ToSet(t.attrs[v]) :
    IsStored(F, t.class[v], a) /\ IsStored(F, t.class[v], b) /\ a.buf = b.buf /\ a.col = b.col => a = b
<1> SUFFICES ASSUME NEW t, IsDocument(t), FieldsFit(F), NEW v \in Nodes(t),
                    NEW a \in ToSet(t.attrs[v]), NEW b \in ToSet(t.attrs[v]),
                    IsStored(F, t.class[v], a), IsStored(F, t.class[v], b), a.buf = b.buf, a.col = b.col
             PROVE  a = b
  OBVIOUS
<1> DEFINE C == F.columns
           I == F.ifaces
           c == t.class[v]
<1>1. a.buf \in Attributes
  BY DEF IsDocument, Nodes, Attributes
<1>2. /\ a.owner \in DOMAIN C /\ a.col \in C[a.owner][a.buf]
      /\ b.owner \in DOMAIN C /\ a.col \in C[b.owner][a.buf]
      /\ a.owner = c \/ (c \in DOMAIN I /\ a.owner = I[c])
      /\ b.owner = c \/ (c \in DOMAIN I /\ b.owner = I[c])
  BY DEF IsStored
<1>3. FieldsApart(C, I)
  BY DEF FieldsFit, FieldTable
<1> HIDE DEF C, I, c
<1>4. a.owner = b.owner
  <2>1. \A p, q \in DOMAIN C : Apart(C, p, q) => ~(a.col \in C[p][a.buf] /\ a.col \in C[q][a.buf])
    BY <1>1 DEF Apart
  <2>2. QED
    BY <1>2, <1>3, <2>1 DEF FieldsApart
<1>5. \A p, q \in ToSet(t.attrs[v]) : p.owner = q.owner /\ p.buf = q.buf /\ p.col = q.col => p = q
  BY DEF IsDocument, Nodes
<1>6. QED
  BY <1>4, <1>5

\* The column of a node's attribute holds its value, and a column it has none for a zero.
Given(t, v, b, a) == a \in ToSet(t.attrs[v]) /\ a.buf = b /\ IsStored(F, t.class[v], a)
AttrsHold(t, N, v, b) ==
  /\ \A a : Given(t, v, b, a) => N[a.col * treeSize(t) + IndexOf(Order(t), v)] = a.val
  /\ \A col \in 0 .. F.sizes[b] - 1 : (\A a : Given(t, v, b, a) => a.col # col) =>
       N[col * treeSize(t) + IndexOf(Order(t), v)] = 0
\* A load that goes through leaves every node its attributes.
LEMMA LoadAttrs ==
  \A t, toks : IsDocument(t) /\ EdgeTable(F.edges) /\ FieldsFit(F) /\ Reached(Laid(t)) = treeSize(t) =>
    \A v \in Nodes(t) : \A b \in Attributes : AttrsHold(t, Flattened(Laid(t), toks)[b], v, b)
<1> SUFFICES ASSUME NEW t, NEW toks, IsDocument(t), EdgeTable(F.edges), FieldsFit(F),
                    Reached(Laid(t)) = treeSize(t), NEW v \in Nodes(t), NEW b \in Attributes
             PROVE  AttrsHold(t, Flattened(Laid(t), toks)[b], v, b)
  OBVIOUS
<1> DEFINE W == AllWrites(t, toks)
           n == treeSize(t)
           s == F.sizes[b]
           R == WriteSet(Values(t, toks))
           N == Image(W, b, n, s * n)
           i == IndexOf(Order(t), v)
<1>1. b \in Buffers
  BY DEF Attributes, Buffers
<1>2. Flattened(Laid(t), toks)[b] = N
  <2>1. Flattened(Laid(t), toks) = [c \in Buffers |-> Image(W, c, n, F.sizes[c] * n)]
    BY FlattenedIs
  <2>2. QED
    BY <1>1, <2>1
<1>3. W \in Seq(R)
  BY AllWritesOf
<1>4. n \in Nat /\ n = Len(Order(t))
  BY ListsTyped, DocumentsGrow, OrderIsQueued, OrderIsWhole
<1>5. i \in 0 .. n - 1 /\ Order(t)[i + 1] = v
  BY <1>4, DocumentsGrow, OrderIsQueued, PlaceOfIndex
<1>6. \A j \in 0 .. n - 1 : Order(t)[j + 1] \in Nodes(t)
  BY <1>4, DocumentsGrow, OrderIsQueued, ChildOfNode
<1>7. s \in Nat
  BY <1>1 DEF FieldsFit, FieldTable, SizesFit
<1>8. \A w : w.buf \in Attributes => (Occurs(w, W) <=> \E j \in 0 .. n - 1 : InAttrs(t, w, j))
  BY AttrBufferWrites
<1>9. \A j \in 0 .. n - 1 : \A w : InAttrs(t, w, j) => InRange(w, n) /\ w.buf \in Attributes
  BY <1>6, AttrInRange DEF InAttrs
<1> HIDE DEF W, n, s, R, N, i
<1>10. \A w : Occurs(w, W) /\ w.buf = b => w.idx \in 0 .. n - 1 /\ w.col \in 0 .. s - 1
  BY <1>8, <1>9 DEF InRange, s
<1>11. ASSUME NEW u, Occurs(u, W), u.buf = b, NEW col \in Nat, Offset(u, n) = col * n + i
       PROVE  \E a : Given(t, v, b, a) /\ a.col = col /\ u.val = a.val
  <2>1. PICK j \in 0 .. n - 1 : InAttrs(t, u, j)
    BY <1>8, <1>11
  <2>2. PICK a \in ToSet(t.attrs[Order(t)[j + 1]]) : IsAttrWrite(t, Order(t)[j + 1], j, a, u)
    BY <2>1 DEF InAttrs
  <2>3. u.buf = a.buf /\ u.col = a.col /\ u.idx = j /\ u.val = a.val /\ IsStored(F, t.class[Order(t)[j + 1]], a)
    BY <2>2 DEF IsAttrWrite, Write
  <2>4. u.col \in Nat /\ u.idx \in 0 .. n - 1
    BY <1>10, <1>11
  <2>5. u.col = col /\ u.idx = i
    <3>1. PlaceOf(n, u.col, u.idx) = PlaceOf(n, col, i)
      BY <1>11 DEF Offset, PlaceOf
    <3>2. QED
      BY <1>4, <1>5, <2>4, <3>1, OnePlace
  <2>6. QED
    BY <1>5, <1>11, <2>2, <2>3, <2>5 DEF Given
<1>12. ASSUME NEW a, Given(t, v, b, a) PROVE N[a.col * n + i] = a.val
  <2> DEFINE w == Write(a.buf, a.col, i, a.val)
  <2>1. a.buf = b /\ a \in ToSet(t.attrs[v]) /\ IsStored(F, t.class[v], a)
    BY <1>12 DEF Given
  <2>2. InAttrs(t, w, i)
    BY <1>5, <2>1 DEF InAttrs, IsAttrWrite
  <2>3. w.buf = b /\ w.col = a.col /\ w.idx = i /\ w.val = a.val
    BY <2>1 DEF Write
  <2> HIDE DEF w
  <2>4. Occurs(w, W)
    BY <1>5, <1>8, <2>2, <2>3
  <2>5. a.col \in Nat
    BY <1>10, <2>3, <2>4
  <2>6. Offset(w, n) = a.col * n + i
    BY <2>3 DEF Offset
  <2>7. ASSUME NEW u, Occurs(u, W), u.buf = b, Offset(u, n) = Offset(w, n) PROVE u.val = w.val
    <3>1. PICK d : Given(t, v, b, d) /\ d.col = a.col /\ u.val = d.val
      BY <1>11, <2>5, <2>6, <2>7
    <3>2. d = a
      BY <2>1, <3>1, AttrsDiffer DEF Given
    <3>3. QED
      BY <2>3, <3>1, <3>2
  <2>8. Agreed(W, b, n, w)
    BY <2>7 DEF Agreed
  <2>9. N[Offset(w, n)] = w.val
    <3> DEFINE z == s * n
    <3> HIDE DEF z
    <3>1. w.buf = b
      BY <2>3
    <3>2. Image(W, b, n, z)[Offset(w, n)] = w.val
      BY <1>3, <2>4, <2>8, <3>1, CellWritten
    <3>3. QED
      BY <3>2 DEF N, z
  <2>10. QED
    BY <2>3, <2>6, <2>9
<1>13. ASSUME NEW col \in 0 .. s - 1, \A a : Given(t, v, b, a) => a.col # col PROVE N[col * n + i] = 0
  <2>1. col \in Nat /\ col * n + i \in 0 .. s * n - 1
    BY <1>4, <1>5, <1>7, CellInRange
  <2> DEFINE o == col * n + i
  <2>2. \A w : Occurs(w, W) /\ w.buf = b => Offset(w, n) # o
    BY <1>11, <1>13, <2>1
  <2> HIDE DEF o
  <2>3. Within(W, b, n, s) /\ Misses(W, b, n, o)
    BY <1>10, <2>2 DEF Within, Misses
  <2>4. Filled(W, b, n, s)
    BY <1>3, <1>4, <1>7, <2>3, ImageFilled
  <2>5. o \in 0 .. s * n - 1
    BY <2>1 DEF o
  <2>6. N[o] = 0
    BY <2>3, <2>4, <2>5, Zenon DEF Filled, N
  <2>7. QED
    BY <2>6 DEF o
<1>14. AttrsHold(t, N, v, b)
  BY <1>12, <1>13 DEF AttrsHold, n, i, s
<1>15. QED
  BY <1>2, <1>14

-----------------------------------------------------------------------------
(* Tokens: tokenize keeps what it is given, and gives no id a second token. *)

\* What is at 0 and passes from each number to the next is everywhere.
LEMMA Everywhere ==
  \A D, g : g[0] \in D /\ (\A k \in Nat : g[k] \in D => g[k + 1] \in D) => \A n \in Nat : g[n] \in D
<1> SUFFICES ASSUME NEW D, NEW g, g[0] \in D, \A k \in Nat : g[k] \in D => g[k + 1] \in D, NEW n \in Nat
             PROVE  g[n] \in D
  OBVIOUS
<1> DEFINE Q == {k \in 0 .. n : g[k] \in D}
<1>1. 0 \in Q
  OBVIOUS
<1>2. \A k \in 0 .. n - 1 : k \in Q => k + 1 \in Q
  OBVIOUS
<1> HIDE DEF Q
<1>3. \A k \in 0 .. n : k \in Q
  BY <1>1, <1>2, CountingUp
<1>4. QED
  BY <1>3 DEF Q

\* A sequence is one of its own elements.
LEMMA OwnElements ==
  \A S : \A s \in Seq(S) : s \in Seq(ToSet(s)) /\ Len(s) \in Nat /\ DOMAIN s = 1 .. Len(s)
<1> SUFFICES ASSUME NEW S, NEW s \in Seq(S)
             PROVE  s \in Seq(ToSet(s)) /\ Len(s) \in Nat /\ DOMAIN s = 1 .. Len(s)
  OBVIOUS
<1>1. Len(s) \in Nat /\ DOMAIN s = 1 .. Len(s) /\ s = [i \in 1 .. Len(s) |-> s[i]]
  OBVIOUS
<1>2. \A i \in 1 .. Len(s) : s[i] \in ToSet(s)
  BY <1>1 DEF ToSet
<1> DEFINE T == ToSet(s)
           n == Len(s)
<1> HIDE DEF T, n
<1>3. s \in [1 .. n -> T] /\ n \in Nat
  BY <1>1, <1>2 DEF T, n
<1>4. s \in Seq(T)
  BY <1>3
<1>5. QED
  BY <1>1, <1>4 DEF T

\* One sequence begins with another.
Begins(p, q) == Len(p) <= Len(q) /\ \A i \in 1 .. Len(p) : q[i] = p[i]
\* That is IsPrefix.
LEMMA PrefixIs == \A S : \A p, q \in Seq(S) : Begins(p, q) => IsPrefix(p, q)
<1> SUFFICES ASSUME NEW S, NEW p \in Seq(S), NEW q \in Seq(S), Begins(p, q)
             PROVE  IsPrefix(p, q)
  OBVIOUS
<1> DEFINE n == Len(p)
           a == Cut(p, 1, n)
           c == Cut(q, 1, n)
<1>1. n \in Nat /\ Len(q) \in Nat /\ n <= Len(q) /\ \A i \in 1 .. n : q[i] = p[i]
  BY DEF Begins
<1>2. n \in 0 .. Len(p) /\ n \in 0 .. Len(q)
  BY <1>1
<1> HIDE DEF n
<1>3. a \in Seq(S) /\ Len(a) = n /\ \A x \in 1 .. n : a[x] = p[x]
  BY <1>2, CutOf
<1>4. c \in Seq(S) /\ Len(c) = n /\ \A x \in 1 .. n : c[x] = q[x]
  BY <1>2, CutOf
<1> HIDE DEF a, c
<1>5. a = c
  <2>1. \A x \in 1 .. Len(a) : a[x] = c[x]
    BY <1>1, <1>3, <1>4
  <2>2. QED
    BY <1>3, <1>4, <2>1, SameElements
<1>6. QED
  BY <1>1, <1>5 DEF IsPrefix, a, c, n, Cut

\* One id.
With(t, id) == IF Contains(t, id) THEN t ELSE Append(t, id)
AreTokens(toks, ids, g) == g = [k \in Nat |-> IF k = 0 THEN toks ELSE With(g[k - 1], ids[k])]
TokensRun(toks, ids) == CHOOSE g : AreTokens(toks, ids, g)
\* tokenize, with the function it recurses with named.
LEMMA TokenizedIs == \A toks, ids : Tokenized(toks, ids) = TokensRun(toks, ids)[Len(ids)]
BY Zenon DEF Tokenized, TokensRun, AreTokens, With

\* The lists of tokens that begin with toks.
Growths(toks, S) == {s \in Seq(S) : Begins(toks, s) /\ IsInjective(s)}
\* One id leads from one of them to another.
LEMMA WithGrows ==
  \A S : \A toks \in Seq(S) : \A t \in Growths(toks, S) : \A id \in S : With(t, id) \in Growths(toks, S)
<1> SUFFICES ASSUME NEW S, NEW toks \in Seq(S), NEW t \in Growths(toks, S), NEW id \in S, ~Contains(t, id)
             PROVE  Append(t, id) \in Growths(toks, S)
  BY DEF With
<1> DEFINE u == Append(t, id)
           n == Len(t)
<1>1. t \in Seq(S) /\ Begins(toks, t) /\ IsInjective(t)
  BY DEF Growths
<1>2. /\ u \in Seq(S) /\ Len(u) = n + 1 /\ u[n + 1] = id /\ n \in Nat
      /\ \A i \in 1 .. n : u[i] = t[i]
  BY <1>1
<1>3. DOMAIN u = 1 .. n + 1 /\ DOMAIN t = 1 .. n
  BY <1>1, <1>2
<1>4. Len(toks) \in Nat
  OBVIOUS
<1> HIDE DEF u
<1>5. Begins(toks, u)
  <2>1. Len(toks) <= n /\ \A i \in 1 .. Len(toks) : t[i] = toks[i]
    BY <1>1 DEF Begins
  <2> HIDE DEF n
  <2>2. QED
    BY <1>2, <1>4, <2>1 DEF Begins
<1>6. IsInjective(u)
  <2>1. \A i \in 1 .. n : t[i] # id
    BY DEF Contains
  <2>2. \A i, j \in 1 .. n : t[i] = t[j] => i = j
    BY <1>1, <1>3 DEF IsInjective
  <2> HIDE DEF n
  <2>3. \A i, j \in 1 .. n + 1 : u[i] = u[j] => i = j
    <3> SUFFICES ASSUME NEW i \in 1 .. n + 1, NEW j \in 1 .. n + 1, u[i] = u[j] PROVE i = j
      OBVIOUS
    <3>1. CASE i = n + 1 /\ j = n + 1
      BY <3>1
    <3>2. CASE i # n + 1 /\ j # n + 1
      <4>1. i \in 1 .. n /\ j \in 1 .. n
        BY <1>2, <3>2
      <4>2. QED
        BY <1>2, <2>2, <4>1
    <3>3. CASE i = n + 1 /\ j # n + 1
      <4>1. j \in 1 .. n
        BY <1>2, <3>3
      <4>2. QED
        BY <1>2, <2>1, <3>3, <4>1
    <3>4. CASE i # n + 1 /\ j = n + 1
      <4>1. i \in 1 .. n
        BY <1>2, <3>4
      <4>2. QED
        BY <1>2, <2>1, <3>4, <4>1
    <3>5. QED
      BY <3>1, <3>2, <3>3, <3>4
  <2>4. QED
    BY <1>3, <2>3 DEF IsInjective
<1>7. QED
  BY <1>2, <1>5, <1>6 DEF Growths, u

\* A list of tokens: no id occurs twice.
TokenList(s) == s \in Seq(ToSet(s)) /\ IsInjective(s)
\* The lists of tokens of a call of tokenize, one per id it has looked at.
TokensRise(toks, ids, S, g) ==
  /\ toks \in Seq(S) /\ g[0] = toks
  /\ \A k \in Nat : g[k] \in Growths(toks, S) /\ g[k + 1] = With(g[k], ids[k + 1])
\* There are such lists, and the last one is what tokenize returns.
LEMMA TokensRunIs ==
  \A toks, ids : TokenList(toks) =>
    \E S, g : TokensRise(toks, ids, S, g) /\ Tokenized(toks, ids) = g[Len(ids)]
<1> SUFFICES ASSUME NEW toks, NEW ids, TokenList(toks)
             PROVE  \E S, g : TokensRise(toks, ids, S, g) /\ Tokenized(toks, ids) = g[Len(ids)]
  OBVIOUS
<1> DEFINE A == ToSet(toks)
           S == A \cup {ids[k] : k \in Nat}
           D == Growths(toks, S)
           H == [k \in Nat |-> [t \in D |-> With(t, ids[k + 1])]]
<1>1. toks \in Seq(S) /\ IsInjective(toks)
  <2>1. toks \in Seq(A) /\ IsInjective(toks)
    BY DEF TokenList
  <2> HIDE DEF A
  <2>2. QED
    BY <2>1
<1>2. \A k \in Nat : ids[k + 1] \in S /\ k + 1 \in Nat /\ k + 1 # 0 /\ (k + 1) - 1 = k
  OBVIOUS
<1> HIDE DEF S
<1>3. toks \in D
  <2>1. Len(toks) \in Nat
    BY <1>1
  <2>2. Begins(toks, toks)
    BY <2>1 DEF Begins
  <2>3. QED
    BY <1>1, <2>2 DEF Growths
<1>4. \A t \in D : \A k \in Nat : With(t, ids[k + 1]) \in D
  BY <1>1, <1>2, WithGrows
<1> HIDE DEF D
<1>5. IsStep(H, D) /\ \A k \in Nat : \A t \in D : H[k][t] = With(t, ids[k + 1])
  BY <1>4 DEF IsStep
<1> HIDE DEF H
<1>6. PICK f : Iterates(f, D, toks, H)
  BY <1>3, <1>5, Recursion
<1>7. f \in [Nat -> D] /\ f[0] = toks /\ \A k \in Nat : f[k + 1] = With(f[k], ids[k + 1])
  BY <1>5, <1>6 DEF Iterates
<1>8. AreTokens(toks, ids, f)
  <2>1. ASSUME NEW k \in Nat PROVE f[k] = IF k = 0 THEN toks ELSE With(f[k - 1], ids[k])
    <3>1. CASE k = 0
      BY <1>7, <3>1
    <3>2. CASE k # 0
      <4>1. k - 1 \in Nat /\ (k - 1) + 1 = k
        BY <3>2
      <4>2. f[(k - 1) + 1] = With(f[k - 1], ids[(k - 1) + 1])
        BY <1>7, <4>1
      <4>3. QED
        BY <3>2, <4>1, <4>2
    <3>3. QED
      BY <3>1, <3>2
  <2>2. f = [k \in Nat |-> f[k]]
    BY <1>7
  <2>3. QED
    BY <2>1, <2>2 DEF AreTokens
<1> DEFINE g == TokensRun(toks, ids)
<1>9. AreTokens(toks, ids, g)
  BY <1>8 DEF TokensRun
<1> HIDE DEF g
<1>10. g[0] = toks /\ \A k \in Nat : g[k + 1] = With(g[k], ids[k + 1])
  <2>1. \A m \in Nat : g[m] = IF m = 0 THEN toks ELSE With(g[m - 1], ids[m])
    BY <1>9 DEF AreTokens
  <2>2. \A k \in Nat : g[k + 1] = With(g[(k + 1) - 1], ids[k + 1])
    BY <1>2, <2>1
  <2>3. QED
    BY <1>2, <2>1, <2>2
<1>11. \A n \in Nat : g[n] \in D
  <2>1. \A k \in Nat : g[k] \in D => g[k + 1] \in D
    BY <1>4, <1>10
  <2>2. QED
    BY <1>3, <1>10, <2>1, Everywhere
<1>12. Tokenized(toks, ids) = g[Len(ids)]
  BY TokenizedIs DEF g
<1>13. TokensRise(toks, ids, S, g)
  BY <1>1, <1>10, <1>11 DEF TokensRise, D
<1>14. QED
  BY <1>12, <1>13

\* tokenize adds to it.
LEMMA TokensGrow ==
  \A toks, ids : TokenList(toks) /\ Len(ids) \in Nat =>
    TokenList(Tokenized(toks, ids)) /\ Begins(toks, Tokenized(toks, ids))
<1> SUFFICES ASSUME NEW toks, NEW ids, TokenList(toks), Len(ids) \in Nat
             PROVE  TokenList(Tokenized(toks, ids)) /\ Begins(toks, Tokenized(toks, ids))
  OBVIOUS
<1> DEFINE u == Tokenized(toks, ids)
<1>1. PICK S, g : TokensRise(toks, ids, S, g) /\ u = g[Len(ids)]
  BY TokensRunIs
<1> HIDE DEF u
<1>2. u \in Seq(S) /\ Begins(toks, u) /\ IsInjective(u)
  BY <1>1 DEF TokensRise, Growths
<1>3. QED
  BY <1>2, OwnElements DEF TokenList, u

\* Every id has a token then.
LEMMA TokensHave ==
  \A toks, ids : TokenList(toks) /\ Len(ids) \in Nat =>
    \A j \in 1 .. Len(ids) : Occurs(ids[j], Tokenized(toks, ids))
<1> SUFFICES ASSUME NEW toks, NEW ids, TokenList(toks), Len(ids) \in Nat
             PROVE  \A j \in 1 .. Len(ids) : Occurs(ids[j], Tokenized(toks, ids))
  OBVIOUS
<1> DEFINE n == Len(ids)
<1>1. PICK S, g : TokensRise(toks, ids, S, g) /\ Tokenized(toks, ids) = g[n]
  BY TokensRunIs
<1> HIDE DEF n
<1>2. \A k \in Nat : g[k] \in Seq(S) /\ g[k + 1] = With(g[k], ids[k + 1])
  BY <1>1 DEF TokensRise, Growths
<1>3. ASSUME NEW t \in Seq(S), NEW id PROVE Occurs(id, With(t, id)) /\ \A y : Occurs(y, t) => Occurs(y, With(t, id))
  <2> DEFINE m == Len(t)
             u == Append(t, id)
  <2>1. m \in Nat /\ Len(u) = m + 1 /\ u[m + 1] = id /\ \A i \in 1 .. m : u[i] = t[i]
    OBVIOUS
  <2> HIDE DEF u
  <2>2. Occurs(id, u)
    <3>1. m + 1 \in 1 .. Len(u)
      BY <2>1
    <3>2. QED
      BY <2>1, <3>1 DEF Occurs
  <2>3. \A y : Occurs(y, t) => Occurs(y, u)
    <3>1. \A i \in 1 .. m : i \in 1 .. Len(u)
      BY <2>1
    <3>2. QED
      BY <2>1, <3>1 DEF Occurs
  <2>4. Contains(t, id) => Occurs(id, t)
    BY DEF Contains, Occurs
  <2>5. QED
    BY <2>2, <2>3, <2>4 DEF With, u
<1> DEFINE had(k) == \A j \in 1 .. k : Occurs(ids[j], g[k])
           P == {k \in Nat : had(k)}
<1>4. 0 \in P
  OBVIOUS
<1>5. \A k \in 0 .. n - 1 : k \in P => k + 1 \in P
  <2> SUFFICES ASSUME NEW k \in 0 .. n - 1, k \in P PROVE had(k + 1)
    OBVIOUS
  <2>1. k \in Nat /\ had(k)
    OBVIOUS
  <2>2. g[k] \in Seq(S) /\ g[k + 1] = With(g[k], ids[k + 1])
    BY <1>2, <2>1
  <2>3. Occurs(ids[k + 1], g[k + 1]) /\ \A y : Occurs(y, g[k]) => Occurs(y, g[k + 1])
    BY <1>3, <2>2
  <2>4. \A j \in 1 .. k + 1 : j = k + 1 \/ j \in 1 .. k
    BY <2>1
  <2>5. QED
    BY <2>1, <2>3, <2>4
<1> HIDE DEF P
<1>6. n \in Nat
  BY DEF n
<1>7. n \in P
  <2>1. \A k \in 0 .. n : k \in P
    BY <1>4, <1>5, <1>6, CountingUp
  <2>2. n \in 0 .. n
    BY <1>6
  <2>3. QED
    BY <2>1, <2>2
<1>8. QED
  BY <1>1, <1>7 DEF P, n

\* A list of tokens that begins with another has it for a prefix.
LEMMA ListsBegin == \A p, q : TokenList(p) /\ TokenList(q) /\ Begins(p, q) => IsPrefix(p, q)
<1> SUFFICES ASSUME NEW p, NEW q, TokenList(p), TokenList(q), Begins(p, q) PROVE IsPrefix(p, q)
  OBVIOUS
<1> DEFINE P == ToSet(p)
           Q == ToSet(q)
<1>1. p \in Seq(P) /\ q \in Seq(Q)
  BY DEF TokenList
<1> HIDE DEF P, Q
<1>2. p \in Seq(P \cup Q) /\ q \in Seq(P \cup Q)
  BY <1>1
<1>3. QED
  BY <1>2, PrefixIs

\* What begins with what begins with p begins with p.
LEMMA BeginsAgain ==
  \A p, q, r : /\ Len(p) \in Nat /\ Len(q) \in Nat /\ Len(r) \in Nat
               /\ Begins(p, q) /\ Begins(q, r) => Begins(p, r)
<1> SUFFICES ASSUME NEW p, NEW q, NEW r, Len(p) \in Nat, Len(q) \in Nat, Len(r) \in Nat,
                    Begins(p, q), Begins(q, r)
             PROVE  Begins(p, r)
  OBVIOUS
<1>1. Len(p) <= Len(q) /\ Len(q) <= Len(r)
  BY DEF Begins
<1>2. \A i \in 1 .. Len(p) : i \in 1 .. Len(q)
  BY <1>1
<1>3. \A i \in 1 .. Len(p) : r[i] = p[i]
  BY <1>2 DEF Begins
<1>4. Len(p) <= Len(r)
  BY <1>1
<1>5. QED
  BY <1>3, <1>4 DEF Begins

\* The ids of the nodes a load gets through.
NamedAt(T, k) == IF T.id[T.order[k]] = None THEN <<>> ELSE <<Lower[T.id[T.order[k]]]>>
NamesOf(T) == [k \in 1 .. Reached(T) |-> NamedAt(T, k)]
\* They are a sequence of ids.
LEMMA NamesTyped ==
  \A T : treeSize(T) \in Nat =>
    /\ Reached(T) \in Nat /\ Len(FlattenSeq(NamesOf(T))) \in Nat
    /\ \A k \in 1 .. Reached(T) : \A y : Occurs(y, NamedAt(T, k)) => Occurs(y, FlattenSeq(NamesOf(T)))
<1> SUFFICES ASSUME NEW T, treeSize(T) \in Nat
             PROVE  /\ Reached(T) \in Nat /\ Len(FlattenSeq(NamesOf(T))) \in Nat
                    /\ \A k \in 1 .. Reached(T) : \A y : Occurs(y, NamedAt(T, k)) => Occurs(y, FlattenSeq(NamesOf(T)))
  OBVIOUS
<1> DEFINE m == Reached(T)
           id(k) == Lower[T.id[T.order[k]]]
           R == {id(k) : k \in 1 .. m}
           G == NamesOf(T)
           D == Seq(R)
           ids == FlattenSeq(G)
<1>1. m \in Nat
  BY ReachedBound
<1>2. \A k \in 1 .. m : NamedAt(T, k) \in D
  <2> SUFFICES ASSUME NEW k \in 1 .. m PROVE NamedAt(T, k) \in D
    OBVIOUS
  <2>1. id(k) \in R
    OBVIOUS
  <2>2. NamedAt(T, k) = <<>> \/ NamedAt(T, k) = <<id(k)>>
    BY DEF NamedAt
  <2> HIDE DEF id, R
  <2>3. <<id(k)>> \in Seq(R) /\ <<>> \in Seq(R)
    BY <2>1
  <2>4. QED
    BY <2>2, <2>3
<1> HIDE DEF R, D, m
<1>3. G \in [1 .. m -> D] /\ \A k \in 1 .. m : G[k] = NamedAt(T, k)
  BY <1>2 DEF NamesOf, m
<1> HIDE DEF G
<1>4. G \in Seq(D) /\ Len(G) = m
  BY <1>1, <1>3, OccursMany
<1>5. ids \in Seq(R)
  BY <1>4, FlattenAppend DEF D
<1>6. \A y : Occurs(y, ids) <=> OccursIn(y, G)
  BY <1>4, FlattenElements DEF D
<1> HIDE DEF ids
<1>7. Len(ids) \in Nat
  BY <1>5
<1>8. \A k \in 1 .. m : \A y : Occurs(y, NamedAt(T, k)) => Occurs(y, ids)
  BY <1>3, <1>4, <1>6 DEF OccursIn
<1>9. QED
  BY <1>1, <1>7, <1>8 DEF m, ids, G

\* A load adds them to the tokens.
LEMMA LoadTokens ==
  \A T, toks : treeSize(T) \in Nat /\ TokenList(toks) =>
    TokenList(TokensAfter(T, toks)) /\ Begins(toks, TokensAfter(T, toks))
<1>1. \A T, toks : TokensAfter(T, toks) = Tokenized(toks, FlattenSeq(NamesOf(T)))
  BY DEF TokensAfter, NamesOf, NamedAt
<1>2. QED
  BY <1>1, NamesTyped, TokensGrow

-----------------------------------------------------------------------------
(* Style sheets are parsed into sequences.                                 *)

Lexemes == Seq(Seq(STRING))
\* The places of the separators are within the text: between them are texts again.
Seps(s, sep) == {i \in DOMAIN s : Kind(s[i]) = sep}
NextCut(s, sep, c) == Min({i \in Seps(s, sep) : c < i} \cup {Len(s) + 1})
AreCuts(s, sep, g) == g = [k \in Nat |-> IF k = 0 THEN 0 ELSE NextCut(s, sep, g[k - 1])]
Cuts(s, sep) == CHOOSE g : AreCuts(s, sep, g)
\* split, with the function it recurses with named.
LEMMA SplitIs ==
  \A s, sep : Split(s, sep) = [k \in 1 .. Cardinality(Seps(s, sep)) + 1 |->
                                 SubSeq(s, Cuts(s, sep)[k - 1] + 1, Cuts(s, sep)[k] - 1)]
BY Zenon DEF Split, Cuts, AreCuts, NextCut, Seps

\* The next separator after a place, or the end.
LEMMA NextCutIn ==
  \A s \in Lexemes : \A sep : \A c \in 0 .. Len(s) + 1 : NextCut(s, sep, c) \in 1 .. Len(s) + 1
<1> SUFFICES ASSUME NEW s \in Lexemes, NEW sep, NEW c \in 0 .. Len(s) + 1
             PROVE  NextCut(s, sep, c) \in 1 .. Len(s) + 1
  OBVIOUS
<1> DEFINE n == Len(s)
           S == {i \in Seps(s, sep) : c < i} \cup {n + 1}
<1>1. n \in Nat /\ DOMAIN s = 1 .. n
  BY DEF Lexemes
<1>2. S \subseteq 1 .. n + 1 /\ n + 1 \in S
  BY <1>1 DEF Seps
<1>3. NextCut(s, sep, c) = Min(S)
  BY DEF NextCut
<1> HIDE DEF S, n
<1>4. S \in SUBSET Nat
  BY <1>1, <1>2
<1>5. Min(S) \in S
  BY <1>2, <1>4, LeastOf
<1>6. QED
  BY <1>2, <1>3, <1>5 DEF n

\* Hence all of them.
LEMMA CutsIn ==
  \A s \in Lexemes : \A sep :
    /\ Cuts(s, sep)[0] = 0
    /\ \A k \in Nat : Cuts(s, sep)[k] \in 0 .. Len(s) + 1 /\ Cuts(s, sep)[k + 1] \in 1 .. Len(s) + 1
<1> SUFFICES ASSUME NEW s \in Lexemes, NEW sep
             PROVE  /\ Cuts(s, sep)[0] = 0
                    /\ \A k \in Nat : /\ Cuts(s, sep)[k] \in 0 .. Len(s) + 1
                                      /\ Cuts(s, sep)[k + 1] \in 1 .. Len(s) + 1
  OBVIOUS
<1> DEFINE D == 0 .. Len(s) + 1
           E == 1 .. Len(s) + 1
           next(c) == NextCut(s, sep, c)
           H == [k \in Nat |-> [c \in D |-> next(c)]]
<1>1. 0 \in D /\ E \subseteq D
  <2>1. Len(s) \in Nat
    BY DEF Lexemes
  <2>2. QED
    BY <2>1
<1>2. \A c \in D : next(c) \in E
  BY NextCutIn
<1> HIDE DEF D, E
<1>3. IsStep(H, D) /\ \A k \in Nat : \A c \in D : H[k][c] = next(c)
  <2>1. \A c \in D : next(c) \in D
    BY <1>1, <1>2
  <2> HIDE DEF next
  <2>2. QED
    BY <2>1 DEF IsStep
<1> HIDE DEF H
<1>4. PICK f : Iterates(f, D, 0, H)
  BY <1>1, <1>3, Recursion
<1>5. f \in [Nat -> D] /\ f[0] = 0 /\ \A k \in Nat : f[k + 1] = next(f[k])
  BY <1>3, <1>4 DEF Iterates
<1>6. AreCuts(s, sep, f)
  <2>1. ASSUME NEW k \in Nat PROVE f[k] = IF k = 0 THEN 0 ELSE next(f[k - 1])
    <3>1. CASE k = 0
      BY <1>5, <3>1
    <3>2. CASE k # 0
      <4>1. k - 1 \in Nat /\ (k - 1) + 1 = k
        BY <3>2
      <4>2. f[(k - 1) + 1] = next(f[k - 1])
        BY <1>5, <4>1
      <4>3. QED
        BY <3>2, <4>1, <4>2
    <3>3. QED
      BY <3>1, <3>2
  <2>2. f = [k \in Nat |-> f[k]]
    BY <1>5
  <2>3. QED
    BY <2>1, <2>2 DEF AreCuts
<1> DEFINE g == Cuts(s, sep)
<1>7. AreCuts(s, sep, g)
  BY <1>6 DEF Cuts
<1> HIDE DEF g
<1>8. g[0] = 0 /\ \A k \in Nat : g[k + 1] = next(g[k])
  <2>1. \A m \in Nat : g[m] = IF m = 0 THEN 0 ELSE next(g[m - 1])
    BY <1>7 DEF AreCuts
  <2>2. \A k \in Nat : k + 1 \in Nat /\ k + 1 # 0 /\ (k + 1) - 1 = k
    OBVIOUS
  <2>3. \A k \in Nat : g[k + 1] = next(g[(k + 1) - 1])
    BY <2>1, <2>2
  <2>4. QED
    BY <2>1, <2>2, <2>3
<1>9. \A n \in Nat : g[n] \in D
  <2>1. \A k \in Nat : g[k] \in D => g[k + 1] \in D
    BY <1>1, <1>2, <1>8
  <2>2. QED
    BY <1>1, <1>8, <2>1, Everywhere
<1>10. \A k \in Nat : g[k + 1] \in E
  BY <1>2, <1>8, <1>9
<1>11. QED
  BY <1>8, <1>9, <1>10 DEF D, E, g

\* The parts of a text are texts.
LEMMA SplitTyped ==
  \A s \in Lexemes : \A sep : Split(s, sep) \in Seq(Lexemes) /\ 1 <= Len(Split(s, sep))
<1> SUFFICES ASSUME NEW s \in Lexemes, NEW sep
             PROVE  Split(s, sep) \in Seq(Lexemes) /\ 1 <= Len(Split(s, sep))
  OBVIOUS
<1> DEFINE m == Cardinality(Seps(s, sep)) + 1
           c == Cuts(s, sep)
           p(k) == SubSeq(s, c[k - 1] + 1, c[k] - 1)
<1>1. m \in Nat /\ 1 <= m
  <2>1. Seps(s, sep) \subseteq 1 .. Len(s) /\ Len(s) \in Nat
    BY DEF Seps, Lexemes
  <2>2. IsFiniteSet(1 .. Len(s))
    BY <2>1, FS_Interval
  <2>3. QED
    BY <2>1, <2>2, FS_Subset, FS_CardinalityType
<1>2. \A k \in 1 .. m : c[k - 1] \in 0 .. Len(s) + 1 /\ c[k] \in 1 .. Len(s) + 1
  <2>1. ASSUME NEW k \in 1 .. m PROVE c[k - 1] \in 0 .. Len(s) + 1 /\ c[k] \in 1 .. Len(s) + 1
    <3>1. k - 1 \in Nat /\ (k - 1) + 1 = k
      OBVIOUS
    <3> DEFINE h == k - 1
    <3> HIDE DEF h
    <3>2. c[h] \in 0 .. Len(s) + 1 /\ c[h + 1] \in 1 .. Len(s) + 1
      BY <3>1, CutsIn DEF h
    <3>3. QED
      BY <3>1, <3>2 DEF h
  <2>2. QED
    BY <2>1
<1>3. \A k \in 1 .. m : p(k) \in Lexemes
  <2> SUFFICES ASSUME NEW k \in 1 .. m PROVE p(k) \in Lexemes
    OBVIOUS
  <2> DEFINE a == c[k - 1] + 1
             b == c[k] - 1
  <2>1. Len(s) \in Nat
    BY DEF Lexemes
  <2>2. a \in 1 .. Len(s) + 2 /\ b \in 0 .. Len(s)
    BY <1>2, <2>1
  <2> HIDE DEF a, b
  <2>3. SubSeq(s, a, b) \in Seq(Seq(STRING))
    BY <2>1, <2>2 DEF Lexemes
  <2>4. QED
    BY <2>3 DEF Lexemes, a, b
<1>4. Split(s, sep) = [k \in 1 .. m |-> p(k)]
  BY SplitIs
<1> HIDE DEF m, p
<1>5. QED
  BY <1>1, <1>3, <1>4

\* So is a text without the white space around it.
LEMMA TrimTyped == \A s \in Lexemes : Trim(s) \in Lexemes
<1> SUFFICES ASSUME NEW s \in Lexemes PROVE Trim(s) \in Lexemes
  OBVIOUS
<1> DEFINE solid == {i \in DOMAIN s : Kind(s[i]) # " "}
           a == Min(solid)
           b == Max(solid)
<1>1. Len(s) \in Nat /\ DOMAIN s = 1 .. Len(s) /\ <<>> \in Lexemes
  BY DEF Lexemes
<1>2. Trim(s) = IF solid = {} THEN <<>> ELSE SubSeq(s, a, b)
  BY Zenon DEF Trim
<1>3. solid \in SUBSET Nat /\ (\A i \in solid : i \in 1 .. Len(s)) /\ \A i \in solid : i <= Len(s)
  <2> DEFINE n == Len(s)
  <2>1. solid \subseteq DOMAIN s
    OBVIOUS
  <2> HIDE DEF solid, n
  <2>2. solid \subseteq 1 .. n /\ n \in Nat
    BY <1>1, <2>1 DEF n
  <2>3. QED
    BY <2>2 DEF n
<1> HIDE DEF solid
<1>4. CASE solid # {}
  <2>1. a \in solid /\ b \in solid
    BY <1>1, <1>3, <1>4, LeastOf, GreatestOf
  <2>2. a \in 1 .. Len(s) /\ b \in 1 .. Len(s)
    BY <1>3, <2>1
  <2> HIDE DEF a, b
  <2>3. SubSeq(s, a, b) \in Seq(Seq(STRING))
    BY <1>1, <2>2 DEF Lexemes
  <2>4. QED
    BY <1>2, <1>4, <2>3 DEF Lexemes
<1>5. QED
  BY <1>1, <1>2, <1>4

\* A selector: predicates, and a combinator between each two.
Combinators == {" ", ">", "+"}
Predicates == {parsePredicate(w) : w \in Lexemes}
IsSelector(sel) ==
  /\ sel.preds \in Seq(Predicates) /\ sel.ops \in Seq(Combinators)
  /\ Len(sel.preds) \in Nat /\ Len(sel.ops) \in Nat /\ Len(sel.preds) = Len(sel.ops) + 1
AreSelectors(parts, n) == DOMAIN parts = 1 .. n /\ \A k \in 1 .. n : IsSelector(parts[k])
OneMore(l, m, a) == l \in Nat /\ m \in Nat /\ l = IF a = 1 THEN m + 1 ELSE m
Counted(p, q, n, P, Q) ==
  /\ P[0] = 0 /\ Q[0] = 0
  /\ \A a \in 1 .. n : /\ P[a] = P[a - 1] + Len(p[a]) /\ Q[a] = Q[a - 1] + Len(q[a])
                       /\ OneMore(Len(p[a]), Len(q[a]), a)
\* The first parts have one predicate more than combinators.
LEMMA JoinCounts ==
  \A p, q : \A n \in Nat : \A P, Q : 1 <= n /\ Counted(p, q, n, P, Q) =>
    P[n] \in Nat /\ Q[n] \in Nat /\ P[n] = Q[n] + 1
<1> SUFFICES ASSUME NEW p, NEW q, NEW n \in Nat, NEW P, NEW Q, 1 <= n, Counted(p, q, n, P, Q)
             PROVE  P[n] \in Nat /\ Q[n] \in Nat /\ P[n] = Q[n] + 1
  OBVIOUS
<1> DEFINE f(a) == Len(p[a])
           g(a) == Len(q[a])
<1>0. P[0] = 0 /\ Q[0] = 0 /\ \A a \in 1 .. n : /\ P[a] = P[a - 1] + f(a) /\ Q[a] = Q[a - 1] + g(a)
                                                 /\ OneMore(f(a), g(a), a)
  BY DEF Counted
<1> HIDE DEF f, g
<1>1. \A a \in 1 .. n : /\ P[a] = P[a - 1] + f(a) /\ Q[a] = Q[a - 1] + g(a)
                        /\ f(a) \in Nat /\ g(a) \in Nat
                        /\ f(a) = IF a = 1 THEN g(a) + 1 ELSE g(a)
  BY <1>0 DEF OneMore
<1>2. P[1] \in Nat /\ Q[1] \in Nat /\ P[1] = Q[1] + 1
  <2>1. 1 \in 1 .. n /\ 1 - 1 = 0
    OBVIOUS
  <2>2. P[1] = P[0] + f(1) /\ Q[1] = Q[0] + g(1) /\ f(1) \in Nat /\ g(1) \in Nat /\ f(1) = g(1) + 1
    BY <1>1, <2>1
  <2>3. QED
    BY <1>0, <2>2
<1> DEFINE Fits1(k) == k = 0 \/ (P[k] \in Nat /\ Q[k] \in Nat /\ P[k] = Q[k] + 1)
           S == {k \in 0 .. n : Fits1(k)}
<1>3. \A k \in 0 .. n - 1 : k \in S => k + 1 \in S
  <2> SUFFICES ASSUME NEW k \in 0 .. n - 1, Fits1(k) PROVE Fits1(k + 1)
    OBVIOUS
  <2>1. CASE k = 0
    BY <1>2, <2>1
  <2>2. CASE k # 0
    <3> DEFINE h == k + 1
    <3>1. h \in 1 .. n /\ h - 1 = k /\ h # 1
      BY <2>2
    <3> HIDE DEF h
    <3>2. P[h] = P[k] + f(h) /\ Q[h] = Q[k] + g(h) /\ f(h) \in Nat /\ g(h) \in Nat /\ f(h) = g(h)
      BY <1>1, <3>1
    <3>3. P[k] \in Nat /\ Q[k] \in Nat /\ P[k] = Q[k] + 1
      BY <2>2
    <3>4. P[h] \in Nat /\ Q[h] \in Nat /\ P[h] = Q[h] + 1
      BY <3>2, <3>3
    <3>5. QED
      BY <3>4 DEF h
  <2>3. QED
    BY <2>1, <2>2
<1>4. 0 \in S /\ n \in 0 .. n
  OBVIOUS
<1> HIDE DEF S
<1>5. \A k \in 0 .. n : k \in S
  BY <1>3, <1>4, CountingUp
<1>6. n \in S
  BY <1>4, <1>5
<1>7. QED
  BY <1>6 DEF S

\* Selectors joined by a combinator are a selector.
LEMMA JoinedTyped ==
  \A op \in Combinators : \A n \in Nat : \A parts :
    1 <= n /\ AreSelectors(parts, n) => IsSelector(Joined(parts, op))
<1> SUFFICES ASSUME NEW op \in Combinators, NEW n \in Nat, NEW parts, 1 <= n, AreSelectors(parts, n)
             PROVE  IsSelector(Joined(parts, op))
  OBVIOUS
<1> DEFINE R == Predicates
           C == Combinators
           D == Seq(R)
           E == Seq(C)
           x(k) == parts[k].preds
           y(k) == IF k = 1 THEN parts[k].ops ELSE <<op>> \o parts[k].ops
           p == [k \in 1 .. n |-> x(k)]
           q == [k \in 1 .. n |-> y(k)]
           fp == FlattenSeq(p)
           fq == FlattenSeq(q)
<1>1. DOMAIN parts = 1 .. n /\ \A k \in 1 .. n : IsSelector(parts[k])
  BY DEF AreSelectors
<1>2. Joined(parts, op).preds = fp /\ Joined(parts, op).ops = fq
  BY <1>1 DEF Joined
<1>3. \A k \in 1 .. n : x(k) \in D /\ Len(x(k)) \in Nat
  BY <1>1 DEF IsSelector
<1>4. \A k \in 1 .. n : y(k) \in E /\ Len(y(k)) \in Nat /\ Len(x(k)) = IF k = 1 THEN Len(y(k)) + 1 ELSE Len(y(k))
  <2> SUFFICES ASSUME NEW k \in 1 .. n
               PROVE  y(k) \in E /\ Len(y(k)) \in Nat /\ Len(x(k)) = IF k = 1 THEN Len(y(k)) + 1 ELSE Len(y(k))
    OBVIOUS
  <2> DEFINE o == parts[k].ops
  <2>1. o \in Seq(C) /\ Len(o) \in Nat /\ Len(x(k)) = Len(o) + 1
    BY <1>1 DEF IsSelector
  <2> HIDE DEF o, C, x
  <2>2. <<op>> \in Seq(C) /\ Len(<<op>>) = 1
    BY DEF C
  <2>3. <<op>> \o o \in Seq(C) /\ Len(<<op>> \o o) = 1 + Len(o)
    BY <2>1, <2>2
  <2>4. y(k) = IF k = 1 THEN o ELSE <<op>> \o o
    BY DEF o
  <2> HIDE DEF y
  <2>5. CASE k = 1
    BY <2>1, <2>4, <2>5
  <2>6. CASE k # 1
    <3>1. y(k) \in Seq(C) /\ Len(y(k)) = 1 + Len(o)
      BY <2>3, <2>4, <2>6
    <3>2. QED
      BY <2>1, <2>6, <3>1
  <2>7. QED
    BY <2>5, <2>6
<1> HIDE DEF R, C, D, E, x, y
<1>5. p \in [1 .. n -> D] /\ q \in [1 .. n -> E] /\ \A k \in 1 .. n : p[k] = x(k) /\ q[k] = y(k)
  BY <1>3, <1>4
<1> HIDE DEF p, q
<1>6. p \in Seq(D) /\ Len(p) = n
  BY <1>5, OccursMany
<1>7. q \in Seq(E) /\ Len(q) = n
  BY <1>5, OccursMany
<1>8. fp \in Seq(R) /\ LaidAt(p, fp, Offsets(p))
  BY <1>6, LaidOut DEF D
<1>9. fq \in Seq(C) /\ LaidAt(q, fq, Offsets(q))
  BY <1>7, LaidOut DEF E
<1> HIDE DEF fp, fq
<1> DEFINE P == Offsets(p)
           Q == Offsets(q)
<1> HIDE DEF P, Q
<1>10. /\ P[0] = 0 /\ Len(fp) = P[n] /\ \A a \in 1 .. n : P[a] = P[a - 1] + Len(p[a])
       /\ Q[0] = 0 /\ Len(fq) = Q[n] /\ \A a \in 1 .. n : Q[a] = Q[a - 1] + Len(q[a])
  BY <1>6, <1>7, <1>8, <1>9 DEF LaidAt, P, Q
<1>11. Counted(p, q, n, P, Q)
  <2>1. \A a \in 1 .. n : OneMore(Len(x(a)), Len(y(a)), a)
    BY <1>3, <1>4 DEF OneMore
  <2>2. \A a \in 1 .. n : OneMore(Len(p[a]), Len(q[a]), a)
    BY <1>5, <2>1
  <2>3. QED
    BY <1>10, <2>2 DEF Counted
<1>12. P[n] \in Nat /\ Q[n] \in Nat /\ P[n] = Q[n] + 1
  BY <1>11, JoinCounts
<1>13. QED
  BY <1>2, <1>8, <1>9, <1>10, <1>12 DEF IsSelector, R, C

\* Parts that are one word each, joined.
LEMMA WordsJoined ==
  \A op \in Combinators : \A s \in Lexemes : \A sep :
    IsSelector(Joined([k \in DOMAIN Split(s, sep) |->
                         [preds |-> <<parsePredicate(Split(s, sep)[k])>>, ops |-> <<>>]], op))
<1> SUFFICES ASSUME NEW op \in Combinators, NEW s \in Lexemes, NEW sep
             PROVE  IsSelector(Joined([k \in DOMAIN Split(s, sep) |->
                                 [preds |-> <<parsePredicate(Split(s, sep)[k])>>, ops |-> <<>>]], op))
  OBVIOUS
<1> DEFINE p == Split(s, sep)
           n == Len(p)
           w(k) == [preds |-> <<parsePredicate(p[k])>>, ops |-> <<>>]
           parts == [k \in 1 .. n |-> w(k)]
<1>1. p \in Seq(Lexemes) /\ 1 <= n
  BY SplitTyped
<1>2. n \in Nat /\ DOMAIN p = 1 .. n
  BY <1>1
<1> HIDE DEF p, n
<1>3. \A k \in 1 .. n : IsSelector(w(k))
  <2> SUFFICES ASSUME NEW k \in 1 .. n PROVE IsSelector(w(k))
    OBVIOUS
  <2> DEFINE x == parsePredicate(p[k])
  <2>1. p[k] \in Lexemes
    BY <1>1, <1>2
  <2>2. x \in Predicates
    BY <2>1 DEF Predicates
  <2>3. w(k).preds = <<x>> /\ w(k).ops = <<>>
    OBVIOUS
  <2> HIDE DEF x, w
  <2>4. <<x>> \in Seq(Predicates) /\ Len(<<x>>) = 1
    BY <2>2
  <2>5. <<>> \in Seq(Combinators) /\ Len(<<>>) = 0
    OBVIOUS
  <2>6. QED
    BY <2>3, <2>4, <2>5 DEF IsSelector
<1> HIDE DEF w
<1>4. AreSelectors(parts, n)
  BY <1>3 DEF AreSelectors
<1> HIDE DEF parts
<1>5. IsSelector(Joined(parts, op))
  BY <1>1, <1>2, <1>4, JoinedTyped
<1>6. QED
  BY <1>2, <1>5 DEF parts, w, p

\* A chain of words, and one of chains.
Des(s) == Joined([k \in DOMAIN Split(Trim(s), " ") |->
                    [preds |-> <<parsePredicate(Split(Trim(s), " ")[k])>>, ops |-> <<>>]], " ")
Pars(s) == Joined([k \in DOMAIN Split(Trim(s), ">") |-> Des(Split(Trim(s), ">")[k])], ">")
\* parseSelector, with the functions it is made of named.
LEMMA ParseIs ==
  \A s : parseSelector(s) = Joined([k \in DOMAIN Split(Trim(s), "+") |-> Pars(Split(Trim(s), "+")[k])], "+")
BY Zenon DEF parseSelector, Des, Pars

\* Any text is read as a selector.
LEMMA ParseTyped == \A s \in Lexemes : IsSelector(parseSelector(s))
<1>1. /\ " " \in Combinators /\ ">" \in Combinators /\ "+" \in Combinators
      /\ \A s \in Lexemes : \A sep : LET p == Split(Trim(s), sep) IN
           DOMAIN p = 1 .. Len(p) /\ Len(p) \in Nat /\ 1 <= Len(p) /\ \A k \in 1 .. Len(p) : p[k] \in Lexemes
  <2>1. ASSUME NEW s \in Lexemes, NEW sep
        PROVE  LET p == Split(Trim(s), sep) IN
               DOMAIN p = 1 .. Len(p) /\ Len(p) \in Nat /\ 1 <= Len(p) /\ \A k \in 1 .. Len(p) : p[k] \in Lexemes
    <3> DEFINE p == Split(Trim(s), sep)
    <3>1. p \in Seq(Lexemes) /\ 1 <= Len(p)
      BY TrimTyped, SplitTyped
    <3> HIDE DEF p
    <3>2. DOMAIN p = 1 .. Len(p) /\ Len(p) \in Nat /\ \A k \in 1 .. Len(p) : p[k] \in Lexemes
      BY <3>1
    <3>3. QED
      BY <3>1, <3>2 DEF p
  <2>2. QED
    BY <2>1 DEF Combinators
<1>2. ASSUME NEW s \in Lexemes PROVE IsSelector(Des(s))
  <2>1. Trim(s) \in Lexemes
    BY TrimTyped
  <2> DEFINE u == Trim(s)
  <2> HIDE DEF u
  <2>2. IsSelector(Joined([k \in DOMAIN Split(u, " ") |->
                             [preds |-> <<parsePredicate(Split(u, " ")[k])>>, ops |-> <<>>]], " "))
    BY <1>1, <2>1, WordsJoined DEF u
  <2>3. QED
    BY <2>2 DEF Des, u
<1>3. ASSUME NEW s \in Lexemes PROVE IsSelector(Pars(s))
  <2> DEFINE p == Split(Trim(s), ">")
             parts == [k \in DOMAIN p |-> Des(p[k])]
  <2>1. DOMAIN p = 1 .. Len(p) /\ Len(p) \in Nat /\ 1 <= Len(p) /\ \A k \in 1 .. Len(p) : p[k] \in Lexemes
    BY <1>1
  <2>2. Pars(s) = Joined(parts, ">")
    BY DEF Pars
  <2> HIDE DEF p
  <2>3. AreSelectors(parts, Len(p))
    BY <1>2, <2>1 DEF AreSelectors
  <2> HIDE DEF parts
  <2>4. QED
    BY <1>1, <2>1, <2>2, <2>3, JoinedTyped
<1>4. ASSUME NEW s \in Lexemes PROVE IsSelector(parseSelector(s))
  <2> DEFINE p == Split(Trim(s), "+")
             parts == [k \in DOMAIN p |-> Pars(p[k])]
  <2>1. DOMAIN p = 1 .. Len(p) /\ Len(p) \in Nat /\ 1 <= Len(p) /\ \A k \in 1 .. Len(p) : p[k] \in Lexemes
    BY <1>1
  <2>2. parseSelector(s) = Joined(parts, "+")
    BY ParseIs
  <2> HIDE DEF p
  <2>3. AreSelectors(parts, Len(p))
    BY <1>3, <2>1 DEF AreSelectors
  <2> HIDE DEF parts
  <2>4. QED
    BY <1>1, <2>1, <2>2, <2>3, JoinedTyped
<1>5. QED
  BY <1>4

\* Every rule of every sheet is read as selectors.
RulesParsed(s) ==
  /\ Len(Sheets[s]) \in Nat /\ DOMAIN parse[s] = 1 .. Len(Sheets[s])
  /\ \A r \in 1 .. Len(Sheets[s]) :
       /\ Len(parse[s][r]) \in Nat /\ DOMAIN parse[s][r] = 1 .. Len(parse[s][r])
       /\ \A p \in 1 .. Len(parse[s][r]) : IsSelector(parse[s][r][p])
\* So it is with the sheets of the assumption.
LEMMA SheetsParsed == \A s \in DOMAIN Sheets : RulesParsed(s)
<1> SUFFICES ASSUME NEW s \in DOMAIN Sheets PROVE RulesParsed(s)
  OBVIOUS
<1> DEFINE h == Sheets[s]
           n == Len(h)
           A == ToSet(h)
<1>1. n \in Nat /\ DOMAIN h = 1 .. n
  <2>1. h \in Seq(A)
    BY SheetsAreRules
  <2> HIDE DEF h, A
  <2>2. QED
    BY <2>1
<1>2. \A r \in 1 .. n : h[r].text \in Lexemes
  BY <1>1, SheetsAreRules DEF Lexemes
<1>3. parse[s] = [r \in 1 .. n |-> parsePredicates(h[r].text)]
  BY <1>1 DEF parse
<1> HIDE DEF n, h
<1>4. ASSUME NEW r \in 1 .. n
      PROVE  /\ Len(parse[s][r]) \in Nat /\ DOMAIN parse[s][r] = 1 .. Len(parse[s][r])
             /\ \A p \in 1 .. Len(parse[s][r]) : IsSelector(parse[s][r][p])
  <2> DEFINE x == Split(h[r].text, ",")
             m == Len(x)
             y == [k \in 1 .. m |-> parseSelector(x[k])]
  <2>1. x \in Seq(Lexemes)
    BY <1>2, SplitTyped
  <2>2. m \in Nat /\ DOMAIN x = 1 .. m /\ \A k \in 1 .. m : x[k] \in Lexemes
    <3> HIDE DEF x
    <3>1. QED
      BY <2>1
  <2>3. parse[s][r] = y
    BY <1>3, <2>2 DEF parsePredicates
  <2> HIDE DEF x, m
  <2>4. \A k \in 1 .. m : IsSelector(y[k])
    BY <2>2, ParseTyped
  <2>5. Len(y) = m /\ DOMAIN y = 1 .. m
    BY <2>2
  <2> HIDE DEF y
  <2>6. QED
    BY <2>2, <2>3, <2>4, <2>5
<1>5. DOMAIN parse[s] = 1 .. n
  BY <1>3
<1>6. QED
  BY <1>1, <1>4, <1>5 DEF RulesParsed, n, h

Ids == {p.id : p \in Predicates}
IdOf(p) == IF p.id = "" THEN <<>> ELSE <<p.id>>
IdsOf(sel) == FlattenSeq([k \in DOMAIN sel.preds |-> IdOf(sel.preds[k])])
IdsOfRule(rule) == FlattenSeq([p \in DOMAIN rule |-> IdsOf(rule[p])])
\* The ids of a selector.
LEMMA IdsTyped == \A sel : IsSelector(sel) => IdsOf(sel) \in Seq(Ids)
<1> SUFFICES ASSUME NEW sel, IsSelector(sel) PROVE IdsOf(sel) \in Seq(Ids)
  OBVIOUS
<1> DEFINE ps == sel.preds
           n == Len(ps)
           f == [k \in 1 .. n |-> IdOf(ps[k])]
           D == Seq(Ids)
<1>1. ps \in Seq(Predicates)
  BY DEF IsSelector
<1> HIDE DEF ps
<1>2. n \in Nat /\ DOMAIN ps = 1 .. n /\ \A k \in 1 .. n : ps[k] \in Predicates
  BY <1>1
<1>3. IdsOf(sel) = FlattenSeq(f)
  BY <1>2 DEF IdsOf, ps
<1> HIDE DEF n
<1>4. ASSUME NEW p \in Predicates PROVE IdOf(p) \in D
  <2>1. p.id \in Ids
    BY DEF Ids
  <2>2. <<p.id>> \in Seq(Ids) /\ <<>> \in Seq(Ids)
    BY <2>1
  <2>3. QED
    BY <2>2 DEF IdOf
<1> HIDE DEF D
<1>5. f \in [1 .. n -> D]
  BY <1>2, <1>4
<1> HIDE DEF f
<1>6. f \in Seq(D)
  BY <1>2, <1>5, OccursMany
<1>7. FlattenSeq(f) \in Seq(Ids)
  BY <1>6, FlattenAppend DEF D
<1>8. QED
  BY <1>3, <1>7

\* The ids of a sheet.
LEMMA SheetIdsTyped == \A s \in DOMAIN Sheets : Len(SheetIds(s)) \in Nat
<1> SUFFICES ASSUME NEW s \in DOMAIN Sheets PROVE Len(SheetIds(s)) \in Nat
  OBVIOUS
<1> DEFINE rules == parse[s]
           n == Len(Sheets[s])
           D == Seq(Ids)
           g == [r \in 1 .. n |-> IdsOfRule(rules[r])]
           ids == FlattenSeq(g)
<1>1. /\ n \in Nat /\ DOMAIN rules = 1 .. n
      /\ \A r \in 1 .. n : /\ Len(rules[r]) \in Nat /\ DOMAIN rules[r] = 1 .. Len(rules[r])
                           /\ \A p \in 1 .. Len(rules[r]) : IsSelector(rules[r][p])
  BY SheetsParsed DEF RulesParsed
<1>2. SheetIds(s) = [k \in DOMAIN ids |-> Lower[ids[k]]]
  <2>1. SheetIds(s) = [k \in DOMAIN FlattenSeq([r \in DOMAIN rules |-> IdsOfRule(rules[r])]) |->
                         Lower[FlattenSeq([r \in DOMAIN rules |-> IdsOfRule(rules[r])])[k]]]
    BY Zenon DEF SheetIds, IdsOfRule, IdsOf, IdOf
  <2>2. QED
    BY <1>1, <2>1
<1> HIDE DEF rules, n
<1>3. \A r \in 1 .. n : IdsOfRule(rules[r]) \in D
  <2> SUFFICES ASSUME NEW r \in 1 .. n PROVE IdsOfRule(rules[r]) \in D
    OBVIOUS
  <2> DEFINE m == Len(rules[r])
             f == [p \in 1 .. m |-> IdsOf(rules[r][p])]
  <2>1. m \in Nat /\ DOMAIN rules[r] = 1 .. m /\ \A p \in 1 .. m : IdsOf(rules[r][p]) \in D
    BY <1>1, IdsTyped
  <2>2. IdsOfRule(rules[r]) = FlattenSeq(f)
    BY <2>1 DEF IdsOfRule
  <2> HIDE DEF m, D
  <2>3. f \in [1 .. m -> D]
    BY <2>1
  <2> HIDE DEF f
  <2>4. f \in Seq(D)
    BY <2>1, <2>3, OccursMany
  <2>5. FlattenSeq(f) \in Seq(Ids)
    BY <2>4, FlattenAppend DEF D
  <2>6. QED
    BY <2>2, <2>5 DEF D
<1> HIDE DEF D
<1>4. g \in [1 .. n -> D]
  BY <1>3
<1> HIDE DEF g
<1>5. ids \in Seq(Ids)
  <2>1. g \in Seq(D)
    BY <1>1, <1>4, OccursMany
  <2>2. QED
    BY <2>1, FlattenAppend DEF D
<1> HIDE DEF ids
<1>6. Len(ids) \in Nat /\ DOMAIN ids = 1 .. Len(ids)
  BY <1>5
<1> DEFINE l == Len(ids)
<1> HIDE DEF l
<1>7. l \in Nat /\ SheetIds(s) = [k \in 1 .. l |-> Lower[ids[k]]]
  BY <1>2, <1>6 DEF l
<1>8. QED
  BY <1>7

\* A style sheet adds its ids.
LEMMA SheetTokens ==
  \A s \in DOMAIN Sheets : \A toks : TokenList(toks) =>
    TokenList(TokensWith(s, toks)) /\ Begins(toks, TokensWith(s, toks))
<1> SUFFICES ASSUME NEW s \in DOMAIN Sheets, NEW toks, TokenList(toks)
             PROVE  TokenList(TokensWith(s, toks)) /\ Begins(toks, TokensWith(s, toks))
  OBVIOUS
<1> DEFINE a == Tokenized(toks, <<"">>)
           c == Tokenized(a, SheetIds(s))
<1>1. TokenList(a) /\ Begins(toks, a)
  <2>1. Len(<<"">>) \in Nat
    OBVIOUS
  <2> DEFINE u == <<"">>
  <2> HIDE DEF u
  <2>2. TokenList(Tokenized(toks, u)) /\ Begins(toks, Tokenized(toks, u))
    BY <2>1, TokensGrow DEF u
  <2>3. QED
    BY <2>2 DEF u
<1>2. TokensWith(s, toks) = c
  BY DEF TokensWith
<1> HIDE DEF a
<1>3. TokenList(c) /\ Begins(a, c)
  BY <1>1, SheetIdsTyped, TokensGrow
<1> HIDE DEF c
<1>4. ASSUME NEW q, TokenList(q) PROVE Len(q) \in Nat
  <2>1. q \in Seq(ToSet(q))
    BY <1>4 DEF TokenList
  <2>2. QED
    BY <2>1, OwnElements
<1>5. Begins(toks, c)
  BY <1>1, <1>3, <1>4, BeginsAgain
<1>6. QED
  BY <1>2, <1>3, <1>5

-----------------------------------------------------------------------------
(* The system.                                                             *)

\* The memory and the levels of a document that is loaded.
IsFunction(N) == N = [o \in DOMAIN N |-> N[o]]
TreeHeld(e, d, N, n, l) ==
  /\ n = treeSize(Documents[d]) /\ l = levelsOf(Documents[d])
  /\ EdgesHold(Documents[d], EdgesOf(e), N) /\ IsFunction(N)

\* The tables the page reads the edges with are those they are written with.
LEMMA FlattenerFits == engine \in DOMAIN kbindings => F.edges = EdgesOf(engine) /\ B.edges = EdgesOf(engine)
<1>1. F.edges = EdgesOf(kbindings[engine].flattener) /\ B.edges = EdgesOf(engine)
  BY DEF F, B, EdgesOf
<1>2. QED
  BY <1>1, TablesFit

\* A buffer is a function.
LEMMA ImageIsFunction == \A W, b, n, size : IsFunction(Image(W, b, n, size))
<1> SUFFICES ASSUME NEW W, NEW b, NEW n, NEW size PROVE IsFunction(Image(W, b, n, size))
  OBVIOUS
<1> DEFINE off(k) == W[k].col * n + W[k].idx
           mine == {k \in DOMAIN W : W[k].buf = b}
           at == {off(k) : k \in mine}
           S == at \cup 0 .. size - 1
           f(x) == IF x \in at THEN W[Max({k \in mine : off(k) = x})].val ELSE 0
<1>1. Image(W, b, n, size) = [x \in S |-> f(x)]
  BY Zenon DEF Image
<1> HIDE DEF S, f
<1>2. QED
  BY <1>1 DEF IsFunction

\* A document, flattened.
LEMMA TreesAreDocuments ==
  \A d \in DOMAIN Documents :
    /\ Trees[d] = Laid(Documents[d]) /\ IsDocument(Documents[d])
    /\ treeSize(Trees[d]) = treeSize(Documents[d]) /\ Trees[d].levels = levelsOf(Documents[d])
    /\ treeSize(Trees[d]) \in Nat
BY DocumentsAreTrees, LaidFields, ListsTyped DEF Trees

\* A load that goes through keeps the tree.
LEMMA LoadKeeps ==
  engine \in DOMAIN kbindings =>
    \A d \in DOMAIN Documents : \A toks : Reached(Trees[d]) = treeSize(Trees[d]) =>
      TreeHeld(engine, d, Flattened(Trees[d], toks)["nodeindex"], treeSize(Trees[d]), Trees[d].levels)
<1> SUFFICES ASSUME engine \in DOMAIN kbindings, NEW d \in DOMAIN Documents, NEW toks,
                    Reached(Trees[d]) = treeSize(Trees[d])
             PROVE  TreeHeld(engine, d, Flattened(Trees[d], toks)["nodeindex"], treeSize(Trees[d]), Trees[d].levels)
  OBVIOUS
<1> DEFINE t == Documents[d]
           N == Flattened(Laid(t), toks)["nodeindex"]
<1>1. /\ Trees[d] = Laid(t) /\ IsDocument(t) /\ treeSize(Trees[d]) = treeSize(t)
      /\ Trees[d].levels = levelsOf(t)
  BY TreesAreDocuments
<1>2. F.edges = EdgesOf(engine) /\ EdgeTable(F.edges)
  BY FlattenerFits, TablesFit
<1>3. Reached(Laid(t)) = treeSize(t)
  BY <1>1
<1>4. EdgesHold(t, F.edges, N)
  BY <1>1, <1>2, <1>3, LoadHolds
<1>5. IsFunction(N)
  <2>1. "nodeindex" \in Buffers
    BY DEF Buffers
  <2>2. Flattened(Laid(t), toks)
          = [b \in Buffers |-> Image(AllWrites(t, toks), b, treeSize(t), F.sizes[b] * treeSize(t))]
    BY <1>1, <1>3, FlattenedIs
  <2>3. N = Image(AllWrites(t, toks), "nodeindex", treeSize(t), F.sizes["nodeindex"] * treeSize(t))
    BY <2>1, <2>2
  <2> HIDE DEF N
  <2>4. QED
    BY <2>3, ImageIsFunction
<1> HIDE DEF N
<1>6. TreeHeld(engine, d, N, treeSize(t), levelsOf(t))
  BY <1>2, <1>4, <1>5 DEF TreeHeld, t
<1>7. QED
  BY <1>1, <1>6 DEF N, t

\* The inductive invariant: what is loaded is held, and a compiled sheet is one of the scene's.
TreeInv ==
  /\ scene \in DOMAIN Scenes /\ engine = Scenes[scene].engine /\ engine \in DOMAIN kbindings
  /\ kernel # NoKernel => kernel.sheet \in Scenes[scene].sheets
  /\ Loaded => doc \in DOMAIN Documents /\ TreeHeld(engine, doc, mem["nodeindex"], tree_size, levels)

\* Nothing is loaded at first.
LEMMA TreeInit == Init => TreeInv
<1> SUFFICES ASSUME Init PROVE TreeInv
  OBVIOUS
<1>1. scene \in DOMAIN Scenes /\ engine = Scenes[scene].engine /\ doc = None /\ kernel = NoKernel
  BY DEF Init, InitTree
<1>2. engine \in DOMAIN kbindings
  BY <1>1, ScenesAreSheetsAndDocuments
<1>3. QED
  BY <1>1, <1>2 DEF TreeInv, Loaded

\* What a load that does not throw leaves: the whole tree, flattened with the new tokens.
LoadedWhole(d) ==
  /\ Reached(Trees[d]) = treeSize(Trees[d]) /\ tree_size' = treeSize(Trees[d]) /\ levels' = Trees[d].levels
  /\ mem' = Flattened(Trees[d], tokens')
  /\ \E toks \in {<<>>, tokens} : tokens' = TokensAfter(Trees[d], toks)
\* loadData gets through all nodes or throws.
LEMMA LoadDataGoes ==
  \A d \in DOMAIN Documents : LoadData(d, Trees[d]) /\ ~broken' => LoadedWhole(d)
<1> SUFFICES ASSUME NEW d \in DOMAIN Documents, LoadData(d, Trees[d]), ~broken'
             PROVE  LoadedWhole(d)
  OBVIOUS
<1> DEFINE T == Trees[d]
           n == treeSize(T)
           done == IF B.allocates THEN Reached(T) ELSE -1
           toks == IF B.allocates THEN TokensAfter(T, tokens) ELSE tokens
<1>1. /\ broken' = (done < n) /\ tree_size' = n
      /\ levels' = IF broken' THEN levels ELSE T.levels
      /\ mem' = IF ~B.allocates \/ (broken' /\ ~ignoreCL) THEN mem ELSE Flattened(T, toks)
  BY Zenon DEF LoadData
<1>2. n \in Nat /\ Reached(T) \in 0 .. n
  BY TreesAreDocuments, ReachedBound
<1>3. ~(done < n)
  BY <1>1
<1>4. B.allocates
  <2>1. ASSUME ~B.allocates PROVE FALSE
    <3>1. done = -1
      BY <2>1
    <3> HIDE DEF done, n
    <3>2. QED
      BY <1>2, <1>3, <3>1
  <2>2. QED
    BY <2>1
<1>5. Reached(T) = n
  <2>1. ~(Reached(T) < n)
    BY <1>3, <1>4
  <2> HIDE DEF n
  <2>2. QED
    BY <1>2, <2>1
<1>6. levels' = T.levels /\ mem' = Flattened(T, toks)
  BY <1>1, <1>4
<1>7. tokens' = toks
  BY Zenon DEF LoadData
<1>8. toks = TokensAfter(T, tokens)
  BY <1>4, Zenon
<1> HIDE DEF toks
<1>9. QED
  BY <1>1, <1>5, <1>6, <1>7, <1>8 DEF LoadedWhole

\* Neither does loadDataFlat lose the tree: its file was flattened with the columns of these bindings.
LEMMA LoadGoes ==
  \A d \in DOMAIN Documents : \A flat \in BOOLEAN : Load(d, flat) /\ ~broken' => LoadedWhole(d)
<1> SUFFICES ASSUME NEW d \in DOMAIN Documents, NEW flat \in BOOLEAN, Load(d, flat), ~broken'
             PROVE  LoadedWhole(d)
  OBVIOUS
<1>1. IF flat THEN LoadDataFlat(d, Trees[d]) ELSE LoadData(d, Trees[d])
  BY DEF Load
<1>2. CASE ~flat
  BY <1>1, <1>2, LoadDataGoes
<1>3. CASE flat
  <2> DEFINE T == Trees[d]
             toks == TokensAfter(T, <<>>)
  <2>1. /\ Reached(T) = treeSize(T) /\ tree_size' = treeSize(T) /\ levels' = T.levels
        /\ mem' = Flattened(T, toks) /\ tokens' = toks
    BY <1>1, <1>3 DEF LoadDataFlat
  <2>2. \E p \in {<<>>, tokens} : tokens' = TokensAfter(T, p)
    BY <2>1
  <2> HIDE DEF toks
  <2>3. QED
    BY <2>1, <2>2 DEF LoadedWhole
<1>4. QED
  BY <1>2, <1>3

\* A style sheet does not write the edges, the ids and the classes.
LEMMA RunKeeps ==
  TreeInv /\ RunSelectors => \A b \in Buffers \ Attributes : IsFunction(mem[b]) => mem'[b] = mem[b]
<1> SUFFICES ASSUME TreeInv, RunSelectors, NEW a \in Buffers \ Attributes, IsFunction(mem[a])
             PROVE  mem'[a] = mem[a]
  OBVIOUS
<1>1. kernel.sheet \in Scenes[scene].sheets /\ scene \in DOMAIN Scenes
  BY DEF TreeInv, RunSelectors
<1>2. Columns(kernel.sheet, a) = {}
  <2>1. \A r \in DOMAIN Sheets[kernel.sheet] : \A p \in Sheets[kernel.sheet][r].props : p.buf # a
    BY <1>1, ScenesAreSheetsAndDocuments DEF Attributes
  <2>2. QED
    BY <2>1 DEF Columns
<1> DEFINE N == mem[a]
           styledIn(b) == {col * tree_size + i : col \in Columns(kernel.sheet, b), i \in 0 .. tree_size - 1}
           value(b, o) ==
             LET set == SetBy(kernel, Applied(kernel, o % tree_size), b, o \div tree_size)
             IN  IF set = {} THEN mem[b][o] ELSE (CHOOSE p \in set : TRUE).val
           run(b, styled) == [o \in styled \cup DOMAIN mem[b] |-> IF o \in styled THEN value(b, o) ELSE mem[b][o]]
<1>3. mem' = [b \in Buffers |-> run(b, styledIn(b))]
  BY DEF RunSelectors
<1>4. styledIn(a) = {}
  BY <1>2
<1> HIDE DEF value, styledIn
<1>5. run(a, {}) = [o \in DOMAIN N |-> N[o]]
  OBVIOUS
<1> HIDE DEF run
<1>6. mem'[a] = run(a, styledIn(a))
  BY <1>3
<1>7. QED
  BY <1>4, <1>5, <1>6 DEF IsFunction

\* Every step keeps the invariant.
LEMMA LoadKeepsInv ==
  ASSUME TreeInv, NEW d \in Scenes[scene].docs, NEW flat \in BOOLEAN, Load(d, flat)
  PROVE  TreeInv'
<1>1. d \in DOMAIN Documents /\ engine \in DOMAIN kbindings
  BY ScenesAreSheetsAndDocuments DEF TreeInv
<1>2. IF flat THEN LoadDataFlat(d, Trees[d]) ELSE LoadData(d, Trees[d])
  BY DEF Load
<1>3. scene' = scene /\ kernel' = kernel
  BY DEF Load
<1>4. engine' = engine /\ doc' = d
  BY <1>2 DEF LoadData, LoadDataFlat
<1>5. ~broken' => TreeHeld(engine, d, mem'["nodeindex"], tree_size', levels')
  BY <1>1, LoadGoes, LoadKeeps DEF LoadedWhole
<1>6. Loaded' => ~broken'
  BY DEF Loaded
<1>7. QED
  BY <1>1, <1>3, <1>4, <1>5, <1>6 DEF TreeInv, TreeHeld

\* setSelectors touches the tokens and the compiled sheet only.
LEMMA SheetKeepsInv ==
  ASSUME TreeInv, NEW kind, NEW s \in Scenes[scene].sheets, NEW fails \in BOOLEAN, SetSelectors(kind, s, fails)
  PROVE  TreeInv'
<1>1. UNCHANGED <<engine, doc, broken, tree_size, levels, mem, scene>>
  BY DEF SetSelectors
<1>2. kernel' = kernel \/ kernel'.sheet = s
  BY DEF SetSelectors
<1>3. kernel' # NoKernel => kernel'.sheet \in Scenes[scene].sheets
  BY <1>2 DEF TreeInv
<1>4. QED
  BY <1>1, <1>3 DEF TreeInv, Loaded, TreeHeld, NoKernel

\* runSelectors writes attributes.
LEMMA RunKeepsInv ==
  ASSUME TreeInv, RunSelectors
  PROVE  TreeInv'
<1>1. UNCHANGED <<engine, doc, broken, tree_size, levels, scene, kernel>> /\ Loaded
  BY DEF RunSelectors, Loaded
<1>2. TreeHeld(engine, doc, mem["nodeindex"], tree_size, levels)
  BY <1>1 DEF TreeInv
<1>3. mem'["nodeindex"] = mem["nodeindex"]
  <2>1. "nodeindex" \in Buffers \ Attributes
    BY DEF Buffers, Attributes
  <2>2. QED
    BY <1>2, <2>1, RunKeeps DEF TreeHeld
<1>4. QED
  BY <1>1, <1>3 DEF TreeInv, Loaded, TreeHeld, NoKernel

\* The invariant is inductive.
LEMMA TreeNext == TreeInv /\ [Next]_vars => TreeInv'
<1> SUFFICES ASSUME TreeInv, [Next]_vars PROVE TreeInv'
  OBVIOUS
<1>1. CASE UNCHANGED vars
  BY <1>1 DEF vars, treeVars, TreeInv, Loaded, TreeHeld, NoKernel
<1>2. CASE Next
  BY <1>2, LoadKeepsInv, SheetKeepsInv, RunKeepsInv DEF Next
<1>3. QED
  BY <1>1, <1>2

\* What is held is what the properties read.
LEMMA ListsRead ==
  TreeInv /\ Loaded => ListsAreKept(Tree)
<1> SUFFICES ASSUME TreeInv, Loaded PROVE ListsAreKept(Tree)
  OBVIOUS
<1> DEFINE t == Documents[doc]
           T == Tree
           E == B.edges
           N == mem["nodeindex"]
           n == tree_size
<1>1. doc \in DOMAIN Documents /\ TreeHeld(engine, doc, N, n, levels) /\ engine \in DOMAIN kbindings
  BY DEF TreeInv
<1>2. /\ IsDocument(t) /\ T.order = Order(t) /\ T.kids = t.kids /\ T.class = t.class
      /\ treeSize(T) = treeSize(t)
  BY <1>1, TreesAreDocuments, LaidFields DEF Tree
<1>3. n = treeSize(t) /\ EdgesHold(t, E, N)
  BY <1>1, FlattenerFits DEF TreeHeld
<1> HIDE DEF T, t, E
<1>4. ASSUME NEW v \in 1 .. treeSize(T), NEW g \in DOMAIN T.kids[v]
      PROVE  LET i == Index(T, v)
                 list == T.kids[v][g]
                 first == i + Get("nodeindex", E.kids[T.class[v]][list.lbl], i)
                 ends == {j \in first .. n - 1 : Edge("right_siblings", j) = 0}
             IN  list.nodes # <<>> =>
                   /\ ends # {}
                   /\ first .. Min(ends) = {Index(T, w) : w \in ToSet(list.nodes)}
                   /\ first = Index(T, list.nodes[1])
  <2>1. v \in Nodes(t) /\ g \in 1 .. Len(t.kids[v])
    <3>1. v \in Nodes(t)
      BY <1>2 DEF Nodes
    <3>2. DOMAIN t.kids[v] = 1 .. Len(t.kids[v])
      BY <1>2, <3>1, ListsTyped
    <3>3. QED
      BY <1>2, <3>1, <3>2
  <2>2. ListKept(t, E, N, v, g)
    BY <1>2, <1>3, <2>1, ListsFollow
  <2> DEFINE i == IndexOf(Order(t), v)
             first == FirstKid(t, E, N, v, g)
             ends == Lasts(t, E, N, v, g)
             list == ListAt(t, v, g)
  <2>3. Index(T, v) = i /\ T.kids[v][g].nodes = list /\ \A w : Index(T, w) = IndexOf(Order(t), w)
    BY <1>2 DEF Index, ListAt
  <2>4. first = i + Get("nodeindex", E.kids[T.class[v]][T.kids[v][g].lbl], i)
    BY <1>2, <1>3 DEF FirstKid, Get, Cell, ListCol
  <2>5. \A j : Edge("right_siblings", j) = Cell(N, n, E.right_siblings, j)
    BY DEF Edge, Get, Cell, E
  <2>6. ends = {j \in first .. n - 1 : Edge("right_siblings", j) = 0}
    BY <1>3, <2>5 DEF Lasts
  <2>7. list # <<>> =>
          /\ ends # {}
          /\ first .. Min(ends) = {IndexOf(Order(t), w) : w \in ToSet(list)}
          /\ first = IndexOf(Order(t), list[1])
    BY <2>2, Zenon DEF ListKept
  <2> HIDE DEF i, first, ends, list
  <2>8. {Index(T, w) : w \in ToSet(list)} = {IndexOf(Order(t), w) : w \in ToSet(list)}
    BY <2>3
  <2>9. QED
    BY <2>3, <2>4, <2>6, <2>7, <2>8
<1>5. QED
  BY <1>4, Zenon DEF ListsAreKept, E, T

\* Children, read back.
LEMMA ChildrenRead ==
  TreeInv /\ Loaded => ChildrenAreKept(Tree)
<1> SUFFICES ASSUME TreeInv, Loaded PROVE ChildrenAreKept(Tree)
  OBVIOUS
<1> DEFINE t == Documents[doc]
           T == Tree
           E == B.edges
           N == mem["nodeindex"]
           n == tree_size
<1>1. doc \in DOMAIN Documents /\ TreeHeld(engine, doc, N, n, levels) /\ engine \in DOMAIN kbindings
  BY DEF TreeInv
<1>2. /\ IsDocument(t) /\ T.order = Order(t) /\ treeSize(T) = treeSize(t)
      /\ T.childs = [v \in Nodes(t) |-> KidsOf(t, v)]
  BY <1>1, TreesAreDocuments, LaidFields DEF Tree
<1>3. n = treeSize(t) /\ EdgesHold(t, E, N)
  BY <1>1, FlattenerFits DEF TreeHeld
<1>4. \A v : Index(T, v) = IndexOf(Order(t), v)
  BY <1>2 DEF Index
<1>5. \A x : /\ Edge("parent", x) = Cell(N, n, E.parent, x)
             /\ Edge("left_siblings", x) = Cell(N, n, E.left_siblings, x)
  BY DEF Edge, Get, Cell
<1> HIDE DEF T, t, E
<1>6. ASSUME NEW v \in 1 .. treeSize(T), NEW k \in DOMAIN T.childs[v]
      PROVE  LET i == Index(T, T.childs[v][k])
             IN  /\ Edge("parent", i) = Index(T, v)
                 /\ IF k = 1 THEN Edge("left_siblings", i) = 0
                    ELSE Index(T, T.childs[v][k - 1]) = i - Edge("left_siblings", i)
  <2>1. v \in Nodes(t) /\ T.childs[v] = KidsOf(t, v)
    BY <1>2 DEF Nodes
  <2>2. KidsOf(t, v) \in Seq(Nodes(t))
    BY <1>2, <2>1, DocumentsGrow, KidsOfNode
  <2>3. k \in 1 .. Len(KidsOf(t, v))
    BY <2>1, <2>2
  <2>4. ChildKept(t, E, N, v, k)
    BY <1>2, <1>3, <2>1, <2>3, ChildrenFollow
  <2> DEFINE i == IndexOf(Order(t), KidsOf(t, v)[k])
  <2>5. /\ Cell(N, n, E.parent, i) = IndexOf(Order(t), v)
        /\ IF k = 1 THEN Cell(N, n, E.left_siblings, i) = 0
           ELSE IndexOf(Order(t), KidsOf(t, v)[k - 1]) = i - Cell(N, n, E.left_siblings, i)
    BY <1>3, <2>4 DEF ChildKept
  <2>6. Index(T, T.childs[v][k]) = i /\ Index(T, T.childs[v][k - 1]) = IndexOf(Order(t), KidsOf(t, v)[k - 1])
    BY <1>4, <2>1
  <2> HIDE DEF i
  <2>7. QED
    BY <1>4, <1>5, <2>5, <2>6
<1>7. QED
  BY <1>6, Zenon DEF ChildrenAreKept, T

\* Levels, read back.
LEMMA LevelsRead ==
  TreeInv /\ Loaded => LevelsAreKept
<1> SUFFICES ASSUME TreeInv, Loaded PROVE LevelsAreKept
  OBVIOUS
<1> DEFINE t == Documents[doc]
           E == B.edges
           N == mem["nodeindex"]
           n == tree_size
           nodes(l) == levels[l].start_idx .. levels[l].start_idx + levels[l].length - 1
<1>1. doc \in DOMAIN Documents /\ TreeHeld(engine, doc, N, n, levels) /\ engine \in DOMAIN kbindings
  BY DEF TreeInv
<1>2. IsDocument(t)
  BY <1>1, TreesAreDocuments
<1>3. n = treeSize(t) /\ levels = levelsOf(t) /\ EdgesHold(t, E, N)
  BY <1>1, FlattenerFits DEF TreeHeld
<1>4. \A x : Edge("parent", x) = Cell(N, n, E.parent, x)
  BY DEF Edge, Get, Cell
<1> HIDE DEF t, E
<1>5. DOMAIN levels = 1 .. Turns(t)
  BY <1>2, <1>3, DocumentsGrow, OrderIsLeveled DEF Leveled
<1>6. \A l : nodes(l) = LevelRange(t, l)
  BY <1>3 DEF LevelRange
<1> HIDE DEF nodes
<1>7. ASSUME NEW k \in DOMAIN levels
      PROVE  IF k = 1 THEN nodes(k) = {0}
             ELSE nodes(k) = {i \in 1 .. n - 1 : Edge("parent", i) \in nodes(k - 1)}
  <2>1. LevelKept(t, E, N, k)
    BY <1>2, <1>3, <1>5, LevelsFollow
  <2>2. QED
    BY <1>3, <1>4, <1>6, <2>1 DEF LevelKept
<1>8. QED
  BY <1>7, Zenon DEF LevelsAreKept, nodes

\* The edges flattenEdges writes with its running counters are those of the document,
\* whatever document, bindings, sheets and order of calls.
THEOREM TreeStays == Spec => []TreeIsKept
<1>1. TreeInv => TreeIsKept
  BY ListsRead, ChildrenRead, LevelsRead DEF TreeIsKept
<1>2. QED
  BY <1>1, TreeInit, TreeNext, PTL DEF Spec

\* The bindings a tree is flattened with have the fields of those it is read with.
LEMMA FieldsOfFlattener ==
  engine \in DOMAIN kbindings => FieldsFit(F) /\ FieldsFit(B) /\ SameFields(F, B) /\ EdgeTable(F.edges)
<1> SUFFICES ASSUME engine \in DOMAIN kbindings
             PROVE  FieldsFit(F) /\ FieldsFit(B) /\ SameFields(F, B) /\ EdgeTable(F.edges)
  OBVIOUS
<1>1. F = kbindings[kbindings[engine].flattener] /\ B = kbindings[engine]
  BY DEF F, B
<1>2. kbindings[engine].flattener \in DOMAIN kbindings
  BY BindingsFit
<1>3. EdgeTable(F.edges)
  BY <1>1, <1>2, TablesFit DEF EdgesOf
<1>4. QED
  BY <1>1, <1>2, <1>3, BindingsFit

\* What a load leaves is what the engine reads back.
LEMMA CellsRead ==
  engine \in DOMAIN kbindings =>
    \A d \in DOMAIN Documents : \A toks : Reached(Trees[d]) = treeSize(Trees[d]) =>
      CellsHold(Flattened(Trees[d], toks), Trees[d])
<1> SUFFICES ASSUME engine \in DOMAIN kbindings, NEW d \in DOMAIN Documents, NEW toks,
                    Reached(Trees[d]) = treeSize(Trees[d])
             PROVE  CellsHold(Flattened(Trees[d], toks), Trees[d])
  OBVIOUS
<1> DEFINE t == Documents[d]
           T == Trees[d]
           M == Flattened(T, toks)
           n == treeSize(T)
<1>1. T = Laid(t) /\ IsDocument(t) /\ n = treeSize(t)
  BY TreesAreDocuments
<1>2. T.order = Order(t) /\ T.class = t.class /\ T.attrs = t.attrs
  BY <1>1, LaidFields
<1>3. /\ FieldsFit(F) /\ EdgeTable(F.edges) /\ DOMAIN B.columns \subseteq B.proxies
      /\ F.columns = B.columns /\ F.ifaces = B.ifaces /\ F.sizes = B.sizes
  BY FieldsOfFlattener DEF FieldsFit, FieldTable, SameFields
<1>4. \A class, a : IsStored(B, class, a) <=> IsStored(F, class, a)
  BY <1>3 DEF IsStored
<1>5. ASSUME NEW v \in 1 .. n, NEW b \in {"int", "float"}
      PROVE  LET cell(col) == col * n + Index(T, v)
                 given == {a \in ToSet(T.attrs[v]) : a.buf = b /\ IsStored(B, T.class[v], a)}
             IN  /\ \A a \in given : M[b][cell(a.col)] = a.val /\ a.owner \in B.proxies
                 /\ \A col \in (0 .. B.sizes[b] - 1) \ {a.col : a \in given} : M[b][cell(col)] = 0
  <2> DEFINE given == {a \in ToSet(T.attrs[v]) : a.buf = b /\ IsStored(B, T.class[v], a)}
             N == M[b]
             i == IndexOf(Order(t), v)
             s == B.sizes[b]
  <2>1. v \in Nodes(t) /\ b \in Attributes
    BY <1>1 DEF Nodes, Attributes
  <2>2. \A p : AttrsHold(t, Flattened(Laid(t), p)[b], v, b)
    BY <1>1, <1>3, <2>1, LoadAttrs
  <2>3. AttrsHold(t, N, v, b)
    BY <1>1, <2>2
  <2>4. \A a : a \in given <=> Given(t, v, b, a)
    BY <1>2, <1>4 DEF Given
  <2>5. Index(T, v) = i
    BY <1>2 DEF Index
  <2> HIDE DEF given, N, i, T, t, s
  <2>6. \A a \in given : N[a.col * n + i] = a.val
    BY <1>1, <2>3, <2>4 DEF AttrsHold, i
  <2>7. \A a \in given : a.owner \in B.proxies
    BY <1>3 DEF given, IsStored
  <2>8. ASSUME NEW col \in (0 .. s - 1) \ {a.col : a \in given} PROVE N[col * n + i] = 0
    <3>1. \A a : Given(t, v, b, a) => a.col # col
      BY <2>4
    <3>2. col \in 0 .. F.sizes[b] - 1
      BY <1>3 DEF s
    <3>3. QED
      BY <1>1, <2>3, <3>1, <3>2 DEF AttrsHold, i
  <2>9. QED
    BY <2>5, <2>6, <2>7, <2>8, Zenon DEF N, given, s
<1> HIDE DEF M
<1>6. CellsHold(M, T)
  BY <1>5, Zenon DEF CellsHold
<1>7. QED
  BY <1>6 DEF M

\* A load stores every attribute the document gives a value for where the engine reads it, and
\* nothing elsewhere, whichever bindings flattened the tree.
THEOREM ValuesStay == Spec => ValuesAreKept
<1>1. TreeInv /\ [Next]_vars => [doc' # doc /\ ~broken' => CellsHold(mem', Tree')]_<<doc, mem>>
  <2> SUFFICES ASSUME TreeInv, [Next]_vars, doc' # doc, ~broken'
               PROVE  CellsHold(mem', Tree')
    OBVIOUS
  <2>1. scene \in DOMAIN Scenes /\ engine \in DOMAIN kbindings
    BY DEF TreeInv
  <2>2. ASSUME NEW d \in Scenes[scene].docs, NEW flat \in BOOLEAN, Load(d, flat)
        PROVE  CellsHold(mem', Tree')
    <3>1. d \in DOMAIN Documents
      BY <2>1, ScenesAreSheetsAndDocuments
    <3>2. doc' = d
      BY <2>2 DEF Load, LoadData, LoadDataFlat
    <3>3. LoadedWhole(d)
      BY <2>2, <3>1, LoadGoes
    <3>4. PICK toks : mem' = Flattened(Trees[d], toks)
      BY <3>3 DEF LoadedWhole
    <3>5. Reached(Trees[d]) = treeSize(Trees[d])
      BY <3>3 DEF LoadedWhole
    <3>6. CellsHold(Flattened(Trees[d], toks), Trees[d])
      BY <2>1, <3>1, <3>5, CellsRead
    <3>7. Tree' = Trees[d]
      BY <3>2 DEF Tree
    <3>8. QED
      BY <3>4, <3>6, <3>7
  <2>3. CASE Next
    BY <2>2, <2>3 DEF Next, SetSelectors, RunSelectors
  <2>4. CASE UNCHANGED vars
    BY <2>4 DEF vars, treeVars
  <2>5. QED
    BY <2>3, <2>4
<1>2. QED
  BY <1>1, TreeInit, TreeNext, PTL DEF Spec, ValuesAreKept

\* Tokens: ids without repetition, and a compiled sheet has those of the moment it was compiled.
TokensInv == TreeInv /\ TokenList(tokens)
\* No ids, no tokens.
LEMMA NoTokens == TokenList(<<>>)
<1> DEFINE s == <<>>
<1>1. s \in Seq({}) /\ Len(s) = 0
  OBVIOUS
<1> HIDE DEF s
<1>2. s \in Seq(ToSet(s)) /\ DOMAIN s = 1 .. 0
  BY <1>1, OwnElements
<1>3. \A i : i \notin 1 .. 0
  OBVIOUS
<1>4. IsInjective(s)
  BY <1>2, <1>3, Zenon DEF IsInjective
<1>5. TokenList(s)
  BY <1>2, <1>4 DEF TokenList
<1>6. QED
  BY <1>5 DEF s

\* No tokens at first.
LEMMA TokensInit == Init => TokensInv
<1> SUFFICES ASSUME Init PROVE TokensInv
  OBVIOUS
<1>1. tokens = <<>>
  BY DEF Init, InitTree
<1>2. QED
  BY <1>1, NoTokens, TreeInit DEF TokensInv

\* A load from the file itself and a style sheet add to them, any other load replaces them.
LEMMA TokensStep ==
  ASSUME TokensInv, [Next]_vars
  PROVE  /\ TokenList(tokens')
         /\ (\A d \in Scenes[scene].docs : ~Load(d, TRUE)) => Begins(tokens, tokens')
<1> DEFINE Goal == /\ TokenList(tokens')
                   /\ (\A d \in Scenes[scene].docs : ~Load(d, TRUE)) => Begins(tokens, tokens')
<1>1. scene \in DOMAIN Scenes /\ TokenList(tokens)
  BY DEF TokensInv, TreeInv
<1>2. ASSUME tokens' = tokens PROVE Goal
  <2>1. Len(tokens) \in Nat
    <3>1. tokens \in Seq(ToSet(tokens))
      BY <1>1 DEF TokenList
    <3>2. QED
      BY <3>1, OwnElements
  <2>2. Begins(tokens, tokens)
    BY <2>1 DEF Begins
  <2>3. QED
    BY <1>1, <1>2, <2>2
<1>3. ASSUME NEW d \in Scenes[scene].docs, NEW flat \in BOOLEAN, Load(d, flat) PROVE Goal
  <2>1. treeSize(Trees[d]) \in Nat
    BY <1>1, ScenesAreSheetsAndDocuments, TreesAreDocuments
  <2>2. CASE flat
    <3>1. tokens' = TokensAfter(Trees[d], <<>>)
      BY <1>3, <2>2 DEF Load, LoadDataFlat
    <3>2. TokenList(tokens')
      BY <2>1, <3>1, NoTokens, LoadTokens
    <3>3. Load(d, TRUE)
      BY <1>3, <2>2
    <3>4. QED
      BY <3>2, <3>3
  <2>3. CASE ~flat
    <3>1. tokens' = IF B.allocates THEN TokensAfter(Trees[d], tokens) ELSE tokens
      BY <1>3, <2>3 DEF Load, LoadData
    <3>2. TokenList(TokensAfter(Trees[d], tokens)) /\ Begins(tokens, TokensAfter(Trees[d], tokens))
      BY <1>1, <2>1, LoadTokens
    <3>3. QED
      BY <1>2, <3>1, <3>2
  <2>4. QED
    BY <2>2, <2>3
<1>4. ASSUME NEW kind, NEW s \in Scenes[scene].sheets, NEW fails \in BOOLEAN, SetSelectors(kind, s, fails)
      PROVE  Goal
  <2>1. tokens' = TokensWith(s, tokens)
    BY <1>4 DEF SetSelectors
  <2>2. s \in DOMAIN Sheets
    BY <1>1, ScenesAreSheetsAndDocuments
  <2>3. QED
    BY <1>1, <2>1, <2>2, SheetTokens
<1>5. ASSUME RunSelectors PROVE Goal
  BY <1>2, <1>5 DEF RunSelectors
<1>6. ASSUME UNCHANGED vars PROVE Goal
  BY <1>2, <1>6 DEF vars, treeVars
<1> HIDE DEF Goal
<1>7. ASSUME Next PROVE Goal
  <2>1. CASE \E d \in Scenes[scene].docs, flat \in BOOLEAN : Load(d, flat)
    BY <1>3, <2>1
  <2>2. CASE \E s \in Scenes[scene].sheets, kind \in {"js", "flat", "cl"}, fails \in BOOLEAN : SetSelectors(kind, s, fails)
    BY <1>4, <2>2
  <2>3. QED
    BY <1>5, <1>7, <2>1, <2>2 DEF Next
<1>8. Goal
  BY <1>6, <1>7
<1>9. QED
  BY <1>8 DEF Goal

\* The invariant is inductive.
LEMMA TokensNext == TokensInv /\ [Next]_vars => TokensInv'
<1> SUFFICES ASSUME TokensInv, [Next]_vars PROVE TokensInv'
  OBVIOUS
<1>1. TokenList(tokens')
  BY TokensStep
<1>2. TreeInv'
  BY TreeNext DEF TokensInv
<1>3. QED
  BY <1>1, <1>2 DEF TokensInv, TokenList, IsInjective

\* A compiled sheet outlives loads and other sheets: its tokens stay the first of the tokens,
\* until loadDataFlat replaces them.
THEOREM TokensStay == Spec => TokensOnlyGrow
<1>1. TokensInv /\ [Next]_vars =>
        [(\A d \in Scenes[scene].docs : ~Load(d, TRUE)) => IsPrefix(tokens, tokens')]_vars
  <2> SUFFICES ASSUME TokensInv, [Next]_vars, \A d \in Scenes[scene].docs : ~Load(d, TRUE)
               PROVE  IsPrefix(tokens, tokens')
    OBVIOUS
  <2>1. TokenList(tokens) /\ TokenList(tokens') /\ Begins(tokens, tokens')
    BY TokensStep DEF TokensInv
  <2>2. QED
    BY <2>1, ListsBegin
<1>2. QED
  BY <1>1, TokensInit, TokensNext, PTL DEF Spec, TokensOnlyGrow

\* The buffers of a loaded tree: a column for every field.
MemoryFits == Loaded => /\ tree_size = treeSize(Tree)
                        /\ \A b \in Buffers : DOMAIN mem[b] = 0 .. B.sizes[b] * tree_size - 1
TypesInv == TokensInv /\ TypeOK

\* The types at first.
LEMMA TypesInit == Init => TypesInv
<1> SUFFICES ASSUME Init PROVE TypesInv
  OBVIOUS
<1>1. /\ scene \in DOMAIN Scenes /\ engine = Scenes[scene].engine /\ ignoreCL = Scenes[scene].ignoreCL
      /\ doc = None /\ calls = [loads |-> 0, sheets |-> 0] /\ kernel = NoKernel
  BY DEF Init, InitTree
<1>2. engine \in DOMAIN kbindings /\ ignoreCL \in BOOLEAN /\ Scenes[scene].loads \in Nat /\ Scenes[scene].calls \in Nat
  BY <1>1, ScenesAreSheetsAndDocuments
<1>3. calls \in [loads : 0 .. Scenes[scene].loads, sheets : 0 .. Scenes[scene].calls]
  BY <1>1, <1>2
<1>4. TokensInv /\ IsInjective(tokens)
  BY TokensInit DEF TokensInv, TokenList
<1>5. QED
  BY <1>1, <1>2, <1>3, <1>4 DEF TypesInv, TypeOK, Loaded

\* A load that goes through makes buffers of the size the bindings ask for.
LEMMA LoadFits ==
  ASSUME engine \in DOMAIN kbindings, NEW d \in DOMAIN Documents, NEW flat \in BOOLEAN, Load(d, flat)
  PROVE  MemoryFits'
<1>1. IF flat THEN LoadDataFlat(d, Trees[d]) ELSE LoadData(d, Trees[d])
  BY DEF Load
<1>2. engine' = engine /\ doc' = d
  BY <1>1 DEF LoadData, LoadDataFlat
<1>3. Tree' = Trees[d] /\ B' = B
  BY <1>2 DEF Tree, B
<1>4. ASSUME ~broken'
      PROVE  /\ tree_size' = treeSize(Trees[d])
             /\ \A b \in Buffers : DOMAIN mem'[b] = 0 .. B.sizes[b] * tree_size' - 1
  <2>1. LoadedWhole(d)
    BY <1>4, LoadGoes
  <2>2. PICK toks : mem' = Flattened(Trees[d], toks)
    BY <2>1 DEF LoadedWhole
  <2>3. Trees[d] = Laid(Documents[d]) /\ IsDocument(Documents[d]) /\ treeSize(Trees[d]) = treeSize(Documents[d])
    BY TreesAreDocuments
  <2>4. tree_size' = treeSize(Trees[d]) /\ Reached(Trees[d]) = treeSize(Trees[d])
    BY <2>1 DEF LoadedWhole
  <2>5. EdgeTable(F.edges) /\ FieldsFit(F) /\ F.sizes = B.sizes
    BY FieldsOfFlattener DEF SameFields
  <2>6. \A b \in Buffers :
          DOMAIN Flattened(Laid(Documents[d]), toks)[b] = 0 .. F.sizes[b] * treeSize(Documents[d]) - 1
    BY <2>3, <2>4, <2>5, LoadFills
  <2>7. QED
    BY <2>2, <2>3, <2>4, <2>5, <2>6
<1>5. QED
  BY <1>3, <1>4 DEF MemoryFits, Loaded

\* So it stays when a style sheet runs: what it writes are columns of the buffers.
LEMMA RunFits ==
  ASSUME TypesInv, RunSelectors
  PROVE  MemoryFits'
<1> DEFINE styledIn(b) == {col * tree_size + i : col \in Columns(kernel.sheet, b), i \in 0 .. tree_size - 1}
           value(b, o) ==
             LET set == SetBy(kernel, Applied(kernel, o % tree_size), b, o \div tree_size)
             IN  IF set = {} THEN mem[b][o] ELSE (CHOOSE p \in set : TRUE).val
           run(b, styled) == [o \in styled \cup DOMAIN mem[b] |-> IF o \in styled THEN value(b, o) ELSE mem[b][o]]
<1>1. /\ mem' = [b \in Buffers |-> run(b, styledIn(b))]
      /\ kernel # NoKernel /\ Loaded /\ UNCHANGED <<engine, doc, broken, tree_size>>
  BY DEF RunSelectors, Loaded
<1>2. /\ scene \in DOMAIN Scenes /\ engine = Scenes[scene].engine /\ kernel.sheet \in Scenes[scene].sheets
      /\ engine \in DOMAIN kbindings /\ MemoryFits /\ doc \in DOMAIN Documents
  BY <1>1 DEF TypesInv, TypeOK, TokensInv, TreeInv, MemoryFits
<1>3. tree_size \in Nat /\ \A b \in Buffers : B.sizes[b] \in Nat
  <2>1. tree_size = treeSize(Trees[doc])
    BY <1>1, <1>2 DEF MemoryFits, Tree
  <2>2. tree_size \in Nat
    BY <1>2, <2>1, TreesAreDocuments
  <2>3. QED
    BY <1>2, <2>2, FieldsOfFlattener DEF FieldsFit, FieldTable, SizesFit
<1>4. ASSUME NEW b \in Buffers PROVE DOMAIN mem'[b] = 0 .. B.sizes[b] * tree_size - 1
  <2> DEFINE D == 0 .. B.sizes[b] * tree_size - 1
             S == styledIn(b)
  <2>1. DOMAIN mem[b] = D
    BY <1>1, <1>2 DEF MemoryFits
  <2>2. ASSUME NEW col \in Columns(kernel.sheet, b) PROVE col \in 0 .. B.sizes[b] - 1
    <3>1. PICK r \in DOMAIN Sheets[kernel.sheet] : \E p \in Sheets[kernel.sheet][r].props : p.buf = b /\ p.col = col
      BY DEF Columns
    <3>2. PICK p \in Sheets[kernel.sheet][r].props : p.buf = b /\ p.col = col
      BY <3>1
    <3>3. p.col \in 0 .. kbindings[Scenes[scene].engine].sizes[p.buf] - 1
      BY <1>2, ScenesAreSheetsAndDocuments
    <3>4. QED
      BY <1>2, <3>2, <3>3 DEF B
  <2>3. S \subseteq D
    <3>1. \A col \in Columns(kernel.sheet, b) : \A i \in 0 .. tree_size - 1 : col * tree_size + i \in D
      BY <1>3, <2>2, CellInRange
    <3> HIDE DEF D
    <3>2. QED
      BY <3>1
  <2>4. mem'[b] = run(b, S)
    BY <1>1
  <2> HIDE DEF S, D, value
  <2>5. DOMAIN run(b, S) = S \cup DOMAIN mem[b]
    OBVIOUS
  <2> HIDE DEF run
  <2>6. DOMAIN mem'[b] = D
    BY <2>1, <2>3, <2>4, <2>5
  <2>7. QED
    BY <2>6 DEF D
<1>5. B' = B /\ Tree' = Tree /\ Loaded' = Loaded
  BY <1>1 DEF B, Tree, Loaded
<1>6. tree_size' = treeSize(Tree)
  BY <1>1, <1>2 DEF MemoryFits
<1>7. QED
  <2> HIDE DEF run, styledIn
  <2>1. tree_size' = tree_size
    BY <1>1
  <2>2. QED
    BY <1>4, <1>5, <1>6, <2>1 DEF MemoryFits

\* Every step keeps the types.
LEMMA TypesNext == TypesInv /\ [Next]_vars => TypesInv'
<1> SUFFICES ASSUME TypesInv, [Next]_vars PROVE TypesInv'
  OBVIOUS
<1> DEFINE docs == Scenes[scene].docs
           sheets == Scenes[scene].sheets
           kept == kernel # NoKernel => kernel.sheet \in sheets /\ kernel.kind \in {"js", "flat", "cl"}
           counted == calls \in [loads : 0 .. Scenes[scene].loads, sheets : 0 .. Scenes[scene].calls]
           Goal == scene' = scene /\ engine' = engine /\ ignoreCL' = ignoreCL /\ doc' \in docs \cup {None} /\ counted' /\ kept' /\ MemoryFits'
<1>1. /\ TokensInv /\ scene \in DOMAIN Scenes /\ engine \in DOMAIN kbindings /\ ignoreCL \in BOOLEAN
      /\ doc \in docs \cup {None} /\ counted /\ kept /\ MemoryFits
  BY DEF TypesInv, TypeOK, MemoryFits
<1>2. Scenes[scene].loads \in Nat /\ Scenes[scene].calls \in Nat /\ docs \subseteq DOMAIN Documents
  BY <1>1, ScenesAreSheetsAndDocuments
<1>3. TokensInv' /\ IsInjective(tokens')
  BY <1>1, TokensNext DEF TokensInv, TokenList
<1>4. ASSUME NEW d \in docs, NEW flat \in BOOLEAN, Load(d, flat) PROVE Goal
  <2>1. IF flat THEN LoadDataFlat(d, Trees[d]) ELSE LoadData(d, Trees[d])
    BY <1>4 DEF Load
  <2>2. engine' = engine /\ ignoreCL' = ignoreCL /\ doc' = d
    BY <2>1 DEF LoadData, LoadDataFlat
  <2>3. scene' = scene /\ kernel' = kernel /\ calls' = [calls EXCEPT !.loads = @ + 1] /\ calls.loads < Scenes[scene].loads
    BY <1>4 DEF Load
  <2>4. counted'
    BY <1>1, <1>2, <2>3
  <2>5. MemoryFits'
    BY <1>1, <1>2, <1>4, LoadFits
  <2>6. kept'
    BY <1>1, <2>3 DEF NoKernel
  <2>7. QED
    BY <2>2, <2>3, <2>4, <2>5, <2>6
<1>5. ASSUME NEW s \in sheets, NEW kind \in {"js", "flat", "cl"}, NEW fails \in BOOLEAN, SetSelectors(kind, s, fails)
      PROVE  Goal
  <2>1. /\ UNCHANGED <<engine, ignoreCL, doc, broken, tree_size, mem, scene>>
        /\ calls' = [calls EXCEPT !.sheets = @ + 1] /\ calls.sheets < Scenes[scene].calls
        /\ kernel' = kernel \/ (kernel'.kind = kind /\ kernel'.sheet = s)
    BY <1>5 DEF SetSelectors
  <2>2. counted'
    BY <1>1, <1>2, <2>1
  <2>3. MemoryFits'
    BY <1>1, <2>1 DEF MemoryFits, Loaded, Tree, B
  <2>4. kept'
    BY <1>1, <1>5, <2>1 DEF NoKernel
  <2>5. QED
    BY <1>1, <2>1, <2>2, <2>3, <2>4
<1>6. ASSUME RunSelectors PROVE Goal
  <2>1. UNCHANGED <<engine, ignoreCL, doc, scene, calls, kernel>>
    BY <1>6 DEF RunSelectors
  <2>2. MemoryFits'
    BY <1>6, RunFits
  <2>3. QED
    BY <1>1, <2>1, <2>2 DEF NoKernel
<1>7. ASSUME UNCHANGED vars PROVE Goal
  <2>1. UNCHANGED <<engine, ignoreCL, doc, broken, tree_size, mem, scene, calls, kernel>>
    BY <1>7 DEF vars, treeVars
  <2>2. MemoryFits'
    BY <1>1, <2>1 DEF MemoryFits, Loaded, Tree, B
  <2>3. QED
    BY <1>1, <2>1, <2>2 DEF NoKernel
<1>8. Goal
  <2> HIDE DEF Goal
  <2>1. ASSUME Next PROVE Goal
    <3>1. CASE \E d \in docs, flat \in BOOLEAN : Load(d, flat)
      BY <1>4, <3>1
    <3>2. CASE \E s \in sheets, kind \in {"js", "flat", "cl"}, fails \in BOOLEAN : SetSelectors(kind, s, fails)
      BY <1>5, <3>2
    <3>3. QED
      BY <1>6, <2>1, <3>1, <3>2 DEF Next
  <2>2. QED
    BY <1>7, <2>1
<1>9. TypeOK'
  BY <1>1, <1>3, <1>8 DEF TypeOK, MemoryFits
<1>10. QED
  BY <1>3, <1>9 DEF TypesInv

\* The tokens of ids are unique, a compiled sheet is one of the scene's, and the memory of a
\* loaded tree has a column for every field of its bindings, whatever the order of calls.
THEOREM TypesStay == Spec => []TypeOK
<1>1. TypesInv => TypeOK
  BY DEF TypesInv
<1>2. QED
  BY <1>1, TypesInit, TypesNext, PTL DEF Spec

-----------------------------------------------------------------------------
(* The family of a node, as the edges in memory give it.                   *)

Places == 0 .. tree_size - 1
NodeAt(t, x) == t.order[x + 1]
\* What the cells of index x say of the left neighbour of its node.
LeftSeen(t, x) ==
  IF Edge("left_siblings", x) = 0 THEN LeftOf(t, NodeAt(t, x)) = {}
  ELSE /\ x # 0 /\ x - 1 # 0 /\ Edge("parent", x - 1) = Edge("parent", x)
       /\ LeftOf(t, NodeAt(t, x)) = {NodeAt(t, x - 1)}
\* The edges are those of the tree t.
FamilySeen(t) ==
  /\ tree_size \in Nat /\ 1 <= tree_size /\ treeSize(t) = tree_size
  /\ \A x \in Places : NodeAt(t, x) \in 1 .. tree_size
  /\ \A x, y \in Places : NodeAt(t, x) = NodeAt(t, y) => x = y
  /\ \A v \in 1 .. tree_size : \E x \in Places : NodeAt(t, x) = v
  /\ ParentsOf(t, NodeAt(t, 0)) = {}
  /\ \A x \in Places : x # 0 =>
       /\ Edge("parent", x) \in Places /\ Edge("parent", x) < x
       /\ ParentsOf(t, NodeAt(t, x)) = {NodeAt(t, Edge("parent", x))}
  /\ \A x \in Places : LeftSeen(t, x)

\* Every node below the root has a parent with a smaller index.
ParentsFall ==
  /\ tree_size \in Nat /\ 1 <= tree_size
  /\ \A x \in Places : x # 0 => Edge("parent", x) \in Places /\ Edge("parent", x) < x
NextAbove(g, j) == IF j = 0 THEN {} ELSE {Edge("parent", j)} \cup g[Edge("parent", j)]
AreAbove(g) == g = [j \in Places |-> NextAbove(g, j)]

\* The recursive definition of the ancestors is met by a function.
LEMMA AboveExists == ParentsFall => \E g : AreAbove(g)
<1> SUFFICES ASSUME ParentsFall PROVE \E g : AreAbove(g)
  OBVIOUS
<1> DEFINE P == Places
           up(j) == Edge("parent", j)
           D == [P -> SUBSET P]
           next(g) == [j \in P |-> NextAbove(g, j)]
           H == [k \in Nat |-> [g \in D |-> next(g)]]
           b == [j \in P |-> {}]
<1>1. tree_size \in Nat /\ 1 <= tree_size /\ \A j \in P : j # 0 => up(j) \in P /\ up(j) < j
  BY DEF ParentsFall
<1>2. \A g \in D : \A j \in P : NextAbove(g, j) \in SUBSET P
  <2> SUFFICES ASSUME NEW g \in D, NEW j \in P PROVE NextAbove(g, j) \in SUBSET P
    OBVIOUS
  <2> HIDE DEF P
  <2>1. CASE j = 0
    BY <2>1 DEF NextAbove
  <2>2. CASE j # 0
    <3>1. up(j) \in P /\ g[up(j)] \in SUBSET P
      BY <1>1, <2>2
    <3>2. NextAbove(g, j) = {up(j)} \cup g[up(j)]
      BY <2>2 DEF NextAbove
    <3> HIDE DEF up
    <3>3. QED
      BY <3>1, <3>2
  <2>3. QED
    BY <2>1, <2>2
<1>3. b \in D
  OBVIOUS
<1>4. \A g \in D : next(g) \in D
  <2> HIDE DEF P
  <2>1. QED
    BY <1>2
<1> HIDE DEF D, b
<1>5. IsStep(H, D) /\ \A k \in Nat : \A g \in D : H[k][g] = next(g)
  <2> HIDE DEF next
  <2>1. QED
    BY <1>4 DEF IsStep
<1> HIDE DEF H
<1>6. PICK f : Iterates(f, D, b, H)
  BY <1>3, <1>5, Recursion
<1>7. f \in [Nat -> D] /\ \A k \in Nat : f[k + 1] = next(f[k])
  BY <1>5, <1>6 DEF Iterates
<1>8. \A k \in Nat : \A j \in P : f[k + 1][j] = NextAbove(f[k], j)
  <2> HIDE DEF P
  <2>1. QED
    BY <1>7
<1>9. \A j \in P : j \in Nat /\ j < tree_size
  BY <1>1 DEF Places
<1> DEFINE same(k) == \A j \in P : j < k => f[k + 1][j] = f[k][j]
           S == {k \in Nat : same(k)}
<1>10. 0 \in S
  <2>1. same(0)
    BY <1>9
  <2> HIDE DEF same
  <2>2. QED
    BY <2>1
<1>11. ASSUME NEW k \in Nat, same(k) PROVE same(k + 1)
  <2> SUFFICES ASSUME NEW j \in P, j < k + 1 PROVE f[(k + 1) + 1][j] = f[k + 1][j]
    OBVIOUS
  <2>1. f[(k + 1) + 1][j] = NextAbove(f[k + 1], j) /\ f[k + 1][j] = NextAbove(f[k], j)
    BY <1>8
  <2>2. CASE j = 0
    BY <2>1, <2>2 DEF NextAbove
  <2>3. CASE j # 0
    <3>1. up(j) \in P /\ up(j) < j
      BY <1>1, <2>3
    <3>2. up(j) < k
      <4>1. up(j) \in Nat /\ j \in Nat
        BY <1>9, <3>1
      <4> HIDE DEF up
      <4>2. QED
        BY <3>1, <4>1
    <3>3. f[k + 1][up(j)] = f[k][up(j)]
      BY <1>11, <3>1, <3>2
    <3>4. QED
      BY <2>1, <2>3, <3>3 DEF NextAbove
  <2>4. QED
    BY <2>2, <2>3
<1> HIDE DEF same
<1>12. \A k \in 0 .. tree_size - 1 : k \in S => k + 1 \in S
  BY <1>11
<1>13. \A k \in 0 .. tree_size : k \in S
  <2> HIDE DEF S
  <2>1. QED
    BY <1>1, <1>10, <1>12, CountingUp
<1>14. same(tree_size)
  BY <1>1, <1>13
<1> DEFINE h == f[tree_size]
<1>15. \A j \in P : h[j] = NextAbove(h, j)
  BY <1>1, <1>8, <1>9, <1>14 DEF same
<1>16. h \in D
  BY <1>1, <1>7
<1>17. h = [j \in P |-> h[j]]
  BY <1>16 DEF D
<1> HIDE DEF h
<1>18. AreAbove(h)
  <2> HIDE DEF P
  <2>1. h = [j \in P |-> NextAbove(h, j)]
    BY <1>15, <1>17
  <2>2. QED
    BY <2>1 DEF AreAbove, P
<1>19. QED
  BY <1>18

\* The ancestors of a node are its parent and those of its parent.
LEMMA AncestorsAre ==
  ParentsFall => \A i \in Places :
    Ancestors(i) = IF i = 0 THEN {} ELSE {Edge("parent", i)} \cup Ancestors(Edge("parent", i))
<1> SUFFICES ASSUME ParentsFall, NEW i \in Places
             PROVE  Ancestors(i) = IF i = 0 THEN {} ELSE {Edge("parent", i)} \cup Ancestors(Edge("parent", i))
  OBVIOUS
<1> DEFINE g == CHOOSE g : AreAbove(g)
<1>1. AreAbove(g)
  BY AboveExists
<1>2. \A j : Ancestors(j) = g[j]
  BY Zenon DEF Ancestors, AreAbove, NextAbove, Places
<1> HIDE DEF g
<1>3. g[i] = NextAbove(g, i)
  BY <1>1 DEF AreAbove
<1>4. QED
  BY <1>2, <1>3 DEF NextAbove

\* What holds of a node whenever it holds of its parent holds of all.
LEMMA ByParent ==
  ParentsFall => \A S : (\A x \in Places : (x # 0 => Edge("parent", x) \in S) => x \in S) => Places \subseteq S
<1> SUFFICES ASSUME ParentsFall, NEW S, \A x \in Places : (x # 0 => Edge("parent", x) \in S) => x \in S
             PROVE  Places \subseteq S
  OBVIOUS
<1> DEFINE up(j) == Edge("parent", j)
           below(k) == \A x \in Places : x < k => x \in S
           Q == {k \in Nat : below(k)}
<1>1. tree_size \in Nat /\ 1 <= tree_size /\ \A x \in Places : x # 0 => up(x) \in Places /\ up(x) < x
  BY DEF ParentsFall
<1>2. \A x \in Places : x \in Nat /\ x < tree_size
  BY <1>1 DEF Places
<1>3. \A x \in Places : (x # 0 => up(x) \in S) => x \in S
  OBVIOUS
<1> HIDE DEF up
<1>4. 0 \in Q
  <2>1. below(0)
    BY <1>2
  <2> HIDE DEF below
  <2>2. QED
    BY <2>1
<1>5. ASSUME NEW k \in Nat, below(k) PROVE below(k + 1)
  <2> SUFFICES ASSUME NEW x \in Places, x < k + 1 PROVE x \in S
    OBVIOUS
  <2>1. ASSUME x # 0 PROVE up(x) \in S
    <3>1. up(x) \in Places /\ up(x) < x
      BY <1>1, <2>1
    <3>2. up(x) \in Nat /\ x \in Nat
      BY <1>2, <3>1
    <3>3. up(x) < k
      BY <3>1, <3>2
    <3>4. QED
      BY <1>5, <3>1, <3>3
  <2>2. QED
    BY <1>3, <2>1
<1> HIDE DEF below
<1>6. \A k \in 0 .. tree_size - 1 : k \in Q => k + 1 \in Q
  BY <1>5
<1>7. \A k \in 0 .. tree_size : k \in Q
  <2> HIDE DEF Q
  <2>1. QED
    BY <1>1, <1>4, <1>6, CountingUp
<1>8. below(tree_size)
  BY <1>1, <1>7
<1>9. QED
  BY <1>2, <1>8 DEF below

\* The ancestors of a node come before it.
LEMMA AncestorsFall ==
  ParentsFall => \A x \in Places : \A a \in Ancestors(x) : a \in Places /\ a < x
<1> SUFFICES ASSUME ParentsFall PROVE \A x \in Places : \A a \in Ancestors(x) : a \in Places /\ a < x
  OBVIOUS
<1> DEFINE up(j) == Edge("parent", j)
           holds(x) == \A a \in Ancestors(x) : a \in Places /\ a < x
           S == {x \in Places : holds(x)}
<1>1. \A x \in Places : x \in Nat /\ (x # 0 => up(x) \in Places /\ up(x) < x)
  BY DEF ParentsFall, Places
<1>2. \A x \in Places : Ancestors(x) = IF x = 0 THEN {} ELSE {up(x)} \cup Ancestors(up(x))
  BY AncestorsAre
<1>3. ASSUME NEW x \in Places, x # 0 => up(x) \in S PROVE x \in S
  <2> SUFFICES ASSUME NEW a \in Ancestors(x) PROVE a \in Places /\ a < x
    OBVIOUS
  <2>1. x # 0 /\ (a = up(x) \/ a \in Ancestors(up(x)))
    BY <1>2
  <2>2. up(x) \in Places /\ up(x) < x /\ holds(up(x))
    BY <1>1, <1>3, <2>1
  <2>3. CASE a = up(x)
    BY <2>2, <2>3
  <2>4. CASE a \in Ancestors(up(x))
    <3>1. a \in Places /\ a < up(x)
      BY <2>2, <2>4
    <3>2. a \in Nat /\ up(x) \in Nat /\ x \in Nat
      BY <1>1, <2>2, <3>1
    <3> HIDE DEF up
    <3>3. QED
      BY <2>2, <3>1, <3>2
  <2>5. QED
    BY <2>1, <2>3, <2>4
<1> HIDE DEF S
<1>4. Places \subseteq S
  BY <1>3, ByParent DEF up
<1>5. QED
  BY <1>4 DEF S

\* Ancestors of ancestors are ancestors, and those of a node form a chain.
LEMMA AncestorsChain ==
  ParentsFall => \A z \in Places : \A y \in Ancestors(z) :
    /\ Ancestors(y) \subseteq Ancestors(z)
    /\ \A x \in Ancestors(z) : x < y => x \in Ancestors(y)
<1> SUFFICES ASSUME ParentsFall
             PROVE  \A z \in Places : \A y \in Ancestors(z) :
                      /\ Ancestors(y) \subseteq Ancestors(z)
                      /\ \A x \in Ancestors(z) : x < y => x \in Ancestors(y)
  OBVIOUS
<1> DEFINE up(j) == Edge("parent", j)
           holds(z) == \A y \in Ancestors(z) : /\ Ancestors(y) \subseteq Ancestors(z)
                                              /\ \A x \in Ancestors(z) : x < y => x \in Ancestors(y)
           S == {z \in Places : holds(z)}
<1>1. \A z \in Places : z \in Nat /\ (z # 0 => up(z) \in Places /\ up(z) < z)
  BY DEF ParentsFall, Places
<1>2. \A z \in Places : Ancestors(z) = IF z = 0 THEN {} ELSE {up(z)} \cup Ancestors(up(z))
  BY AncestorsAre
<1>3. ASSUME NEW z \in Places, z # 0 => up(z) \in S PROVE z \in S
  <2> SUFFICES ASSUME NEW y \in Ancestors(z)
               PROVE  /\ Ancestors(y) \subseteq Ancestors(z)
                      /\ \A x \in Ancestors(z) : x < y => x \in Ancestors(y)
    OBVIOUS
  <2>1. z # 0 /\ Ancestors(z) = {up(z)} \cup Ancestors(up(z)) /\ up(z) \in Places /\ holds(up(z))
    BY <1>2, <1>3
  <2>2. \A a \in Ancestors(up(z)) : a \in Nat /\ a < up(z)
    BY <1>1, <2>1, AncestorsFall
  <2>3. up(z) \in Nat
    BY <1>1, <2>1
  <2>4. CASE y = up(z)
    <3>1. ~(up(z) < up(z))
      <4> HIDE DEF up
      <4>1. QED
        BY <2>3
    <3>2. QED
      BY <2>1, <2>4, <3>1
  <2>5. CASE y \in Ancestors(up(z))
    <3>1. ~(up(z) < y)
      <4>1. y \in Nat /\ y < up(z)
        BY <2>2, <2>5
      <4> HIDE DEF up
      <4>2. QED
        BY <2>3, <4>1
    <3>2. /\ Ancestors(y) \subseteq Ancestors(up(z))
          /\ \A x \in Ancestors(up(z)) : x < y => x \in Ancestors(y)
      BY <2>1, <2>5
    <3>3. QED
      BY <2>1, <3>1, <3>2
  <2>6. QED
    BY <2>1, <2>4, <2>5
<1> HIDE DEF S
<1>4. Places \subseteq S
  BY <1>3, ByParent DEF up
<1>5. QED
  BY <1>4 DEF S

\* The sets of the definition of AncestorsOf: what is at most k steps above.
UpStep(t, S) == S \cup UNION {ParentsOf(t, u) : u \in S}
AreUps(t, v, g) == g = [k \in Nat |-> IF k = 0 THEN {v} ELSE UpStep(t, g[k - 1])]
Rises(t, v, g) == g[0] = {v} /\ \A k \in Nat : g[k + 1] = UpStep(t, g[k])
\* They exist.
LEMMA UpsExist == \A t : \A v \in 1 .. treeSize(t) : \E g : AreUps(t, v, g)
<1> SUFFICES ASSUME NEW t, NEW v \in 1 .. treeSize(t) PROVE \E g : AreUps(t, v, g)
  OBVIOUS
<1> DEFINE V == 1 .. treeSize(t)
           D == SUBSET V
           H == [k \in Nat |-> [S \in D |-> UpStep(t, S)]]
<1>1. \A S \in D : UpStep(t, S) \in D
  <2>1. \A u : ParentsOf(t, u) \in D
    BY DEF ParentsOf
  <2> HIDE DEF V
  <2>2. QED
    BY <2>1 DEF UpStep
<1>2. {v} \in D
  OBVIOUS
<1> HIDE DEF D
<1>3. IsStep(H, D) /\ \A k \in Nat : \A S \in D : H[k][S] = UpStep(t, S)
  BY <1>1 DEF IsStep
<1> HIDE DEF H
<1>4. PICK f : Iterates(f, D, {v}, H)
  BY <1>2, <1>3, Recursion
<1>5. f \in [Nat -> D] /\ f[0] = {v} /\ \A k \in Nat : f[k + 1] = UpStep(t, f[k])
  BY <1>3, <1>4 DEF Iterates
<1>6. ASSUME NEW k \in Nat PROVE f[k] = IF k = 0 THEN {v} ELSE UpStep(t, f[k - 1])
  <2>1. CASE k = 0
    BY <1>5, <2>1
  <2>2. CASE k # 0
    <3>1. k - 1 \in Nat /\ (k - 1) + 1 = k
      BY <2>2
    <3>2. f[(k - 1) + 1] = UpStep(t, f[k - 1])
      BY <1>5, <3>1
    <3>3. QED
      BY <2>2, <3>1, <3>2
  <2>3. QED
    BY <2>1, <2>2
<1>7. f = [k \in Nat |-> f[k]]
  BY <1>5
<1>8. AreUps(t, v, f)
  BY <1>6, <1>7 DEF AreUps
<1>9. QED
  BY <1>8

\* AncestorsOf is the last of them, without the node.
LEMMA AncestorsOfIs ==
  \A t : \A v \in 1 .. treeSize(t) :
    \E g : Rises(t, v, g) /\ AncestorsOf(t, v) = g[treeSize(t)] \ {v}
<1> SUFFICES ASSUME NEW t, NEW v \in 1 .. treeSize(t)
             PROVE  \E g : Rises(t, v, g) /\ AncestorsOf(t, v) = g[treeSize(t)] \ {v}
  OBVIOUS
<1> DEFINE g == CHOOSE g : AreUps(t, v, g)
<1>1. AreUps(t, v, g)
  BY UpsExist
<1>2. AncestorsOf(t, v) = g[treeSize(t)] \ {v}
  BY Zenon DEF AncestorsOf, AreUps, UpStep
<1> HIDE DEF g
<1>3. \A k \in Nat : g[k] = IF k = 0 THEN {v} ELSE UpStep(t, g[k - 1])
  BY <1>1 DEF AreUps
<1>4. g[0] = {v}
  BY <1>3
<1>5. \A k \in Nat : k + 1 \in Nat /\ k + 1 # 0 /\ (k + 1) - 1 = k
  OBVIOUS
<1>6. \A k \in Nat : g[k + 1] = UpStep(t, g[k])
  BY <1>3, <1>5
<1>7. QED
  BY <1>2, <1>4, <1>6 DEF Rises

\* A node is in all of them, and those of its parent are in the next ones.
LEMMA UpsRise ==
  \A t, v, g : Rises(t, v, g) =>
    /\ \A k \in Nat : v \in g[k]
    /\ \A u, h : Rises(t, u, h) /\ u \in ParentsOf(t, v) => \A k \in Nat : h[k] \subseteq g[k + 1]
<1> SUFFICES ASSUME NEW t, NEW v, NEW g, Rises(t, v, g)
             PROVE  /\ \A k \in Nat : v \in g[k]
                    /\ \A u, h : Rises(t, u, h) /\ u \in ParentsOf(t, v) => \A k \in Nat : h[k] \subseteq g[k + 1]
  OBVIOUS
<1> DEFINE S == {k \in Nat : v \in g[k]}
<1>1. g[0] = {v} /\ \A k \in Nat : g[k + 1] = UpStep(t, g[k])
  BY DEF Rises
<1>2. \A k \in Nat : v \in g[k]
  <2> DEFINE G == [k \in Nat |-> k]
  <2>1. G[0] \in S
    BY <1>1
  <2>2. \A k \in Nat : G[k] \in S => G[k + 1] \in S
    BY <1>1 DEF UpStep
  <2> HIDE DEF S
  <2>3. \A n \in Nat : G[n] \in S
    BY <2>1, <2>2, Everywhere
  <2>4. QED
    BY <2>3 DEF S
<1>3. ASSUME NEW u, NEW h, Rises(t, u, h), u \in ParentsOf(t, v) PROVE \A k \in Nat : h[k] \subseteq g[k + 1]
  <2> DEFINE Q == {k \in Nat : h[k] \subseteq g[k + 1]}
             G == [k \in Nat |-> k]
  <2>1. h[0] = {u} /\ \A k \in Nat : h[k + 1] = UpStep(t, h[k])
    BY <1>3 DEF Rises
  <2>2. G[0] \in Q
    <3>1. g[0 + 1] = UpStep(t, {v})
      BY <1>1
    <3>2. u \in UpStep(t, {v})
      BY <1>3 DEF UpStep
    <3>3. QED
      BY <2>1, <3>1, <3>2
  <2>3. ASSUME NEW k \in Nat, G[k] \in Q PROVE G[k + 1] \in Q
    <3>1. h[k] \subseteq g[k + 1]
      BY <2>3
    <3>2. UpStep(t, h[k]) \subseteq UpStep(t, g[k + 1])
      BY <3>1 DEF UpStep
    <3>3. h[k + 1] \subseteq g[(k + 1) + 1]
      BY <1>1, <2>1, <3>2
    <3>4. QED
      BY <3>3
  <2> HIDE DEF Q
  <2>4. \A n \in Nat : G[n] \in Q
    BY <2>2, <2>3, Everywhere
  <2>5. QED
    BY <2>4 DEF Q
<1>4. QED
  BY <1>2, <1>3

\* The ancestors the engines find are those of the document.
LEMMA AncestorsSeen ==
  \A t : FamilySeen(t) => \A x \in Places :
    AncestorsOf(t, NodeAt(t, x)) = {NodeAt(t, a) : a \in Ancestors(x)}
<1> SUFFICES ASSUME NEW t, FamilySeen(t)
             PROVE  \A x \in Places : AncestorsOf(t, NodeAt(t, x)) = {NodeAt(t, a) : a \in Ancestors(x)}
  OBVIOUS
<1> DEFINE node(x) == NodeAt(t, x)
           up(x) == Edge("parent", x)
           n == tree_size
           holds(x) == \A g : Rises(t, node(x), g) =>
                         \A a \in Ancestors(x), d \in Nat : x <= a + d => node(a) \in g[d]
           S == {x \in Places : holds(x)}
<1>1. /\ n \in Nat /\ 1 <= n /\ treeSize(t) = n /\ ParentsFall
      /\ \A x \in Places : node(x) \in 1 .. n /\ x \in Nat /\ x < n
      /\ \A x, y \in Places : node(x) = node(y) => x = y
      /\ ParentsOf(t, node(0)) = {}
      /\ \A x \in Places : x # 0 => up(x) \in Places /\ up(x) < x /\ ParentsOf(t, node(x)) = {node(up(x))}
  BY DEF FamilySeen, ParentsFall, Places
<1>2. \A x \in Places : /\ Ancestors(x) = IF x = 0 THEN {} ELSE {up(x)} \cup Ancestors(up(x))
                       /\ \A a \in Ancestors(x) : a \in Places /\ a < x /\ Ancestors(a) \subseteq Ancestors(x)
  BY <1>1, AncestorsAre, AncestorsFall, AncestorsChain
<1>3. \A x \in Places : \E h : Rises(t, node(x), h)
  BY <1>1, AncestorsOfIs
<1> HIDE DEF node, up, n
<1>4. ASSUME NEW x \in Places, x # 0 => up(x) \in S PROVE x \in S
  <2> SUFFICES ASSUME NEW g, Rises(t, node(x), g), NEW a \in Ancestors(x), NEW d \in Nat, x <= a + d
               PROVE  node(a) \in g[d]
    OBVIOUS
  <2>1. x # 0 /\ (a = up(x) \/ a \in Ancestors(up(x))) /\ up(x) \in Places /\ up(x) < x /\ holds(up(x))
    BY <1>1, <1>2, <1>4
  <2>2. a \in Nat /\ x \in Nat /\ up(x) \in Nat /\ a < x
    BY <1>1, <1>2, <2>1
  <2> DEFINE k == d - 1
  <2>3. k \in Nat /\ k + 1 = d /\ up(x) <= a + k
    BY <2>1, <2>2
  <2> HIDE DEF k
  <2>4. PICK h : Rises(t, node(up(x)), h)
    BY <1>3, <2>1
  <2>5. h[k] \subseteq g[k + 1]
    <3>1. node(up(x)) \in ParentsOf(t, node(x))
      BY <1>1, <2>1
    <3>2. QED
      BY <2>3, <2>4, <3>1, UpsRise
  <2>6. node(a) \in h[k]
    <3>1. CASE a = up(x)
      BY <2>3, <2>4, <3>1, UpsRise
    <3>2. CASE a \in Ancestors(up(x))
      BY <2>1, <2>3, <2>4, <3>2
    <3>3. QED
      BY <2>1, <3>1, <3>2
  <2>7. QED
    BY <2>3, <2>5, <2>6
<1> HIDE DEF S
<1>5. Places \subseteq S
  <2>1. \A x \in Places : (x # 0 => Edge("parent", x) \in S) => x \in S
    BY <1>4 DEF up
  <2>2. QED
    BY <1>1, <2>1, ByParent
<1>6. ASSUME NEW x \in Places PROVE AncestorsOf(t, node(x)) = {node(a) : a \in Ancestors(x)}
  <2>1. PICK g : Rises(t, node(x), g) /\ AncestorsOf(t, node(x)) = g[n] \ {node(x)}
    BY <1>1, AncestorsOfIs
  <2>2. ASSUME NEW a \in Ancestors(x) PROVE node(a) \in g[n] \ {node(x)}
    <3>1. a \in Places /\ a < x /\ a \in Nat /\ x \in Nat /\ x < n
      BY <1>1, <1>2
    <3>2. x <= a + n
      BY <1>1, <3>1
    <3>3. node(a) \in g[n]
      BY <1>1, <1>5, <2>1, <3>2 DEF S
    <3>4. a # x
      BY <3>1
    <3>5. QED
      BY <1>1, <3>1, <3>3, <3>4
  <2> DEFINE W == {node(x)} \cup {node(a) : a \in Ancestors(x)}
             Q == {k \in Nat : g[k] \subseteq W}
             G == [k \in Nat |-> k]
  <2>3. ASSUME NEW u \in W PROVE ParentsOf(t, u) \subseteq W
    <3>1. PICK y \in {x} \cup Ancestors(x) : u = node(y)
      OBVIOUS
    <3>2. y \in Places /\ Ancestors(y) \subseteq Ancestors(x)
      BY <1>2
    <3>3. CASE y = 0
      BY <1>1, <3>1, <3>3
    <3>4. CASE y # 0
      <4>1. ParentsOf(t, u) = {node(up(y))} /\ up(y) \in Ancestors(y)
        BY <1>1, <1>2, <3>1, <3>2, <3>4
      <4>2. QED
        BY <3>2, <4>1
    <3>5. QED
      BY <3>3, <3>4
  <2>4. \A k \in Nat : g[k] \subseteq W
    <3>1. g[0] = {node(x)} /\ \A k \in Nat : g[k + 1] = UpStep(t, g[k])
      BY <2>1 DEF Rises
    <3>2. G[0] \in Q
      BY <3>1
    <3>3. ASSUME NEW k \in Nat, G[k] \in Q PROVE G[k + 1] \in Q
      <4> HIDE DEF W
      <4>1. UpStep(t, g[k]) \subseteq W
        BY <2>3, <3>3 DEF UpStep
      <4>2. g[k + 1] \subseteq W
        BY <3>1, <4>1
      <4>3. QED
        BY <4>2
    <3> HIDE DEF Q
    <3>4. \A m \in Nat : G[m] \in Q
      BY <3>2, <3>3, Everywhere
    <3>5. QED
      BY <3>4 DEF Q
  <2>5. g[n] \subseteq W
    BY <1>1, <2>4
  <2>6. QED
    BY <2>1, <2>2, <2>5
<1>7. QED
  BY <1>6 DEF node

\* Index x is that of child j of the node at index i, and its cells say so.
KidAt(t, E, N, x, i, j) ==
  /\ x \in Nat /\ i \in 0 .. Len(Order(t)) - 1 /\ i < x /\ j \in Nat /\ j \in 1 .. Len(KidsOf(t, Order(t)[i + 1]))
  /\ x + 1 = Firsts(t)[i] + j /\ Order(t)[x + 1] = KidsOf(t, Order(t)[i + 1])[j]
  /\ Cell(N, treeSize(t), E.parent, x) = i
  /\ Cell(N, treeSize(t), E.left_siblings, x) = Flag(j > 1)

\* The children of a node come after it.
LEMMA FirstsAhead == \A t : Grown(t) => \A i \in 0 .. Len(Order(t)) - 1 : i < Firsts(t)[i]
<1> SUFFICES ASSUME NEW t, Grown(t), NEW i \in 0 .. Len(Order(t)) - 1 PROVE i < Firsts(t)[i]
  OBVIOUS
<1> DEFINE o == Order(t)
           Fst == Firsts(t)
           S == Starts(t)
<1>1. Queued(t, o, Fst) /\ Leveled(t, S)
  BY OrderIsQueued, OrderIsLeveled
<1>2. PICK k \in 1 .. Turns(t) : InLevel(S, i, k)
  BY <1>1, OneLevel
<1> DEFINE a == S[k - 1]
           b == S[k]
<1>3. a <= i /\ i < b
  BY <1>2 DEF InLevel
<1>4. a < b /\ a \in 0 .. Len(o) /\ Fst[a] = b
  BY <1>1 DEF Leveled
<1>5. /\ Fst \in [0 .. Len(o) -> Nat] /\ Len(o) \in Nat
      /\ \A j \in 0 .. Len(o) : \A h \in 0 .. j : Fst[h] <= Fst[j]
  BY <1>1 DEF Queued
<1> HIDE DEF a, b, o, Fst, S
<1>6. i \in 0 .. Len(o) /\ a \in 0 .. i /\ i \in Nat
  BY <1>3, <1>4, <1>5 DEF o
<1>7. Fst[a] <= Fst[i] /\ Fst[i] \in Nat /\ Fst[a] \in Nat
  BY <1>4, <1>5, <1>6
<1>8. i < Fst[i]
  BY <1>3, <1>4, <1>6, <1>7
<1>9. QED
  BY <1>8 DEF Fst

\* Every index but the root's is that of a child.
LEMMA KidsSeen ==
  \A t, E, N : IsDocument(t) /\ EdgesHold(t, E, N) =>
    \A x \in 1 .. Len(Order(t)) - 1 : \E i, j : KidAt(t, E, N, x, i, j)
<1> SUFFICES ASSUME NEW t, NEW E, NEW N, IsDocument(t), EdgesHold(t, E, N), NEW x \in 1 .. Len(Order(t)) - 1
             PROVE  \E i, j : KidAt(t, E, N, x, i, j)
  OBVIOUS
<1> DEFINE o == Order(t)
           Fst == Firsts(t)
           n == treeSize(t)
<1>1. Grown(t) /\ Queued(t, o, Fst)
  BY DocumentsGrow, OrderIsQueued
<1>2. PICK i, g, c : Slot(t, o, Fst, i, g, c, x)
  BY <1>1, SlotsAreAll
<1> DEFINE r == Rolls(t, o[i + 1])[g - 1]
           j == r + c
           f == Fst[i]
<1>3. /\ i \in Nat /\ c \in Nat /\ 1 <= c /\ j \in Nat /\ f \in Nat /\ r \in Nat
      /\ j \in 1 .. Len(KidsOf(t, o[i + 1])) /\ x + 1 = f + j /\ o[x + 1] = KidsOf(t, o[i + 1])[j]
  BY <1>1, <1>2, SlotsOf DEF SlotOf
<1>4. i \in 0 .. Len(o) - 1
  BY <1>2 DEF Slot
<1>5. i < f
  BY <1>1, <1>4, FirstsAhead
<1>6. Cell(N, n, E.parent, x) = i /\ Cell(N, n, E.left_siblings, x) = Flag(c > 1 \/ r > 0)
  BY <1>2 DEF EdgesHold, SlotHolds
<1> HIDE DEF r, f
<1>7. (c > 1 \/ r > 0) <=> j > 1
  BY <1>3
<1>8. x \in Nat
  <2>1. Len(o) \in Nat
    BY <1>1 DEF Queued
  <2>2. QED
    OBVIOUS
<1>9. i < x
  BY <1>3, <1>5, <1>8
<1> HIDE DEF j
<1>10. Cell(N, n, E.left_siblings, x) = Flag(j > 1)
  BY <1>6, <1>7
<1>11. KidAt(t, E, N, x, i, j)
  BY <1>3, <1>4, <1>6, <1>8, <1>9, <1>10 DEF KidAt, f
<1>12. QED
  BY <1>11

\* The left neighbour of a child has the index before it, and the same parent.
LEMMA NeighboursSeen ==
  \A t, E, N : IsDocument(t) /\ EdgesHold(t, E, N) =>
    \A x, i, j : KidAt(t, E, N, x, i, j) /\ j > 1 => x - 1 > 0 /\ KidAt(t, E, N, x - 1, i, j - 1)
<1> SUFFICES ASSUME NEW t, NEW E, NEW N, IsDocument(t), EdgesHold(t, E, N), NEW x, NEW i, NEW j,
                    KidAt(t, E, N, x, i, j), j > 1
             PROVE  x - 1 > 0 /\ KidAt(t, E, N, x - 1, i, j - 1)
  OBVIOUS
<1> DEFINE o == Order(t)
           Fst == Firsts(t)
           K == KidsOf(t, o[i + 1])
           f == Fst[i]
           y == x - 1
           k == j - 1
<1>1. Grown(t) /\ Queued(t, o, Fst)
  BY DocumentsGrow, OrderIsQueued
<1>2. /\ i \in 0 .. Len(o) - 1 /\ i < x /\ j \in Nat /\ j \in 1 .. Len(K) /\ x + 1 = f + j /\ o[x + 1] = K[j]
  BY DEF KidAt
<1>3. /\ i \in Nat /\ f \in Nat /\ Len(K) \in Nat
      /\ \A m \in 1 .. Len(K) : f + m \in 2 .. Len(o)
  BY <1>1, <1>2, ChildOfNode
<1>4. i < f
  BY <1>1, <1>2, FirstsAhead
<1>5. Len(o) \in Nat
  BY <1>1 DEF Queued
<1>6. x \in Nat
  BY DEF KidAt
<1>7. x + 1 = f + j /\ j \in Nat /\ f \in Nat
  BY <1>2, <1>3
<1>8. \A h, m : h \in 0 .. Len(o) - 1 /\ m \in 1 .. Len(KidsOf(t, o[h + 1])) /\ k \in 1 .. Len(K)
                 /\ Fst[h] + m = f + k => h = i /\ m = k
  <2> HIDE DEF o, Fst, k
  <2>1. QED
    BY <1>1, <1>2 DEF Queued
<1> HIDE DEF f, K, o, Fst
<1>9. k \in Nat /\ k \in 1 .. Len(K) /\ f + k \in 2 .. Len(o)
  BY <1>2, <1>3
<1>10. y + 1 = f + k /\ y \in 1 .. Len(o) - 1
  <2>1. x = f + j - 1
    BY <1>6, <1>7
  <2>2. y + 1 = f + k
    BY <1>7, <2>1
  <2>3. QED
    BY <1>3, <1>5, <1>9, <2>1, <2>2
<1>11. PICK h, m : KidAt(t, E, N, y, h, m)
  <2> HIDE DEF y
  <2>1. y \in 1 .. Len(Order(t)) - 1
    BY <1>10 DEF o
  <2>2. QED
    BY <2>1, KidsSeen
<1>12. /\ h \in 0 .. Len(o) - 1 /\ m \in 1 .. Len(KidsOf(t, o[h + 1])) /\ y + 1 = Fst[h] + m
  BY <1>11 DEF KidAt, o, Fst
<1>13. h = i /\ m = k
  <2>1. y + 1 = f + k /\ k \in 1 .. Len(K)
    BY <1>9, <1>10
  <2> HIDE DEF y, k
  <2>2. Fst[h] + m = f + k
    BY <1>12, <2>1
  <2>3. QED
    BY <1>12, <1>8, <2>1, <2>2
<1> HIDE DEF y, k
<1>14. QED
  BY <1>10, <1>11, <1>13, <1>5 DEF y, k

\* The family of child j of v is v and child j - 1.
KidFamily(t, v, j) ==
  /\ ParentsOf(Laid(t), KidsOf(t, v)[j]) = {v}
  /\ LeftOf(Laid(t), KidsOf(t, v)[j]) = IF j > 1 THEN {KidsOf(t, v)[j - 1]} ELSE {}
\* An object is in the lists of one object, in one place.
LEMMA FamilyOfKid ==
  \A t : IsDocument(t) => \A v \in Nodes(t) : \A j \in 1 .. Len(KidsOf(t, v)) : KidFamily(t, v, j)
<1> SUFFICES ASSUME NEW t, IsDocument(t), NEW v \in Nodes(t), NEW j \in 1 .. Len(KidsOf(t, v))
             PROVE  KidFamily(t, v, j)
  OBVIOUS
<1> DEFINE T == Laid(t)
           w == KidsOf(t, v)[j]
           left == KidsOf(t, v)[j - 1]
<1>1. Grown(t) /\ treeSize(T) = treeSize(t) /\ T.childs = [u \in Nodes(t) |-> KidsOf(t, u)]
  BY DocumentsGrow, LaidFields
<1>2. \A u \in Nodes(t) : /\ T.childs[u] = KidsOf(t, u) /\ Len(KidsOf(t, u)) \in Nat
                         /\ DOMAIN KidsOf(t, u) = 1 .. Len(KidsOf(t, u))
                         /\ \A k \in 1 .. Len(KidsOf(t, u)) : KidsOf(t, u)[k] \in Nodes(t)
  <2> SUFFICES ASSUME NEW u \in Nodes(t)
               PROVE  /\ T.childs[u] = KidsOf(t, u) /\ Len(KidsOf(t, u)) \in Nat
                      /\ DOMAIN KidsOf(t, u) = 1 .. Len(KidsOf(t, u))
                      /\ \A k \in 1 .. Len(KidsOf(t, u)) : KidsOf(t, u)[k] \in Nodes(t)
    OBVIOUS
  <2>1. KidsOf(t, u) \in Seq(Nodes(t)) /\ \A k \in 1 .. Len(KidsOf(t, u)) : KidsOf(t, u)[k] \in Nodes(t)
    BY <1>1, KidsOfNode
  <2>2. T.childs[u] = KidsOf(t, u)
    BY <1>1
  <2> HIDE DEF T
  <2>3. QED
    BY <2>1, <2>2
<1>3. \A u \in Nodes(t) : \A k \in 1 .. Len(KidsOf(t, u)) : KidsOf(t, u)[k] = w => u = v /\ k = j
  BY <1>1 DEF Grown
<1>4. 1 .. treeSize(T) = Nodes(t)
  BY <1>1 DEF Nodes
<1>5. j \in Nat /\ 1 <= j /\ j <= Len(KidsOf(t, v)) /\ Len(KidsOf(t, v)) \in Nat
  BY <1>2
<1> HIDE DEF T, w
<1>6. ParentsOf(T, w) = {v}
  <2>1. \A u \in Nodes(t) : w \in ToSet(T.childs[u]) <=> \E k \in 1 .. Len(KidsOf(t, u)) : KidsOf(t, u)[k] = w
    BY <1>2 DEF ToSet
  <2>2. \A u \in Nodes(t) : w \in ToSet(T.childs[u]) <=> u = v
    BY <1>3, <2>1 DEF w
  <2>3. QED
    BY <1>4, <2>2 DEF ParentsOf
<1>7. \A x : x \in LeftOf(T, w) <=> /\ x \in Nodes(t)
                                   /\ \E k \in 2 .. Len(T.childs[v]) : T.childs[v][k] = w /\ T.childs[v][k - 1] = x
  BY <1>4, <1>6 DEF LeftOf
<1>8. \A k \in 2 .. Len(KidsOf(t, v)) : k \in 1 .. Len(KidsOf(t, v))
  BY <1>5
<1>9. \A x : x \in LeftOf(T, w) <=> j \in 2 .. Len(KidsOf(t, v)) /\ x = left /\ x \in Nodes(t)
  <2> HIDE DEF left
  <2>1. \A k \in 2 .. Len(KidsOf(t, v)) : KidsOf(t, v)[k] = w => k = j
    BY <1>3, <1>8
  <2>2. KidsOf(t, v)[j] = w
    BY DEF w
  <2> DEFINE before(x) == \E k \in 2 .. Len(KidsOf(t, v)) : KidsOf(t, v)[k] = w /\ KidsOf(t, v)[k - 1] = x
             next(x) == j \in 2 .. Len(KidsOf(t, v)) /\ x = KidsOf(t, v)[j - 1]
  <2>3. \A x : before(x) <=> next(x)
    <3>1. ASSUME NEW k \in 2 .. Len(KidsOf(t, v)), KidsOf(t, v)[k] = w
          PROVE  j \in 2 .. Len(KidsOf(t, v)) /\ KidsOf(t, v)[k - 1] = KidsOf(t, v)[j - 1]
      <4>1. k = j
        BY <2>1, <3>1
      <4>2. QED
        BY <4>1
    <3>2. ASSUME NEW x PROVE before(x) => next(x)
      <4> HIDE DEF w
      <4>1. QED
        BY <3>1
    <3>3. ASSUME NEW x, next(x) PROVE before(x)
      <4>1. j \in 2 .. Len(KidsOf(t, v)) /\ KidsOf(t, v)[j] = w /\ KidsOf(t, v)[j - 1] = x
        BY <2>2, <3>3
      <4> HIDE DEF w
      <4>2. QED
        BY <4>1
    <3> HIDE DEF before, next
    <3>4. QED
      BY <3>2, <3>3
  <2>4. \A x : x \in LeftOf(T, w) <=> x \in Nodes(t) /\ before(x)
    <3>1. T.childs[v] = KidsOf(t, v)
      BY <1>2
    <3> HIDE DEF T
    <3>2. QED
      BY <1>7, <3>1
  <2> HIDE DEF before
  <2>5. QED
    BY <2>3, <2>4 DEF left
<1>10. j > 1 => j \in 2 .. Len(KidsOf(t, v)) /\ left \in Nodes(t)
  <2> SUFFICES ASSUME j > 1 PROVE j \in 2 .. Len(KidsOf(t, v)) /\ left \in Nodes(t)
    OBVIOUS
  <2>1. j \in 2 .. Len(KidsOf(t, v)) /\ j - 1 \in 1 .. Len(KidsOf(t, v))
    BY <1>5
  <2>2. QED
    BY <1>2, <2>1
<1>11. ~(j > 1) => j \notin 2 .. Len(KidsOf(t, v))
  BY <1>5
<1> HIDE DEF left
<1>12. LeftOf(T, w) = IF j > 1 THEN {left} ELSE {}
  <2>1. CASE j > 1
    BY <1>9, <1>10, <2>1
  <2>2. CASE ~(j > 1)
    BY <1>9, <1>11, <2>2
  <2>3. QED
    BY <2>1, <2>2
<1>13. QED
  BY <1>6, <1>12 DEF KidFamily, T, w, left

\* The root is in none.
LEMMA FamilyOfRoot == \A t : IsDocument(t) => ParentsOf(Laid(t), 1) = {} /\ LeftOf(Laid(t), 1) = {}
<1> SUFFICES ASSUME NEW t, IsDocument(t) PROVE ParentsOf(Laid(t), 1) = {} /\ LeftOf(Laid(t), 1) = {}
  OBVIOUS
<1> DEFINE T == Laid(t)
<1>1. Grown(t) /\ treeSize(T) = treeSize(t) /\ T.childs = [u \in Nodes(t) |-> KidsOf(t, u)]
  BY DocumentsGrow, LaidFields
<1>2. ASSUME NEW u \in Nodes(t) PROVE 1 \notin ToSet(T.childs[u])
  <2>1. T.childs[u] = KidsOf(t, u)
    BY <1>1
  <2>2. KidsOf(t, u) \in Seq(Nodes(t)) /\ \A k \in 1 .. Len(KidsOf(t, u)) : u < KidsOf(t, u)[k]
    BY <1>1, KidsOfNode
  <2>3. u \in Nat /\ 1 <= u
    BY <1>1, NodesAreNumbers
  <2>4. \A k \in 1 .. Len(KidsOf(t, u)) : KidsOf(t, u)[k] # 1
    BY <2>2, <2>3
  <2>5. DOMAIN KidsOf(t, u) = 1 .. Len(KidsOf(t, u))
    BY <2>2
  <2> HIDE DEF T
  <2>6. QED
    BY <2>1, <2>4, <2>5 DEF ToSet
<1>3. 1 .. treeSize(T) = Nodes(t)
  BY <1>1 DEF Nodes
<1> HIDE DEF T
<1>4. ParentsOf(T, 1) = {}
  BY <1>2, <1>3 DEF ParentsOf
<1>5. LeftOf(T, 1) = {}
  BY <1>4 DEF LeftOf
<1>6. QED
  BY <1>4, <1>5 DEF T

\* A loaded tree whose root has no left neighbour has the edges of its document.
LEMMA FamilyIsSeen == TreeInv /\ Loaded /\ Edge("left_siblings", 0) = 0 => FamilySeen(Tree)
<1> SUFFICES ASSUME TreeInv, Loaded, Edge("left_siblings", 0) = 0 PROVE FamilySeen(Tree)
  OBVIOUS
<1> DEFINE t == Documents[doc]
           T == Tree
           o == Order(t)
           E == B.edges
           N == mem["nodeindex"]
           n == tree_size
           node(x) == NodeAt(T, x)
           up(x) == Edge("parent", x)
           left(x) == Edge("left_siblings", x)
<1>1. doc \in DOMAIN Documents /\ TreeHeld(engine, doc, N, n, levels) /\ engine \in DOMAIN kbindings
  BY DEF TreeInv
<1>2. T = Laid(t) /\ IsDocument(t) /\ T.order = o /\ treeSize(T) = treeSize(t)
  BY <1>1, TreesAreDocuments, LaidFields DEF Tree
<1>3. n = treeSize(t) /\ EdgesHold(t, E, N) /\ Grown(t) /\ Queued(t, o, Firsts(t)) /\ Len(o) = n
  <2>1. Grown(t) /\ Queued(t, o, Firsts(t))
    BY <1>2, DocumentsGrow, OrderIsQueued
  <2>2. QED
    BY <1>1, <2>1, FlattenerFits, OrderIsWhole DEF TreeHeld
<1>4. \A x : up(x) = Cell(N, n, E.parent, x) /\ left(x) = Cell(N, n, E.left_siblings, x)
  BY DEF Edge, Get, Cell
<1>5. \A x : node(x) = o[x + 1]
  BY <1>2 DEF NodeAt
<1>6. n \in Nat /\ 1 <= n
  BY <1>2, <1>3, ListsTyped
<1>7. Places = 0 .. n - 1 /\ 1 .. n = Nodes(t)
  BY <1>3 DEF Places, Nodes
<1>8. left(0) = 0
  OBVIOUS
<1> HIDE DEF T, t, o, E, node, up, left, N
<1>9. \A x \in Places : node(x) \in 1 .. n /\ x + 1 \in 1 .. n
  <2> SUFFICES ASSUME NEW x \in Places PROVE node(x) \in 1 .. n /\ x + 1 \in 1 .. n
    OBVIOUS
  <2>1. x \in 0 .. Len(o) - 1
    BY <1>3, <1>7
  <2>2. o[x + 1] \in Nodes(t) /\ x + 1 \in 1 .. Len(o)
    BY <1>3, <2>1, ChildOfNode
  <2>3. QED
    BY <1>3, <1>5, <1>7, <2>2
<1>10. \A x, y \in Places : node(x) = node(y) => x = y
  <2> SUFFICES ASSUME NEW x \in Places, NEW y \in Places, node(x) = node(y) PROVE x = y
    OBVIOUS
  <2>1. x + 1 \in 1 .. Len(o) /\ y + 1 \in 1 .. Len(o) /\ o[x + 1] = o[y + 1]
    BY <1>3, <1>5, <1>9
  <2>2. x + 1 = y + 1
    BY <1>3, <2>1, OrderIsOnce
  <2>3. x \in Int /\ y \in Int
    BY <1>7
  <2>4. QED
    BY <2>2, <2>3
<1>11. \A v \in 1 .. n : \E x \in Places : node(x) = v
  <2> SUFFICES ASSUME NEW v \in 1 .. n PROVE \E x \in Places : node(x) = v
    OBVIOUS
  <2>1. IndexOf(o, v) \in 0 .. Len(o) - 1 /\ o[IndexOf(o, v) + 1] = v
    BY <1>3, <1>7, PlaceOfIndex
  <2>2. QED
    BY <1>3, <1>5, <1>7, <2>1
<1>12. node(0) = 1 /\ ParentsOf(T, node(0)) = {} /\ LeftOf(T, node(0)) = {}
  <2>1. o[1] = 1
    BY <1>3 DEF Queued
  <2>2. node(0) = 1
    BY <1>5, <2>1
  <2>3. QED
    BY <1>2, <2>2, FamilyOfRoot
<1>13. ASSUME NEW x \in Places, x # 0
       PROVE  up(x) \in Places /\ up(x) < x /\ ParentsOf(T, node(x)) = {node(up(x))} /\ LeftSeen(T, x)
  <2>1. x \in 1 .. Len(o) - 1
    BY <1>3, <1>6, <1>7, <1>13
  <2>2. PICK i, j : KidAt(t, E, N, x, i, j)
    BY <1>2, <1>3, <2>1, KidsSeen DEF o
  <2>3. /\ i \in 0 .. Len(o) - 1 /\ i < x /\ j \in 1 .. Len(KidsOf(t, o[i + 1]))
        /\ o[x + 1] = KidsOf(t, o[i + 1])[j] /\ up(x) = i /\ left(x) = Flag(j > 1)
    <3>1. /\ i \in 0 .. Len(o) - 1 /\ i < x /\ j \in 1 .. Len(KidsOf(t, o[i + 1]))
          /\ o[x + 1] = KidsOf(t, o[i + 1])[j]
          /\ Cell(N, treeSize(t), E.parent, x) = i /\ Cell(N, treeSize(t), E.left_siblings, x) = Flag(j > 1)
      BY <2>2 DEF KidAt, o
    <3>2. QED
      BY <1>3, <1>4, <3>1
  <2>4. o[i + 1] \in Nodes(t) /\ i \in Places /\ node(i) = o[i + 1]
    BY <1>3, <1>5, <1>7, <2>3, ChildOfNode
  <2>5. /\ ParentsOf(T, node(x)) = {node(i)}
        /\ LeftOf(T, node(x)) = IF j > 1 THEN {KidsOf(t, o[i + 1])[j - 1]} ELSE {}
    <3> DEFINE v == o[i + 1]
    <3>1. v \in Nodes(t) /\ node(i) = v /\ j \in 1 .. Len(KidsOf(t, v)) /\ node(x) = KidsOf(t, v)[j]
      BY <1>5, <2>3, <2>4
    <3> HIDE DEF v
    <3>2. /\ ParentsOf(Laid(t), KidsOf(t, v)[j]) = {v}
          /\ LeftOf(Laid(t), KidsOf(t, v)[j]) = IF j > 1 THEN {KidsOf(t, v)[j - 1]} ELSE {}
      <4>1. KidFamily(t, v, j)
        BY <1>2, <3>1, FamilyOfKid
      <4>2. QED
        BY <4>1 DEF KidFamily
    <3>3. ParentsOf(T, node(x)) = {v}
      BY <1>2, <3>1, <3>2
    <3>4. LeftOf(T, node(x)) = LeftOf(Laid(t), KidsOf(t, v)[j])
      BY <1>2, <3>1
    <3>5. LeftOf(T, node(x)) = IF j > 1 THEN {KidsOf(t, v)[j - 1]} ELSE {}
      BY <3>2, <3>4
    <3>6. QED
      BY <3>1, <3>3, <3>5 DEF v
  <2>6. LeftSeen(T, x)
    <3>1. CASE j > 1
      <4>1. x - 1 > 0 /\ KidAt(t, E, N, x - 1, i, j - 1)
        BY <1>2, <1>3, <2>2, <3>1, NeighboursSeen
      <4>2. up(x - 1) = i /\ o[(x - 1) + 1] = KidsOf(t, o[i + 1])[j - 1]
        BY <1>3, <1>4, <4>1 DEF KidAt, o
      <4>3. node(x - 1) = KidsOf(t, o[i + 1])[j - 1]
        BY <1>5, <4>2
      <4>4. left(x) # 0
        BY <2>3, <3>1 DEF Flag
      <4>5. x - 1 # 0
        BY <4>1
      <4>6. LeftOf(T, node(x)) = {node(x - 1)}
        BY <2>5, <3>1, <4>3
      <4>7. QED
        BY <1>13, <2>3, <4>2, <4>4, <4>5, <4>6 DEF LeftSeen, left, up, node
    <3>2. CASE ~(j > 1)
      <4>1. left(x) = 0 /\ LeftOf(T, node(x)) = {}
        BY <2>3, <2>5, <3>2 DEF Flag
      <4>2. QED
        BY <4>1 DEF LeftSeen, left, node
    <3>3. QED
      BY <3>1, <3>2
  <2>7. QED
    BY <2>3, <2>4, <2>5, <2>6
<1>14. LeftSeen(T, 0)
  BY <1>8, <1>12 DEF LeftSeen, left, node
<1>15. QED
  BY <1>2, <1>3, <1>6, <1>9, <1>10, <1>11, <1>12, <1>13, <1>14 DEF FamilySeen, node, up, T

-----------------------------------------------------------------------------
(* One step of the matcher.                                                *)

\* The node that matched last is sib to the left of nextNodeIdx, with its parent.
Here(a) == a.node - a.sib
Standing(a) ==
  /\ a.node \in Places /\ a.sib \in Nat /\ Here(a) \in Places
  /\ (a.node = 0) = (Here(a) = 0)
  /\ a.node # 0 => Edge("parent", Here(a)) = Edge("parent", a.node)
Positions ==
  {a \in [ok : BOOLEAN, node : Places \cup {Edge("parent", 0)}, sib : Nat] : a.ok => Standing(a)}
Position(ok, x, s) == [ok |-> ok, node |-> x, sib |-> s]
Goes(c, x) == c \in Positions /\ c.ok /\ Here(c) = x
Stops(c) == c \in Positions /\ ~c.ok

\* A position of its own.
LEMMA PositionIs ==
  tree_size \in Nat =>
    /\ \A x \in Places : \A ok \in BOOLEAN :
         Position(ok, x, 0) \in Positions /\ Position(ok, x, 0).ok = ok /\ Here(Position(ok, x, 0)) = x
    /\ \A x \in Places \cup {Edge("parent", 0)} : \A s \in Nat :
         Position(FALSE, x, s) \in Positions /\ Position(FALSE, x, s).ok = FALSE
<1> SUFFICES ASSUME tree_size \in Nat
             PROVE  /\ \A x \in Places : \A ok \in BOOLEAN :
                         /\ Position(ok, x, 0) \in Positions /\ Position(ok, x, 0).ok = ok
                         /\ Here(Position(ok, x, 0)) = x
                    /\ \A x \in Places \cup {Edge("parent", 0)} : \A s \in Nat :
                         Position(FALSE, x, s) \in Positions /\ Position(FALSE, x, s).ok = FALSE
  OBVIOUS
<1>1. ASSUME NEW x \in Places, NEW ok \in BOOLEAN
      PROVE  Position(ok, x, 0) \in Positions /\ Position(ok, x, 0).ok = ok /\ Here(Position(ok, x, 0)) = x
  <2> DEFINE c == Position(ok, x, 0)
  <2>1. c.ok = ok /\ c.node = x /\ c.sib = 0
    BY DEF Position
  <2>2. c \in [ok : BOOLEAN, node : Places \cup {Edge("parent", 0)}, sib : Nat]
    BY DEF Position
  <2> HIDE DEF c
  <2>3. x \in Int
    BY DEF Places
  <2>4. Here(c) = x
    BY <2>1, <2>3 DEF Here
  <2>5. Standing(c)
    BY <2>1, <2>4 DEF Standing
  <2>6. c \in Positions
    BY <2>2, <2>5 DEF Positions
  <2>7. QED
    BY <2>1, <2>4, <2>6 DEF c
<1>2. ASSUME NEW x \in Places \cup {Edge("parent", 0)}, NEW s \in Nat
      PROVE  Position(FALSE, x, s) \in Positions /\ Position(FALSE, x, s).ok = FALSE
  <2> DEFINE c == Position(FALSE, x, s)
  <2>1. c.ok = FALSE
    BY DEF Position
  <2>2. c \in [ok : BOOLEAN, node : Places \cup {Edge("parent", 0)}, sib : Nat]
    BY DEF Position
  <2> HIDE DEF c
  <2>3. c \in Positions
    BY <2>1, <2>2 DEF Positions
  <2>4. QED
    BY <2>1, <2>3 DEF c
<1>3. QED
  BY <1>1, <1>2

\* What stands to the left of a node is above by the same way.
LEMMA StandingIs ==
  ParentsFall => \A a : Standing(a) => /\ Ancestors(a.node) = Ancestors(Here(a))
                                       /\ a.node # 0 => Edge("parent", a.node) = Edge("parent", Here(a))
                                       /\ (a.node = 0) = (Here(a) = 0)
                                       /\ Here(a) \in Places /\ a.node \in Places
<1> SUFFICES ASSUME ParentsFall, NEW a, Standing(a)
             PROVE  /\ Ancestors(a.node) = Ancestors(Here(a))
                    /\ a.node # 0 => Edge("parent", a.node) = Edge("parent", Here(a))
                    /\ (a.node = 0) = (Here(a) = 0)
                    /\ Here(a) \in Places /\ a.node \in Places
  OBVIOUS
<1>1. /\ a.node \in Places /\ Here(a) \in Places /\ (a.node = 0) = (Here(a) = 0)
      /\ a.node # 0 => Edge("parent", Here(a)) = Edge("parent", a.node)
  BY DEF Standing
<1>2. CASE a.node = 0
  BY <1>1, <1>2
<1>3. CASE a.node # 0
  <2>1. Here(a) # 0
    BY <1>1, <1>3
  <2>2. /\ Ancestors(a.node) = {Edge("parent", a.node)} \cup Ancestors(Edge("parent", a.node))
        /\ Ancestors(Here(a)) = {Edge("parent", Here(a))} \cup Ancestors(Edge("parent", Here(a)))
    BY <1>1, <1>3, <2>1, AncestorsAre
  <2>3. QED
    BY <1>1, <1>3, <2>2
<1>4. QED
  BY <1>2, <1>3

\* ' ' goes to the nearest ancestor that matches.
LEMMA ClimbDescendant ==
  ParentsFall => \A a, p, noId : a \in Positions /\ Standing(a) =>
    \/ /\ \A x \in Ancestors(Here(a)) : ~matchPredicate(p, x, noId)
       /\ Stops(Climb(" ", p, a, noId))
    \/ \E y \in Ancestors(Here(a)) :
         /\ matchPredicate(p, y, noId) /\ Goes(Climb(" ", p, a, noId), y)
         /\ \A x \in Ancestors(Here(a)) : matchPredicate(p, x, noId) => x <= y
<1> SUFFICES ASSUME ParentsFall, NEW a, NEW p, NEW noId, a \in Positions, Standing(a)
             PROVE  \/ /\ \A x \in Ancestors(Here(a)) : ~matchPredicate(p, x, noId)
                       /\ Stops(Climb(" ", p, a, noId))
                    \/ \E y \in Ancestors(Here(a)) :
                         /\ matchPredicate(p, y, noId) /\ Goes(Climb(" ", p, a, noId), y)
                         /\ \A x \in Ancestors(Here(a)) : matchPredicate(p, x, noId) => x <= y
  OBVIOUS
<1> DEFINE found == {x \in Ancestors(a.node) : matchPredicate(p, x, noId)}
           c == Climb(" ", p, a, noId)
<1>1. found = {x \in Ancestors(Here(a)) : matchPredicate(p, x, noId)} /\ Here(a) \in Places
  BY StandingIs
<1>2. c = IF found = {} THEN [a EXCEPT !.ok = FALSE] ELSE Position(TRUE, Max(found), 0)
  BY DEF Climb, nearest, Position
<1>3. \A x \in found : x \in Places /\ x \in Nat /\ x <= tree_size
  BY <1>1, AncestorsFall DEF Places, ParentsFall
<1>4. tree_size \in Nat
  BY DEF ParentsFall
<1> HIDE DEF found, c
<1>5. CASE found = {}
  <2>1. a = Position(a.ok, a.node, a.sib) /\ a.node \in Places \cup {Edge("parent", 0)} /\ a.sib \in Nat
    BY DEF Positions, Position
  <2>2. c = Position(FALSE, a.node, a.sib)
    BY <1>2, <1>5, <2>1 DEF Position
  <2>3. Stops(c)
    BY <1>4, <2>1, <2>2, PositionIs DEF Stops
  <2>4. QED
    BY <1>1, <1>5, <2>3 DEF c
<1>6. CASE found # {}
  <2> DEFINE y == Max(found)
  <2>1. y \in found /\ \A x \in found : x <= y
    BY <1>3, <1>4, <1>6, GreatestOf
  <2> HIDE DEF y
  <2>2. c = Position(TRUE, y, 0)
    BY <1>2, <1>6 DEF y
  <2>3. Goes(c, y)
    BY <1>3, <1>4, <2>1, <2>2, PositionIs DEF Goes
  <2>4. QED
    BY <1>1, <2>1, <2>3 DEF c
<1>7. QED
  BY <1>5, <1>6

\* '>' goes to the parent, when it matches.
LEMMA ClimbChild ==
  ParentsFall => \A a, p, noId : a \in Positions /\ Standing(a) =>
    IF Here(a) # 0 /\ matchPredicate(p, Edge("parent", Here(a)), noId)
    THEN Goes(Climb(">", p, a, noId), Edge("parent", Here(a))) ELSE Stops(Climb(">", p, a, noId))
<1> SUFFICES ASSUME ParentsFall, NEW a, NEW p, NEW noId, a \in Positions, Standing(a)
             PROVE  IF Here(a) # 0 /\ matchPredicate(p, Edge("parent", Here(a)), noId)
                    THEN Goes(Climb(">", p, a, noId), Edge("parent", Here(a)))
                    ELSE Stops(Climb(">", p, a, noId))
  OBVIOUS
<1> DEFINE c == Climb(">", p, a, noId)
           up == Edge("parent", a.node)
           b == a.node # 0 /\ matchPredicate(p, up, noId)
<1>1. c = Position(b, up, 0)
  BY DEF Climb, Position
<1>2. /\ a.node # 0 => up = Edge("parent", Here(a)) /\ up \in Places
      /\ a.node = 0 => up = Edge("parent", 0)
      /\ (a.node = 0) = (Here(a) = 0)
  BY StandingIs DEF ParentsFall
<1>3. tree_size \in Nat
  BY DEF ParentsFall
<1> HIDE DEF c, up
<1>4. CASE b
  <2>1. c = Position(TRUE, up, 0)
    BY <1>1, <1>4
  <2>2. Goes(c, up)
    BY <1>2, <1>3, <1>4, <2>1, PositionIs DEF Goes
  <2>3. QED
    BY <1>2, <1>4, <2>2 DEF c
<1>5. CASE ~b
  <2>1. c = Position(FALSE, up, 0)
    BY <1>1, <1>5
  <2>2. up \in Places \cup {Edge("parent", 0)} /\ 0 \in Nat
    BY <1>2
  <2>3. Stops(c)
    BY <1>3, <2>1, <2>2, PositionIs DEF Stops
  <2>4. QED
    BY <1>2, <1>5, <2>3 DEF c
<1>6. QED
  BY <1>4, <1>5

\* '+' goes to the node at the index before, when there is a left neighbour and it
\* matches.
LEMMA ClimbSibling ==
  \A t : FamilySeen(t) => \A a, p, noId : a \in Positions /\ Standing(a) =>
    IF Edge("left_siblings", Here(a)) # 0 /\ matchPredicate(p, Here(a) - 1, noId)
    THEN Goes(Climb("+", p, a, noId), Here(a) - 1) ELSE Stops(Climb("+", p, a, noId))
<1> SUFFICES ASSUME NEW t, FamilySeen(t), NEW a, NEW p, NEW noId, a \in Positions, Standing(a)
             PROVE  IF Edge("left_siblings", Here(a)) # 0 /\ matchPredicate(p, Here(a) - 1, noId)
                    THEN Goes(Climb("+", p, a, noId), Here(a) - 1)
                    ELSE Stops(Climb("+", p, a, noId))
  OBVIOUS
<1> DEFINE c == Climb("+", p, a, noId)
           x == Here(a)
           b == Edge("left_siblings", x) # 0 /\ matchPredicate(p, x - 1, noId)
<1>1. c = Position(b, a.node, a.sib + 1)
  BY DEF Climb, Position, Here
<1>2. a.node \in Places /\ a.sib \in Nat /\ x \in Places /\ (a.node = 0) = (x = 0)
  BY DEF Standing
<1>3. a.node # 0 => Edge("parent", x) = Edge("parent", a.node)
  BY DEF Standing
<1>4. tree_size \in Nat /\ LeftSeen(t, x)
  BY <1>2 DEF FamilySeen
<1>5. x = a.node - a.sib
  BY DEF Here
<1> HIDE DEF c, x
<1>6. CASE b
  <2>1. x # 0 /\ x - 1 # 0 /\ Edge("parent", x - 1) = Edge("parent", x)
    BY <1>4, <1>6 DEF LeftSeen
  <2>2. a.node \in Int /\ x \in 0 .. tree_size - 1
    BY <1>2 DEF Places
  <2>3. a.sib + 1 \in Nat /\ a.node - (a.sib + 1) = x - 1 /\ x - 1 \in 0 .. tree_size - 1
    BY <1>2, <1>4, <1>5, <2>1, <2>2
  <2>4. c = Position(TRUE, a.node, a.sib + 1)
    BY <1>1, <1>6
  <2>5. c.ok = TRUE /\ c.node = a.node /\ c.sib = a.sib + 1
    BY <2>4 DEF Position
  <2>6. c \in [ok : BOOLEAN, node : Places \cup {Edge("parent", 0)}, sib : Nat]
    BY <1>2, <2>3, <2>4 DEF Position
  <2>7. Here(c) = x - 1
    BY <2>3, <2>5 DEF Here
  <2>8. Standing(c)
    BY <1>2, <1>3, <2>1, <2>3, <2>5, <2>7 DEF Standing, Places
  <2>9. Goes(c, x - 1)
    BY <2>5, <2>6, <2>7, <2>8 DEF Goes, Positions
  <2>10. QED
    BY <1>6, <2>9 DEF c, x
<1>7. CASE ~b
  <2>1. c = Position(FALSE, a.node, a.sib + 1)
    BY <1>1, <1>7
  <2>2. a.node \in Places \cup {Edge("parent", 0)} /\ a.sib + 1 \in Nat
    BY <1>2
  <2>3. Stops(c)
    BY <1>4, <2>1, <2>2, PositionIs DEF Stops
  <2>4. QED
    BY <1>7, <2>3 DEF c, x
<1>8. QED
  BY <1>6, <1>7

-----------------------------------------------------------------------------
(* The walk from the last predicate to the first.                          *)

\* A value for each of n places, from the last to the first or from the first to
\* the last, by the steps H.
StepsIn(H, D, n) == \A q \in 1 .. n - 1 : \A a \in D : H[q][a] \in D
Falls(g, D, b, H, n) == g \in [1 .. n -> D] /\ g[n] = b /\ \A q \in 1 .. n - 1 : g[q] = H[q][g[q + 1]]
Climbs(g, D, b, H, n) == g \in [1 .. n -> D] /\ g[1] = b /\ \A q \in 1 .. n - 1 : g[q + 1] = H[q][g[q]]
\* There is one.
LEMMA FallsExist ==
  \A D, b, H : \A n \in Nat : 1 <= n /\ b \in D /\ StepsIn(H, D, n) => \E g : Falls(g, D, b, H, n)
<1> SUFFICES ASSUME NEW D, NEW b \in D, NEW H, NEW n \in Nat, 1 <= n, StepsIn(H, D, n)
             PROVE  \E g : Falls(g, D, b, H, n)
  OBVIOUS
<1> DEFINE G == [k \in Nat |-> [a \in D |-> IF k < n - 1 THEN H[n - 1 - k][a] ELSE a]]
<1>1. IsStep(G, D)
  <2>1. ASSUME NEW k \in Nat, NEW a \in D PROVE (IF k < n - 1 THEN H[n - 1 - k][a] ELSE a) \in D
    <3>1. CASE k < n - 1
      <4>1. n - 1 - k \in 1 .. n - 1
        BY <3>1
      <4>2. H[n - 1 - k][a] \in D
        BY <4>1 DEF StepsIn
      <4>3. QED
        BY <3>1, <4>2
    <3>2. CASE ~(k < n - 1)
      BY <3>2
    <3>3. QED
      BY <3>1, <3>2
  <2>2. QED
    BY <2>1 DEF IsStep
<1>2. \A k \in Nat : \A a \in D : k < n - 1 => G[k][a] = H[n - 1 - k][a]
  OBVIOUS
<1> HIDE DEF G
<1>3. PICK f : Iterates(f, D, b, G)
  BY <1>1, Recursion
<1>4. f \in [Nat -> D] /\ f[0] = b /\ \A k \in Nat : f[k + 1] = G[k][f[k]]
  BY <1>3 DEF Iterates
<1> DEFINE g == [q \in 1 .. n |-> f[n - q]]
<1>5. g \in [1 .. n -> D] /\ g[n] = b
  BY <1>4
<1>6. ASSUME NEW q \in 1 .. n - 1 PROVE g[q] = H[q][g[q + 1]]
  <2>1. n - (q + 1) \in Nat /\ n - (q + 1) < n - 1 /\ (n - (q + 1)) + 1 = n - q /\ n - 1 - (n - (q + 1)) = q
    OBVIOUS
  <2>2. f[n - q] = G[n - (q + 1)][f[n - (q + 1)]] /\ f[n - (q + 1)] \in D
    BY <1>4, <2>1
  <2>3. f[n - q] = H[q][f[n - (q + 1)]]
    BY <1>2, <2>1, <2>2
  <2>4. QED
    BY <2>3
<1> HIDE DEF g
<1>7. QED
  BY <1>5, <1>6 DEF Falls

\* The same upwards.
LEMMA ClimbsExist ==
  \A D, b, H : \A n \in Nat : 1 <= n /\ b \in D /\ StepsIn(H, D, n) => \E g : Climbs(g, D, b, H, n)
<1> SUFFICES ASSUME NEW D, NEW b \in D, NEW H, NEW n \in Nat, 1 <= n, StepsIn(H, D, n)
             PROVE  \E g : Climbs(g, D, b, H, n)
  OBVIOUS
<1> DEFINE G == [k \in Nat |-> [a \in D |-> IF k < n - 1 THEN H[k + 1][a] ELSE a]]
<1>1. IsStep(G, D)
  <2>1. ASSUME NEW k \in Nat, NEW a \in D PROVE (IF k < n - 1 THEN H[k + 1][a] ELSE a) \in D
    <3>1. CASE k < n - 1
      <4>1. k + 1 \in 1 .. n - 1
        BY <3>1
      <4>2. H[k + 1][a] \in D
        BY <4>1 DEF StepsIn
      <4>3. QED
        BY <3>1, <4>2
    <3>2. CASE ~(k < n - 1)
      BY <3>2
    <3>3. QED
      BY <3>1, <3>2
  <2>2. QED
    BY <2>1 DEF IsStep
<1>2. \A k \in Nat : \A a \in D : k < n - 1 => G[k][a] = H[k + 1][a]
  OBVIOUS
<1> HIDE DEF G
<1>3. PICK f : Iterates(f, D, b, G)
  BY <1>1, Recursion
<1>4. f \in [Nat -> D] /\ f[0] = b /\ \A k \in Nat : f[k + 1] = G[k][f[k]]
  BY <1>3 DEF Iterates
<1> DEFINE g == [q \in 1 .. n |-> f[q - 1]]
<1>5. g \in [1 .. n -> D] /\ g[1] = b
  BY <1>4
<1>6. ASSUME NEW q \in 1 .. n - 1 PROVE g[q + 1] = H[q][g[q]]
  <2>1. q - 1 \in Nat /\ q - 1 < n - 1 /\ (q - 1) + 1 = q /\ (q + 1) - 1 = q
    OBVIOUS
  <2>2. f[q] = G[q - 1][f[q - 1]] /\ f[q - 1] \in D
    BY <1>4, <2>1
  <2>3. f[q] = H[q][f[q - 1]]
    BY <1>2, <2>1, <2>2
  <2>4. QED
    BY <2>1, <2>3
<1> HIDE DEF g
<1>7. QED
  BY <1>5, <1>6 DEF Climbs

\* Where a match of sel at index i starts, and one step of it.
StartAt(sel, i, noId) ==
  Position(matchPredicate(sel.preds[Len(sel.preds)], i, noId) /\ (Len(sel.preds) > 1 => i # 0), i, 0)
StepAt(sel, noId, q, a) == IF a.ok THEN Climb(sel.ops[q], sel.preds[q], a, noId) ELSE a
AreFroms(sel, i, noId, g) ==
  g = [q \in 1 .. Len(sel.preds) |-> IF q = Len(sel.preds) THEN StartAt(sel, i, noId)
                                     ELSE StepAt(sel, noId, q, g[q + 1])]
Walkable(sel) ==
  /\ Len(sel.preds) \in Nat /\ 1 <= Len(sel.preds)
  /\ \A q \in 1 .. Len(sel.preds) - 1 : sel.ops[q] \in Combinators
\* The positions of a match.
Walked(sel, i, noId, g) ==
  /\ \A q \in 1 .. Len(sel.preds) : g[q] \in Positions
  /\ g[Len(sel.preds)] = StartAt(sel, i, noId)
  /\ \A q \in 1 .. Len(sel.preds) - 1 : g[q] = StepAt(sel, noId, q, g[q + 1])

\* Each step keeps to the positions.
LEMMA StepStays ==
  \A t : FamilySeen(t) => \A op \in Combinators : \A p, noId : \A a \in Positions :
    a.ok => Climb(op, p, a, noId) \in Positions
<1> SUFFICES ASSUME NEW t, FamilySeen(t), NEW op \in Combinators, NEW p, NEW noId, NEW a \in Positions, a.ok
             PROVE  Climb(op, p, a, noId) \in Positions
  OBVIOUS
<1>1. Standing(a) /\ ParentsFall
  BY DEF Positions, FamilySeen, ParentsFall
<1>2. CASE op = " "
  <2>1. Stops(Climb(" ", p, a, noId)) \/ \E y : Goes(Climb(" ", p, a, noId), y)
    BY <1>1, ClimbDescendant
  <2>2. QED
    BY <1>2, <2>1 DEF Stops, Goes
<1>3. CASE op = ">"
  <2>1. Stops(Climb(">", p, a, noId)) \/ \E y : Goes(Climb(">", p, a, noId), y)
    BY <1>1, ClimbChild
  <2>2. QED
    BY <1>3, <2>1 DEF Stops, Goes
<1>4. CASE op = "+"
  <2>1. Stops(Climb("+", p, a, noId)) \/ \E y : Goes(Climb("+", p, a, noId), y)
    BY <1>1, ClimbSibling
  <2>2. QED
    BY <1>4, <2>1 DEF Stops, Goes
<1>5. QED
  BY <1>2, <1>3, <1>4 DEF Combinators

\* A match is such a walk.
LEMMA MatchWalks ==
  \A t : FamilySeen(t) => \A sel, noId : \A i \in Places : Walkable(sel) =>
    \E g : Walked(sel, i, noId, g) /\ matchSelector(sel, i, noId) = g[1].ok
<1> SUFFICES ASSUME NEW t, FamilySeen(t), NEW sel, NEW noId, NEW i \in Places, Walkable(sel)
             PROVE  \E g : Walked(sel, i, noId, g) /\ matchSelector(sel, i, noId) = g[1].ok
  OBVIOUS
<1> DEFINE n == Len(sel.preds)
           b == StartAt(sel, i, noId)
           H == [q \in 1 .. n - 1 |-> [a \in Positions |-> StepAt(sel, noId, q, a)]]
<1>1. n \in Nat /\ 1 <= n /\ \A q \in 1 .. n - 1 : sel.ops[q] \in Combinators
  BY DEF Walkable
<1>2. b \in Positions
  <2>1. tree_size \in Nat
    BY DEF FamilySeen
  <2>2. QED
    BY <2>1, PositionIs DEF StartAt
<1>3. \A q \in 1 .. n - 1 : \A a \in Positions : StepAt(sel, noId, q, a) \in Positions
  <2> SUFFICES ASSUME NEW q \in 1 .. n - 1, NEW a \in Positions PROVE StepAt(sel, noId, q, a) \in Positions
    OBVIOUS
  <2>1. sel.ops[q] \in Combinators
    BY <1>1
  <2>2. a.ok => Climb(sel.ops[q], sel.preds[q], a, noId) \in Positions
    BY <2>1, StepStays
  <2>3. QED
    BY <2>2 DEF StepAt
<1> HIDE DEF n, b
<1>4. StepsIn(H, Positions, n) /\ \A q \in 1 .. n - 1 : \A a \in Positions : H[q][a] = StepAt(sel, noId, q, a)
  BY <1>3 DEF StepsIn
<1> HIDE DEF H
<1>5. PICK f : Falls(f, Positions, b, H, n)
  BY <1>1, <1>2, <1>4, FallsExist
<1>6. f \in [1 .. n -> Positions] /\ f[n] = b /\ \A q \in 1 .. n - 1 : f[q] = H[q][f[q + 1]]
  BY <1>5 DEF Falls
<1>7. ASSUME NEW q \in 1 .. n - 1 PROVE f[q] = StepAt(sel, noId, q, f[q + 1])
  <2>1. q + 1 \in 1 .. n
    BY <1>1
  <2>2. QED
    BY <1>4, <1>6, <2>1
<1>8. \A q \in 1 .. n : f[q] = IF q = n THEN b ELSE StepAt(sel, noId, q, f[q + 1])
  <2> SUFFICES ASSUME NEW q \in 1 .. n PROVE f[q] = IF q = n THEN b ELSE StepAt(sel, noId, q, f[q + 1])
    OBVIOUS
  <2>1. q # n => q \in 1 .. n - 1
    BY <1>1
  <2>2. QED
    BY <1>6, <1>7, <2>1
<1>9. f = [q \in 1 .. n |-> f[q]]
  BY <1>6
<1>10. AreFroms(sel, i, noId, f)
  BY <1>8, <1>9 DEF AreFroms, n, b
<1> DEFINE g == CHOOSE g : AreFroms(sel, i, noId, g)
<1>11. AreFroms(sel, i, noId, g)
  BY <1>10
<1>12. matchSelector(sel, i, noId) = g[1].ok
  BY Zenon DEF matchSelector, AreFroms, StartAt, StepAt, Position
<1> HIDE DEF g
<1>13. g = [q \in 1 .. n |-> IF q = n THEN b ELSE StepAt(sel, noId, q, g[q + 1])]
  BY <1>11 DEF AreFroms, n, b
<1>14. \A q \in 1 .. n - 1 : g[q] = StepAt(sel, noId, q, g[q + 1])
  BY <1>1, <1>13
<1>15. g[n] = b
  BY <1>1, <1>13
<1> DEFINE S == {k \in Nat : k < n => g[n - k] \in Positions}
           K == [k \in Nat |-> k]
<1>16. K[0] \in S
  BY <1>1, <1>2, <1>15
<1>17. ASSUME NEW k \in Nat, K[k] \in S PROVE K[k + 1] \in S
  <2>1. CASE k + 1 < n
    <3>1. n - (k + 1) \in 1 .. n - 1 /\ (n - (k + 1)) + 1 = n - k /\ k < n
      BY <1>1, <2>1
    <3>2. g[n - k] \in Positions
      BY <1>17, <3>1
    <3>3. g[n - (k + 1)] = StepAt(sel, noId, n - (k + 1), g[n - k])
      BY <1>14, <3>1
    <3>4. g[n - (k + 1)] \in Positions
      BY <1>3, <3>1, <3>2, <3>3
    <3>5. QED
      BY <3>4
  <2>2. CASE ~(k + 1 < n)
    BY <2>2
  <2>3. QED
    BY <2>1, <2>2
<1> HIDE DEF S
<1>18. \A k \in Nat : K[k] \in S
  BY <1>16, <1>17, Everywhere
<1>19. \A q \in 1 .. n : g[q] \in Positions
  <2> SUFFICES ASSUME NEW q \in 1 .. n PROVE g[q] \in Positions
    OBVIOUS
  <2>1. n - q \in Nat /\ n - q < n /\ n - (n - q) = q
    BY <1>1
  <2>2. n - q \in S
    BY <1>18, <2>1
  <2>3. QED
    BY <2>1, <2>2 DEF S
<1>20. QED
  BY <1>12, <1>14, <1>15, <1>19 DEF Walked, n, b

\* The nodes that fit the predicates up to one, and those of Selected.
Fitting(t, sel, q) == {w \in 1 .. treeSize(t) : Fits(t, sel.preds[q], w)}
Reaching(t, related, sel, q, S) == {w \in Fitting(t, sel, q) : related[sel.ops[q - 1]][w] \cap S # {}}
AreUpTos(t, related, sel, g) ==
  g = [q \in 1 .. Len(sel.preds) |-> IF q = 1 THEN Fitting(t, sel, 1)
                                     ELSE Reaching(t, related, sel, q, g[q - 1])]
Chosen(t, related, sel, g) ==
  /\ g[1] = Fitting(t, sel, 1)
  /\ \A q \in 1 .. Len(sel.preds) - 1 : g[q + 1] = Reaching(t, related, sel, q + 1, g[q])
\* Selected is the last of them.
LEMMA SelectedIs ==
  \A t, related, sel : Len(sel.preds) \in Nat /\ 1 <= Len(sel.preds) =>
    \E g : Chosen(t, related, sel, g) /\ Selected(t, related, sel) = g[Len(sel.preds)]
<1> SUFFICES ASSUME NEW t, NEW related, NEW sel, Len(sel.preds) \in Nat, 1 <= Len(sel.preds)
             PROVE  \E g : Chosen(t, related, sel, g) /\ Selected(t, related, sel) = g[Len(sel.preds)]
  OBVIOUS
<1> DEFINE n == Len(sel.preds)
           b == Fitting(t, sel, 1)
           D == SUBSET (1 .. treeSize(t))
           H == [q \in 1 .. n - 1 |-> [S \in D |-> Reaching(t, related, sel, q + 1, S)]]
<1>1. n \in Nat /\ 1 <= n
  OBVIOUS
<1>2. \A q : Fitting(t, sel, q) \in D
  BY DEF Fitting
<1>3. \A q, S : Reaching(t, related, sel, q, S) \in D
  BY <1>2 DEF Reaching
<1>4. b \in D
  BY <1>2
<1> HIDE DEF n, b, D
<1>5. StepsIn(H, D, n) /\ \A q \in 1 .. n - 1 : \A S \in D : H[q][S] = Reaching(t, related, sel, q + 1, S)
  BY <1>3 DEF StepsIn
<1> HIDE DEF H
<1>6. PICK f : Climbs(f, D, b, H, n)
  BY <1>1, <1>4, <1>5, ClimbsExist
<1>7. f \in [1 .. n -> D] /\ f[1] = b /\ \A q \in 1 .. n - 1 : f[q + 1] = H[q][f[q]]
  BY <1>6 DEF Climbs
<1>8. \A q \in 1 .. n : f[q] = IF q = 1 THEN b ELSE Reaching(t, related, sel, q, f[q - 1])
  <2> SUFFICES ASSUME NEW q \in 1 .. n PROVE f[q] = IF q = 1 THEN b ELSE Reaching(t, related, sel, q, f[q - 1])
    OBVIOUS
  <2>1. CASE q = 1
    BY <1>7, <2>1
  <2>2. CASE q # 1
    <3>1. q - 1 \in 1 .. n - 1 /\ q - 1 \in 1 .. n /\ (q - 1) + 1 = q
      BY <1>1, <2>2
    <3>2. f[(q - 1) + 1] = H[q - 1][f[q - 1]] /\ f[q - 1] \in D
      BY <1>7, <3>1
    <3>3. f[(q - 1) + 1] = Reaching(t, related, sel, (q - 1) + 1, f[q - 1])
      BY <1>5, <3>1, <3>2
    <3>4. QED
      BY <2>2, <3>1, <3>3
  <2>3. QED
    BY <2>1, <2>2
<1>9. f = [q \in 1 .. n |-> f[q]]
  BY <1>7
<1>10. AreUpTos(t, related, sel, f)
  BY <1>8, <1>9 DEF AreUpTos, n, b
<1> DEFINE g == CHOOSE g : AreUpTos(t, related, sel, g)
<1>11. AreUpTos(t, related, sel, g)
  BY <1>10
<1>12. Selected(t, related, sel) = g[n]
  BY Zenon DEF Selected, AreUpTos, Fitting, Reaching, n
<1> HIDE DEF g
<1>13. g = [q \in 1 .. n |-> IF q = 1 THEN b ELSE Reaching(t, related, sel, q, g[q - 1])]
  BY <1>11 DEF AreUpTos, n, b
<1>14. g[1] = b
  BY <1>1, <1>13
<1>15. ASSUME NEW q \in 1 .. n - 1 PROVE g[q + 1] = Reaching(t, related, sel, q + 1, g[q])
  <2>1. q + 1 \in 1 .. n /\ q + 1 # 1 /\ (q + 1) - 1 = q
    BY <1>1
  <2>2. QED
    BY <1>13, <2>1
<1>16. QED
  BY <1>12, <1>14, <1>15 DEF Chosen, n, b

\* A predicate of an engine matches all nodes one of the sheet fits, and no others.
Finds(t, p, P, noId) == \A x \in Places : Fits(t, P, NodeAt(t, x)) => matchPredicate(p, x, noId)
Tells(t, p, P, noId) == \A x \in Places : matchPredicate(p, x, noId) => Fits(t, P, NodeAt(t, x))
\* What the combinators lead to.
LEMMA RelatedTo ==
  \A t : \A v \in 1 .. treeSize(t) :
    /\ RelatedIn(t)[" "][v] = AncestorsOf(t, v)
    /\ RelatedIn(t)[">"][v] = ParentsOf(t, v)
    /\ RelatedIn(t)["+"][v] = LeftOf(t, v)
BY DEF RelatedIn

\* Nothing is above the first node.
LEMMA RootAlone ==
  \A t : FamilySeen(t) => \A op \in Combinators : RelatedIn(t)[op][NodeAt(t, 0)] = {}
<1> SUFFICES ASSUME NEW t, FamilySeen(t), NEW op \in Combinators PROVE RelatedIn(t)[op][NodeAt(t, 0)] = {}
  OBVIOUS
<1> DEFINE v == NodeAt(t, 0)
<1>1. 0 \in Places /\ ParentsFall /\ v \in 1 .. treeSize(t) /\ ParentsOf(t, v) = {}
  BY DEF FamilySeen, ParentsFall, Places
<1>2. Ancestors(0) = {}
  BY <1>1, AncestorsAre
<1>3. AncestorsOf(t, v) = {NodeAt(t, a) : a \in Ancestors(0)}
  BY <1>1, AncestorsSeen
<1>4. AncestorsOf(t, v) = {}
  BY <1>2, <1>3
<1>5. LeftOf(t, v) = {}
  BY <1>1 DEF LeftOf
<1> HIDE DEF v
<1>6. /\ RelatedIn(t)[" "][v] = {}
      /\ RelatedIn(t)[">"][v] = {}
      /\ RelatedIn(t)["+"][v] = {}
  BY <1>1, <1>4, <1>5, RelatedTo
<1>7. QED
  BY <1>6 DEF Combinators, v

\* Where a step goes fits, and is related to where it was.
Leads(t, c, R, P) == Here(c) \in Places /\ Fits(t, P, NodeAt(t, Here(c))) /\ NodeAt(t, Here(c)) \in R
LEMMA StepIsSound ==
  \A t : FamilySeen(t) => \A op \in Combinators : \A p, P, noId : Tells(t, p, P, noId) =>
    \A a \in Positions : a.ok /\ Climb(op, p, a, noId).ok =>
      Leads(t, Climb(op, p, a, noId), RelatedIn(t)[op][NodeAt(t, Here(a))], P)
<1> SUFFICES ASSUME NEW t, FamilySeen(t), NEW op \in Combinators, NEW p, NEW P, NEW noId,
                    Tells(t, p, P, noId), NEW a \in Positions, a.ok, Climb(op, p, a, noId).ok
             PROVE  Leads(t, Climb(op, p, a, noId), RelatedIn(t)[op][NodeAt(t, Here(a))], P)
  OBVIOUS
<1> DEFINE x == Here(a)
           v == NodeAt(t, x)
           c == Climb(op, p, a, noId)
<1>1. Standing(a) /\ ParentsFall /\ tree_size \in Nat /\ treeSize(t) = tree_size
  BY DEF Positions, FamilySeen, ParentsFall
<1>2. x \in Places
  BY <1>1, StandingIs
<1>3. v \in 1 .. treeSize(t)
  BY <1>2 DEF FamilySeen
<1>4. \A y \in Places : matchPredicate(p, y, noId) => Fits(t, P, NodeAt(t, y))
  BY DEF Tells
<1>5. /\ RelatedIn(t)[" "][v] = AncestorsOf(t, v)
      /\ RelatedIn(t)[">"][v] = ParentsOf(t, v)
      /\ RelatedIn(t)["+"][v] = LeftOf(t, v)
  BY <1>3, RelatedTo
<1>6. ASSUME NEW y \in Places, Goes(c, y), matchPredicate(p, y, noId), NodeAt(t, y) \in RelatedIn(t)[op][v]
      PROVE  Leads(t, c, RelatedIn(t)[op][v], P)
  <2>1. Here(c) = y
    BY <1>6 DEF Goes
  <2> HIDE DEF c, v
  <2>2. QED
    BY <1>4, <1>6, <2>1 DEF Leads
<1>7. c.ok
  OBVIOUS
<1>8. CASE op = " "
  <2>1. PICK y \in Ancestors(x) : matchPredicate(p, y, noId) /\ Goes(Climb(" ", p, a, noId), y)
    <3>1. ~Stops(Climb(" ", p, a, noId))
      BY <1>7, <1>8 DEF Stops
    <3>2. QED
      BY <1>1, <3>1, ClimbDescendant
  <2>2. y \in Places
    BY <1>1, <1>2, AncestorsFall
  <2>3. NodeAt(t, y) \in AncestorsOf(t, v)
    BY <1>2, AncestorsSeen
  <2>4. QED
    BY <1>5, <1>6, <1>8, <2>1, <2>2, <2>3
<1>9. CASE op = ">"
  <2> DEFINE y == Edge("parent", x)
  <2>1. ~Stops(Climb(">", p, a, noId))
    BY <1>7, <1>9 DEF Stops
  <2>2. x # 0 /\ matchPredicate(p, y, noId) /\ Goes(Climb(">", p, a, noId), y)
    BY <1>1, <2>1, ClimbChild
  <2>3. y \in Places /\ ParentsOf(t, v) = {NodeAt(t, y)}
    BY <1>2, <2>2 DEF FamilySeen
  <2>4. QED
    BY <1>5, <1>6, <1>9, <2>2, <2>3
<1>10. CASE op = "+"
  <2> DEFINE y == x - 1
  <2>1. ~Stops(Climb("+", p, a, noId))
    BY <1>7, <1>10 DEF Stops
  <2>2. Edge("left_siblings", x) # 0 /\ matchPredicate(p, y, noId) /\ Goes(Climb("+", p, a, noId), y)
    BY <1>1, <2>1, ClimbSibling
  <2>3. LeftSeen(t, x)
    BY <1>2 DEF FamilySeen
  <2>4. x # 0 /\ LeftOf(t, v) = {NodeAt(t, y)}
    BY <2>2, <2>3 DEF LeftSeen
  <2>5. y \in Places
    <3> HIDE DEF x
    <3>1. QED
      BY <1>1, <1>2, <2>4 DEF Places
  <2>6. QED
    BY <1>5, <1>6, <1>10, <2>2, <2>4, <2>5
<1>11. QED
  BY <1>8, <1>9, <1>10 DEF Combinators

\* A related node that fits is where a step goes or, for ' ', above it.
Arrives(t, c, op, w) ==
  /\ c.ok /\ Here(c) \in Places
  /\ NodeAt(t, Here(c)) = w \/ (op = " " /\ w \in AncestorsOf(t, NodeAt(t, Here(c))))
LEMMA StepIsComplete ==
  \A t : FamilySeen(t) => \A op \in Combinators : \A p, P, noId : Finds(t, p, P, noId) =>
    \A a \in Positions : a.ok => \A w \in RelatedIn(t)[op][NodeAt(t, Here(a))] :
      w \in 1 .. treeSize(t) /\ Fits(t, P, w) => Arrives(t, Climb(op, p, a, noId), op, w)
<1> SUFFICES ASSUME NEW t, FamilySeen(t), NEW op \in Combinators, NEW p, NEW P, NEW noId,
                    Finds(t, p, P, noId), NEW a \in Positions, a.ok,
                    NEW w \in RelatedIn(t)[op][NodeAt(t, Here(a))], w \in 1 .. treeSize(t), Fits(t, P, w)
             PROVE  Arrives(t, Climb(op, p, a, noId), op, w)
  OBVIOUS
<1> DEFINE x == Here(a)
           v == NodeAt(t, x)
           c == Climb(op, p, a, noId)
<1>1. Standing(a) /\ ParentsFall /\ tree_size \in Nat /\ treeSize(t) = tree_size
  BY DEF Positions, FamilySeen, ParentsFall
<1>2. x \in Places
  BY <1>1, StandingIs
<1>3. v \in 1 .. treeSize(t)
  BY <1>2 DEF FamilySeen
<1>4. \A y \in Places : Fits(t, P, NodeAt(t, y)) => matchPredicate(p, y, noId)
  BY DEF Finds
<1>5. /\ RelatedIn(t)[" "][v] = AncestorsOf(t, v)
      /\ RelatedIn(t)[">"][v] = ParentsOf(t, v)
      /\ RelatedIn(t)["+"][v] = LeftOf(t, v)
  BY <1>3, RelatedTo
<1>6. ASSUME NEW y \in Places, Goes(c, y), NodeAt(t, y) = w \/ (op = " " /\ w \in AncestorsOf(t, NodeAt(t, y)))
      PROVE  Arrives(t, c, op, w)
  <2>1. c.ok /\ Here(c) = y
    BY <1>6 DEF Goes
  <2> HIDE DEF c
  <2>2. QED
    BY <1>6, <2>1 DEF Arrives
<1>7. CASE op = " "
  <2>1. w \in AncestorsOf(t, v)
    BY <1>5, <1>7
  <2>2. PICK z \in Ancestors(x) : w = NodeAt(t, z)
    BY <1>2, <2>1, AncestorsSeen
  <2>3. \A y \in Ancestors(x) : y \in Places
    BY <1>1, <1>2, AncestorsFall
  <2>4. matchPredicate(p, z, noId)
    BY <1>4, <2>2, <2>3
  <2>5. PICK y \in Ancestors(x) : /\ Goes(Climb(" ", p, a, noId), y)
                                  /\ \A q \in Ancestors(x) : matchPredicate(p, q, noId) => q <= y
    BY <1>1, <2>4, ClimbDescendant
  <2>6. y \in Places /\ z \in Places /\ z <= y
    BY <2>3, <2>4, <2>5
  <2>7. z = y \/ z < y
    BY <1>1, <2>6 DEF Places
  <2>8. CASE z = y
    <3>1. NodeAt(t, y) = w
      BY <2>2, <2>8
    <3>2. QED
      BY <1>6, <1>7, <2>5, <2>6, <3>1
  <2>9. CASE z < y
    <3>1. z \in Ancestors(y)
      BY <1>1, <1>2, <2>9, AncestorsChain
    <3>2. w \in AncestorsOf(t, NodeAt(t, y))
      BY <2>2, <2>6, <3>1, AncestorsSeen
    <3>3. QED
      BY <1>6, <1>7, <2>5, <2>6, <3>2
  <2>10. QED
    BY <2>7, <2>8, <2>9
<1>8. CASE op = ">"
  <2> DEFINE y == Edge("parent", x)
  <2>1. w \in ParentsOf(t, v)
    BY <1>5, <1>8
  <2>2. x # 0
    BY <2>1 DEF FamilySeen
  <2>3. y \in Places /\ w = NodeAt(t, y)
    BY <1>2, <2>1, <2>2 DEF FamilySeen
  <2>4. matchPredicate(p, y, noId)
    BY <1>4, <2>3
  <2>5. Goes(Climb(">", p, a, noId), y)
    BY <1>1, <2>2, <2>4, ClimbChild
  <2>6. QED
    BY <1>6, <1>8, <2>3, <2>5
<1>9. CASE op = "+"
  <2> DEFINE y == x - 1
  <2>1. w \in LeftOf(t, v) /\ LeftSeen(t, x)
    BY <1>2, <1>5, <1>9 DEF FamilySeen
  <2>2. Edge("left_siblings", x) # 0 /\ x # 0 /\ w = NodeAt(t, y)
    BY <2>1 DEF LeftSeen
  <2>3. y \in Places
    <3> HIDE DEF x
    <3>1. QED
      BY <1>1, <1>2, <2>2 DEF Places
  <2>4. matchPredicate(p, y, noId)
    BY <1>4, <2>2, <2>3
  <2>5. Goes(Climb("+", p, a, noId), y)
    BY <1>1, <2>2, <2>4, ClimbSibling
  <2>6. QED
    BY <1>6, <1>9, <2>2, <2>3, <2>5
<1>10. QED
  BY <1>7, <1>8, <1>9 DEF Combinators

\* A compiled selector finds what the one of the sheet selects.
Alikes(t, sel, P, noId) ==
  /\ IsSelector(P) /\ Len(sel.preds) = Len(P.preds) /\ sel.ops = P.ops
  /\ \A q \in 1 .. Len(P.preds) : Finds(t, sel.preds[q], P.preds[q], noId)
\* And it tells it from everything else.
Telling(t, sel, P, noId) == \A q \in 1 .. Len(P.preds) : Tells(t, sel.preds[q], P.preds[q], noId)
\* Its predicates and combinators.
LEMMA AlikesAre ==
  \A t, sel, P, noId : Alikes(t, sel, P, noId) =>
    /\ Len(P.preds) \in Nat /\ 1 <= Len(P.preds) /\ Walkable(sel)
    /\ \A q \in 1 .. Len(P.preds) - 1 : P.ops[q] \in Combinators /\ sel.ops[q] = P.ops[q] /\ q \in DOMAIN P.ops
<1> SUFFICES ASSUME NEW t, NEW sel, NEW P, NEW noId, Alikes(t, sel, P, noId)
             PROVE  /\ Len(P.preds) \in Nat /\ 1 <= Len(P.preds) /\ Walkable(sel)
                    /\ \A q \in 1 .. Len(P.preds) - 1 :
                         P.ops[q] \in Combinators /\ sel.ops[q] = P.ops[q] /\ q \in DOMAIN P.ops
  OBVIOUS
<1> DEFINE ops == P.ops
           n == Len(P.preds)
<1>1. /\ ops \in Seq(Combinators) /\ n \in Nat /\ Len(ops) \in Nat /\ n = Len(ops) + 1
      /\ Len(sel.preds) = n /\ sel.ops = ops
  BY DEF Alikes, IsSelector
<1> HIDE DEF ops, n
<1>2. 1 <= n /\ \A q \in 1 .. n - 1 : q \in 1 .. Len(ops)
  BY <1>1
<1>3. \A q \in 1 .. n - 1 : ops[q] \in Combinators /\ q \in DOMAIN ops
  BY <1>1, <1>2
<1>4. QED
  BY <1>1, <1>2, <1>3 DEF Walkable, ops, n

\* Where a match starts.
LEMMA StartIs ==
  \A t, sel, P, noId : FamilySeen(t) /\ Alikes(t, sel, P, noId) => \A i \in Places :
    /\ StartAt(sel, i, noId) \in Positions /\ Here(StartAt(sel, i, noId)) = i
    /\ Fits(t, P.preds[Len(P.preds)], NodeAt(t, i)) /\ (Len(P.preds) > 1 => i # 0) => StartAt(sel, i, noId).ok
    /\ Telling(t, sel, P, noId) /\ StartAt(sel, i, noId).ok => Fits(t, P.preds[Len(P.preds)], NodeAt(t, i))
<1> SUFFICES ASSUME NEW t, NEW sel, NEW P, NEW noId, FamilySeen(t), Alikes(t, sel, P, noId), NEW i \in Places
             PROVE  /\ StartAt(sel, i, noId) \in Positions /\ Here(StartAt(sel, i, noId)) = i
                    /\ Fits(t, P.preds[Len(P.preds)], NodeAt(t, i)) /\ (Len(P.preds) > 1 => i # 0)
                         => StartAt(sel, i, noId).ok
                    /\ Telling(t, sel, P, noId) /\ StartAt(sel, i, noId).ok
                         => Fits(t, P.preds[Len(P.preds)], NodeAt(t, i))
  OBVIOUS
<1> DEFINE n == Len(P.preds)
           ok == matchPredicate(sel.preds[n], i, noId) /\ (n > 1 => i # 0)
<1>1. n \in 1 .. n
  <2>1. n \in Nat /\ 1 <= n
    BY AlikesAre
  <2>2. QED
    BY <2>1
<1>2. Len(sel.preds) = n /\ Finds(t, sel.preds[n], P.preds[n], noId)
  BY <1>1 DEF Alikes
<1>3. StartAt(sel, i, noId) = Position(ok, i, 0)
  BY <1>2 DEF StartAt
<1>4. Fits(t, P.preds[n], NodeAt(t, i)) /\ (n > 1 => i # 0) => ok
  BY <1>2 DEF Finds
<1>5. Telling(t, sel, P, noId) /\ ok => Fits(t, P.preds[n], NodeAt(t, i))
  <2> SUFFICES ASSUME Telling(t, sel, P, noId), ok PROVE Fits(t, P.preds[n], NodeAt(t, i))
    OBVIOUS
  <2>1. Tells(t, sel.preds[n], P.preds[n], noId)
    BY <1>1 DEF Telling
  <2>2. QED
    BY <2>1 DEF Tells
<1>6. tree_size \in Nat /\ ok \in BOOLEAN
  BY DEF FamilySeen
<1> HIDE DEF ok, n
<1>7. QED
  BY <1>3, <1>4, <1>5, <1>6, PositionIs DEF n

\* What the engines match is selected by the sheet.
LEMMA WalkIsSound ==
  \A t, sel, P, noId : FamilySeen(t) /\ Alikes(t, sel, P, noId) /\ Telling(t, sel, P, noId) => \A i \in Places :
    matchSelector(sel, i, noId) => NodeAt(t, i) \in Selected(t, RelatedIn(t), P)
<1> SUFFICES ASSUME NEW t, NEW sel, NEW P, NEW noId, FamilySeen(t), Alikes(t, sel, P, noId),
                    Telling(t, sel, P, noId), NEW i \in Places, matchSelector(sel, i, noId)
             PROVE  NodeAt(t, i) \in Selected(t, RelatedIn(t), P)
  OBVIOUS
<1> DEFINE n == Len(P.preds)
           related == RelatedIn(t)
<1>1. /\ n \in Nat /\ 1 <= n /\ Walkable(sel) /\ Len(sel.preds) = n
      /\ \A q \in 1 .. n - 1 : P.ops[q] \in Combinators /\ sel.ops[q] = P.ops[q]
      /\ \A q \in 1 .. n : Tells(t, sel.preds[q], P.preds[q], noId)
  BY AlikesAre DEF Alikes, Telling
<1>2. PICK g : Walked(sel, i, noId, g) /\ g[1].ok
  BY <1>1, MatchWalks
<1>3. PICK u : Chosen(t, related, P, u) /\ Selected(t, related, P) = u[n]
  BY <1>1, SelectedIs
<1> HIDE DEF n, related
<1> DEFINE cur(q) == NodeAt(t, Here(g[q]))
           fit(q) == Here(g[q]) \in Places /\ Fits(t, P.preds[q], cur(q))
<1>4. /\ \A q \in 1 .. n : g[q] \in Positions
      /\ g[n] = StartAt(sel, i, noId)
      /\ \A q \in 1 .. n - 1 : g[q] = StepAt(sel, noId, q, g[q + 1])
  BY <1>1, <1>2 DEF Walked
<1>5. /\ u[1] = Fitting(t, P, 1)
      /\ \A q \in 1 .. n - 1 : u[q + 1] = Reaching(t, related, P, q + 1, u[q])
  BY <1>3 DEF Chosen, n
<1>6. \A q \in 1 .. n - 1 : g[q].ok => g[q + 1].ok
  BY <1>4 DEF StepAt
<1>7. \A q \in 1 .. n : g[q].ok
  <2> DEFINE S == {k \in Nat : k < n => g[k + 1].ok}
  <2>1. 0 \in S
    BY <1>2
  <2>2. \A k \in 0 .. n - 1 : k \in S => k + 1 \in S
    <3> SUFFICES ASSUME NEW k \in 0 .. n - 1, k \in S, k + 1 < n PROVE g[(k + 1) + 1].ok
      BY <1>1
    <3>1. k + 1 \in 1 .. n - 1
      BY <1>1
    <3>2. g[k + 1].ok
      BY <1>1
    <3>3. QED
      BY <1>6, <3>1, <3>2
  <2> HIDE DEF S
  <2>3. \A k \in 0 .. n : k \in S
    BY <1>1, <2>1, <2>2, CountingUp
  <2>4. ASSUME NEW q \in 1 .. n PROVE g[q].ok
    <3>1. q - 1 \in 0 .. n /\ q - 1 < n /\ (q - 1) + 1 = q
      BY <1>1
    <3>2. q - 1 \in S
      BY <2>3, <3>1
    <3>3. QED
      BY <3>1, <3>2 DEF S
  <2>5. QED
    BY <2>4
<1>8. fit(n) /\ Here(g[n]) = i
  <2>1. n \in 1 .. n /\ g[n].ok
    BY <1>1, <1>7
  <2>2. /\ Here(StartAt(sel, i, noId)) = i
        /\ StartAt(sel, i, noId).ok => Fits(t, P.preds[n], NodeAt(t, i))
    <3> HIDE DEF cur, fit
    <3>1. QED
      BY StartIs DEF n
  <2>3. QED
    BY <1>4, <2>1, <2>2
<1>9. ASSUME NEW q \in 1 .. n - 1 PROVE fit(q) /\ cur(q) \in related[P.ops[q]][cur(q + 1)]
  <2>1. q \in 1 .. n /\ q + 1 \in 1 .. n
    BY <1>1
  <2>2. g[q + 1] \in Positions /\ g[q + 1].ok /\ g[q].ok
    BY <1>4, <1>7, <2>1
  <2>3. g[q] = Climb(P.ops[q], sel.preds[q], g[q + 1], noId) /\ P.ops[q] \in Combinators
    BY <1>1, <1>4, <2>2 DEF StepAt
  <2>4. Tells(t, sel.preds[q], P.preds[q], noId)
    BY <1>1, <2>1
  <2>5. Leads(t, g[q], RelatedIn(t)[P.ops[q]][NodeAt(t, Here(g[q + 1]))], P.preds[q])
    BY <2>2, <2>3, <2>4, StepIsSound
  <2>6. QED
    BY <2>5 DEF Leads, related
<1>10. \A q \in 1 .. n : fit(q)
  <2> SUFFICES ASSUME NEW q \in 1 .. n PROVE fit(q)
    OBVIOUS
  <2>1. q = n \/ q \in 1 .. n - 1
    BY <1>1
  <2> HIDE DEF fit
  <2>2. QED
    BY <1>8, <1>9, <2>1
<1>11. \A q \in 1 .. n : cur(q) \in Fitting(t, P, q)
  <2> SUFFICES ASSUME NEW q \in 1 .. n PROVE cur(q) \in Fitting(t, P, q)
    OBVIOUS
  <2>1. Here(g[q]) \in Places /\ Fits(t, P.preds[q], cur(q))
    BY <1>10
  <2>2. cur(q) \in 1 .. treeSize(t)
    BY <2>1 DEF FamilySeen
  <2> HIDE DEF cur
  <2>3. QED
    BY <2>1, <2>2 DEF Fitting
<1>12. \A q \in 1 .. n - 1 : cur(q) \in related[P.ops[q]][cur(q + 1)]
  BY <1>9
<1> HIDE DEF cur, fit
<1> DEFINE S == {k \in Nat : k < n => cur(k + 1) \in u[k + 1]}
<1>13. 0 \in S
  <2>1. 1 \in 1 .. n
    BY <1>1
  <2>2. cur(1) \in u[1]
    BY <1>5, <1>11, <2>1
  <2>3. QED
    BY <2>2
<1>14. \A k \in 0 .. n - 1 : k \in S => k + 1 \in S
  <2> SUFFICES ASSUME NEW k \in 0 .. n - 1, k \in S, k + 1 < n PROVE cur((k + 1) + 1) \in u[(k + 1) + 1]
    BY <1>1
  <2> DEFINE q == k + 1
  <2>1. q \in 1 .. n - 1 /\ q + 1 \in 1 .. n /\ (q + 1) - 1 = q
    BY <1>1
  <2>2. cur(q) \in u[q]
    BY <1>1
  <2> HIDE DEF q
  <2>3. cur(q) \in related[P.ops[q]][cur(q + 1)] /\ cur(q + 1) \in Fitting(t, P, q + 1)
    BY <1>11, <1>12, <2>1
  <2>4. cur(q + 1) \in Reaching(t, related, P, q + 1, u[q])
    BY <2>1, <2>2, <2>3 DEF Reaching
  <2>5. cur(q + 1) \in u[q + 1]
    BY <1>5, <2>1, <2>4
  <2>6. QED
    BY <2>5 DEF q
<1> HIDE DEF S
<1>15. \A k \in 0 .. n : k \in S
  BY <1>1, <1>13, <1>14, CountingUp
<1>16. cur(n) \in u[n]
  <2>1. n - 1 \in 0 .. n /\ n - 1 < n /\ (n - 1) + 1 = n
    BY <1>1
  <2>2. n - 1 \in S
    BY <1>15, <2>1
  <2>3. QED
    BY <2>1, <2>2 DEF S
<1>17. QED
  BY <1>3, <1>8, <1>16 DEF cur, related

\* Ancestors of an ancestor are ancestors, on the document.
LEMMA AncestorsPass ==
  \A t : FamilySeen(t) => \A x \in Places : \A w \in AncestorsOf(t, NodeAt(t, x)) :
    w \in 1 .. treeSize(t) /\ AncestorsOf(t, w) \subseteq AncestorsOf(t, NodeAt(t, x))
<1> SUFFICES ASSUME NEW t, FamilySeen(t), NEW x \in Places, NEW w \in AncestorsOf(t, NodeAt(t, x))
             PROVE  w \in 1 .. treeSize(t) /\ AncestorsOf(t, w) \subseteq AncestorsOf(t, NodeAt(t, x))
  OBVIOUS
<1>1. ParentsFall
  BY DEF FamilySeen, ParentsFall
<1>2. PICK y \in Ancestors(x) : w = NodeAt(t, y)
  BY AncestorsSeen
<1>3. y \in Places /\ Ancestors(y) \subseteq Ancestors(x)
  BY <1>1, AncestorsFall, AncestorsChain
<1>4. /\ AncestorsOf(t, w) = {NodeAt(t, a) : a \in Ancestors(y)}
      /\ AncestorsOf(t, NodeAt(t, x)) = {NodeAt(t, a) : a \in Ancestors(x)}
  BY <1>2, <1>3, AncestorsSeen
<1>5. w \in 1 .. treeSize(t)
  BY <1>2, <1>3 DEF FamilySeen
<1>6. QED
  BY <1>3, <1>4, <1>5

\* Where the walk is at predicate q, when u are the nodes Selected chooses from: at
\* one of them or, left of a ' ', below one.
OnTheWay(t, P, g, u, q) ==
  /\ g[q].ok /\ Here(g[q]) \in Places
  /\ \/ NodeAt(t, Here(g[q])) \in u[q]
     \/ /\ q < Len(P.preds) /\ P.ops[q] = " "
        /\ \E w \in u[q] : w \in AncestorsOf(t, NodeAt(t, Here(g[q])))

\* What the sheet selects the engines match, when descendants come first.
LEMMA WalkIsComplete ==
  \A t, sel, P, noId : FamilySeen(t) /\ Alikes(t, sel, P, noId) /\ DescendantsFirst(P) => \A i \in Places :
    NodeAt(t, i) \in Selected(t, RelatedIn(t), P) => matchSelector(sel, i, noId)
<1> SUFFICES ASSUME NEW t, NEW sel, NEW P, NEW noId, FamilySeen(t), Alikes(t, sel, P, noId), DescendantsFirst(P),
                    NEW i \in Places, NodeAt(t, i) \in Selected(t, RelatedIn(t), P)
             PROVE  matchSelector(sel, i, noId)
  OBVIOUS
<1> DEFINE n == Len(P.preds)
           related == RelatedIn(t)
           v == NodeAt(t, i)
<1>1. /\ n \in Nat /\ 1 <= n /\ Walkable(sel) /\ Len(sel.preds) = n
      /\ \A q \in 1 .. n - 1 : P.ops[q] \in Combinators /\ sel.ops[q] = P.ops[q] /\ q \in DOMAIN P.ops
      /\ \A q \in 1 .. n : Finds(t, sel.preds[q], P.preds[q], noId)
  BY AlikesAre DEF Alikes
<1>2. PICK g : Walked(sel, i, noId, g) /\ matchSelector(sel, i, noId) = g[1].ok
  BY <1>1, MatchWalks
<1>3. PICK u : Chosen(t, related, P, u) /\ Selected(t, related, P) = u[n]
  BY <1>1, SelectedIs
<1>4. v \in u[n]
  BY <1>3
<1> HIDE DEF n, related
<1>5. /\ \A q \in 1 .. n : g[q] \in Positions
      /\ g[n] = StartAt(sel, i, noId)
      /\ \A q \in 1 .. n - 1 : g[q] = StepAt(sel, noId, q, g[q + 1])
  BY <1>1, <1>2 DEF Walked
<1>6. /\ u[1] = Fitting(t, P, 1)
      /\ \A q \in 1 .. n - 1 : u[q + 1] = Reaching(t, related, P, q + 1, u[q])
  BY <1>3 DEF Chosen, n
<1>7. ASSUME NEW q \in 1 .. n PROVE u[q] \subseteq Fitting(t, P, q)
  <2>1. CASE q = 1
    BY <1>6, <2>1
  <2>2. CASE q # 1
    <3>1. q - 1 \in 1 .. n - 1 /\ (q - 1) + 1 = q
      BY <1>1, <2>2
    <3>2. u[(q - 1) + 1] = Reaching(t, related, P, (q - 1) + 1, u[q - 1])
      BY <1>6, <3>1
    <3>3. u[q] = Reaching(t, related, P, q, u[q - 1])
      BY <3>1, <3>2
    <3>4. QED
      BY <3>3 DEF Reaching
  <2>3. QED
    BY <2>1, <2>2
<1>8. ASSUME NEW q \in 1 .. n - 1, NEW w \in u[q + 1] PROVE \E z \in u[q] : z \in related[P.ops[q]][w]
  <2>1. w \in Reaching(t, related, P, q + 1, u[q]) /\ (q + 1) - 1 = q
    BY <1>6
  <2>2. QED
    BY <2>1 DEF Reaching
<1>9. \A q \in 1 .. n : \A w \in u[q] : w \in 1 .. treeSize(t) /\ Fits(t, P.preds[q], w)
  BY <1>7 DEF Fitting
<1> DEFINE way(q) == OnTheWay(t, P, g, u, q)
<1>10. way(n)
  <2>1. n \in 1 .. n
    BY <1>1
  <2>2. Fits(t, P.preds[n], v)
    BY <1>4, <1>9, <2>1
  <2>3. n > 1 => i # 0
    <3> SUFFICES ASSUME n > 1, i = 0 PROVE FALSE
      OBVIOUS
    <3>1. n - 1 \in 1 .. n - 1 /\ (n - 1) + 1 = n
      BY <1>1
    <3>2. \E z \in u[n - 1] : z \in related[P.ops[n - 1]][v]
      BY <1>4, <1>8, <3>1
    <3>3. P.ops[n - 1] \in Combinators
      BY <1>1, <3>1
    <3>4. related[P.ops[n - 1]][v] = {}
      BY <3>3, RootAlone DEF related
    <3>5. QED
      BY <3>2, <3>4
  <2>4. /\ Here(StartAt(sel, i, noId)) = i
        /\ Fits(t, P.preds[n], v) /\ (n > 1 => i # 0) => StartAt(sel, i, noId).ok
    BY StartIs DEF n
  <2>5. g[n].ok /\ Here(g[n]) = i
    BY <1>5, <2>2, <2>3, <2>4
  <2>6. QED
    BY <1>4, <2>5 DEF OnTheWay
<1>11. ASSUME NEW q \in 1 .. n - 1, way(q + 1) PROVE way(q)
  <2> DEFINE x == Here(g[q + 1])
             op == P.ops[q]
  <2>1. q \in 1 .. n /\ q + 1 \in 1 .. n /\ q < n /\ op \in Combinators
    BY <1>1
  <2>2. g[q + 1].ok /\ x \in Places /\ g[q + 1] \in Positions
    BY <1>5, <1>11, <2>1 DEF OnTheWay
  <2>3. NodeAt(t, x) \in 1 .. treeSize(t)
    BY <2>2 DEF FamilySeen
  <2>4. PICK z \in u[q] : z \in related[op][NodeAt(t, x)]
    <3>1. CASE NodeAt(t, x) \in u[q + 1]
      BY <1>8, <3>1
    <3>2. CASE ~(NodeAt(t, x) \in u[q + 1])
      <4>1. /\ q + 1 < n /\ P.ops[q + 1] = " "
            /\ \E w \in u[q + 1] : w \in AncestorsOf(t, NodeAt(t, x))
        BY <1>11, <3>2 DEF OnTheWay, n
      <4>2. PICK w \in u[q + 1] : w \in AncestorsOf(t, NodeAt(t, x))
        BY <4>1
      <4>3. q + 1 \in 1 .. n - 1 /\ q < q + 1
        <5>1. q + 1 < n /\ n \in Nat
          BY <1>1, <4>1
        <5>2. QED
          BY <5>1
      <4>4. op = " "
        <5>1. q \in DOMAIN P.ops /\ q + 1 \in DOMAIN P.ops
          BY <1>1, <4>3
        <5>2. QED
          BY <4>1, <4>3, <5>1 DEF DescendantsFirst
      <4>5. PICK z \in u[q] : z \in related[op][w]
        BY <1>8
      <4>6. w \in 1 .. treeSize(t) /\ AncestorsOf(t, w) \subseteq AncestorsOf(t, NodeAt(t, x))
        BY <2>2, <4>2, AncestorsPass
      <4>7. related[" "][w] = AncestorsOf(t, w) /\ related[" "][NodeAt(t, x)] = AncestorsOf(t, NodeAt(t, x))
        BY <2>3, <4>6, RelatedTo DEF related
      <4>8. QED
        BY <4>4, <4>5, <4>6, <4>7
    <3>3. QED
      BY <3>1, <3>2
  <2>5. z \in 1 .. treeSize(t) /\ Fits(t, P.preds[q], z)
    BY <1>9, <2>1
  <2>6. g[q] = Climb(op, sel.preds[q], g[q + 1], noId)
    BY <1>1, <1>5, <2>2 DEF StepAt
  <2>7. Finds(t, sel.preds[q], P.preds[q], noId)
    BY <1>1, <2>1
  <2>8. Arrives(t, g[q], op, z)
    BY <2>1, <2>2, <2>4, <2>5, <2>6, <2>7, StepIsComplete DEF related
  <2>9. /\ g[q].ok /\ Here(g[q]) \in Places
        /\ NodeAt(t, Here(g[q])) = z \/ (op = " " /\ z \in AncestorsOf(t, NodeAt(t, Here(g[q]))))
    BY <2>8 DEF Arrives
  <2>10. QED
    BY <2>1, <2>9 DEF OnTheWay, n
<1> HIDE DEF way
<1> DEFINE S == {k \in Nat : k < n => way(n - k)}
<1>12. 0 \in S
  BY <1>1, <1>10
<1>13. \A k \in 0 .. n - 1 : k \in S => k + 1 \in S
  <2> SUFFICES ASSUME NEW k \in 0 .. n - 1, k \in S, k + 1 < n PROVE way(n - (k + 1))
    BY <1>1
  <2> DEFINE q == n - (k + 1)
  <2>1. q \in 1 .. n - 1 /\ q + 1 = n - k /\ k < n
    BY <1>1
  <2>2. way(n - k)
    BY <2>1
  <2> HIDE DEF q
  <2>3. way(q)
    BY <1>11, <2>1, <2>2
  <2>4. QED
    BY <2>3 DEF q
<1> HIDE DEF S
<1>14. \A k \in 0 .. n : k \in S
  BY <1>1, <1>12, <1>13, CountingUp
<1>15. way(1)
  <2>1. n - 1 \in 0 .. n /\ n - 1 < n /\ n - (n - 1) = 1
    BY <1>1
  <2>2. n - 1 \in S
    BY <1>14, <2>1
  <2>3. way(n - (n - 1))
    BY <2>1, <2>2 DEF S
  <2>4. QED
    BY <2>1, <2>3
<1>16. QED
  BY <1>2, <1>15 DEF way, OnTheWay

-----------------------------------------------------------------------------
(* Tokens of classes and ids.                                              *)

\* No class has the token of '*', and no two have one.
TokenTable(T) == \A c, d \in DOMAIN T : T[c] # StarTok /\ (T[c] = T[d] => c = d)
\* The treemap, with and without WebCL.
LEMMA TreemapTokens == TokenTable(treemapTokens) /\ TokenTable(visualizationTokens)
BY DEF TokenTable, StarTok, treemapTokens, visualizationTokens

\* The nested boxes.
LEMMA BoxesTokens == TokenTable(boxesTokens)
BY DEF TokenTable, StarTok, boxesTokens

\* The line graph.
LEMMA LinegraphTokens == TokenTable(linegraphTokens)
BY DEF TokenTable, StarTok, linegraphTokens

\* The sunburst.
LEMMA SunburstTokens == TokenTable(sunburstTokens)
BY DEF TokenTable, StarTok, sunburstTokens

\* All engines: a node's class has the token the engine compares it with, and no other.
LEMMA TokensFit == engine \in DOMAIN kbindings => TokenTable(B.tokens) /\ F.tokens = B.tokens
<1>1. /\ kbindings.treemap = treemapBindings /\ kbindings.visualization = visualizationBindings
      /\ kbindings.boxes = boxesBindings /\ kbindings.linegraph = linegraphBindings
      /\ kbindings.sunburst = sunburstBindings
      /\ DOMAIN kbindings = {"treemap", "visualization", "boxes", "linegraph", "sunburst"}
  BY DEF kbindings
<1>2. /\ treemapBindings.tokens = treemapTokens /\ visualizationBindings.tokens = visualizationTokens
      /\ boxesBindings.tokens = boxesTokens /\ linegraphBindings.tokens = linegraphTokens
      /\ sunburstBindings.tokens = sunburstTokens
  BY DEF treemapBindings, visualizationBindings, boxesBindings, linegraphBindings, sunburstBindings
<1>3. \A e \in DOMAIN kbindings : TokenTable(kbindings[e].tokens)
  BY <1>1, <1>2, TreemapTokens, BoxesTokens, LinegraphTokens, SunburstTokens
<1>4. QED
  BY <1>3, FieldsOfFlattener DEF SameFields, B

\* Where a list has an id is its token.
LEMMA TokenIs ==
  \A s : TokenList(s) => \A i \in 1 .. Len(s) : IndexOf(s, s[i]) = i - 1
<1> SUFFICES ASSUME NEW s, TokenList(s), NEW i \in 1 .. Len(s) PROVE IndexOf(s, s[i]) = i - 1
  OBVIOUS
<1> DEFINE m == Len(s)
           S == {y \in 1 .. m : s[y] = s[i]}
<1>1. m \in Nat /\ DOMAIN s = 1 .. m
  BY OwnElements DEF TokenList
<1>2. \A y, z \in 1 .. m : s[y] = s[z] => y = z
  BY <1>1 DEF TokenList, IsInjective
<1>3. i \in 1 .. m
  OBVIOUS
<1> HIDE DEF m
<1>4. S = {i}
  BY <1>2, <1>3
<1>5. IndexOf(s, s[i]) = (IF S # {} THEN Min(S) ELSE 0) - 1
  BY DEF IndexOf, SelectInSeq, m
<1> HIDE DEF S
<1>6. S \in SUBSET Nat /\ S # {}
  BY <1>1, <1>3, <1>4
<1>7. Min(S) = i
  BY <1>4, <1>6, LeastOf
<1>8. QED
  BY <1>5, <1>6, <1>7

\* An id in the list has a token, and it leads back to the id.
HasToken(s, y) == IndexOf(s, y) \in Nat /\ IndexOf(s, y) < Len(s) /\ s[IndexOf(s, y) + 1] = y
\* Any id in it.
LEMMA TokenLeads == \A s, y : TokenList(s) /\ Occurs(y, s) => HasToken(s, y)
<1> SUFFICES ASSUME NEW s, NEW y, TokenList(s), Occurs(y, s) PROVE HasToken(s, y)
  OBVIOUS
<1>1. PICK i \in 1 .. Len(s) : s[i] = y
  BY DEF Occurs
<1>2. IndexOf(s, y) = i - 1
  BY <1>1, TokenIs
<1>3. Len(s) \in Nat
  BY OwnElements DEF TokenList
<1> DEFINE l == Len(s)
           j == IndexOf(s, y)
<1> HIDE DEF l, j
<1>4. i \in 1 .. l /\ l \in Nat /\ j = i - 1
  BY <1>1, <1>2, <1>3 DEF l, j
<1>5. j \in Nat /\ j < l /\ j + 1 = i
  BY <1>4
<1>6. QED
  BY <1>1, <1>5 DEF HasToken, l, j

\* Ids with one token are one.
LEMMA TokenTells ==
  \A s, y, z : TokenList(s) /\ Occurs(y, s) /\ Occurs(z, s) /\ IndexOf(s, y) = IndexOf(s, z) => y = z
BY TokenLeads DEF HasToken

\* A token stays when ids are added.
LEMMA TokenStays ==
  \A p, q, y : TokenList(p) /\ TokenList(q) /\ Begins(p, q) /\ Occurs(y, p) =>
    Occurs(y, q) /\ IndexOf(q, y) = IndexOf(p, y)
<1> SUFFICES ASSUME NEW p, NEW q, NEW y, TokenList(p), TokenList(q), Begins(p, q), Occurs(y, p)
             PROVE  Occurs(y, q) /\ IndexOf(q, y) = IndexOf(p, y)
  OBVIOUS
<1>1. PICK i \in 1 .. Len(p) : p[i] = y
  BY DEF Occurs
<1>2. Len(p) \in Nat /\ Len(q) \in Nat /\ Len(p) <= Len(q) /\ q[i] = y
  BY <1>1, OwnElements DEF TokenList, Begins
<1>3. i \in 1 .. Len(q)
  BY <1>2
<1>4. IndexOf(p, y) = i - 1 /\ IndexOf(q, y) = i - 1
  BY <1>1, <1>2, <1>3, TokenIs
<1>5. QED
  BY <1>2, <1>3, <1>4 DEF Occurs

\* Every node's id has a token after a load that goes through.
LEMMA LoadNames ==
  \A t, toks : IsDocument(t) /\ Reached(Laid(t)) = treeSize(t) /\ TokenList(toks) =>
    \A v \in Nodes(t) : t.id[v] # None => Occurs(Lower[t.id[v]], TokensAfter(Laid(t), toks))
<1> SUFFICES ASSUME NEW t, NEW toks, IsDocument(t), Reached(Laid(t)) = treeSize(t), TokenList(toks),
                    NEW v \in Nodes(t), t.id[v] # None
             PROVE  Occurs(Lower[t.id[v]], TokensAfter(Laid(t), toks))
  OBVIOUS
<1> DEFINE T == Laid(t)
           ids == FlattenSeq(NamesOf(T))
           y == Lower[t.id[v]]
<1>1. treeSize(T) \in Nat /\ T.order = Order(t) /\ T.id = t.id /\ Reached(T) = treeSize(t)
  BY LaidFields, ListsTyped
<1>2. TokensAfter(T, toks) = Tokenized(toks, ids)
  BY DEF TokensAfter, NamesOf, NamedAt
<1>3. PICK k \in 1 .. treeSize(t) : Order(t)[k] = v
  <2>1. Grown(t) /\ Queued(t, Order(t), Firsts(t))
    BY DocumentsGrow, OrderIsQueued
  <2>2. QED
    BY <2>1, OrderIsOnto, OrderIsWhole
<1> HIDE DEF T
<1>4. NamedAt(T, k) = <<y>>
  BY <1>1, <1>3 DEF NamedAt
<1>5. Occurs(y, NamedAt(T, k))
  <2> HIDE DEF y
  <2>1. Len(<<y>>) = 1 /\ <<y>>[1] = y
    OBVIOUS
  <2>2. QED
    BY <1>4, <2>1 DEF Occurs
<1>6. Len(ids) \in Nat /\ Occurs(y, ids)
  BY <1>1, <1>5, NamesTyped
<1> HIDE DEF ids, y
<1>7. PICK j \in 1 .. Len(ids) : ids[j] = y
  BY <1>6 DEF Occurs
<1>8. Occurs(y, Tokenized(toks, ids))
  BY <1>6, <1>7, TokensHave
<1>9. QED
  BY <1>2, <1>8 DEF T, y

-----------------------------------------------------------------------------
(* What a load leaves in a cell.                                           *)

\* A write of a load into column c of buffer b, for the node of index x.
Writes(t, toks, b, c, x, w) ==
  w.buf = b /\ w.col = c /\ w.idx = x /\ \E i \in 0 .. treeSize(t) - 1 : NodeWrite(t, toks, w, i)
CellHolds(t, toks, b, c, x) ==
  /\ \A w : Writes(t, toks, b, c, x, w) /\ (\A u : Writes(t, toks, b, c, x, u) => u.val = w.val) =>
       Cell(Flattened(Laid(t), toks)[b], treeSize(t), c, x) = w.val
  /\ (\A u : ~Writes(t, toks, b, c, x, u)) => Cell(Flattened(Laid(t), toks)[b], treeSize(t), c, x) = 0
\* A cell has the value of a write the others agree with, and is zero without one.
LEMMA LoadCells ==
  \A t, toks : IsDocument(t) /\ EdgeTable(F.edges) /\ FieldsFit(F) /\ Reached(Laid(t)) = treeSize(t) =>
    \A b \in Buffers : \A c \in 0 .. F.sizes[b] - 1 : \A x \in 0 .. treeSize(t) - 1 : CellHolds(t, toks, b, c, x)
<1> SUFFICES ASSUME NEW t, NEW toks, IsDocument(t), EdgeTable(F.edges), FieldsFit(F),
                    Reached(Laid(t)) = treeSize(t), NEW b \in Buffers, NEW c \in 0 .. F.sizes[b] - 1,
                    NEW x \in 0 .. treeSize(t) - 1
             PROVE  CellHolds(t, toks, b, c, x)
  OBVIOUS
<1> DEFINE W == AllWrites(t, toks)
           n == treeSize(t)
           s == F.sizes[b]
           R == WriteSet(Values(t, toks))
           z == s * n
           N == Image(W, b, n, z)
           o == PlaceOf(n, c, x)
           P(w) == Writes(t, toks, b, c, x, w)
<1>1. Flattened(Laid(t), toks)[b] = N
  <2>1. Flattened(Laid(t), toks) = [d \in Buffers |-> Image(W, d, n, F.sizes[d] * n)]
    BY FlattenedIs
  <2>2. QED
    BY <2>1
<1>2. W \in Seq(R) /\ \A w : Occurs(w, W) <=> \E i \in 0 .. n - 1 : NodeWrite(t, toks, w, i)
  BY AllWritesOf
<1>3. n \in Nat
  BY ListsTyped
<1>4. s \in Nat
  BY DEF FieldsFit, FieldTable, SizesFit
<1>5. \A w : Occurs(w, W) => InRange(w, n)
  BY <1>2, NodeInRange
<1>6. \A w : Occurs(w, W) /\ w.buf = b => w.idx \in 0 .. n - 1 /\ w.col \in 0 .. s - 1
  BY <1>5 DEF InRange
<1>7. \A w : P(w) <=> Occurs(w, W) /\ w.buf = b /\ w.col = c /\ w.idx = x
  BY <1>2 DEF Writes
<1>8. c \in 0 .. s - 1 /\ x \in 0 .. n - 1
  OBVIOUS
<1>9. \A d, y : Cell(N, n, d, y) = N[PlaceOf(n, d, y)]
  BY Zenon DEF Cell, PlaceOf
<1>10. \A w : Offset(w, n) = PlaceOf(n, w.col, w.idx)
  BY Zenon DEF Offset, PlaceOf
<1>11. PlaceOf(n, c, x) \in 0 .. s * n - 1
  <2> HIDE DEF n, s
  <2>1. c * n + x \in 0 .. s * n - 1
    BY <1>3, <1>4, <1>8, CellInRange
  <2>2. QED
    BY <2>1 DEF PlaceOf
<1>12. o \in 0 .. z - 1
  BY <1>11
<1> HIDE DEF W, n, s, R, z, o, P
<1>13. \A w : Occurs(w, W) /\ w.buf = b /\ Offset(w, n) = o <=> P(w)
  <2>1. ASSUME NEW w, Occurs(w, W), w.buf = b, Offset(w, n) = o PROVE P(w)
    <3>1. PlaceOf(n, w.col, w.idx) = PlaceOf(n, c, x)
      BY <1>10, <2>1 DEF o
    <3>2. w.col \in 0 .. s - 1 /\ w.idx \in 0 .. n - 1
      BY <1>6, <2>1
    <3>3. w.col \in Nat /\ c \in Nat
      BY <1>8, <3>2
    <3>4. w.col = c /\ w.idx = x
      BY <1>3, <1>8, <3>1, <3>2, <3>3, OnePlace
    <3>5. QED
      BY <1>7, <2>1, <3>4
  <2>2. ASSUME NEW w, P(w) PROVE Occurs(w, W) /\ w.buf = b /\ Offset(w, n) = o
    <3>1. Occurs(w, W) /\ w.buf = b /\ w.col = c /\ w.idx = x
      BY <1>7, <2>2
    <3>2. QED
      BY <1>10, <3>1 DEF o
  <2>3. QED
    BY <2>1, <2>2
<1>14. Cell(N, n, c, x) = N[o]
  BY <1>9 DEF o
<1>15. ASSUME NEW w, P(w), \A u : P(u) => u.val = w.val PROVE N[o] = w.val
  <2>1. Occurs(w, W) /\ w.buf = b /\ Offset(w, n) = o
    BY <1>13, <1>15
  <2>2. Agreed(W, b, n, w)
    BY <1>13, <1>15, <2>1 DEF Agreed
  <2>3. Image(W, b, n, z)[Offset(w, n)] = w.val
    BY <1>2, <2>1, <2>2, CellWritten
  <2>4. QED
    BY <2>1, <2>3 DEF N
<1>16. ASSUME \A u : ~P(u) PROVE N[o] = 0
  <2>1. Within(W, b, n, s) /\ Misses(W, b, n, o)
    BY <1>6, <1>13, <1>16 DEF Within, Misses
  <2>2. Filled(W, b, n, s)
    BY <1>2, <1>3, <1>4, <2>1, ImageFilled
  <2>3. QED
    BY <1>12, <2>1, <2>2, Zenon DEF Filled, N, z
<1> HIDE DEF N
<1>17. CellHolds(t, toks, b, c, x)
  BY <1>1, <1>14, <1>15, <1>16, Zenon DEF CellHolds, P, n
<1>18. QED
  BY <1>17

\* The class column has the tokens of the classes.
LEMMA LoadClasses ==
  \A t, toks : IsDocument(t) /\ EdgeTable(F.edges) /\ FieldsFit(F) /\ Reached(Laid(t)) = treeSize(t) =>
    \A x \in 0 .. treeSize(t) - 1 :
      /\ t.class[Order(t)[x + 1]] \in DOMAIN F.tokens
      /\ Cell(Flattened(Laid(t), toks)["grammartokens"], treeSize(t), 0, x) = F.tokens[t.class[Order(t)[x + 1]]]
<1> SUFFICES ASSUME NEW t, NEW toks, IsDocument(t), EdgeTable(F.edges), FieldsFit(F),
                    Reached(Laid(t)) = treeSize(t), NEW x \in 0 .. treeSize(t) - 1
             PROVE  /\ t.class[Order(t)[x + 1]] \in DOMAIN F.tokens
                    /\ Cell(Flattened(Laid(t), toks)["grammartokens"], treeSize(t), 0, x)
                         = F.tokens[t.class[Order(t)[x + 1]]]
  OBVIOUS
<1> DEFINE n == treeSize(t)
           E == F.edges
           v == Order(t)[x + 1]
           y == F.tokens[t.class[v]]
           w == Write("grammartokens", 0, x, y)
           P(u) == Writes(t, toks, "grammartokens", 0, x, u)
<1>1. t.class[v] \in DOMAIN F.tokens
  <2>1. ~Bad(Laid(t), v) /\ Laid(t).class = t.class
    BY ReachedAll, LaidFields
  <2>2. QED
    BY <2>1 DEF Bad
<1>2. n \in Nat /\ n = Len(Order(t)) /\ Declares(t, E)
  BY ListsTyped, DocumentsGrow, OrderIsQueued, OrderIsWhole, GoodDeclares
<1>3. "grammartokens" \in Buffers /\ 0 \in 0 .. F.sizes["grammartokens"] - 1
  <2>1. "grammartokens" \in Buffers
    BY DEF Buffers
  <2>2. F.sizes["grammartokens"] \in Nat /\ 1 <= F.sizes["grammartokens"]
    BY <2>1 DEF FieldsFit, FieldTable, SizesFit
  <2>3. QED
    BY <2>1, <2>2
<1>4. w.buf = "grammartokens" /\ w.col = 0 /\ w.idx = x /\ w.val = y
  BY DEF Write
<1>5. NodeWrite(t, toks, w, x)
  <2>1. IsTokenWrite(t, v, x, w)
    BY DEF IsTokenWrite
  <2>2. QED
    BY <2>1 DEF NodeWrite
<1> HIDE DEF w
<1>6. P(w)
  BY <1>4, <1>5 DEF Writes
<1>7. ASSUME NEW u, P(u) PROVE u.val = y
  <2>1. PICK i \in 0 .. n - 1 : NodeWrite(t, toks, u, i)
    BY <1>7 DEF Writes
  <2>2. u.buf = "grammartokens" /\ u.idx = x
    BY <1>7 DEF Writes
  <2>3. ~InLists(t, E, u, i)
    <3>1. InLists(t, E, u, i) => EdgeWrite(t, E, u)
      BY <1>2, <2>1, ListedIs DEF EdgeWrite
    <3>2. ~EdgeWrite(t, E, u)
      BY <1>2, <2>2, EdgeCells DEF EdgeCell
    <3>3. QED
      BY <3>1, <3>2
  <2>4. ~IsIdWrite(t, Order(t)[i + 1], i, toks, u)
    BY <2>2 DEF IsIdWrite, Write
  <2>5. ~InAttrs(t, u, i)
    <3>1. Order(t)[i + 1] \in Nodes(t)
      BY <1>2, <2>1, DocumentsGrow, OrderIsQueued, ChildOfNode
    <3>2. InAttrs(t, u, i) => u.buf \in Attributes
      BY <2>1, <3>1, AttrInRange DEF InAttrs
    <3>3. QED
      BY <2>2, <3>2 DEF Attributes
  <2>6. IsTokenWrite(t, Order(t)[i + 1], i, u)
    BY <2>1, <2>3, <2>4, <2>5 DEF NodeWrite
  <2>7. u.idx = i /\ u.val = F.tokens[t.class[Order(t)[i + 1]]]
    BY <2>6 DEF IsTokenWrite, Write
  <2>8. QED
    BY <2>2, <2>7
<1>8. CellHolds(t, toks, "grammartokens", 0, x)
  BY <1>3, LoadCells
<1>9. Cell(Flattened(Laid(t), toks)["grammartokens"], n, 0, x) = y
  <2> HIDE DEF y
  <2>1. Writes(t, toks, "grammartokens", 0, x, w) /\ \A u : Writes(t, toks, "grammartokens", 0, x, u) => u.val = w.val
    BY <1>4, <1>6, <1>7
  <2>2. Cell(Flattened(Laid(t), toks)["grammartokens"], treeSize(t), 0, x) = w.val
    BY <1>8, <2>1, Zenon DEF CellHolds
  <2>3. QED
    BY <1>4, <2>2
<1>10. QED
  BY <1>1, <1>9

\* A write beside the edges is that of an id.
LEMMA WritesBeside ==
  \A t, toks : IsDocument(t) /\ EdgeTable(F.edges) /\ FieldsFit(F) /\ Reached(Laid(t)) = treeSize(t) =>
    \A i \in 0 .. treeSize(t) - 1 : \A w : NodeWrite(t, toks, w, i) /\ w.buf = "nodeindex" =>
      EdgeWrite(t, F.edges, w) \/ IsIdWrite(t, Order(t)[i + 1], i, toks, w)
<1> SUFFICES ASSUME NEW t, NEW toks, IsDocument(t), EdgeTable(F.edges), FieldsFit(F),
                    Reached(Laid(t)) = treeSize(t), NEW i \in 0 .. treeSize(t) - 1, NEW w,
                    NodeWrite(t, toks, w, i), w.buf = "nodeindex"
             PROVE  EdgeWrite(t, F.edges, w) \/ IsIdWrite(t, Order(t)[i + 1], i, toks, w)
  OBVIOUS
<1>1. treeSize(t) = Len(Order(t))
  BY DocumentsGrow, OrderIsQueued, OrderIsWhole
<1>2. InLists(t, F.edges, w, i) => EdgeWrite(t, F.edges, w)
  BY <1>1, ListedIs DEF EdgeWrite
<1>3. ~IsTokenWrite(t, Order(t)[i + 1], i, w)
  BY DEF IsTokenWrite, Write
<1>4. ~InAttrs(t, w, i)
  <2>1. Order(t)[i + 1] \in Nodes(t)
    BY <1>1, DocumentsGrow, OrderIsQueued, ChildOfNode
  <2>2. InAttrs(t, w, i) => w.buf \in Attributes
    BY <2>1, AttrInRange DEF InAttrs
  <2>3. QED
    BY <2>2 DEF Attributes
<1>5. QED
  BY <1>2, <1>3, <1>4 DEF NodeWrite

\* The columns of the edges are in their buffer.
LEMMA EdgeColumns ==
  EdgeTable(F.edges) /\ FieldsFit(F) =>
    /\ "nodeindex" \in Buffers
    /\ \A a \in EdgeNames : F.edges[a] \in 0 .. F.sizes["nodeindex"] - 1
<1> SUFFICES ASSUME EdgeTable(F.edges), FieldsFit(F)
             PROVE  /\ "nodeindex" \in Buffers
                    /\ \A a \in EdgeNames : F.edges[a] \in 0 .. F.sizes["nodeindex"] - 1
  OBVIOUS
<1>1. "nodeindex" \in Buffers
  BY DEF Buffers
<1> DEFINE z == F.sizes["nodeindex"]
<1>2. z \in Nat /\ EdgesFit(F.edges, z)
  BY <1>1 DEF FieldsFit, FieldTable, SizesFit
<1> HIDE DEF z
<1>3. \A a \in EdgeNames : F.edges[a] \in Nat /\ F.edges[a] < z
  BY <1>2 DEF EdgeTable, EdgesFit
<1>4. \A a \in EdgeNames : F.edges[a] \in 0 .. z - 1
  BY <1>2, <1>3
<1>5. QED
  BY <1>1, <1>4 DEF z

\* The column of the ids has the token of a node's id, and zero for a node without.
LEMMA LoadIdCells ==
  \A t, toks : IsDocument(t) /\ EdgeTable(F.edges) /\ FieldsFit(F) /\ Reached(Laid(t)) = treeSize(t) =>
    \A x \in 0 .. treeSize(t) - 1 :
      Cell(Flattened(Laid(t), toks)["nodeindex"], treeSize(t), F.edges.id, x)
        = IF t.id[Order(t)[x + 1]] = None THEN 0 ELSE IndexOf(toks, Lower[t.id[Order(t)[x + 1]]])
<1> SUFFICES ASSUME NEW t, NEW toks, IsDocument(t), EdgeTable(F.edges), FieldsFit(F),
                    Reached(Laid(t)) = treeSize(t), NEW x \in 0 .. treeSize(t) - 1
             PROVE  Cell(Flattened(Laid(t), toks)["nodeindex"], treeSize(t), F.edges.id, x)
                      = IF t.id[Order(t)[x + 1]] = None THEN 0 ELSE IndexOf(toks, Lower[t.id[Order(t)[x + 1]]])
  OBVIOUS
<1> DEFINE n == treeSize(t)
           E == F.edges
           c == E.id
           v == Order(t)[x + 1]
           y == IndexOf(toks, Lower[t.id[v]])
           w == Write("nodeindex", c, x, y)
           P(u) == Writes(t, toks, "nodeindex", c, x, u)
           N == Flattened(Laid(t), toks)["nodeindex"]
<1>1. CellHolds(t, toks, "nodeindex", c, x)
  <2>1. "nodeindex" \in Buffers /\ c \in 0 .. F.sizes["nodeindex"] - 1
    BY EdgeColumns DEF EdgeNames
  <2>2. QED
    BY <2>1, LoadCells
<1>2. Declares(t, E)
  BY GoodDeclares
<1>3. ASSUME NEW u, P(u) PROVE t.id[v] # None /\ u.val = y
  <2>1. PICK i \in 0 .. n - 1 : NodeWrite(t, toks, u, i)
    BY <1>3 DEF Writes
  <2>2. u.buf = "nodeindex" /\ u.col = c /\ u.idx = x
    BY <1>3 DEF Writes
  <2>3. ~EdgeWrite(t, E, u)
    BY <1>2, <2>2, EdgeCells DEF EdgeCell
  <2>4. IsIdWrite(t, Order(t)[i + 1], i, toks, u)
    BY <2>1, <2>2, <2>3, WritesBeside
  <2>5. t.id[Order(t)[i + 1]] # None /\ u.idx = i /\ u.val = IndexOf(toks, Lower[t.id[Order(t)[i + 1]]])
    BY <2>4 DEF IsIdWrite, Write
  <2>6. QED
    BY <2>2, <2>5
<1>4. w.buf = "nodeindex" /\ w.col = c /\ w.idx = x /\ w.val = y
  BY DEF Write
<1>5. ASSUME t.id[v] # None PROVE P(w)
  <2>1. IsIdWrite(t, v, x, toks, w)
    BY <1>5 DEF IsIdWrite
  <2>2. NodeWrite(t, toks, w, x)
    BY <2>1 DEF NodeWrite
  <2> HIDE DEF w
  <2>3. QED
    BY <1>4, <2>2 DEF Writes
<1> HIDE DEF w, y, c, n
<1>6. CASE t.id[v] = None
  <2>1. \A u : ~Writes(t, toks, "nodeindex", c, x, u)
    BY <1>3, <1>6
  <2>2. Cell(N, n, c, x) = 0
    BY <1>1, <2>1, Zenon DEF CellHolds, n
  <2>3. QED
    BY <1>6, <2>2 DEF n, c
<1>7. CASE t.id[v] # None
  <2>1. Writes(t, toks, "nodeindex", c, x, w) /\ \A u : Writes(t, toks, "nodeindex", c, x, u) => u.val = w.val
    BY <1>3, <1>4, <1>5, <1>7
  <2>2. Cell(N, n, c, x) = w.val
    BY <1>1, <2>1, Zenon DEF CellHolds, n
  <2>3. QED
    BY <1>4, <1>7, <2>2 DEF n, c, y
<1>8. QED
  BY <1>6, <1>7

\* The root has no left neighbour.
LEMMA LoadRoot ==
  \A t, toks : IsDocument(t) /\ EdgeTable(F.edges) /\ FieldsFit(F) /\ Reached(Laid(t)) = treeSize(t) =>
    Cell(Flattened(Laid(t), toks)["nodeindex"], treeSize(t), F.edges.left_siblings, 0) = 0
<1> SUFFICES ASSUME NEW t, NEW toks, IsDocument(t), EdgeTable(F.edges), FieldsFit(F),
                    Reached(Laid(t)) = treeSize(t)
             PROVE  Cell(Flattened(Laid(t), toks)["nodeindex"], treeSize(t), F.edges.left_siblings, 0) = 0
  OBVIOUS
<1> DEFINE n == treeSize(t)
           E == F.edges
           c == E.left_siblings
           N == Flattened(Laid(t), toks)["nodeindex"]
<1>1. "left_siblings" \in EdgeNames /\ "id" \in EdgeNames
  BY DEF EdgeNames
<1>2. CellHolds(t, toks, "nodeindex", c, 0)
  <2>1. "nodeindex" \in Buffers /\ c \in 0 .. F.sizes["nodeindex"] - 1
    BY <1>1, EdgeColumns
  <2>2. n \in Nat /\ 1 <= n
    BY ListsTyped
  <2> HIDE DEF n
  <2>3. 0 \in 0 .. n - 1
    BY <2>2
  <2>4. QED
    BY <2>1, <2>3, LoadCells DEF n
<1>3. Declares(t, E) /\ Queued(t, Order(t), Firsts(t))
  BY GoodDeclares, DocumentsGrow, OrderIsQueued
<1>4. ASSUME NEW u, Writes(t, toks, "nodeindex", c, 0, u) PROVE FALSE
  <2>1. PICK i \in 0 .. n - 1 : NodeWrite(t, toks, u, i)
    BY <1>4 DEF Writes
  <2>2. u.buf = "nodeindex" /\ u.col = c /\ u.idx = 0
    BY <1>4 DEF Writes
  <2>3. ASSUME NEW h, NEW g, HeadWrite(t, E, u, h, g) PROVE FALSE
    <3>1. u.col # E["left_siblings"]
      BY <1>1, <1>3, <2>3, HeadCell
    <3>2. QED
      BY <2>2, <3>1
  <2>4. ASSUME NEW h, NEW g, NEW d, NEW x, NEW a, SlotWrite(t, E, u, h, g, d, x, a) PROVE FALSE
    <3>1. u.idx = x /\ Slot(t, Order(t), Firsts(t), h, g, d, x)
      BY <2>4, SlotCell
    <3>2. x \in 1 .. Len(Order(t)) - 1
      BY <1>3, <3>1, SlotsOf DEF SlotOf
    <3>3. QED
      BY <2>2, <3>1, <3>2
  <2>5. ~EdgeWrite(t, E, u)
    BY <2>3, <2>4 DEF EdgeWrite
  <2>6. IsIdWrite(t, Order(t)[i + 1], i, toks, u)
    BY <2>1, <2>2, <2>5, WritesBeside
  <2>7. u.col = E["id"]
    BY <2>6 DEF IsIdWrite, Write
  <2>8. E["left_siblings"] = E["id"] => "left_siblings" = "id"
    BY <1>1 DEF EdgeTable
  <2>9. QED
    BY <2>2, <2>7, <2>8
<1> HIDE DEF c, n
<1>5. Cell(N, n, c, 0) = 0
  BY <1>2, <1>4, Zenon DEF CellHolds, n
<1>6. QED
  BY <1>5 DEF n, c

-----------------------------------------------------------------------------
(* Compiled sheets.                                                        *)

\* A sequence, its places and its elements.
LEMMA SequenceIs ==
  \A R : \A s \in Seq(R) : Len(s) \in Nat /\ DOMAIN s = 1 .. Len(s) /\ \A k \in 1 .. Len(s) : s[k] \in R
OBVIOUS

\* What a place of a sequence of sequences holds occurs in their concatenation.
LEMMA FlattenHas ==
  \A R, n : \A g : n \in Nat /\ g \in [1 .. n -> Seq(R)] =>
    /\ g \in Seq(Seq(R)) /\ FlattenSeq(g) \in Seq(R)
    /\ \A x : Occurs(x, FlattenSeq(g)) <=> \E k \in 1 .. n : Occurs(x, g[k])
<1> SUFFICES ASSUME NEW R, NEW n, NEW g, n \in Nat, g \in [1 .. n -> Seq(R)]
             PROVE  /\ g \in Seq(Seq(R)) /\ FlattenSeq(g) \in Seq(R)
                    /\ \A x : Occurs(x, FlattenSeq(g)) <=> \E k \in 1 .. n : Occurs(x, g[k])
  OBVIOUS
<1> DEFINE D == Seq(R)
<1>1. g \in Seq(D) /\ Len(g) = n
  <2> HIDE DEF D
  <2>1. g \in [1 .. n -> D]
    BY DEF D
  <2>2. QED
    BY <2>1, OccursMany
<1>2. FlattenSeq(g) \in Seq(R)
  BY <1>1, FlattenAppend
<1>3. \A x : Occurs(x, FlattenSeq(g)) <=> OccursIn(x, g)
  BY <1>1, FlattenElements
<1>4. QED
  BY <1>1, <1>2, <1>3 DEF OccursIn

\* The ids of the predicates of a selector, and of a rule, are among its ids.
LEMMA IdsOfSelector ==
  \A sel : IsSelector(sel) => \A q \in 1 .. Len(sel.preds) :
    sel.preds[q].id # "" => Occurs(sel.preds[q].id, IdsOf(sel))
<1> SUFFICES ASSUME NEW sel, IsSelector(sel), NEW q \in 1 .. Len(sel.preds), sel.preds[q].id # ""
             PROVE  Occurs(sel.preds[q].id, IdsOf(sel))
  OBVIOUS
<1> DEFINE ps == sel.preds
           n == Len(ps)
           f == [k \in 1 .. n |-> IdOf(ps[k])]
           y == ps[q].id
<1>1. ps \in Seq(Predicates)
  BY DEF IsSelector
<1>2. n \in Nat /\ DOMAIN ps = 1 .. n /\ \A k \in 1 .. n : ps[k] \in Predicates
  <2> HIDE DEF ps
  <2>1. QED
    BY <1>1, SequenceIs
<1>3. IdsOf(sel) = FlattenSeq(f)
  BY <1>2 DEF IdsOf
<1>4. ASSUME NEW p \in Predicates PROVE IdOf(p) \in Seq(Ids)
  <2>1. p.id \in Ids
    BY DEF Ids
  <2>2. <<p.id>> \in Seq(Ids) /\ <<>> \in Seq(Ids)
    BY <2>1, OccursOne, OccursNone
  <2>3. QED
    BY <2>2 DEF IdOf
<1>5. q \in 1 .. n /\ y # ""
  OBVIOUS
<1>6. IdOf(ps[q]) = <<y>>
  BY <1>5 DEF IdOf
<1> HIDE DEF ps, n, y
<1>7. f \in [1 .. n -> Seq(Ids)] /\ f[q] = <<y>>
  BY <1>2, <1>4, <1>5, <1>6
<1> HIDE DEF f
<1>8. Occurs(y, <<y>>)
  <2>1. y \in {y}
    OBVIOUS
  <2>2. QED
    BY <2>1, OccursOne
<1>9. Occurs(y, FlattenSeq(f))
  BY <1>2, <1>5, <1>7, <1>8, FlattenHas
<1>10. QED
  BY <1>3, <1>9 DEF y, ps

\* A rule's.
LEMMA IdsOfRules ==
  \A rule : Len(rule) \in Nat /\ DOMAIN rule = 1 .. Len(rule) /\ (\A p \in 1 .. Len(rule) : IsSelector(rule[p])) =>
    /\ IdsOfRule(rule) \in Seq(Ids)
    /\ \A p \in 1 .. Len(rule) : \A x : Occurs(x, IdsOf(rule[p])) => Occurs(x, IdsOfRule(rule))
<1> SUFFICES ASSUME NEW rule, Len(rule) \in Nat, DOMAIN rule = 1 .. Len(rule),
                    \A p \in 1 .. Len(rule) : IsSelector(rule[p])
             PROVE  /\ IdsOfRule(rule) \in Seq(Ids)
                    /\ \A p \in 1 .. Len(rule) : \A x : Occurs(x, IdsOf(rule[p])) => Occurs(x, IdsOfRule(rule))
  OBVIOUS
<1> DEFINE m == Len(rule)
           f == [p \in 1 .. m |-> IdsOf(rule[p])]
<1>1. m \in Nat /\ \A p \in 1 .. m : IdsOf(rule[p]) \in Seq(Ids)
  BY IdsTyped
<1>2. IdsOfRule(rule) = FlattenSeq(f)
  BY DEF IdsOfRule
<1> HIDE DEF m
<1>3. f \in [1 .. m -> Seq(Ids)] /\ \A p \in 1 .. m : f[p] = IdsOf(rule[p])
  BY <1>1
<1> HIDE DEF f
<1>4. FlattenSeq(f) \in Seq(Ids) /\ \A x : Occurs(x, FlattenSeq(f)) <=> \E p \in 1 .. m : Occurs(x, f[p])
  BY <1>1, <1>3, FlattenHas
<1>5. QED
  BY <1>2, <1>3, <1>4 DEF m

\* A predicate of sheet s.
PredIn(s, r, p, q) ==
  r \in 1 .. Len(Sheets[s]) /\ p \in 1 .. Len(parse[s][r]) /\ q \in 1 .. Len(parse[s][r][p].preds)
PredAt(s, r, p, q) == parse[s][r][p].preds[q]
\* Its id is among those the sheet adds to the tokens.
LEMMA SheetIdsAre ==
  \A s \in DOMAIN Sheets : \A r, p, q : PredIn(s, r, p, q) /\ PredAt(s, r, p, q).id # "" =>
    Occurs(Lower[PredAt(s, r, p, q).id], SheetIds(s))
<1> SUFFICES ASSUME NEW s \in DOMAIN Sheets, NEW r, NEW p, NEW q, PredIn(s, r, p, q), PredAt(s, r, p, q).id # ""
             PROVE  Occurs(Lower[PredAt(s, r, p, q).id], SheetIds(s))
  OBVIOUS
<1> DEFINE rules == parse[s]
           n == Len(Sheets[s])
           g == [k \in 1 .. n |-> IdsOfRule(rules[k])]
           ids == FlattenSeq(g)
           y == PredAt(s, r, p, q).id
<1>1. /\ n \in Nat /\ DOMAIN rules = 1 .. n
      /\ \A k \in 1 .. n : /\ Len(rules[k]) \in Nat /\ DOMAIN rules[k] = 1 .. Len(rules[k])
                           /\ \A j \in 1 .. Len(rules[k]) : IsSelector(rules[k][j])
  BY SheetsParsed DEF RulesParsed
<1>2. SheetIds(s) = [k \in DOMAIN ids |-> Lower[ids[k]]]
  <2>1. SheetIds(s) = [k \in DOMAIN FlattenSeq([j \in DOMAIN rules |-> IdsOfRule(rules[j])]) |->
                         Lower[FlattenSeq([j \in DOMAIN rules |-> IdsOfRule(rules[j])])[k]]]
    BY Zenon DEF SheetIds, IdsOfRule, IdsOf, IdOf
  <2>2. QED
    BY <1>1, <2>1
<1>3. r \in 1 .. n /\ p \in 1 .. Len(rules[r]) /\ q \in 1 .. Len(rules[r][p].preds) /\ y = rules[r][p].preds[q].id
  BY DEF PredIn, PredAt
<1> HIDE DEF rules, n, y
<1>4. \A k \in 1 .. n : IdsOfRule(rules[k]) \in Seq(Ids)
  BY <1>1, IdsOfRules
<1>5. Occurs(y, IdsOfRule(rules[r]))
  <2>1. IsSelector(rules[r][p]) /\ y # ""
    BY <1>1, <1>3 DEF y
  <2>2. Occurs(y, IdsOf(rules[r][p]))
    BY <1>3, <2>1, IdsOfSelector
  <2>3. QED
    BY <1>1, <1>3, <2>2, IdsOfRules
<1>6. g \in [1 .. n -> Seq(Ids)] /\ g[r] = IdsOfRule(rules[r])
  BY <1>3, <1>4
<1> HIDE DEF g
<1>7. ids \in Seq(Ids) /\ Occurs(y, ids)
  BY <1>1, <1>3, <1>5, <1>6, FlattenHas
<1> HIDE DEF ids
<1> DEFINE l == Len(ids)
<1>8. l \in Nat /\ DOMAIN ids = 1 .. l
  BY <1>7, SequenceIs
<1>9. PICK k \in 1 .. l : ids[k] = y
  BY <1>7 DEF Occurs
<1> HIDE DEF l
<1>10. SheetIds(s) = [j \in 1 .. l |-> Lower[ids[j]]]
  BY <1>2, <1>8
<1>11. Len(SheetIds(s)) = l /\ SheetIds(s)[k] = Lower[y]
  <2> DEFINE u == SheetIds(s)
  <2> HIDE DEF u
  <2>1. l \in Nat /\ k \in 1 .. l /\ u = [j \in 1 .. l |-> Lower[ids[j]]]
    BY <1>8, <1>10 DEF u
  <2> DEFINE f(j) == Lower[ids[j]]
             V == {f(j) : j \in 1 .. l}
  <2>2. \A j \in 1 .. l : f(j) \in V
    OBVIOUS
  <2>3. f(k) = Lower[y]
    BY <1>9
  <2> HIDE DEF f, V
  <2>4. u \in [1 .. l -> V] /\ u[k] = f(k)
    BY <2>1, <2>2 DEF f
  <2>5. Len(u) = l
    BY <2>1, <2>4, OccursMany
  <2>6. QED
    BY <2>3, <2>4, <2>5 DEF u
<1>12. QED
  BY <1>11 DEF Occurs, y

\* The list of tokens of a compiled sheet: no id and every id of the sheet have one.
SheetNamed(s, toks) ==
  /\ TokenList(toks) /\ Occurs("", toks)
  /\ \A r, p, q : PredIn(s, r, p, q) /\ PredAt(s, r, p, q).id # "" => Occurs(Lower[PredAt(s, r, p, q).id], toks)
\* So it is after tokenize.
LEMMA SheetNames == \A s \in DOMAIN Sheets : \A toks : TokenList(toks) => SheetNamed(s, TokensWith(s, toks))
<1> SUFFICES ASSUME NEW s \in DOMAIN Sheets, NEW toks, TokenList(toks) PROVE SheetNamed(s, TokensWith(s, toks))
  OBVIOUS
<1> DEFINE none == <<"">>
           a == Tokenized(toks, none)
           c == Tokenized(a, SheetIds(s))
           l == Len(SheetIds(s))
<1>1. Len(none) = 1 /\ none[1] = "" /\ Len(none) \in Nat /\ 1 \in 1 .. Len(none)
  OBVIOUS
<1>2. TokensWith(s, toks) = c
  BY DEF TokensWith
<1>3. l \in Nat
  BY SheetIdsTyped
<1> HIDE DEF none
<1>4. TokenList(a) /\ Occurs("", a)
  BY <1>1, TokensGrow, TokensHave
<1> HIDE DEF a
<1>5. TokenList(c) /\ Begins(a, c)
  BY <1>3, <1>4, TokensGrow
<1>6. \A y : Occurs(y, SheetIds(s)) => Occurs(y, c)
  <2> SUFFICES ASSUME NEW y, Occurs(y, SheetIds(s)) PROVE Occurs(y, c)
    OBVIOUS
  <2>1. PICK j \in 1 .. Len(SheetIds(s)) : SheetIds(s)[j] = y
    BY DEF Occurs
  <2>2. QED
    BY <1>3, <1>4, <2>1, TokensHave
<1> HIDE DEF c
<1>7. Occurs("", c)
  BY <1>4, <1>5, TokenStays
<1>8. \A r, p, q : PredIn(s, r, p, q) /\ PredAt(s, r, p, q).id # "" => Occurs(Lower[PredAt(s, r, p, q).id], c)
  BY <1>6, SheetIdsAre
<1>9. QED
  BY <1>2, <1>5, <1>7, <1>8 DEF SheetNamed

\* A selector of the sheet with the tokens in it, and a hit that holds one.
CompiledPred(T, p, toks) ==
  [tag |-> IF p.tag \in {"", "*"} THEN StarTok ELSE T[p.tag],
   id |-> IF p.id = "" THEN NoIdTok(toks) ELSE IndexOf(toks, Lower[p.id])]
Compiled(T, P, toks) == [preds |-> [q \in DOMAIN P.preds |-> CompiledPred(T, P.preds[q], toks)], ops |-> P.ops]
HitOf(T, s, toks, h, r, p) ==
  /\ r \in 1 .. Len(Sheets[s]) /\ p \in 1 .. Len(parse[s][r])
  /\ h.propList = r /\ h.number = p /\ h.sel = Compiled(T, parse[s][r][p], toks)
IsHit(T, s, toks, h) == \E r, p : HitOf(T, s, toks, h, r, p)
\* hash makes one for each selector.
LEMMA HitsAre == \A s \in DOMAIN Sheets : \A toks : \A h \in ToSet(Hits(s, toks)) : IsHit(B.tokens, s, toks, h)
<1> SUFFICES ASSUME NEW s \in DOMAIN Sheets, NEW toks, NEW h \in ToSet(Hits(s, toks))
             PROVE  IsHit(B.tokens, s, toks, h)
  OBVIOUS
<1> DEFINE rules == parse[s]
           n == Len(Sheets[s])
           sel(r, p) == [preds |-> [q \in DOMAIN rules[r][p].preds |-> tokenizePred(rules[r][p].preds[q], toks)],
                         ops |-> rules[r][p].ops]
           hit(r, p) == [propList |-> r, number |-> p, sel |-> sel(r, p),
                         specificity |-> specificity(sel(r, p), r - 1, toks)]
           R == UNION {{hit(r, p) : p \in 1 .. Len(rules[r])} : r \in 1 .. n}
           f(r) == [p \in DOMAIN rules[r] |-> hit(r, p)]
           g == [r \in 1 .. n |-> f(r)]
           hits == FlattenSeq(g)
<1>1. /\ n \in Nat /\ DOMAIN rules = 1 .. n
      /\ \A k \in 1 .. n : Len(rules[k]) \in Nat /\ DOMAIN rules[k] = 1 .. Len(rules[k])
  BY SheetsParsed DEF RulesParsed
<1>2. Hits(s, toks) = hits
  <2>1. Hits(s, toks) = FlattenSeq([r \in DOMAIN rules |-> f(r)])
    BY Zenon DEF Hits
  <2>2. QED
    BY <1>1, <2>1
<1>3. \A r, p : hit(r, p).propList = r /\ hit(r, p).number = p /\ hit(r, p).sel = sel(r, p)
  OBVIOUS
<1>4. \A r, p : sel(r, p) = Compiled(B.tokens, rules[r][p], toks)
  BY Zenon DEF Compiled, CompiledPred, tokenizePred
<1> HIDE DEF rules, n, sel, hit
<1>5. \A r \in 1 .. n : f(r) \in Seq(R) /\ Len(f(r)) = Len(rules[r]) /\ \A p \in 1 .. Len(rules[r]) : f(r)[p] = hit(r, p)
  <2> SUFFICES ASSUME NEW r \in 1 .. n
               PROVE  /\ f(r) \in Seq(R) /\ Len(f(r)) = Len(rules[r])
                      /\ \A p \in 1 .. Len(rules[r]) : f(r)[p] = hit(r, p)
    OBVIOUS
  <2> DEFINE m == Len(rules[r])
  <2>1. m \in Nat /\ f(r) = [p \in 1 .. m |-> hit(r, p)]
    BY <1>1
  <2>2. \A p \in 1 .. m : hit(r, p) \in R
    OBVIOUS
  <2> HIDE DEF m, f, R
  <2>3. f(r) \in [1 .. m -> R]
    BY <2>1, <2>2
  <2>4. f(r) \in Seq(R) /\ Len(f(r)) = m
    BY <2>1, <2>3, OccursMany
  <2>5. QED
    BY <2>1, <2>4 DEF m
<1> HIDE DEF f, R
<1>6. g \in [1 .. n -> Seq(R)] /\ \A r \in 1 .. n : g[r] = f(r)
  BY <1>5
<1> HIDE DEF g
<1>7. hits \in Seq(R) /\ \A x : Occurs(x, hits) <=> \E r \in 1 .. n : Occurs(x, g[r])
  BY <1>1, <1>6, FlattenHas
<1> HIDE DEF hits
<1>8. Occurs(h, hits)
  <2>1. DOMAIN hits = 1 .. Len(hits)
    BY <1>7
  <2>2. QED
    BY <1>2, <2>1 DEF ToSet, Occurs
<1>9. PICK r \in 1 .. n : Occurs(h, g[r])
  BY <1>7, <1>8
<1>10. PICK p \in 1 .. Len(rules[r]) : h = hit(r, p)
  BY <1>5, <1>6, <1>9 DEF Occurs
<1>11. HitOf(B.tokens, s, toks, h, r, p)
  BY <1>3, <1>4, <1>10 DEF HitOf, n, rules
<1>12. QED
  BY <1>11 DEF IsHit

-----------------------------------------------------------------------------
(* The classes, the ids and the compiled sheet, in every state.            *)

\* The class column has the tokens of T; the id column those of toks, and zeros; and the
\* root has no left neighbour.
Classed(T, t, N, n) ==
  /\ IsFunction(N)
  /\ \A x \in 0 .. n - 1 : /\ t.class[Order(t)[x + 1]] \in DOMAIN T
                           /\ Cell(N, n, 0, x) = T[t.class[Order(t)[x + 1]]]
IdCellOf(t, toks, v) == IF t.id[v] = None THEN 0 ELSE IndexOf(toks, Lower[t.id[v]])
Named(E, t, N, n, toks) ==
  /\ \A x \in 0 .. n - 1 : Cell(N, n, E.id, x) = IdCellOf(t, toks, Order(t)[x + 1])
  /\ \A x \in 0 .. n - 1 : t.id[Order(t)[x + 1]] # None => Occurs(Lower[t.id[Order(t)[x + 1]]], toks)
  /\ Cell(N, n, E.left_siblings, 0) = 0
\* A load that goes through leaves them so.
LEMMA LoadIsNamed ==
  engine \in DOMAIN kbindings =>
    \A d \in DOMAIN Documents : \A toks :
      Reached(Trees[d]) = treeSize(Trees[d]) /\ TokenList(toks) =>
        /\ Classed(B.tokens, Documents[d],
                   Flattened(Trees[d], TokensAfter(Trees[d], toks))["grammartokens"], treeSize(Trees[d]))
        /\ Named(B.edges, Documents[d], Flattened(Trees[d], TokensAfter(Trees[d], toks))["nodeindex"],
                 treeSize(Trees[d]), TokensAfter(Trees[d], toks))
<1> SUFFICES ASSUME engine \in DOMAIN kbindings, NEW d \in DOMAIN Documents, NEW toks,
                    Reached(Trees[d]) = treeSize(Trees[d]), TokenList(toks)
             PROVE  /\ Classed(B.tokens, Documents[d],
                               Flattened(Trees[d], TokensAfter(Trees[d], toks))["grammartokens"], treeSize(Trees[d]))
                    /\ Named(B.edges, Documents[d],
                             Flattened(Trees[d], TokensAfter(Trees[d], toks))["nodeindex"],
                             treeSize(Trees[d]), TokensAfter(Trees[d], toks))
  OBVIOUS
<1> DEFINE t == Documents[d]
           n == treeSize(t)
           s == TokensAfter(Laid(t), toks)
           N == Flattened(Laid(t), s)["nodeindex"]
           K == Flattened(Laid(t), s)["grammartokens"]
<1>1. Trees[d] = Laid(t) /\ IsDocument(t) /\ treeSize(Trees[d]) = n
  BY TreesAreDocuments
<1>2. Reached(Laid(t)) = n
  BY <1>1
<1>3. FieldsFit(F) /\ EdgeTable(F.edges) /\ F.edges = B.edges /\ F.tokens = B.tokens
  BY FieldsOfFlattener, FlattenerFits, TokensFit
<1>4. IsFunction(K)
  <2>1. Flattened(Laid(t), s)
          = [b \in Buffers |-> Image(AllWrites(t, s), b, treeSize(t), F.sizes[b] * treeSize(t))]
    BY <1>1, <1>2, FlattenedIs
  <2>2. K = Image(AllWrites(t, s), "grammartokens", treeSize(t), F.sizes["grammartokens"] * treeSize(t))
    BY <2>1 DEF Buffers
  <2> HIDE DEF K
  <2>3. QED
    BY <2>2, ImageIsFunction
<1> HIDE DEF t, s
<1>5. \A x \in 0 .. n - 1 : /\ t.class[Order(t)[x + 1]] \in DOMAIN B.tokens
                             /\ Cell(K, n, 0, x) = B.tokens[t.class[Order(t)[x + 1]]]
  BY <1>1, <1>2, <1>3, LoadClasses
<1>6. \A x \in 0 .. n - 1 : Cell(N, n, B.edges.id, x) = IdCellOf(t, s, Order(t)[x + 1])
  BY <1>1, <1>2, <1>3, LoadIdCells DEF IdCellOf
<1>7. \A x \in 0 .. n - 1 : t.id[Order(t)[x + 1]] # None => Occurs(Lower[t.id[Order(t)[x + 1]]], s)
  <2>1. \A x \in 0 .. n - 1 : Order(t)[x + 1] \in Nodes(t)
    <3>1. Grown(t) /\ Queued(t, Order(t), Firsts(t)) /\ Len(Order(t)) = n
      BY <1>1, DocumentsGrow, OrderIsQueued, OrderIsWhole
    <3>2. QED
      BY <3>1, ChildOfNode
  <2>2. QED
    BY <1>1, <1>2, <2>1, LoadNames DEF s
<1>8. Cell(N, n, B.edges.left_siblings, 0) = 0
  BY <1>1, <1>2, <1>3, LoadRoot
<1> HIDE DEF N, K, n
<1>9. Classed(B.tokens, t, K, n) /\ Named(B.edges, t, N, n, s)
  BY <1>4, <1>5, <1>6, <1>7, <1>8 DEF Classed, Named
<1>10. QED
  BY <1>1, <1>9 DEF N, K, n, s, t

\* Tokens that grow leave the ids of the nodes theirs.
LEMMA NamedStays ==
  \A E, t, N, n, p, q : TokenList(p) /\ TokenList(q) /\ Begins(p, q) /\ Named(E, t, N, n, p) => Named(E, t, N, n, q)
<1> SUFFICES ASSUME NEW E, NEW t, NEW N, NEW n, NEW p, NEW q, TokenList(p), TokenList(q), Begins(p, q),
                    Named(E, t, N, n, p)
             PROVE  Named(E, t, N, n, q)
  OBVIOUS
<1> DEFINE v(x) == Order(t)[x + 1]
<1>1. \A x \in 0 .. n - 1 : Cell(N, n, E.id, x) = IdCellOf(t, p, v(x))
  BY DEF Named
<1>2. \A x \in 0 .. n - 1 : t.id[v(x)] # None => Occurs(Lower[t.id[v(x)]], p)
  BY DEF Named
<1>3. Cell(N, n, E.left_siblings, 0) = 0
  BY DEF Named
<1> HIDE DEF v
<1>4. \A x \in 0 .. n - 1 : t.id[v(x)] # None =>
         Occurs(Lower[t.id[v(x)]], q) /\ IndexOf(q, Lower[t.id[v(x)]]) = IndexOf(p, Lower[t.id[v(x)]])
  BY <1>2, TokenStays
<1>5. \A x \in 0 .. n - 1 : Cell(N, n, E.id, x) = IdCellOf(t, q, v(x))
  BY <1>1, <1>4 DEF IdCellOf
<1>6. QED
  BY <1>3, <1>4, <1>5 DEF Named, v

\* The inductive invariant: the cells of the loaded tree, and what the compiled sheet holds.
MemoryNamed ==
  Loaded => /\ Classed(B.tokens, Documents[doc], mem["grammartokens"], tree_size)
            /\ Named(B.edges, Documents[doc], mem["nodeindex"], tree_size, tokens)
KernelNamed ==
  kernel # NoKernel => /\ SheetNamed(kernel.sheet, kernel.toks)
                       /\ \A h \in ToSet(kernel.hits) : IsHit(B.tokens, kernel.sheet, kernel.toks, h)
MatchInv == TokensInv /\ MemoryNamed /\ KernelNamed
\* Neither is there at first.
LEMMA MatchInit == Init => MatchInv
<1> SUFFICES ASSUME Init PROVE MatchInv
  OBVIOUS
<1>1. doc = None /\ kernel = NoKernel
  BY DEF Init, InitTree
<1>2. QED
  BY <1>1, TokensInit DEF MatchInv, MemoryNamed, KernelNamed, Loaded

\* A load.
LEMMA LoadKeepsNames ==
  ASSUME MatchInv, NEW d \in Scenes[scene].docs, NEW flat \in BOOLEAN, Load(d, flat)
  PROVE  MemoryNamed' /\ KernelNamed'
<1>1. d \in DOMAIN Documents /\ engine \in DOMAIN kbindings /\ TokenList(tokens)
  BY ScenesAreSheetsAndDocuments DEF MatchInv, TokensInv, TreeInv
<1>2. IF flat THEN LoadDataFlat(d, Trees[d]) ELSE LoadData(d, Trees[d])
  BY DEF Load
<1>3. kernel' = kernel /\ engine' = engine /\ doc' = d
  BY <1>2 DEF Load, LoadData, LoadDataFlat
<1>4. B' = B
  BY <1>3 DEF B
<1>5. ASSUME ~broken'
      PROVE  /\ Classed(B.tokens, Documents[d], mem'["grammartokens"], tree_size')
             /\ Named(B.edges, Documents[d], mem'["nodeindex"], tree_size', tokens')
  <2>1. LoadedWhole(d)
    BY <1>1, <1>5, LoadGoes
  <2>2. PICK toks \in {<<>>, tokens} : tokens' = TokensAfter(Trees[d], toks)
    BY <2>1 DEF LoadedWhole
  <2>3. /\ Reached(Trees[d]) = treeSize(Trees[d]) /\ tree_size' = treeSize(Trees[d])
        /\ mem' = Flattened(Trees[d], tokens')
    BY <2>1 DEF LoadedWhole
  <2>4. TokenList(toks)
    BY <1>1, <2>2, NoTokens
  <2>5. QED
    BY <1>1, <2>2, <2>3, <2>4, LoadIsNamed
<1>6. MemoryNamed'
  BY <1>3, <1>4, <1>5 DEF MemoryNamed, Loaded
<1>7. KernelNamed'
  BY <1>3, <1>4 DEF KernelNamed, MatchInv, NoKernel
<1>8. QED
  BY <1>6, <1>7

\* A style sheet that is compiled.
LEMMA SheetKeepsNames ==
  ASSUME MatchInv, NEW kind, NEW s \in Scenes[scene].sheets, NEW fails \in BOOLEAN, SetSelectors(kind, s, fails)
  PROVE  MemoryNamed' /\ KernelNamed'
<1>1. s \in DOMAIN Sheets /\ TokenList(tokens)
  BY ScenesAreSheetsAndDocuments DEF MatchInv, TokensInv, TreeInv
<1>2. /\ UNCHANGED <<engine, doc, broken, tree_size, mem>> /\ tokens' = TokensWith(s, tokens)
      /\ kernel' = IF fails THEN kernel ELSE [kind |-> kind, sheet |-> s, toks |-> tokens', hits |-> Hits(s, tokens')]
  BY DEF SetSelectors
<1>3. TokenList(tokens') /\ Begins(tokens, tokens')
  BY <1>1, <1>2, SheetTokens
<1>4. B' = B /\ Loaded' = Loaded
  BY <1>2 DEF B, Loaded
<1>5. MemoryNamed'
  BY <1>1, <1>2, <1>3, <1>4, NamedStays DEF MemoryNamed, MatchInv
<1>6. KernelNamed'
  <2>1. CASE fails
    BY <1>2, <1>4, <2>1 DEF KernelNamed, MatchInv, NoKernel
  <2>2. CASE ~fails
    <3>1. kernel'.sheet = s /\ kernel'.toks = tokens' /\ kernel'.hits = Hits(s, tokens')
      BY <1>2, <2>2
    <3>2. SheetNamed(s, tokens')
      BY <1>1, <1>2, SheetNames
    <3>3. \A h \in ToSet(Hits(s, tokens')) : IsHit(B.tokens, s, tokens', h)
      BY <1>1, HitsAre
    <3>4. QED
      BY <1>4, <3>1, <3>2, <3>3 DEF KernelNamed
  <2>3. QED
    BY <2>1, <2>2
<1>7. QED
  BY <1>5, <1>6

\* A style sheet that runs.
LEMMA RunKeepsNames ==
  ASSUME MatchInv, RunSelectors
  PROVE  MemoryNamed' /\ KernelNamed'
<1>1. UNCHANGED <<engine, doc, broken, tree_size, tokens, kernel>> /\ Loaded
  BY DEF RunSelectors, Loaded
<1>2. TreeInv /\ MemoryNamed /\ KernelNamed
  BY DEF MatchInv, TokensInv
<1>3. "nodeindex" \in Buffers \ Attributes /\ "grammartokens" \in Buffers \ Attributes
  BY DEF Buffers, Attributes
<1>4. IsFunction(mem["nodeindex"]) /\ IsFunction(mem["grammartokens"])
  BY <1>1, <1>2 DEF TreeInv, TreeHeld, MemoryNamed, Classed
<1>5. mem'["nodeindex"] = mem["nodeindex"] /\ mem'["grammartokens"] = mem["grammartokens"]
  BY <1>2, <1>3, <1>4, RunKeeps
<1>6. B' = B /\ Loaded' = Loaded
  BY <1>1 DEF B, Loaded
<1>7. QED
  BY <1>1, <1>2, <1>5, <1>6 DEF MemoryNamed, KernelNamed, NoKernel

\* The invariant is inductive.
LEMMA MatchNext == MatchInv /\ [Next]_vars => MatchInv'
<1> SUFFICES ASSUME MatchInv, [Next]_vars PROVE MatchInv'
  OBVIOUS
<1>1. TokensInv'
  BY TokensNext DEF MatchInv
<1>2. CASE UNCHANGED vars
  <2>1. UNCHANGED <<engine, doc, broken, tree_size, tokens, mem, kernel>>
    BY <1>2 DEF vars, treeVars
  <2>2. B' = B /\ Loaded' = Loaded
    BY <2>1 DEF B, Loaded
  <2>3. QED
    BY <1>1, <2>1, <2>2 DEF MatchInv, MemoryNamed, KernelNamed, NoKernel
<1>3. CASE Next
  <2>1. MemoryNamed' /\ KernelNamed'
    BY <1>3, LoadKeepsNames, SheetKeepsNames, RunKeepsNames DEF Next
  <2>2. QED
    BY <1>1, <2>1 DEF MatchInv
<1>4. QED
  BY <1>2, <1>3

-----------------------------------------------------------------------------
(* A compiled predicate matches what the one of the sheet fits.            *)

\* A longer list begins with its prefix.
LEMMA PrefixBegins == \A p, q : TokenList(p) /\ TokenList(q) /\ IsPrefix(p, q) => Begins(p, q)
<1> SUFFICES ASSUME NEW p, NEW q, TokenList(p), TokenList(q), IsPrefix(p, q) PROVE Begins(p, q)
  OBVIOUS
<1> DEFINE n == Len(p)
           S == ToSet(p) \cup ToSet(q)
           a == Cut(p, 1, n)
           c == Cut(q, 1, n)
<1>1. p \in Seq(ToSet(p)) /\ q \in Seq(ToSet(q))
  BY DEF TokenList
<1>2. p \in Seq(S) /\ q \in Seq(S)
  <2> DEFINE P == ToSet(p)
             Q == ToSet(q)
  <2>1. p \in Seq(P) /\ q \in Seq(Q)
    BY <1>1
  <2> HIDE DEF P, Q
  <2>2. p \in Seq(P \cup Q) /\ q \in Seq(P \cup Q)
    BY <2>1
  <2>3. QED
    BY <2>2 DEF P, Q
<1>3. n <= Len(q) /\ a = c
  BY DEF IsPrefix, Cut
<1>4. n \in Nat /\ Len(q) \in Nat
  BY <1>1, OwnElements
<1>5. n \in 0 .. Len(p) /\ n \in 0 .. Len(q)
  BY <1>3, <1>4
<1> HIDE DEF n, S
<1>6. (\A x \in 1 .. n : a[x] = p[x]) /\ (\A x \in 1 .. n : c[x] = q[x])
  BY <1>2, <1>5, CutOf
<1> HIDE DEF a, c
<1>7. \A x \in 1 .. n : q[x] = p[x]
  BY <1>3, <1>6
<1>8. QED
  BY <1>3, <1>7 DEF Begins, n

\* The id cell of a node has the token of its id and of no other; without an id it has
\* the token of the first id there was.
SeenAs(t, v, y) == IF t.id[v] = None THEN tokens[1] = y ELSE Lower[t.id[v]] = y
\* So a node is seen as one with that id.
LEMMA IdTells ==
  \A t, v, y : TokenList(tokens) /\ Occurs(y, tokens) /\ (t.id[v] # None => Occurs(Lower[t.id[v]], tokens)) =>
    (IdCellOf(t, tokens, v) = IndexOf(tokens, y) <=> SeenAs(t, v, y))
<1> SUFFICES ASSUME NEW t, NEW v, NEW y, TokenList(tokens), Occurs(y, tokens),
                    t.id[v] # None => Occurs(Lower[t.id[v]], tokens)
             PROVE  IdCellOf(t, tokens, v) = IndexOf(tokens, y) <=> SeenAs(t, v, y)
  OBVIOUS
<1>1. CASE t.id[v] = None
  <2>1. PICK i \in 1 .. Len(tokens) : tokens[i] = y
    BY DEF Occurs
  <2>2. Len(tokens) \in Nat
    BY OwnElements DEF TokenList
  <2>3. 1 \in 1 .. Len(tokens)
    BY <2>1, <2>2
  <2>4. IndexOf(tokens, tokens[1]) = 0
    BY <2>3, TokenIs
  <2>5. Occurs(tokens[1], tokens)
    BY <2>3 DEF Occurs
  <2>6. IndexOf(tokens, tokens[1]) = IndexOf(tokens, y) <=> tokens[1] = y
    BY <2>5, TokenTells
  <2>7. IdCellOf(t, tokens, v) = 0
    BY <1>1 DEF IdCellOf
  <2>8. QED
    BY <1>1, <2>4, <2>6, <2>7 DEF SeenAs
<1>2. CASE t.id[v] # None
  <2>1. IdCellOf(t, tokens, v) = IndexOf(tokens, Lower[t.id[v]])
    BY <1>2 DEF IdCellOf
  <2>2. IndexOf(tokens, Lower[t.id[v]]) = IndexOf(tokens, y) <=> Lower[t.id[v]] = y
    BY <1>2, TokenTells
  <2>3. QED
    BY <1>2, <2>1, <2>2 DEF SeenAs
<1>3. QED
  BY <1>1, <1>2

\* A predicate the assumption on sheets lets the sheets have.
Nameable(T, P) ==
  /\ P.tag \in {"", "*"} \cup DOMAIN T
  /\ P.id # "" => Lower[P.id] # ""
\* Every predicate of a sheet of the scene.
LEMMA PredsNameable ==
  scene \in DOMAIN Scenes /\ engine = Scenes[scene].engine =>
    \A s \in Scenes[scene].sheets : \A r, p, q : PredIn(s, r, p, q) => Nameable(B.tokens, PredAt(s, r, p, q))
<1> SUFFICES ASSUME scene \in DOMAIN Scenes, engine = Scenes[scene].engine,
                    NEW s \in Scenes[scene].sheets, NEW r, NEW p, NEW q, PredIn(s, r, p, q)
             PROVE  Nameable(B.tokens, PredAt(s, r, p, q))
  OBVIOUS
<1>1. RulesParsed(s)
  BY ScenesAreSheetsAndDocuments, SheetsParsed
<1>2. r \in DOMAIN parse[s] /\ p \in DOMAIN parse[s][r] /\ IsSelector(parse[s][r][p])
  BY <1>1 DEF RulesParsed, PredIn
<1>3. q \in DOMAIN parse[s][r][p].preds
  <2> DEFINE l == parse[s][r][p].preds
  <2>1. l \in Seq(Predicates) /\ q \in 1 .. Len(l)
    BY <1>2 DEF IsSelector, PredIn
  <2> HIDE DEF l
  <2>2. q \in DOMAIN l
    BY <2>1, OwnElements
  <2>3. QED
    BY <2>2 DEF l
<1>4. /\ PredAt(s, r, p, q).tag \in {"", "*"} \cup DOMAIN kbindings[Scenes[scene].engine].tokens
      /\ PredAt(s, r, p, q).id \in {""} \cup DOMAIN Lower
  BY <1>2, <1>3, SheetsNameClasses DEF PredAt
<1>5. QED
  BY <1>4, SheetsNameClasses DEF Nameable, B

\* A predicate that does not name the first id there was, or a tree whose nodes all have
\* ids.
PredTells(t, P) ==
  \/ \A v \in 1 .. treeSize(t) : t.id[v] # None
  \/ P.id # "" => Lower[P.id] # tokens[1]
\* Compiled against tokens that have its id, a predicate matches the nodes of its class and
\* id, and of the others at most those without an id.
LEMMA AlikeIs ==
  \A t, P, k : MemoryNamed /\ Loaded /\ engine \in DOMAIN kbindings /\ TokenList(tokens)
               /\ t = Documents[doc] /\ Nameable(B.tokens, P) /\ TokenList(k) /\ Begins(k, tokens)
               /\ Occurs("", k) /\ (P.id # "" => Occurs(Lower[P.id], k)) =>
    /\ Finds(Laid(t), CompiledPred(B.tokens, P, k), P, NoIdTok(k))
    /\ PredTells(Laid(t), P) /\ (\A x \in Places : NodeAt(Laid(t), x) \in 1 .. treeSize(Laid(t)))
         => Tells(Laid(t), CompiledPred(B.tokens, P, k), P, NoIdTok(k))
<1> SUFFICES ASSUME NEW t, NEW P, NEW k, MemoryNamed, Loaded, engine \in DOMAIN kbindings, TokenList(tokens),
                    t = Documents[doc], Nameable(B.tokens, P), TokenList(k), Begins(k, tokens),
                    Occurs("", k), P.id # "" => Occurs(Lower[P.id], k)
             PROVE  /\ Finds(Laid(t), CompiledPred(B.tokens, P, k), P, NoIdTok(k))
                    /\ PredTells(Laid(t), P) /\ (\A x \in Places : NodeAt(Laid(t), x) \in 1 .. treeSize(Laid(t)))
                         => Tells(Laid(t), CompiledPred(B.tokens, P, k), P, NoIdTok(k))
  OBVIOUS
<1> DEFINE T == Laid(t)
           c == CompiledPred(B.tokens, P, k)
           i == IF P.id = "" THEN NoIdTok(k) ELSE IndexOf(k, Lower[P.id])
           g == IF P.tag \in {"", "*"} THEN StarTok ELSE B.tokens[P.tag]
           hit(x) == matchPredicate(c, x, NoIdTok(k))
<1>1. c.id = i /\ c.tag = g
  BY DEF CompiledPred
<1>2. ASSUME NEW x \in Places
      PROVE  /\ Fits(T, P, NodeAt(T, x)) => hit(x)
             /\ hit(x) /\ (T.id[NodeAt(T, x)] # None \/ (P.id # "" => Lower[P.id] # tokens[1]))
                  => Fits(T, P, NodeAt(T, x))
  <2> DEFINE v == Order(t)[x + 1]
             id(y) == T.id[v] # None /\ Lower[T.id[v]] = y
  <2>1. NodeAt(T, x) = v /\ T.class = t.class /\ T.id = t.id
    BY LaidFields DEF NodeAt
  <2>2. /\ t.class[v] \in DOMAIN B.tokens /\ Get("grammartokens", 0, x) = B.tokens[t.class[v]]
        /\ Edge("id", x) = IdCellOf(t, tokens, v)
        /\ t.id[v] # None => Occurs(Lower[t.id[v]], tokens)
    BY DEF MemoryNamed, Classed, Named, Places, Get, Edge, Cell
  <2>3. /\ (P.id # "" => id(Lower[P.id])) => (i # NoIdTok(k) => Edge("id", x) = i)
        /\ (i # NoIdTok(k) => Edge("id", x) = i) /\ (T.id[v] # None \/ (P.id # "" => Lower[P.id] # tokens[1]))
             => (P.id # "" => id(Lower[P.id]))
    <3>1. CASE P.id = ""
      BY <3>1
    <3>2. CASE P.id # ""
      <4> DEFINE y == Lower[P.id]
      <4>1. y # "" /\ Occurs(y, k)
        BY <3>2 DEF Nameable
      <4>2. i = IndexOf(k, y)
        BY <3>2
      <4> HIDE DEF y
      <4>3. i # NoIdTok(k)
        BY <4>1, <4>2, TokenTells DEF NoIdTok
      <4>4. Occurs(y, tokens) /\ i = IndexOf(tokens, y)
        BY <4>1, <4>2, TokenStays
      <4> HIDE DEF v
      <4>5. IdCellOf(t, tokens, v) = IndexOf(tokens, y) <=> SeenAs(t, v, y)
        <5>1. Occurs(y, tokens) /\ (t.id[v] # None => Occurs(Lower[t.id[v]], tokens))
          BY <2>2, <4>4
        <5>2. QED
          BY <5>1, IdTells, Zenon
      <4> HIDE DEF i
      <4>6. T.id[v] = t.id[v] /\ (Edge("id", x) = i <=> SeenAs(t, v, y))
        BY <2>1, <2>2, <4>4, <4>5
      <4> HIDE DEF T
      <4>7. id(y) => Edge("id", x) = i
        BY <4>6 DEF SeenAs
      <4>8. Edge("id", x) = i /\ (T.id[v] # None \/ y # tokens[1]) => id(y)
        BY <4>6 DEF SeenAs
      <4> HIDE DEF id
      <4>9. QED
        BY <3>2, <4>3, <4>7, <4>8, Zenon DEF y
    <3>3. QED
      BY <3>1, <3>2
  <2>4. (g # StarTok => Get("grammartokens", 0, x) = g) <=> (P.tag \notin {"", "*"} => T.class[v] = P.tag)
    <3>1. CASE P.tag \in {"", "*"}
      BY <3>1
    <3>2. CASE P.tag \notin {"", "*"}
      <4>1. P.tag \in DOMAIN B.tokens
        BY <3>2 DEF Nameable
      <4>2. TokenTable(B.tokens)
        BY TokensFit
      <4>3. B.tokens[P.tag] # StarTok /\ (B.tokens[t.class[v]] = B.tokens[P.tag] <=> t.class[v] = P.tag)
        BY <2>2, <4>1, <4>2 DEF TokenTable
      <4>4. g = B.tokens[P.tag]
        BY <3>2
      <4> HIDE DEF g
      <4>5. QED
        BY <2>1, <2>2, <3>2, <4>3, <4>4
    <3>3. QED
      BY <3>1, <3>2
  <2> HIDE DEF i, g, v, T, c
  <2>5. hit(x) <=> /\ i # NoIdTok(k) => Edge("id", x) = i
                   /\ g # StarTok => Get("grammartokens", 0, x) = g
    BY <1>1 DEF matchPredicate
  <2>6. Fits(T, P, v) <=> /\ P.id # "" => id(Lower[P.id])
                          /\ P.tag \notin {"", "*"} => T.class[v] = P.tag
    BY DEF Fits
  <2> HIDE DEF hit, id
  <2>7. QED
    BY <2>1, <2>3, <2>4, <2>5, <2>6
<1> HIDE DEF i, g, c
<1>3. Finds(T, c, P, NoIdTok(k))
  BY <1>2 DEF Finds
<1>4. ASSUME PredTells(T, P), \A x \in Places : NodeAt(T, x) \in 1 .. treeSize(T)
      PROVE  Tells(T, c, P, NoIdTok(k))
  <2> HIDE DEF T
  <2>1. \A x \in Places : T.id[NodeAt(T, x)] # None \/ (P.id # "" => Lower[P.id] # tokens[1])
    BY <1>4 DEF PredTells
  <2>2. QED
    BY <1>2, <2>1 DEF Tells
<1>5. QED
  BY <1>3, <1>4 DEF T, c

-----------------------------------------------------------------------------
(* What the engines match is what the sheet selects.                       *)

\* The compiled sheet, on a tree with all of its tokens.
Sighted ==
  /\ FamilySeen(Tree) /\ Related[doc] = RelatedIn(Tree) /\ treeSize(Tree) = tree_size
  /\ \A v \in 1 .. tree_size : Index(Tree, v) \in Places /\ NodeAt(Tree, Index(Tree, v)) = v
  /\ \A h \in ToSet(kernel.hits) :
       /\ Alikes(Tree, h.sel, Written(h), NoIdTok(kernel.toks))
       /\ TellsIds(Tree, Written(h)) => Telling(Tree, h.sel, Written(h), NoIdTok(kernel.toks))
\* It is so whenever the sheet is current.
LEMMA CurrentIsSighted == MatchInv /\ Current => Sighted
<1> SUFFICES ASSUME MatchInv, Current PROVE Sighted
  OBVIOUS
<1> DEFINE t == Documents[doc]
           T == Laid(t)
           k == kernel.toks
           s == kernel.sheet
<1>1. Loaded /\ kernel # NoKernel /\ IsPrefix(k, tokens)
  BY DEF Current, Loaded
<1>2. TreeInv /\ TokenList(tokens) /\ MemoryNamed /\ KernelNamed
  BY DEF MatchInv, TokensInv
<1>3. /\ scene \in DOMAIN Scenes /\ engine = Scenes[scene].engine /\ engine \in DOMAIN kbindings
      /\ s \in Scenes[scene].sheets /\ doc \in DOMAIN Documents
      /\ TreeHeld(engine, doc, mem["nodeindex"], tree_size, levels)
  BY <1>1, <1>2 DEF TreeInv
<1>4. SheetNamed(s, k) /\ \A h \in ToSet(kernel.hits) : IsHit(B.tokens, s, k, h)
  BY <1>1, <1>2 DEF KernelNamed
<1>5. TokenList(k) /\ Begins(k, tokens) /\ Occurs("", k)
  BY <1>1, <1>2, <1>4, PrefixBegins DEF SheetNamed
<1>6. Tree = T /\ Trees[doc] = T /\ IsDocument(t) /\ tree_size = treeSize(t) /\ treeSize(T) = treeSize(t)
  BY <1>3, TreesAreDocuments, LaidFields DEF Tree, TreeHeld
<1>7. s \in DOMAIN Sheets /\ RulesParsed(s)
  BY <1>3, ScenesAreSheetsAndDocuments, SheetsParsed
<1>8. FamilySeen(Tree)
  <2>1. 0 \in 0 .. tree_size - 1
    BY <1>6, ListsTyped
  <2>2. Edge("left_siblings", 0) = 0
    BY <1>1, <1>2 DEF MemoryNamed, Named, Edge, Get, Cell
  <2>3. QED
    BY <1>1, <1>2, <2>2, FamilyIsSeen
<1>9. Related[doc] = RelatedIn(Tree)
  BY <1>3, <1>6 DEF Related
<1>10. \A v \in 1 .. tree_size : Index(Tree, v) \in Places /\ NodeAt(Tree, Index(Tree, v)) = v
  <2>1. Grown(t) /\ Queued(t, Order(t), Firsts(t)) /\ Len(Order(t)) = treeSize(t)
    BY <1>6, DocumentsGrow, OrderIsQueued, OrderIsWhole
  <2>2. T.order = Order(t)
    BY LaidFields
  <2> HIDE DEF t, T
  <2>3. QED
    BY <1>6, <2>1, <2>2, PlaceOfIndex DEF Index, NodeAt, Places, Nodes
<1>11. ASSUME NEW h \in ToSet(kernel.hits)
       PROVE  /\ Alikes(Tree, h.sel, Written(h), NoIdTok(k))
              /\ TellsIds(Tree, Written(h)) => Telling(Tree, h.sel, Written(h), NoIdTok(k))
  <2>1. PICK r, p : HitOf(B.tokens, s, k, h, r, p)
    BY <1>4 DEF IsHit
  <2> DEFINE P == parse[s][r][p]
             n == Len(P.preds)
  <2>2. /\ r \in 1 .. Len(Sheets[s]) /\ p \in 1 .. Len(parse[s][r])
        /\ h.propList = r /\ h.number = p /\ h.sel = Compiled(B.tokens, P, k)
    BY <2>1 DEF HitOf
  <2>3. Written(h) = P /\ IsSelector(P)
    BY <1>7, <2>2 DEF Written, RulesParsed
  <2>4. DOMAIN P.preds = 1 .. n /\ n \in Nat
    BY <2>3, OwnElements DEF IsSelector
  <2>5. /\ h.sel.preds = [q \in 1 .. n |-> CompiledPred(B.tokens, P.preds[q], k)]
        /\ h.sel.ops = P.ops
    BY <2>2, <2>4 DEF Compiled
  <2> DEFINE like(q) == CompiledPred(B.tokens, P.preds[q], k)
  <2>6. ASSUME NEW q \in 1 .. n
        PROVE  /\ Finds(T, like(q), P.preds[q], NoIdTok(k))
               /\ PredTells(T, P.preds[q]) => Tells(T, like(q), P.preds[q], NoIdTok(k))
    <3>1. PredIn(s, r, p, q) /\ PredAt(s, r, p, q) = P.preds[q]
      BY <2>2 DEF PredIn, PredAt
    <3>2. Nameable(B.tokens, P.preds[q])
      BY <1>3, <3>1, PredsNameable
    <3>3. \A x \in Places : NodeAt(T, x) \in 1 .. treeSize(T)
      BY <1>6, <1>8 DEF FamilySeen
    <3> HIDE DEF P, k, s, T
    <3>4. P.preds[q].id # "" => Occurs(Lower[P.preds[q].id], k)
      <4>1. PredAt(s, r, p, q).id # "" => Occurs(Lower[PredAt(s, r, p, q).id], k)
        BY <1>4, <3>1 DEF SheetNamed
      <4>2. QED
        BY <3>1, <4>1
    <3>5. QED
      BY <1>1, <1>2, <1>3, <1>5, <3>2, <3>3, <3>4, AlikeIs DEF T
  <2>7. TellsIds(T, P) => \A q \in 1 .. n : PredTells(T, P.preds[q])
    <3> HIDE DEF T, n, P
    <3>1. QED
      BY <2>4 DEF TellsIds, PredTells
  <2> HIDE DEF P, n
  <2>8. Len(h.sel.preds) = n /\ \A q \in 1 .. n : h.sel.preds[q] = like(q)
    BY <2>4, <2>5
  <2> HIDE DEF like, T
  <2>9. Alikes(Tree, h.sel, Written(h), NoIdTok(k))
    BY <1>6, <2>3, <2>5, <2>6, <2>8 DEF Alikes, n
  <2>10. TellsIds(Tree, Written(h)) => Telling(Tree, h.sel, Written(h), NoIdTok(k))
    BY <1>6, <2>3, <2>6, <2>7, <2>8 DEF Telling, n
  <2>11. QED
    BY <2>9, <2>10
<1>12. QED
  BY <1>6, <1>8, <1>9, <1>10, <1>11 DEF Sighted

\* An engine matches only what the sheet selects.
LEMMA SightedIsSound ==
  Sighted => \A h \in ToSet(kernel.hits) :
    TellsIds(Tree, Written(h)) => Matched(Tree, h) \subseteq Selected(Tree, Related[doc], Written(h))
<1> SUFFICES ASSUME Sighted, NEW h \in ToSet(kernel.hits), TellsIds(Tree, Written(h)), NEW v \in Matched(Tree, h)
             PROVE  v \in Selected(Tree, Related[doc], Written(h))
  OBVIOUS
<1>1. v \in 1 .. tree_size /\ matchSelector(h.sel, Index(Tree, v), NoIdTok(kernel.toks))
  BY DEF Matched, Sighted
<1>2. Index(Tree, v) \in Places /\ NodeAt(Tree, Index(Tree, v)) = v
  BY <1>1 DEF Sighted
<1>3. /\ FamilySeen(Tree) /\ Related[doc] = RelatedIn(Tree)
      /\ Alikes(Tree, h.sel, Written(h), NoIdTok(kernel.toks))
      /\ Telling(Tree, h.sel, Written(h), NoIdTok(kernel.toks))
  BY DEF Sighted
<1>4. NodeAt(Tree, Index(Tree, v)) \in Selected(Tree, RelatedIn(Tree), Written(h))
  BY <1>1, <1>2, <1>3, WalkIsSound
<1>5. QED
  BY <1>2, <1>3, <1>4

\* A selector only selects nodes.
LEMMA SelectedAreNodes ==
  \A t, related, sel : Len(sel.preds) \in Nat /\ 1 <= Len(sel.preds) =>
    Selected(t, related, sel) \subseteq 1 .. treeSize(t)
<1> SUFFICES ASSUME NEW t, NEW related, NEW sel, Len(sel.preds) \in Nat, 1 <= Len(sel.preds)
             PROVE  Selected(t, related, sel) \subseteq 1 .. treeSize(t)
  OBVIOUS
<1> DEFINE n == Len(sel.preds)
<1>1. PICK g : Chosen(t, related, sel, g) /\ Selected(t, related, sel) = g[n]
  BY SelectedIs
<1>2. /\ g[1] = Fitting(t, sel, 1)
      /\ \A q \in 1 .. n - 1 : g[q + 1] = Reaching(t, related, sel, q + 1, g[q])
  BY <1>1 DEF Chosen
<1>3. n \in Nat /\ 1 <= n
  OBVIOUS
<1> HIDE DEF n
<1>4. \A q, S : Reaching(t, related, sel, q, S) \subseteq 1 .. treeSize(t) /\ Fitting(t, sel, q) \subseteq 1 .. treeSize(t)
  BY DEF Reaching, Fitting
<1>5. CASE n = 1
  BY <1>1, <1>2, <1>4, <1>5
<1>6. CASE n # 1
  <2>1. n - 1 \in 1 .. n - 1 /\ (n - 1) + 1 = n
    BY <1>3, <1>6
  <2>2. g[(n - 1) + 1] = Reaching(t, related, sel, (n - 1) + 1, g[n - 1])
    BY <1>2, <2>1
  <2>3. QED
    BY <1>1, <1>4, <2>1, <2>2
<1>7. QED
  BY <1>5, <1>6

\* And it matches all of it, when descendants come first.
LEMMA SightedIsComplete ==
  Sighted => \A h \in ToSet(kernel.hits) :
    DescendantsFirst(Written(h)) => Selected(Tree, Related[doc], Written(h)) \subseteq Matched(Tree, h)
<1> SUFFICES ASSUME Sighted, NEW h \in ToSet(kernel.hits), DescendantsFirst(Written(h)),
                    NEW v \in Selected(Tree, Related[doc], Written(h))
             PROVE  v \in Matched(Tree, h)
  OBVIOUS
<1>1. FamilySeen(Tree) /\ Alikes(Tree, h.sel, Written(h), NoIdTok(kernel.toks)) /\ Related[doc] = RelatedIn(Tree)
  BY DEF Sighted
<1>2. v \in 1 .. treeSize(Tree)
  BY <1>1, AlikesAre, SelectedAreNodes
<1>3. Index(Tree, v) \in Places /\ NodeAt(Tree, Index(Tree, v)) = v
  BY <1>2 DEF Sighted
<1>4. NodeAt(Tree, Index(Tree, v)) \in Selected(Tree, RelatedIn(Tree), Written(h))
  BY <1>1, <1>3
<1>5. matchSelector(h.sel, Index(Tree, v), NoIdTok(kernel.toks))
  BY <1>1, <1>3, <1>4, WalkIsComplete
<1>6. QED
  BY <1>2, <1>5 DEF Matched

\* Whatever document and sheet, tokens and edges: a match by way of parent indices and
\* counts of left neighbours is a selection on the document, but for selectors with the
\* first id there was on a tree with nodes without ids.
THEOREM MatchesAreSound == Spec => []MatchIsSound
<1>1. MatchInv => MatchIsSound
  BY CurrentIsSighted, SightedIsSound DEF MatchIsSound
<1>2. QED
  BY <1>1, MatchInit, MatchNext, PTL DEF Spec

\* The matcher, which never goes back to another ancestor, misses no node of a selector
\* whose descendant combinators all come first.
THEOREM MatchesAreComplete == Spec => []MatchIsComplete
<1>1. MatchInv => MatchIsComplete
  BY CurrentIsSighted, SightedIsComplete DEF MatchIsComplete
<1>2. QED
  BY <1>1, MatchInit, MatchNext, PTL DEF Spec

=============================================================================
