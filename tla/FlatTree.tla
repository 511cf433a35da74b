------------------------------ MODULE FlatTree ------------------------------
(***************************************************************************)
(* Loading a tree of JSON objects: treeSize, flatten, flattenNode,         *)
(* flattenEdges, tokenize and loadData of CLRunner.js, with the columns    *)
(* the generated bindings give each field.                                 *)
(*                                                                         *)
(* Nodes are laid out level by level, so that a level is a range of        *)
(* indices and the children of a node are neighbours.  The edges are       *)
(* written as relative offsets by arithmetic on running counters, one node *)
(* ahead of the queue the nodes are taken from.                            *)
(*                                                                         *)
(* Abstractions.  A document is a record of sequences over the numbers of  *)
(* its objects, 1 the root: the class, the id or None, the child lists     *)
(* with their labels (a single child is a list of one: both branches write *)
(* the same), and the attributes, named by their field: the class or       *)
(* interface that declares it and its column.  The class comes first in an *)
(* object.  The host buffers, and their copies on the device once          *)
(* transferred, are one memory.                                            *)
(***************************************************************************)
EXTENDS Bindings, SequencesExt

CONSTANTS
  Documents,      \* the documents, by name
  Lower,          \* toLowerCase on the ids of the documents and style sheets
  None

VARIABLES
  engine,         \* the example whose bindings are loaded
  ignoreCL,       \* no WebCL: the buffers are on the host
  doc,            \* the document loaded last, None before
  broken,         \* the last load threw an exception
  tree_size, levels, tokens,
  mem             \* the buffers

treeVars == <<engine, ignoreCL, doc, broken, tree_size, levels, tokens, mem>>

Buffers == {"int", "float", "grammartokens", "nodeindex"}
B == kbindings[engine]
\* The bindings the nodes are laid out with
F == kbindings[B.flattener]

-----------------------------------------------------------------------------
(* flatten                                                                 *)

treeSize(t) == Len(t.class)

\* The children of an object, of all its lists
KidsOf(t, v) == FlattenSeq([g \in DOMAIN t.kids[v] |-> t.kids[v][g].nodes])

\* nextLevel after the nodes of level
NextLevel(t, level) == FlattenSeq([i \in DOMAIN level |-> KidsOf(t, level[i])])

\* The values of level, one per turn of the outer loop
LevelsOf(t) ==
  LET level[k \in Nat] == IF k = 0 THEN <<1>> ELSE NextLevel(t, level[k - 1])
      turns == Min({k \in 1 .. treeSize(t) : level[k] = <<>>})
  IN  [k \in 1 .. turns |-> level[k - 1]]

\* A document is a tree: every object but the root is in one place of one list of an
\* object, the objects are numbered from the root down, labels differ, and no two
\* attributes of an object name one field (but for case or '_')
IsDocument(t) ==
  LET nodes == 1 .. treeSize(t)
      places == UNION {{v} \X DOMAIN KidsOf(t, v) : v \in nodes}
      kid(x) == KidsOf(t, x[1])[x[2]]
  IN  /\ t.class \in Seq(STRING) /\ t.class # <<>>
      /\ t.id \in [nodes -> DOMAIN Lower \cup {None}]
      /\ t.kids \in [nodes -> Seq([lbl : STRING, nodes : Seq(nodes)])]
      /\ \A v \in nodes : \A g, h \in DOMAIN t.kids[v] :
           t.kids[v][g].lbl = t.kids[v][h].lbl => g = h
      /\ \A x \in places : x[1] < kid(x)
      /\ \A x, y \in places : kid(x) = kid(y) => x = y
      /\ \A w \in nodes \ {1} : \E x \in places : kid(x) = w
      /\ DOMAIN t.attrs = nodes
      /\ \A v \in nodes :
           /\ t.attrs[v] \in Seq(ToSet(t.attrs[v]))
           /\ \A a \in ToSet(t.attrs[v]) : a.owner \in STRING /\ a.buf \in {"int", "float"} /\ a.col \in Nat
           /\ \A a, b \in ToSet(t.attrs[v]) :
                a.owner = b.owner /\ a.buf = b.buf /\ a.col = b.col => a = b

ASSUME DocumentsAreTrees == /\ None \notin DOMAIN Documents \cup DOMAIN Lower
                            /\ \A d \in DOMAIN Documents : IsDocument(Documents[d])

\* The order in which the nodes get their indices
Order(t) == FlattenSeq(LevelsOf(t))

levelsOf(t) ==
  LET ls == LevelsOf(t)
  IN  [k \in DOMAIN ls |-> [start_idx |-> Len(FlattenSeq(SubSeq(ls, 1, k - 1))), length |-> Len(ls[k])]]

\* The level of node i
LevelAt(t, i) ==
  ChooseUnique(ToSet(levelsOf(t)), LAMBDA l : i \in l.start_idx .. l.start_idx + l.length - 1)

\* Mutant: the counter is not moved on by the children of earlier nodes of the level
LeftmostChildIdx_Still(t, i) ==
  LET l == LevelAt(t, i)
  IN  l.start_idx + l.length

\* leftmostChildIdx when node i is flattened
LeftmostChildIdx(t, i) ==
  LET l == LevelAt(t, i)
  IN  l.start_idx + l.length + Len(NextLevel(t, SubSeq(Order(t), l.start_idx + 1, i)))

\* A document with the order flatten visits it in and the counters it has on the way
Laid(t) ==
  [class |-> t.class, id |-> t.id, kids |-> t.kids, attrs |-> t.attrs,
   childs   |-> [v \in 1 .. treeSize(t) |-> KidsOf(t, v)],
   order    |-> Order(t),
   levels   |-> levelsOf(t),
   leftmost |-> [i \in 0 .. treeSize(t) - 1 |-> LeftmostChildIdx(t, i)]]
Trees == [d \in DOMAIN Documents |-> Laid(Documents[d])]

\* this[fld][idx] = val: a cell of a column
Write(buf, col, idx, val) == [buf |-> buf, col |-> col, idx |-> idx, val |-> val]

\* flattenEdges for one list of children that starts at index first
ListWrites(i, lbl, class, first, n, rollCount) ==
  LET edge(name, c, val) == Write("nodeindex", F.edges[name], first + c, val)
  IN  <<Write("nodeindex", F.edges.kids[class][lbl], i, first - i)>>
      \o [c \in 1 .. n |-> edge("right_siblings", c - 1, IF c < n THEN 1 ELSE 0)]
      \o [c \in 1 .. n |-> edge("parent", c - 1, i)]
      \o [c \in 1 .. n |-> edge("left_siblings", c - 1, IF c > 1 \/ rollCount > 0 THEN 1 ELSE 0)]

\* The first child list of v whose field the grammar does not declare
Declared(t, v, g) ==
  t.class[v] \in DOMAIN F.edges.kids /\ t.kids[v][g].lbl \in DOMAIN F.edges.kids[t.class[v]]
GoodLists(t, v) ==
  LET bad == {g \in DOMAIN t.kids[v] : ~Declared(t, v, g)}
  IN  IF bad = {} THEN Len(t.kids[v]) ELSE Min(bad) - 1

flattenEdges(t, i) ==
  LET v == t.order[i + 1]
      rollCount(g) == Len(FlattenSeq([h \in 1 .. g - 1 |-> t.kids[v][h].nodes]))
  IN  FlattenSeq([g \in 1 .. GoodLists(t, v) |->
        ListWrites(i, t.kids[v][g].lbl, t.class[v], t.leftmost[i] + rollCount(g),
                   Len(t.kids[v][g].nodes), rollCount(g))])

\* flattenNode throws
Bad(t, v) == GoodLists(t, v) < Len(t.kids[v]) \/ t.class[v] \notin DOMAIN F.tokens

\* The class of an object or its interface declares the field of an attribute
IsStored(T, class, a) ==
  /\ a.owner = class \/ (class \in DOMAIN T.ifaces /\ a.owner = T.ifaces[class])
  /\ a.owner \in DOMAIN T.columns /\ a.col \in T.columns[a.owner][a.buf]

\* IdToks.indexOf, for an id that is there
IndexOf(toks, id) == SelectInSeq(toks, LAMBDA t : t = id) - 1

\* Mutant: an id gets a token at every occurrence
Tokenized_Again(toks, ids) == toks \o ids

\* tokenize, for a sequence of ids
Tokenized(toks, ids) ==
  LET with(t, id) == IF Contains(t, id) THEN t ELSE Append(t, id)
      after[k \in Nat] == IF k = 0 THEN toks ELSE with(after[k - 1], ids[k])
  IN  after[Len(ids)]

\* flattenNode
flattenNode(t, i, toks) ==
  LET v == t.order[i + 1]
      stored(a) == IF IsStored(F, t.class[v], a) THEN <<Write(a.buf, a.col, i, a.val)>> ELSE <<>>
  IN  flattenEdges(t, i) \o
      (IF Bad(t, v) THEN <<>>
       ELSE <<Write("grammartokens", 0, i, F.tokens[t.class[v]])>>
            \o (IF t.id[v] = None THEN <<>>
                ELSE <<Write("nodeindex", F.edges.id, i, IndexOf(toks, Lower[t.id[v]]))>>)
            \o FlattenSeq([k \in DOMAIN t.attrs[v] |-> stored(t.attrs[v][k])]))

\* How many nodes flatten gets through: all, or those before one that throws
Reached(t) ==
  LET bad == {i \in 0 .. treeSize(t) - 1 : Bad(t, t.order[i + 1])}
  IN  IF bad = {} THEN treeSize(t) ELSE Min(bad)

\* tokens after a load that started with toks
TokensAfter(t, toks) ==
  LET named(v) == IF t.id[v] = None THEN <<>> ELSE <<Lower[t.id[v]]>>
  IN  Tokenized(toks, FlattenSeq([k \in 1 .. Reached(t) |-> named(t.order[k])]))

\* A column buffer of that size, zeroed and written; a later write replaces an earlier one
Image(writes, b, n, size) ==
  LET offset(k) == writes[k].col * n + writes[k].idx
      mine == {k \in DOMAIN writes : writes[k].buf = b}
      at == {offset(k) : k \in mine}
  IN  [o \in at \cup 0 .. size - 1 |->
         IF o \in at THEN writes[Max({k \in mine : offset(k) = o})].val ELSE 0]

\* The buffers after flatten
Flattened(t, toks) ==
  LET n == treeSize(t)
      writes == FlattenSeq([i \in 1 .. Min({n, Reached(t) + 1}) |-> flattenNode(t, i - 1, toks)])
  IN  [b \in Buffers |-> Image(writes, b, n, F.sizes[b] * n)]

-----------------------------------------------------------------------------
(* loadData, and what loadDataFlat does with the same tree.                *)

InitTree(e, ignore) ==
  /\ engine = e /\ ignoreCL = ignore
  /\ doc = None /\ broken = FALSE
  /\ tree_size = 0 /\ levels = <<>> /\ tokens = <<>>
  /\ mem = [b \in Buffers |-> <<>>]

\* loadData.  Bindings without buffers throw at once.  A node that throws leaves the
\* new tree_size with the levels of the old tree; on a device the old buffers stay
LoadData(d, t) ==
  LET done == IF B.allocates THEN Reached(t) ELSE -1
      toks == IF B.allocates THEN TokensAfter(t, tokens) ELSE tokens
  IN
  /\ doc' = d
  /\ broken' = (done < treeSize(t))
  /\ tree_size' = treeSize(t)
  /\ tokens' = toks
  /\ levels' = IF broken' THEN levels ELSE t.levels
  /\ mem' = IF ~B.allocates \/ (broken' /\ ~ignoreCL) THEN mem ELSE Flattened(t, toks)
  /\ UNCHANGED <<engine, ignoreCL>>

\* loadDataFlat, which wants WebCL, and loadDataFlatMt, which does not: the buffers and
\* the tokens of a file that was flattened on its own
LoadDataFlat(d, t) ==
  LET toks == TokensAfter(t, <<>>) IN
  /\ Reached(t) = treeSize(t)        \* compress had no exception
  /\ doc' = d /\ broken' = FALSE
  /\ tree_size' = treeSize(t)
  /\ tokens' = toks
  /\ levels' = t.levels
  /\ mem' = Flattened(t, toks)
  /\ UNCHANGED <<engine, ignoreCL>>

\* CLDataWrapper.get on a field, and the macros of the kernels
Get(buf, col, i) == mem[buf][col * tree_size + i]
Edge(name, i) == Get("nodeindex", B.edges[name], i)

-----------------------------------------------------------------------------
(* Properties.                                                             *)

Loaded == doc # None /\ ~broken
Tree == Trees[doc]
Index(t, v) == IndexOf(t.order, v)

\* A node's list of a label is what leftmost_child and the run of right_siblings give
ListsAreKept(t) ==
  \A v \in 1 .. treeSize(t) : \A g \in DOMAIN t.kids[v] :
    LET i == Index(t, v)
        list == t.kids[v][g]
        first == i + Get("nodeindex", B.edges.kids[t.class[v]][list.lbl], i)
        ends == {j \in first .. tree_size - 1 : Edge("right_siblings", j) = 0}
    IN  list.nodes # <<>> =>
          /\ ends # {}
          /\ first .. Min(ends) = {Index(t, w) : w \in ToSet(list.nodes)}
          /\ first = Index(t, list.nodes[1])

\* Children know their parent and their left neighbour
ChildrenAreKept(t) ==
  \A v \in 1 .. treeSize(t) : \A k \in DOMAIN t.childs[v] :
    LET i == Index(t, t.childs[v][k])
    IN  /\ Edge("parent", i) = Index(t, v)
        /\ IF k = 1 THEN Edge("left_siblings", i) = 0
           ELSE Index(t, t.childs[v][k - 1]) = i - Edge("left_siblings", i)

\* Every level holds exactly the children of the level before
LevelsAreKept ==
  \A k \in DOMAIN levels :
    LET nodes(l) == levels[l].start_idx .. levels[l].start_idx + levels[l].length - 1
    IN  IF k = 1 THEN nodes(k) = {0}
        ELSE nodes(k) = {i \in 1 .. tree_size - 1 : Edge("parent", i) \in nodes(k - 1)}

\* The edges flattenEdges wrote with its counters are those of the document: lists,
\* parents, neighbours and levels
TreeIsKept == Loaded => ListsAreKept(Tree) /\ ChildrenAreKept(Tree) /\ LevelsAreKept

\* The engine's memory has an attribute in every cell of t the document gives a value
\* for, a proxy for each, and zeros elsewhere
CellsHold(m, t) ==
  \A v \in 1 .. treeSize(t), b \in {"int", "float"} :
    LET cell(col) == col * treeSize(t) + Index(t, v)
        given == {a \in ToSet(t.attrs[v]) : a.buf = b /\ IsStored(B, t.class[v], a)}
    IN  /\ \A a \in given : m[b][cell(a.col)] = a.val /\ a.owner \in B.proxies
        /\ \A col \in (0 .. B.sizes[b] - 1) \ {a.col : a \in given} : m[b][cell(col)] = 0

\* A load stores every attribute a class or its interface declares in a place of its
\* own: the engine reads it back there, also when other bindings flattened it, and the
\* page has a proxy for it; what the document does not give is zero
ValuesAreKept == [][doc' # doc /\ ~broken' => CellsHold(mem', Tree')]_<<doc, mem>>

=============================================================================
