----------------------------- MODULE Selectors ------------------------------
(***************************************************************************)
(* Style sheets on a flattened tree.  Three engines share the parser and   *)
(* the tables: selectors.js ("js"), selectorsGPU.js, which first packs the *)
(* tables into arrays ("flat"), and selectorEngine of CLRunner.js, which   *)
(* generates a WebCL kernel ("cl").                                        *)
(*                                                                         *)
(* Loading, compiling and running come in any order: a compiled sheet      *)
(* keeps the id tokens of the moment it was compiled.                      *)
(*                                                                         *)
(* Abstractions.  A sheet is a sequence of rules; a rule is the lexemes of *)
(* its selectors, white space collapsed, and the values of its properties, *)
(* parsed, by the column of the field.  A node's visit writes its own      *)
(* layout fields only, so that the order of the nodes does not matter.  A  *)
(* page that goes on after the exception of a failed load is left out.     *)
(***************************************************************************)
EXTENDS FlatTree

CONSTANTS
  IdWeight, TagWeight,     \* 2^30 and 2^12
  Wrap,                    \* 2^32, the unsigned int of the kernel
  Sheets,                  \* the style sheets, by name
  Scenes                   \* by number: engine, ignoreCL, documents, sheets, bounds on calls

VARIABLES
  scene,
  calls,          \* loads and compilations so far
  kernel,         \* the compiled sheet: engine, sheet, id tokens, hits
  selectors_buffer   \* its length; allocated once

vars == <<treeVars, scene, calls, kernel, selectors_buffer>>

ASSUME WeightsSeparate == /\ TagWeight \in Nat \ {0} /\ IdWeight \in Nat \ {0} /\ Wrap \in Nat \ {0}
                          /\ TagWeight < IdWeight /\ IdWeight < Wrap

\* A sheet is a sequence of rules, the text of a rule one of lexemes
ASSUME SheetsAreRules ==
  \A s \in DOMAIN Sheets :
    /\ Sheets[s] \in Seq(ToSet(Sheets[s]))
    /\ \A r \in DOMAIN Sheets[s] : Sheets[s][r].text \in Seq(Seq(STRING))

\* A scene's sheets set fields the bindings of its engine have
ASSUME ScenesAreSheetsAndDocuments ==
  \A n \in DOMAIN Scenes :
    /\ Scenes[n].engine \in DOMAIN kbindings /\ Scenes[n].ignoreCL \in BOOLEAN
    /\ Scenes[n].docs \subseteq DOMAIN Documents /\ Scenes[n].sheets \subseteq DOMAIN Sheets
    /\ Scenes[n].loads \in Nat /\ Scenes[n].calls \in Nat
    /\ \A s \in Scenes[n].sheets : \A r \in DOMAIN Sheets[s] : \A p \in Sheets[s][r].props :
         p.buf \in {"int", "float"} /\ p.col \in 0 .. kbindings[Scenes[n].engine].sizes[p.buf] - 1

-----------------------------------------------------------------------------
(* Phase 0: parsing.  A lexeme is <<"word", tag, "">>, <<"hash", tag, id>> *)
(* or a separator <<",">>, <<"+">>, <<">">>, <<" ">>.                      *)

Kind(x) == x[1]

\* split(sep)
Split(s, sep) ==
  LET seps == {i \in DOMAIN s : Kind(s[i]) = sep}
      cut[k \in Nat] == IF k = 0 THEN 0 ELSE Min({i \in seps : cut[k - 1] < i} \cup {Len(s) + 1})
  IN  [k \in 1 .. Cardinality(seps) + 1 |-> SubSeq(s, cut[k - 1] + 1, cut[k] - 1)]

\* trim()
Trim(s) ==
  LET solid == {i \in DOMAIN s : Kind(s[i]) # " "}
  IN  IF solid = {} THEN <<>> ELSE SubSeq(s, Min(solid), Max(solid))

parsePredicate(word) ==
  IF word = <<>> THEN [tag |-> "", id |-> ""]
  ELSE [tag |-> IF Kind(word[1]) = "hash" /\ word[1][2] = "" THEN "*" ELSE word[1][2],
        id |-> word[1][3]]

\* The parts, with a combinator pushed before each but the first
Joined(parts, op) ==
  [preds |-> FlattenSeq([k \in DOMAIN parts |-> parts[k].preds]),
   ops   |-> FlattenSeq([k \in DOMAIN parts |-> IF k = 1 THEN parts[k].ops ELSE <<op>> \o parts[k].ops])]

\* Mutant: descendants are split before children, as if ' ' bound less than '>'
parseSelector_SpaceFirst(text) ==
  LET word(w) == [preds |-> <<parsePredicate(w)>>, ops |-> <<>>]
      pars(s) == LET p == Split(s, ">") IN Joined([k \in DOMAIN p |-> word(Trim(p[k]))], ">")
      des(s) == LET p == Split(Trim(s), " ") IN Joined([k \in DOMAIN p |-> pars(p[k])], " ")
      sibs == Split(Trim(text), "+")
  IN  Joined([k \in DOMAIN sibs |-> des(sibs[k])], "+")

\* One selector: siblings of children of descendants
parseSelector(text) ==
  LET word(w) == [preds |-> <<parsePredicate(w)>>, ops |-> <<>>]
      des(s) == LET p == Split(Trim(s), " ") IN Joined([k \in DOMAIN p |-> word(p[k])], " ")
      pars(s) == LET p == Split(Trim(s), ">") IN Joined([k \in DOMAIN p |-> des(p[k])], ">")
      sibs == Split(Trim(text), "+")
  IN  Joined([k \in DOMAIN sibs |-> pars(sibs[k])], "+")

parsePredicates(text) ==
  LET sels == Split(text, ",") IN [k \in DOMAIN sels |-> parseSelector(sels[k])]

\* parse: the selectors of every rule
parse == [s \in DOMAIN Sheets |-> [r \in DOMAIN Sheets[s] |-> parsePredicates(Sheets[s][r].text)]]

\* A word of a scene's sheets names a class its bindings have a token for, or none:
\* classToToken throws for any other
ASSUME SheetsNameClasses ==
  /\ \A n \in DOMAIN Scenes : \A s \in Scenes[n].sheets : \A r \in DOMAIN parse[s] : \A p \in DOMAIN parse[s][r] :
       \A q \in DOMAIN parse[s][r][p].preds :
         LET pred == parse[s][r][p].preds[q]
         IN  /\ pred.tag \in {"", "*"} \cup DOMAIN kbindings[Scenes[n].engine].tokens
             /\ pred.id \in {""} \cup DOMAIN Lower
  /\ \A id \in DOMAIN Lower : Lower[id] = "" => id = ""

-----------------------------------------------------------------------------
(* Phase 1: tokens and tables.                                             *)

StarTok == 0
NoIdTok(toks) == IndexOf(toks, "")

\* The ids of a sheet, in order
SheetIds(s) ==
  LET rules == parse[s]
      idOf(p) == IF p.id = "" THEN <<>> ELSE <<p.id>>
      idsOf(sel) == FlattenSeq([k \in DOMAIN sel.preds |-> idOf(sel.preds[k])])
      ids == FlattenSeq([r \in DOMAIN rules |-> FlattenSeq([p \in DOMAIN rules[r] |-> idsOf(rules[r][p])])])
  IN  [k \in DOMAIN ids |-> Lower[ids[k]]]

\* Mutant: a sheet starts a list of its own
TokensWith_Fresh(s, toks) == Tokenized(<<"">>, SheetIds(s))

\* IdToks after tokenize: '' and the ids of the sheet are added
TokensWith(s, toks) == Tokenized(Tokenized(toks, <<"">>), SheetIds(s))

tokenizePred(p, toks) ==
  [tag |-> IF p.tag \in {"", "*"} THEN StarTok ELSE B.tokens[p.tag],
   id |-> IF p.id = "" THEN NoIdTok(toks) ELSE IndexOf(toks, Lower[p.id])]

specificity(sel, line, toks) ==
  LET a == Cardinality({k \in DOMAIN sel.preds : sel.preds[k].id # NoIdTok(toks)})
      c == Cardinality({k \in DOMAIN sel.preds : sel.preds[k].tag # StarTok})
  IN  a * IdWeight + c * TagWeight + line

\* The hits hash() makes, in the order of the sheet
Hits(s, toks) ==
  LET rules == parse[s]
      sel(r, p) == [preds |-> [q \in DOMAIN rules[r][p].preds |-> tokenizePred(rules[r][p].preds[q], toks)],
                    ops |-> rules[r][p].ops]
      hit(r, p) == [propList |-> r, number |-> p, sel |-> sel(r, p),
                    specificity |-> specificity(sel(r, p), r - 1, toks)]
  IN  FlattenSeq([r \in DOMAIN rules |-> [p \in DOMAIN rules[r] |-> hit(r, p)]])

LastPred(hit) == Last(hit.sel.preds)
IsStar(hit, toks) == LastPred(hit).id = NoIdTok(toks) /\ LastPred(hit).tag = StarTok

\* Mutant: the lists stay in the order of the sheet
Sorted_Not(hits) == hits

Sorted(hits) == SortSeq(hits, LAMBDA g, h : g.specificity < h.specificity)

\* hash: by the last predicate's id, else its tag, else in the list star
idHash(k, id) == Sorted(SelectSeq(k.hits, LAMBDA h : id # NoIdTok(k.toks) /\ LastPred(h).id = id))
tagHash(k, tag) ==
  Sorted(SelectSeq(k.hits, LAMBDA h : LastPred(h).id = NoIdTok(k.toks) /\ tag # StarTok
                                        /\ LastPred(h).tag = tag))
star(k) == SelectSeq(k.hits, LAMBDA h : IsStar(h, k.toks))

\* flattenSelectors: the lists of the tags, then those of the ids, end to end
FlatHits(k) ==
  LET tagged == FlattenSeq([t \in 1 .. 15 |-> tagHash(k, t)])
      named == FlattenSeq([i \in DOMAIN k.toks |-> idHash(k, i - 1)])
  IN  tagged \o named
\* A selector read back from the arrays combinators, tags and ids
FlatSel(k, hit) ==
  LET all == FlatHits(k)
      j == IndexOf(all, hit) + 1
      preds == FlattenSeq([h \in DOMAIN all |-> all[h].sel.preds])
      combinators == FlattenSeq([h \in DOMAIN all |-> all[h].sel.ops])
      before == SubSeq(all, 1, j - 1)
      idIdx == Len(FlattenSeq([h \in DOMAIN before |-> before[h].sel.preds]))
      combIdx == Len(FlattenSeq([h \in DOMAIN before |-> before[h].sel.ops]))
      len == 2 * Len(hit.sel.preds) - 1
  IN  [preds |-> [q \in 1 .. (len + 1) \div 2 |-> preds[idIdx + q]],
       ops |-> [q \in 1 .. (len - 1) \div 2 |-> combinators[combIdx + q]]]

-----------------------------------------------------------------------------
(* Matching a node against a selector, from right to left.                 *)

matchPredicate(p, i, noId) ==
  /\ p.id # noId => Edge("id", i) = p.id
  /\ p.tag # StarTok => Get("grammartokens", 0, i) = p.tag

Ancestors(i) ==
  LET above[j \in 0 .. tree_size - 1] ==
        IF j = 0 THEN {} ELSE {Edge("parent", j)} \cup above[Edge("parent", j)]
  IN  above[i]

\* Mutant: the search for an ancestor goes on to the last one that matches
nearest_Furthest(S) == Min(S)

\* The while loop of ' ' stops at the first ancestor that matches; indices fall
\* on the way up
nearest(S) == Max(S)

\* Mutant: '+' takes the node at the index before for a sibling
Climb_AnyLeft(op, p, at, noId) ==
  LET left == at.node - at.sib
      up == Edge("parent", at.node)
      found == {a \in Ancestors(at.node) : matchPredicate(p, a, noId)}
  IN  CASE op = " " ->
             IF found = {} THEN [at EXCEPT !.ok = FALSE]
             ELSE [ok |-> TRUE, node |-> nearest(found), sib |-> 0]
        [] op = ">" ->
             [ok |-> at.node # 0 /\ matchPredicate(p, up, noId), node |-> up, sib |-> 0]
        [] op = "+" ->
             [ok |-> left # 0 /\ matchPredicate(p, left - 1, noId),
              node |-> at.node, sib |-> at.sib + 1]

\* One combinator: nextNodeIdx, nextSib and whether the match goes on
Climb(op, p, at, noId) ==
  LET left == at.node - at.sib
      up == Edge("parent", at.node)
      found == {a \in Ancestors(at.node) : matchPredicate(p, a, noId)}
  IN  CASE op = " " ->
             IF found = {} THEN [at EXCEPT !.ok = FALSE]
             ELSE [ok |-> TRUE, node |-> nearest(found), sib |-> 0]
        [] op = ">" ->
             [ok |-> at.node # 0 /\ matchPredicate(p, up, noId), node |-> up, sib |-> 0]
        [] op = "+" ->
             [ok |-> Edge("left_siblings", left) # 0 /\ matchPredicate(p, left - 1, noId),
              node |-> at.node, sib |-> at.sib + 1]

\* matchNodeSelector, matchNodeSelectorGPU, matchSelector<hash>_<i>_<j>
matchSelector(sel, i, noId) ==
  LET n == Len(sel.preds)
      from[q \in 1 .. n] ==
        IF q = n THEN [ok |-> matchPredicate(sel.preds[n], i, noId) /\ (n > 1 => i # 0),
                       node |-> i, sib |-> 0]
        ELSE LET at == from[q + 1]
             IN  IF at.ok THEN Climb(sel.ops[q], sel.preds[q], at, noId) ELSE at
  IN  from[1].ok

-----------------------------------------------------------------------------
(* The rules of a node in the order in which they are applied.             *)

\* matchNode and matchNodeGPU of the scripts: two lists, the star rules are not asked
NextJs(ids, tags, stars, at) ==
  CASE at.id > Len(ids) -> "tag"
    [] at.tag > Len(tags) -> "id"
    [] OTHER -> IF ids[at.id].specificity < tags[at.tag].specificity THEN "id" ELSE "tag"

\* getSpecId, getSpecTag, getSpecStar: the constant, as an unsigned int
getSpec(hit) == hit.specificity % Wrap

\* Mutant: a list of tag rules that has come to its end is still preferred
NextCl_Overrun(ids, tags, stars, at) ==
  LET idLeft == at.id <= Len(ids)
      tagLeft == at.tag <= Len(tags)
      starLeft == at.star <= Len(stars)
      tryId == /\ idLeft
               /\ tagLeft => getSpec(ids[at.id]) < getSpec(tags[at.tag])
               /\ starLeft => getSpec(ids[at.id]) < getSpec(stars[at.star])
  IN  IF tryId THEN "id"
      ELSE IF tagLeft /\ starLeft => getSpec(tags[at.tag]) >= getSpec(stars[at.star]) THEN "tag"
      ELSE "star"

\* The loop of the kernel
NextCl(ids, tags, stars, at) ==
  LET idLeft == at.id <= Len(ids)
      tagLeft == at.tag <= Len(tags)
      starLeft == at.star <= Len(stars)
      tryId == /\ idLeft
               /\ tagLeft => getSpec(ids[at.id]) < getSpec(tags[at.tag])
               /\ starLeft => getSpec(ids[at.id]) < getSpec(stars[at.star])
  IN  IF tryId THEN "id"
      ELSE IF tagLeft /\ (starLeft => getSpec(tags[at.tag]) >= getSpec(stars[at.star])) THEN "tag"
      ELSE "star"

\* The rules node i is tried with, in order.  An offset past the end of its list
\* is the default of the switch: nothing is tried
Visits(k, i) ==
  LET ids == idHash(k, Edge("id", i))
      tags == tagHash(k, Get("grammartokens", 0, i))
      stars == IF k.kind = "cl" THEN star(k) ELSE <<>>
      turn(at) ==
        LET list == IF k.kind = "cl" THEN NextCl(ids, tags, stars, at) ELSE NextJs(ids, tags, stars, at)
            hits == CASE list = "id" -> ids [] list = "tag" -> tags [] list = "star" -> stars
        IN  [at EXCEPT ![list] = @ + 1,
                       !.out = IF at[list] \in DOMAIN hits THEN Append(@, hits[at[list]]) ELSE @]
      after[t \in Nat] == IF t = 0 THEN [id |-> 1, tag |-> 1, star |-> 1, out |-> <<>>]
                          ELSE turn(after[t - 1])
  IN  after[Len(ids) + Len(tags) + Len(stars)].out

\* The rules that apply to node i, in order
Applied(k, i) ==
  SelectSeq(Visits(k, i),
            LAMBDA h : matchSelector(IF k.kind = "flat" THEN FlatSel(k, h) ELSE h.sel, i, NoIdTok(k.toks)))

\* The columns a sheet sets
Columns(s, b) == {p.col : p \in {q \in UNION {Sheets[s][r].props : r \in DOMAIN Sheets[s]} : q.buf = b}}

\* applySelector, applyProperties and the appliers: each rule overwrites the last
SetBy(k, rules, b, col) ==
  LET props(r) == Sheets[k.sheet][rules[r].propList].props
      setters == {r \in DOMAIN rules : \E p \in props(r) : p.buf = b /\ p.col = col}
  IN  IF setters = {} THEN {} ELSE {p \in props(Max(setters)) : p.buf = b /\ p.col = col}

-----------------------------------------------------------------------------
(* Actions.                                                                *)

NoKernel == [kind |-> None]

Init ==
  /\ scene \in DOMAIN Scenes
  /\ InitTree(Scenes[scene].engine, Scenes[scene].ignoreCL)
  /\ calls = [loads |-> 0, sheets |-> 0]
  /\ kernel = NoKernel
  /\ selectors_buffer = 0

\* loadData, loadDataFlat
Load(d, flat) ==
  /\ calls.loads < Scenes[scene].loads
  /\ IF flat THEN LoadDataFlat(d, Trees[d]) ELSE LoadData(d, Trees[d])
  /\ calls' = [calls EXCEPT !.loads = @ + 1]
  /\ UNCHANGED <<scene, kernel, selectors_buffer>>

\* setSelectors, or the scripts' selectors(): they add to the tokens they are
\* given, also when the kernel does not build
SetSelectors(kind, s, fails) ==
  /\ calls.sheets < Scenes[scene].calls
  /\ kind = "cl" => ~ignoreCL
  /\ fails => kind = "cl"
  /\ tokens' = TokensWith(s, tokens)
  /\ kernel' = IF fails THEN kernel ELSE [kind |-> kind, sheet |-> s, toks |-> tokens', hits |-> Hits(s, tokens')]
  /\ calls' = [calls EXCEPT !.sheets = @ + 1]
  /\ UNCHANGED <<engine, ignoreCL, doc, broken, tree_size, levels, mem, scene, selectors_buffer>>

\* runSelectors: one work item per node, or the levels one after the other
RunSelectors ==
  /\ kernel # NoKernel
  /\ doc # None /\ ~broken
  /\ LET styledIn(b) == {col * tree_size + i : col \in Columns(kernel.sheet, b), i \in 0 .. tree_size - 1}
         value(b, o) ==
           LET set == SetBy(kernel, Applied(kernel, o % tree_size), b, o \div tree_size)
           IN  IF set = {} THEN mem[b][o] ELSE (CHOOSE p \in set : TRUE).val
         run(b, styled) == [o \in styled \cup DOMAIN mem[b] |-> IF o \in styled THEN value(b, o) ELSE mem[b][o]]
     IN  mem' = [b \in Buffers |-> run(b, styledIn(b))]
  /\ selectors_buffer' = IF kernel.kind = "cl" /\ selectors_buffer = 0 THEN 2 * tree_size
                         ELSE selectors_buffer
  /\ UNCHANGED <<engine, ignoreCL, doc, broken, tree_size, levels, tokens, scene, calls, kernel>>

Next ==
  \/ \E d \in Scenes[scene].docs, flat \in BOOLEAN : Load(d, flat)
  \/ \E s \in Scenes[scene].sheets, kind \in {"js", "flat", "cl"}, fails \in BOOLEAN : SetSelectors(kind, s, fails)
  \/ RunSelectors

Spec == Init /\ [][Next]_vars

-----------------------------------------------------------------------------
(* What style sheets mean, on the document.                                *)

Fits(t, p, v) ==
  /\ p.id # "" => t.id[v] # None /\ Lower[t.id[v]] = Lower[p.id]
  /\ p.tag \notin {"", "*"} => t.class[v] = p.tag

\* The nodes each combinator leads to from v
ParentsOf(t, v) == {u \in 1 .. treeSize(t) : v \in ToSet(t.childs[u])}
AncestorsOf(t, v) ==
  LET up[n \in Nat] == IF n = 0 THEN {v}
                       ELSE LET S == up[n - 1] IN S \cup UNION {ParentsOf(t, u) : u \in S}
  IN  up[treeSize(t)] \ {v}
LeftOf(t, v) ==
  {w \in 1 .. treeSize(t) : \E u \in ParentsOf(t, v) : \E k \in 2 .. Len(t.childs[u]) :
     t.childs[u][k] = v /\ t.childs[u][k - 1] = w}
RelatedIn(t) ==
  [op \in {" ", ">", "+"} |->
     [v \in 1 .. treeSize(t) |->
        CASE op = " " -> AncestorsOf(t, v)
          [] op = ">" -> ParentsOf(t, v)
          [] op = "+" -> LeftOf(t, v)]]
Related == [d \in DOMAIN Documents |-> RelatedIn(Trees[d])]

\* The nodes of t a selector selects: some choice of related nodes fits its predicates
Selected(t, related, sel) ==
  LET fitting(q) == {w \in 1 .. treeSize(t) : Fits(t, sel.preds[q], w)}
      upTo[q \in 1 .. Len(sel.preds)] ==
        IF q = 1 THEN fitting(1)
        ELSE LET S == upTo[q - 1] IN {w \in fitting(q) : related[sel.ops[q - 1]][w] \cap S # {}}
  IN  upTo[Len(sel.preds)]

\* No child or sibling combinator stands left of a descendant one
DescendantsFirst(sel) ==
  \A q, r \in DOMAIN sel.ops : q < r /\ sel.ops[r] = " " => sel.ops[q] = " "

\* The limit of the id column: a node without an id keeps its zero, and zero is the
\* token of the first id there was.  The engines take such a node for one with that id
TellsIds(t, sel) ==
  \/ \A v \in 1 .. treeSize(t) : t.id[v] # None
  \/ \A q \in DOMAIN sel.preds : sel.preds[q].id # "" => Lower[sel.preds[q].id] # tokens[1]

\* Ids, then tags, then the place in the sheet
Rank(sel, r) ==
  <<Cardinality({q \in DOMAIN sel.preds : sel.preds[q].id # ""}),
    Cardinality({q \in DOMAIN sel.preds : sel.preds[q].tag \notin {"", "*"}}), r>>
Below(x, y) ==
  \/ x[1] < y[1]
  \/ x[1] = y[1] /\ x[2] < y[2]
  \/ x[1] = y[1] /\ x[2] = y[2] /\ x[3] < y[3]

\* Compiled against the tokens the loaded tree has
Current == kernel # NoKernel /\ doc # None /\ ~broken /\ IsPrefix(kernel.toks, tokens)

-----------------------------------------------------------------------------
(* Properties.                                                             *)

\* Type invariant: every id has one token, and the memory is as large as the tree
\* and its bindings ask for, unless a load threw
TypeOK ==
  /\ scene \in DOMAIN Scenes /\ engine \in DOMAIN kbindings /\ ignoreCL \in BOOLEAN
  /\ doc \in Scenes[scene].docs \cup {None}
  /\ calls \in [loads : 0 .. Scenes[scene].loads, sheets : 0 .. Scenes[scene].calls]
  /\ IsInjective(tokens)
  /\ kernel # NoKernel => kernel.sheet \in Scenes[scene].sheets /\ kernel.kind \in {"js", "flat", "cl"}
  /\ Loaded => /\ tree_size = treeSize(Tree)
               /\ \A b \in Buffers : DOMAIN mem[b] = 0 .. B.sizes[b] * tree_size - 1

\* parsePredicates, which splits at one kind of separator after the other, reads a
\* selector as it is written: its words from left to right, and between two of them
\* the combinator that stands there, white space around it or not
ParsesAsWritten ==
  kernel # NoKernel =>
  \A r \in DOMAIN Sheets[kernel.sheet] :
    LET texts == Split(Sheets[kernel.sheet][r].text, ",")
    IN  \A p \in DOMAIN texts :
          LET text == texts[p]
              words == SelectSeq([i \in DOMAIN text |-> i], LAMBDA i : Kind(text[i]) \in {"word", "hash"})
              between(k) == {Kind(text[i]) : i \in words[k] + 1 .. words[k + 1] - 1}
              op(k) == IF between(k) = {" "} THEN " " ELSE CHOOSE o \in between(k) : o # " "
          IN  parse[kernel.sheet][r][p] =
                [preds |-> [k \in DOMAIN words |-> parsePredicate(<<text[words[k]]>>)],
                 ops |-> [k \in 1 .. Len(words) - 1 |-> op(k)]]

\* The nodes an engine matches with a selector of the compiled sheet
Matched(t, h) == {v \in 1 .. treeSize(t) : matchSelector(h.sel, Index(t, v), NoIdTok(kernel.toks))}
Written(h) == parse[kernel.sheet][h.propList][h.number]

\* Whatever an engine matches, by climbing parent indices and counting left over
\* neighbours, the selector selects on the document.  Not claimed of a selector with the
\* first id there was, on a tree with a node that has none
MatchIsSound ==
  Current =>
  \A h \in ToSet(kernel.hits) :
    TellsIds(Tree, Written(h)) => Matched(Tree, h) \subseteq Selected(Tree, Related[doc], Written(h))

\* The matcher never goes back to another ancestor: it still finds every node of
\* a selector in which no '>' or '+' stands left of a ' '
MatchIsComplete ==
  Current =>
  \A h \in ToSet(kernel.hits) :
    DescendantsFirst(Written(h)) => Selected(Tree, Related[doc], Written(h)) \subseteq Matched(Tree, h)

\* The merge of the lists of a node ends with each of its rules tried once
MergeVisitsAll ==
  Current =>
  \A i \in 0 .. tree_size - 1 :
    LET mine == {h \in ToSet(kernel.hits) :
                   \/ LastPred(h).id # NoIdTok(kernel.toks) /\ LastPred(h).id = Edge("id", i)
                   \/ LastPred(h).id = NoIdTok(kernel.toks)
                        /\ LastPred(h).tag = Get("grammartokens", 0, i)
                   \/ IsStar(h, kernel.toks) /\ kernel.kind = "cl"}
    IN  ToSet(Visits(kernel, i)) = mine /\ Len(Visits(kernel, i)) = Cardinality(mine)

\* Sheets the engines give CSS's meaning: the matcher finds all nodes of a selector
\* and no other, no rule is for every node, and specificities fit an unsigned int
InOrder ==
  \A h \in ToSet(kernel.hits) :
    /\ DescendantsFirst(h.sel)
    /\ TellsIds(Tree, Written(h))
    /\ ~IsStar(h, kernel.toks)
    /\ h.specificity < Wrap

\* Every field is set by the rule of the highest rank that selects its node and
\* sets it, or keeps its value
Cascaded(t, related, rules) ==
  LET selected == [r \in DOMAIN rules |-> [p \in DOMAIN rules[r] |-> Selected(t, related, rules[r][p])]]
      props(r) == Sheets[kernel.sheet][r].props
      setting(b, o) ==
        {x \in UNION {{r} \X DOMAIN rules[r] : r \in DOMAIN rules} :
           /\ \E q \in props(x[1]) : q.buf = b /\ q.col = o \div tree_size
           /\ t.order[(o % tree_size) + 1] \in selected[x[1]][x[2]]}
      rank(x) == Rank(rules[x[1]][x[2]], x[1])
      top(S) == CHOOSE x \in S : \A y \in S : ~Below(rank(x), rank(y))
      value(S, b, o) == (CHOOSE q \in props(top(S)[1]) : q.buf = b /\ q.col = o \div tree_size).val
  IN  \A b \in Buffers : \A o \in DOMAIN mem[b] :
        LET S == setting(b, o)
        IN  mem'[b][o] = IF S = {} THEN mem[b][o] ELSE value(S, b, o)

\* Running a sheet within the limits of InOrder gives a field the value CSS gives it: of
\* the rules that select the node and set the field the one of the highest rank decides,
\* or the value there was
CascadeIsKept ==
  [][RunSelectors /\ Current /\ InOrder => Cascaded(Tree, Related[doc], parse[kernel.sheet])]_vars

\* The kernel tries the rules of a node from the lowest specificity to the highest, as
\* hash says of its lists, the one of the rules for every node included, as long as
\* specificities fit an unsigned int.  A later rule overwrites the fields of the others
LowestFirst ==
  Current /\ kernel.kind = "cl" /\ (\A h \in ToSet(kernel.hits) : h.specificity < Wrap) =>
  \A i \in 0 .. tree_size - 1 :
    LET tried == Visits(kernel, i)
    IN  \A x, y \in DOMAIN tried : x < y => tried[x].specificity <= tried[y].specificity

\* A compiled sheet outlives loads: loadData and other sheets only add tokens.  Only
\* loadDataFlat replaces them, and leaves the sheet with ids of another tree
TokensOnlyGrow ==
  [][ (\A d \in Scenes[scene].docs : ~Load(d, TRUE)) => IsPrefix(tokens, tokens') ]_vars

=============================================================================
