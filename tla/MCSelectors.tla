---------------------------- MODULE MCSelectors -----------------------------
(***************************************************************************)
(* Instances of Selectors.  One document per example with every field its  *)
(* classes and interfaces declare; small documents of boxes, with a deep   *)
(* chain, neighbours, empty lists, nodes without ids and a child list the  *)
(* grammar does not know; every selector of up to three words over a few   *)
(* words and all spellings of the combinators; sheets whose rules compete. *)
(***************************************************************************)
EXTENDS Selectors, ExampleData

MCLower == [id \in {"a", "A", "b", "B"} |-> CASE id = "A" -> "a" [] id = "B" -> "b" [] OTHER -> id]

\* Every field of an object's class and interface, with a value of its own: bindings T
AllFields(T, classes) ==
  LET of(v, owner, b, base) ==
        LET mine == SelectSeq([k \in 1 .. 125 |-> k - 1], LAMBDA k : k \in T.columns[owner][b])
        IN  [k \in DOMAIN mine |-> [owner |-> owner, buf |-> b, col |-> mine[k], val |-> 1000 * v + base + k]]
  IN  [v \in DOMAIN classes |->
         of(v, classes[v], "int", 0) \o of(v, T.ifaces[classes[v]], "int", 200)
         \o of(v, classes[v], "float", 400) \o of(v, T.ifaces[classes[v]], "float", 600)]
Full(T, made) ==
  [class |-> made.class, id |-> [v \in DOMAIN made.class |-> None], kids |-> made.kids,
   attrs |-> AllFields(T, made.class)]

\* Attributes of boxes: one declared by the interface of boxes, one of the root's
Some(n) ==
  [v \in 1 .. n |-> <<[owner |-> "node", buf |-> "int", col |-> 4, val |-> 10 + v],
                     [owner |-> "iroot", buf |-> "int", col |-> 0, val |-> v]>>]

\* What the generators of two examples make
LinegraphData == makeRoot(2, 2)
SunburstData == RandomTree(<< <<2>>, <<1, 0>> >>)

TreemapData ==
  [class |-> <<"root", "countrycontainer", "region", "district", "vsquare", "hsquare", "pollingplace">>,
   kids  |-> [v \in 1 .. 7 |-> IF v < 7 THEN <<List("childs", <<v + 1>>)>> ELSE <<>>]]
BoxesData ==
  [class |-> <<"root", "hbox", "leaf">>,
   kids  |-> << <<List("child", <<2>>)>>, <<List("childs", <<3>>)>>, <<>> >>]

MCDocuments ==
  [treemap |-> Full(treemapBindings, TreemapData),
   boxes |-> Full(boxesBindings, BoxesData),
   linegraph |-> Full(linegraphBindings, LinegraphData),
   sunburst |-> Full(sunburstBindings, SunburstData),
   \* a box with a leaf, a box of leafs and a box with an empty box
   wide |-> [class |-> <<"root", "hbox", "leaf", "hbox", "hbox", "leaf", "leaf", "hbox">>,
             id |-> <<None, "b", "A", None, None, "a", None, None>>,
             kids |-> << <<List("child", <<2>>)>>, <<List("childs", <<3, 4, 5>>)>>, <<>>,
                         <<List("childs", <<6, 7>>)>>, <<List("childs", <<8>>)>>, <<>>, <<>>,
                         <<List("childs", <<>>)>> >>,
             attrs |-> Some(8)],
   deep |-> [class |-> <<"root", "hbox", "hbox", "hbox", "hbox", "leaf">>,
             id |-> <<"a", "a", "b", "a", "a", None>>,
             kids |-> << <<List("child", <<2>>)>>, <<List("childs", <<3>>)>>, <<List("childs", <<4>>)>>,
                         <<List("childs", <<5>>)>>, <<List("childs", <<6>>)>>, <<>> >>,
             attrs |-> Some(6)],
   \* a leaf with children
   wrong |-> [class |-> <<"root", "leaf", "leaf">>, id |-> <<"b", None, None>>,
              kids |-> << <<List("child", <<2>>)>>, <<List("childs", <<3>>)>>, <<>> >>,
              attrs |-> Some(3)]]

-----------------------------------------------------------------------------

H == <<"word", "hbox", "">>
L == <<"word", "leaf", "">>
Star == <<"word", "*", "">>
A == <<"hash", "", "a">>
HB == <<"hash", "hbox", "B">>
C(x) == <<x>>
Des == <<C(" ")>>
Kid == <<C(">")>>
Spellings == <<Des, Kid, <<C(" "), C(">"), C(" ")>>, <<C("+"), C(" ")>>, <<C(","), C(" ")>> >>
Words == << <<H, A>>, <<H, Star>>, <<H, L, A>> >>
\* The n-th selector of three words
Text(n) ==
  LET digit(base, scale) == ((n \div scale) % base) + 1
  IN  <<Words[1][digit(2, 1)]>> \o Spellings[digit(5, 2)] \o <<Words[2][digit(2, 10)]>>
      \o Spellings[digit(5, 20)] \o <<Words[3][digit(3, 100)], C(" ")>>
X(n) == {[buf |-> "int", col |-> 4, val |-> n]}
Rule(text, n) == [text |-> text, props |-> X(n)]
Sib == <<C(" "), C("+"), C(" ")>>

OneRule == [k \in 1 .. 300 |-> <<Rule(Text(k - 1), 99)>>]
Rising ==
  <<Rule(<<L>>, 91), Rule(<<H>> \o Des \o <<L>>, 92), Rule(<<A>>, 93), Rule(<<H>> \o Kid \o <<A>>, 94)>>
Falling ==
  <<Rule(<<H>> \o Kid \o <<A>>, 91), Rule(<<A, C(",")>> \o <<L>>, 92), Rule(<<H>> \o Des \o <<L>>, 93),
    [text |-> <<L>>, props |-> X(94) \cup {[buf |-> "float", col |-> 2, val |-> 95]}]>>
Neighbours ==
  <<Rule(<<HB>> \o Kid \o <<L>> \o Sib \o <<H>>, 91), Rule(<<H>> \o Sib \o <<H>>, 92), Rule(<<H>>, 93)>>
ForAll == <<Rule(<<H>> \o Des \o <<Star>>, 91), Rule(<<Star>>, 92), Rule(<<L>>, 93), Rule(<<A>>, 94)>>
\* The specificity of the second rule is as large as Wrap
FourIds ==
  <<Rule(<<L>>, 91), Rule(<<A>> \o Des \o <<A>> \o Des \o <<A>> \o Des \o <<A>>, 92), Rule(<<A>>, 93)>>
MCSheets == <<Rising, FourIds, Falling, Neighbours, ForAll>> \o OneRule

Scene(e, ignore, docs, sheets, loads, cs) ==
  [engine |-> e, ignoreCL |-> ignore, docs |-> docs, sheets |-> sheets, loads |-> loads, calls |-> cs]
MCScenes ==
  <<Scene("treemap", FALSE, {"treemap"}, {}, 1, 0), Scene("visualization", TRUE, {"treemap"}, {}, 1, 0),
    Scene("linegraph", FALSE, {"linegraph"}, {}, 1, 0),
    Scene("sunburst", FALSE, {"sunburst"}, {}, 1, 0),
    Scene("boxes", TRUE, {"wide", "deep"}, 6 .. Len(MCSheets), 1, 1),
    Scene("boxes", TRUE, {"wide", "deep"}, 1 .. 5, 1, 1), Scene("boxes", FALSE, {"wide", "deep"}, 1 .. 5, 1, 1),
    Scene("boxes", TRUE, {"boxes", "wide", "wrong"}, 1 .. 2, 2, 2),
    Scene("boxes", FALSE, {"boxes", "wide", "wrong"}, 1 .. 2, 2, 2)>>

=============================================================================
