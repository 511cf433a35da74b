--------------------------- MODULE FlatTreeProofs ---------------------------
(***************************************************************************)
(* Proofs about the flattened tree, for every document that is a tree.     *)
(***************************************************************************)
EXTENDS FlatTree, FiniteSetTheorems, FunctionTheorems, SequenceTheorems, WellFoundedInduction, TLAPS

-----------------------------------------------------------------------------
(* Numbers.                                                                *)

\* A set of naturals has a least element.
LEMMA LeastOf ==
  ASSUME NEW S \in SUBSET Nat, S # {}
  PROVE  Min(S) \in S /\ \A x \in S : Min(S) <= x
<1> DEFINE R == OpToRel(<, Nat)
<1>1. IsWellFoundedOn(R, Nat)
  BY NatLessThanWellFounded
<1>2. \E m \in S : \A x \in S : <<x, m>> \notin R
  <2> HIDE DEF R
  <2> QED
    BY <1>1, WFMin
<1>3. PICK m \in S : \A x \in S : <<x, m>> \notin R
  BY <1>2
<1>4. \A x \in S : m <= x
  <2>1. \A x \in S : x \in Nat /\ m \in Nat /\ (x < m => <<x, m>> \in R)
    BY DEF OpToRel
  <2> HIDE DEF R
  <2>2. \A x \in S : ~(x < m)
    BY <1>3, <2>1
  <2> QED
    BY <2>1, <2>2
<1> QED
  BY <1>3, <1>4, Zenon DEF Min

\* A bounded set of naturals has a greatest element.
LEMMA GreatestOf ==
  ASSUME NEW S \in SUBSET Nat, S # {}, NEW n \in Nat, \A x \in S : x <= n
  PROVE  Max(S) \in S /\ \A x \in S : x <= Max(S)
<1> DEFINE T == {n - x : x \in S}
<1>1. T \in SUBSET Nat /\ T # {}
  <2>1. \A x \in S : n - x \in Nat
    OBVIOUS
  <2> QED
    BY <2>1
<1>2. Min(T) \in T /\ \A y \in T : Min(T) <= y
  BY <1>1, LeastOf
<1>3. PICK m \in S : Min(T) = n - m
  BY <1>2
<1>4. \A x \in S : x <= m
  <2>1. \A x \in S : n - m <= n - x /\ x \in Nat /\ m \in Nat
    BY <1>2, <1>3
  <2> QED
    BY <2>1
<1>5. \E k \in S : \A x \in S : k >= x
  BY <1>4
<1>6. Max(S) \in S /\ \A x \in S : Max(S) >= x
  BY <1>5, Zenon DEF Max
<1> QED
  BY <1>6

\* What holds at 0 and passes from each number to the next holds up to n.
LEMMA CountingUp ==
  ASSUME NEW n \in Nat, NEW P, 0 \in P, \A k \in 0 .. n - 1 : k \in P => k + 1 \in P
  PROVE  \A k \in 0 .. n : k \in P
<1> DEFINE Missed == (0 .. n) \ P
<1> SUFFICES ASSUME Missed # {} PROVE FALSE
  OBVIOUS
<1>1. Missed \in SUBSET Nat
  OBVIOUS
<1> DEFINE m == Min(Missed)
<1>2. m \in Missed /\ \A x \in Missed : m <= x
  BY <1>1, LeastOf
<1> HIDE DEF m
<1>3. m # 0 /\ m - 1 \in 0 .. n - 1
  BY <1>2
<1>4. m - 1 \in P
  BY <1>2, <1>3
<1> QED
  BY <1>2, <1>3, <1>4

\* A place in a part.
LEMMA InPart ==
  \A p, l \in Nat : \A j \in 1 .. l : j \in Nat /\ 1 <= j /\ j <= l
                                     /\ p + j \in Nat /\ 1 <= p + j /\ p < p + j /\ p + j <= p + l
OBVIOUS

-----------------------------------------------------------------------------
(* Recursion.                                                              *)

\* A value for every number, each from the one before: the library's theorems on
\* recursive functions take the step as an operator, here it is a function.
IsStep(H, D) == H \in [Nat -> [D -> D]]
Iterates(f, D, b, H) == f \in [Nat -> D] /\ f[0] = b /\ \A k \in Nat : f[k + 1] = H[k][f[k]]
\* There is a function that takes these steps.
LEMMA Recursion == \A D, b, H : b \in D /\ IsStep(H, D) => \E f : Iterates(f, D, b, H)
<1> SUFFICES ASSUME NEW D, NEW b \in D, NEW H \in [Nat -> [D -> D]]
             PROVE  \E f : Iterates(f, D, b, H)
  BY DEF IsStep
<1> DEFINE Runs(g, n) == /\ g \in [0 .. n -> D] /\ g[0] = b
                         /\ \A k \in 0 .. n - 1 : g[k + 1] = H[k][g[k]]
<1>1. ASSUME NEW n \in Nat PROVE \E g : Runs(g, n)
  <2> DEFINE P == {k \in 0 .. n : \E g : Runs(g, k)}
  <2>1. 0 \in P
    <3>1. Runs([i \in 0 .. 0 |-> b], 0)
      OBVIOUS
    <3>2. 0 \in 0 .. n
      OBVIOUS
    <3> HIDE DEF Runs
    <3>3. QED
      BY <3>1, <3>2
  <2>2. ASSUME NEW k \in 0 .. n - 1, k \in P PROVE k + 1 \in P
    <3>1. PICK g : Runs(g, k)
      BY <2>2
    <3> DEFINE h == [i \in 0 .. k + 1 |-> IF i = k + 1 THEN H[k][g[k]] ELSE g[i]]
    <3>2. Runs(h, k + 1)
      <4>1. g[k] \in D /\ H[k][g[k]] \in D
        BY <3>1
      <4>2. h \in [0 .. k + 1 -> D] /\ h[0] = b
        BY <3>1, <4>1
      <4>3. ASSUME NEW i \in 0 .. k PROVE h[i + 1] = H[i][h[i]]
        <5>1. CASE i = k
          BY <5>1
        <5>2. CASE i # k
          BY <3>1, <5>2
        <5>3. QED
          BY <5>1, <5>2
      <4> HIDE DEF h
      <4>4. QED
        BY <4>2, <4>3
    <3> HIDE DEF Runs
    <3>3. QED
      BY <3>2
  <2> HIDE DEF P
  <2>3. \A k \in 0 .. n : k \in P
    BY <2>1, <2>2, CountingUp
  <2>4. QED
    BY <2>3 DEF P
<1>2. ASSUME NEW n \in Nat, NEW g, NEW h, Runs(g, n), Runs(h, n + 1)
      PROVE  h[n] = g[n]
  <2> DEFINE P == {k \in 0 .. n : h[k] = g[k]}
  <2>1. 0 \in P
    BY <1>2
  <2>2. ASSUME NEW k \in 0 .. n - 1, k \in P PROVE k + 1 \in P
    BY <1>2, <2>2
  <2> HIDE DEF P
  <2>3. \A k \in 0 .. n : k \in P
    BY <2>1, <2>2, CountingUp
  <2>4. QED
    BY <2>3 DEF P
<1> DEFINE G(n) == CHOOSE g : Runs(g, n)
<1>3. \A n \in Nat : Runs(G(n), n)
  BY <1>1
<1> DEFINE f == [n \in Nat |-> G(n)[n]]
<1> HIDE DEF G
<1>4. f \in [Nat -> D] /\ f[0] = b
  BY <1>3
<1>5. ASSUME NEW k \in Nat PROVE f[k + 1] = H[k][f[k]]
  <2>1. Runs(G(k), k) /\ Runs(G(k + 1), k + 1)
    BY <1>3
  <2>2. G(k + 1)[k] = G(k)[k]
    <3> DEFINE g == G(k)
               h == G(k + 1)
    <3> HIDE DEF g, h
    <3>1. Runs(g, k) /\ Runs(h, k + 1)
      BY <2>1 DEF g, h
    <3>2. h[k] = g[k]
      BY <1>2, <3>1
    <3>3. QED
      BY <3>2 DEF g, h
  <2>3. G(k + 1)[k + 1] = H[k][G(k + 1)[k]]
    BY <2>1
  <2>4. QED
    BY <2>2, <2>3
<1> HIDE DEF f
<1>6. QED
  BY <1>4, <1>5 DEF Iterates

-----------------------------------------------------------------------------
(* Sequences of sequences.                                                 *)

\* The function FlattenSeq recurses with.
UpToPart(s, g, i) == IF i = 1 THEN s[i] ELSE g[i - 1] \o s[i]
IsFlattening(s, g) == g = [i \in 1 .. Len(s) |-> UpToPart(s, g, i)]
\* FlattenSeq, with that function named.
LEMMA FlattenDef ==
  \A s : FlattenSeq(s) = IF Len(s) = 0 THEN s
                         ELSE (CHOOSE g : IsFlattening(s, g))[Len(s)]
BY DEF FlattenSeq, IsFlattening, UpToPart

\* It exists.
LEMMA FlatteningExists ==
  ASSUME NEW T, NEW s \in Seq(Seq(T))
  PROVE  \E g : IsFlattening(s, g) /\ g \in [1 .. Len(s) -> Seq(T)]
<1> DEFINE n == Len(s)
           D == Seq(T)
           H == [k \in Nat |-> [d \in D |-> IF k + 1 \in 1 .. n THEN d \o s[k + 1] ELSE <<>>]]
<1>1. H \in [Nat -> [D -> D]] /\ <<>> \in D
  <2>1. ASSUME NEW k \in Nat, NEW d \in D, k + 1 \in 1 .. n PROVE d \o s[k + 1] \in D
    <3>1. s[k + 1] \in D
      BY <2>1
    <3>2. QED
      BY <3>1
  <2>2. <<>> \in D
    OBVIOUS
  <2> HIDE DEF D
  <2>3. QED
    BY <2>1, <2>2
<1>2. PICK f : Iterates(f, D, <<>>, H)
  <2>1. IsStep(H, D) /\ <<>> \in D
    BY <1>1 DEF IsStep
  <2> HIDE DEF D, H
  <2>2. QED
    BY <2>1, Recursion
<1>3. \A k \in Nat : k + 1 \in 1 .. n => f[k + 1] = f[k] \o s[k + 1]
  BY <1>2 DEF Iterates
<1> DEFINE g == [i \in 1 .. n |-> f[i]]
<1>4. g \in [1 .. n -> D]
  BY <1>2 DEF Iterates
<1>5. ASSUME NEW i \in 1 .. n PROVE g[i] = UpToPart(s, g, i)
  <2>1. i - 1 \in Nat /\ i = (i - 1) + 1 /\ s[i] \in D
    OBVIOUS
  <2>2. f[i] = f[i - 1] \o s[i]
    BY <1>3, <2>1
  <2>5. g[i] = f[i] /\ (i # 1 => g[i - 1] = f[i - 1])
    OBVIOUS
  <2> HIDE DEF D, g
  <2>3. CASE i = 1
    <3>1. f[0] = <<>> /\ i - 1 = 0
      BY <1>2, <2>3 DEF Iterates
    <3>2. <<>> \o s[i] = s[i]
      BY <2>1 DEF D
    <3>3. QED
      BY <2>2, <2>3, <2>5, <3>1, <3>2 DEF UpToPart
  <2>4. CASE i # 1
    BY <2>2, <2>4, <2>5 DEF UpToPart
  <2>6. QED
    BY <2>3, <2>4
<1>6. IsFlattening(s, g)
  BY <1>5 DEF IsFlattening
<1>7. QED
  BY <1>4, <1>6

\* No part, and one part more.
LEMMA FlattenAppend ==
  ASSUME NEW T, NEW s \in Seq(Seq(T)), NEW x \in Seq(T)
  PROVE  /\ FlattenSeq(<<>>) = <<>>
         /\ FlattenSeq(s) \in Seq(T)
         /\ FlattenSeq(Append(s, x)) = FlattenSeq(s) \o x
<1> DEFINE n == Len(s)
           t == Append(s, x)
           g == CHOOSE g : IsFlattening(s, g)
           h == CHOOSE h : IsFlattening(t, h)
<1>1. n \in Nat /\ t \in Seq(Seq(T)) /\ Len(t) = n + 1 /\ t[n + 1] = x
      /\ \A i \in 1 .. n : t[i] = s[i]
  OBVIOUS
<1>2. IsFlattening(s, g) /\ IsFlattening(t, h)
  <2>1. \E f : IsFlattening(s, f)
    BY FlatteningExists
  <2> HIDE DEF t
  <2>2. \E f : IsFlattening(t, f)
    BY <1>1, FlatteningExists
  <2>3. QED
    BY <2>1, <2>2
<1>3. FlattenSeq(<<>>) = <<>>
  BY FlattenDef
<1>4. /\ FlattenSeq(s) = IF n = 0 THEN s ELSE g[n]
      /\ FlattenSeq(t) = h[n + 1]
  <2>1. FlattenSeq(s) = IF n = 0 THEN s ELSE g[n]
    BY FlattenDef
  <2> HIDE DEF t
  <2>2. FlattenSeq(t) = h[n + 1]
    BY <1>1, FlattenDef
  <2>3. QED
    BY <2>1, <2>2
<1> HIDE DEF g, h, t
<1>5. \A i \in 1 .. n : g[i] \in Seq(T) /\ h[i] = g[i]
  <2> DEFINE P == {i \in 0 .. n : i # 0 => g[i] \in Seq(T) /\ h[i] = g[i]}
  <2>1. 0 \in P
    OBVIOUS
  <2>2. ASSUME NEW i \in 0 .. n - 1, i \in P PROVE i + 1 \in P
    <3>1. i + 1 \in 1 .. n /\ i + 1 \in 1 .. n + 1 /\ (i + 1) - 1 = i
      BY <1>1
    <3>2. g[i + 1] = UpToPart(s, g, i + 1) /\ h[i + 1] = UpToPart(t, h, i + 1)
      BY <1>1, <1>2, <3>1 DEF IsFlattening
    <3>3. s[i + 1] \in Seq(T) /\ t[i + 1] = s[i + 1]
      BY <1>1, <3>1
    <3>4. CASE i = 0
      BY <3>1, <3>2, <3>3, <3>4 DEF UpToPart
    <3>5. CASE i # 0
      <4>1. g[i] \in Seq(T) /\ h[i] = g[i]
        BY <2>2, <3>5
      <4>2. g[i + 1] = g[i] \o s[i + 1] /\ h[i + 1] = h[i] \o t[i + 1]
        <5>1. \A a, b : i + 1 # 1 => UpToPart(a, b, i + 1) = b[i] \o a[i + 1]
          BY <3>1 DEF UpToPart
        <5>2. i + 1 # 1
          BY <3>5, <1>1
        <5>3. QED
          BY <3>2, <5>1, <5>2
      <4>3. g[i + 1] \in Seq(T) /\ h[i + 1] = g[i + 1]
        BY <3>3, <4>1, <4>2
      <4>4. QED
        BY <3>1, <4>3
    <3>6. QED
      BY <3>4, <3>5
  <2> HIDE DEF P
  <2>3. \A i \in 0 .. n : i \in P
    BY <1>1, <2>1, <2>2, CountingUp
  <2>4. QED
    BY <1>1, <2>3 DEF P
<1>6. FlattenSeq(s) \in Seq(T)
  <2>1. CASE n = 0
    <3>1. s = <<>>
      BY <2>1
    <3>2. QED
      BY <1>4, <2>1, <3>1
  <2>2. CASE n # 0
    BY <1>1, <1>4, <1>5, <2>2
  <2>3. QED
    BY <2>1, <2>2
<1>7. h[n + 1] = UpToPart(t, h, n + 1)
  <2>1. n + 1 \in 1 .. Len(t)
    BY <1>1
  <2>2. \A f, i : IsFlattening(t, f) /\ i \in 1 .. Len(t) => f[i] = UpToPart(t, f, i)
    BY DEF IsFlattening
  <2>3. QED
    BY <1>2, <2>1, <2>2
<1>8. FlattenSeq(t) = FlattenSeq(s) \o x
  <2>1. CASE n = 0
    <3>1. s = <<>>
      BY <2>1
    <3>2. h[n + 1] = x
      BY <1>1, <1>7, <2>1 DEF UpToPart
    <3>3. <<>> \o x = x
      OBVIOUS
    <3>4. QED
      BY <1>4, <2>1, <3>1, <3>2, <3>3
  <2>2. CASE n # 0
    <3>1. h[n + 1] = h[n] \o x
      <4>1. (n + 1) - 1 = n /\ n + 1 # 1
        BY <1>1, <2>2
      <4>2. QED
        BY <1>1, <1>7, <4>1 DEF UpToPart
    <3>2. h[n] = g[n]
      BY <1>1, <1>5, <2>2
    <3>3. QED
      BY <1>4, <2>2, <3>1, <3>2
  <2>3. QED
    BY <2>1, <2>2
<1>9. QED
  BY <1>3, <1>6, <1>8 DEF t

\* Where the parts of s lie in their concatenation f: part a ends at P[a].
LaidAt(s, f, P) ==
  /\ P \in [0 .. Len(s) -> Nat] /\ P[0] = 0 /\ Len(f) = P[Len(s)]
  /\ \A a \in 1 .. Len(s) : /\ P[a] = P[a - 1] + Len(s[a])
                            /\ \A j \in 1 .. Len(s[a]) : f[P[a - 1] + j] = s[a][j]
Offsets(s) == [a \in 0 .. Len(s) |-> Len(FlattenSeq(SubSeq(s, 1, a)))]

\* One part more in a prefix.
LEMMA PrefixGrows ==
  ASSUME NEW T, NEW s \in Seq(T), NEW a \in 1 .. Len(s)
  PROVE  /\ SubSeq(s, 1, a - 1) \in Seq(T)
         /\ SubSeq(s, 1, a) = Append(SubSeq(s, 1, a - 1), s[a])
OBVIOUS

\* Elements of two sequences end to end.
LEMMA Ends ==
  ASSUME NEW T, NEW s \in Seq(T), NEW u \in Seq(T)
  PROVE  /\ s \o u \in Seq(T) /\ Len(s \o u) = Len(s) + Len(u) /\ Len(s) \in Nat /\ Len(u) \in Nat
         /\ \A i \in 1 .. Len(s) : (s \o u)[i] = s[i]
         /\ \A i \in 1 .. Len(u) : (s \o u)[Len(s) + i] = u[i]
<1>1. \A i \in 1 .. Len(s) + Len(u) : (s \o u)[i] = IF i <= Len(s) THEN s[i] ELSE u[i - Len(s)]
  BY ConcatProperties
<1>2. s \o u \in Seq(T) /\ Len(s \o u) = Len(s) + Len(u) /\ Len(s) \in Nat /\ Len(u) \in Nat
  BY ConcatProperties
<1>3. ASSUME NEW i \in 1 .. Len(u) PROVE (s \o u)[Len(s) + i] = u[i]
  <2> DEFINE m == Len(s)
             k == m + i
             c == s \o u
  <2>1. k \in 1 .. m + Len(u) /\ ~(k <= m) /\ k - m = i
    BY <1>2
  <2>2. c[k] = IF k <= m THEN s[k] ELSE u[k - m]
    BY <1>1, <2>1
  <2> HIDE DEF m, c
  <2>3. c[k] = u[i]
    BY <2>1, <2>2
  <2>4. QED
    BY <2>3 DEF m, c
<1>4. QED
  BY <1>1, <1>2, <1>3

\* Of no parts.
LEMMA FlattenNone == FlattenSeq(<<>>) = <<>>
BY FlattenDef

\* c is s and then u.
TwoEnds(c, s, u) ==
  /\ Len(c) = Len(s) + Len(u)
  /\ \A i \in 1 .. Len(s) : c[i] = s[i]
  /\ \A i \in 1 .. Len(u) : c[Len(s) + i] = u[i]
\* The same, for s \o u.
LEMMA EndsOf == \A R : \A x, y \in Seq(R) : x \o y \in Seq(R) /\ TwoEnds(x \o y, x, y)
BY Ends DEF TwoEnds

\* FlattenSeq lays its parts end to end.
LEMMA LaidOut ==
  ASSUME NEW T, NEW s \in Seq(Seq(T))
  PROVE  FlattenSeq(s) \in Seq(T) /\ LaidAt(s, FlattenSeq(s), Offsets(s))
<1> DEFINE n == Len(s)
           G(a) == FlattenSeq(SubSeq(s, 1, a))
           P == Offsets(s)
<1>1. n \in Nat /\ SubSeq(s, 1, n) = s /\ SubSeq(s, 1, 0) = <<>>
  BY SubSeqFull
<1>2. ASSUME NEW a \in 1 .. n PROVE /\ s[a] \in Seq(T) /\ G(a - 1) \in Seq(T)
                                    /\ G(a) = G(a - 1) \o s[a]
  <2>1. s[a] \in Seq(T)
    OBVIOUS
  <2>2. SubSeq(s, 1, a - 1) \in Seq(Seq(T)) /\ SubSeq(s, 1, a) = Append(SubSeq(s, 1, a - 1), s[a])
    BY PrefixGrows
  <2>3. QED
    BY <2>1, <2>2, FlattenAppend
<1>3. G(0) = <<>> /\ G(n) = FlattenSeq(s) /\ FlattenSeq(s) \in Seq(T)
  <2>1. <<>> \in Seq(T)
    OBVIOUS
  <2>2. FlattenSeq(<<>>) = <<>> /\ FlattenSeq(s) \in Seq(T)
    BY <2>1, FlattenAppend
  <2>3. QED
    BY <1>1, <2>2
<1>4. \A a \in 0 .. n : P[a] = Len(G(a))
  BY DEF Offsets
<1> HIDE DEF G, n
<1>5. \A a \in 0 .. n : G(a) \in Seq(T) /\ P[a] \in Nat
  <2>1. ASSUME NEW a \in 0 .. n PROVE G(a) \in Seq(T)
    <3>1. CASE a = n
      BY <1>3, <3>1
    <3>2. CASE a # n
      <4>1. a + 1 \in 1 .. n /\ (a + 1) - 1 = a
        BY <1>1, <3>2
      <4>2. G((a + 1) - 1) \in Seq(T)
        BY <1>2, <4>1
      <4>3. QED
        BY <4>1, <4>2
    <3>3. QED
      BY <3>1, <3>2
  <2>2. \A u \in Seq(T) : Len(u) \in Nat
    OBVIOUS
  <2>3. QED
    BY <1>4, <2>1, <2>2
<1>6. ASSUME NEW a \in 1 .. n
      PROVE  /\ P[a] = P[a - 1] + Len(s[a])
             /\ \A i \in 1 .. P[a - 1] : G(a)[i] = G(a - 1)[i]
             /\ \A j \in 1 .. Len(s[a]) : G(a)[P[a - 1] + j] = s[a][j]
  <2>1. a \in 0 .. n /\ a - 1 \in 0 .. n
    BY <1>1
  <2>2. P[a] = Len(G(a)) /\ P[a - 1] = Len(G(a - 1))
    BY <1>4, <2>1
  <2> DEFINE c == G(a)
             u == G(a - 1)
             v == s[a]
  <2>3. u \in Seq(T) /\ v \in Seq(T) /\ c = u \o v /\ P[a] = Len(c) /\ P[a - 1] = Len(u)
    BY <1>2, <2>2
  <2> HIDE DEF c, u, v, P
  <2>4. /\ Len(u \o v) = Len(u) + Len(v)
        /\ \A i \in 1 .. Len(u) : (u \o v)[i] = u[i]
        /\ \A i \in 1 .. Len(v) : (u \o v)[Len(u) + i] = v[i]
    BY <2>3, Ends
  <2>5. /\ P[a] = P[a - 1] + Len(v)
        /\ \A i \in 1 .. P[a - 1] : c[i] = u[i]
        /\ \A j \in 1 .. Len(v) : c[P[a - 1] + j] = v[j]
    BY <2>3, <2>4
  <2>6. QED
    BY <2>5 DEF c, u, v
<1>7. \A b \in 0 .. n : \A a \in 0 .. b : P[a] <= P[b] /\ \A i \in 1 .. P[a] : G(b)[i] = G(a)[i]
  <2> DEFINE Kept(a, b) == P[a] <= P[b] /\ \A i \in 1 .. P[a] : G(b)[i] = G(a)[i]
             Q == {b \in 0 .. n : \A a \in 0 .. b : Kept(a, b)}
  <2> HIDE DEF P
  <2>1. 0 \in Q
    <3>1. \A a \in 0 .. 0 : Kept(a, 0)
      BY <1>1, <1>5
    <3>2. QED
      BY <1>1, <3>1
  <2>2. ASSUME NEW b \in 0 .. n - 1, b \in Q PROVE b + 1 \in Q
    <3>1. ASSUME NEW a \in 0 .. b + 1 PROVE Kept(a, b + 1)
      <4>1. CASE a = b + 1
        BY <1>1, <1>5, <4>1
      <4>2. CASE a # b + 1
        <5>1. a \in 0 .. b /\ a \in 0 .. n /\ b \in 0 .. n /\ b + 1 \in 1 .. n /\ (b + 1) - 1 = b
          BY <1>1, <4>2
        <5>2. Kept(a, b)
          BY <2>2, <5>1
        <5>3. /\ P[b + 1] = P[b] + Len(s[b + 1])
              /\ \A i \in 1 .. P[b] : G(b + 1)[i] = G(b)[i]
          BY <1>6, <5>1
        <5>4. P[a] \in Nat /\ P[b] \in Nat /\ Len(s[b + 1]) \in Nat
          BY <1>2, <1>5, <5>1
        <5>5. QED
          BY <5>2, <5>3, <5>4
      <4>3. QED
        BY <4>1, <4>2
    <3> HIDE DEF Kept
    <3>2. QED
      BY <1>1, <3>1
  <2> HIDE DEF Q
  <2>3. \A b \in 0 .. n : b \in Q
    BY <1>1, <2>1, <2>2, CountingUp
  <2>4. QED
    BY <2>3 DEF Q
<1>8. ASSUME NEW a \in 1 .. n, NEW j \in 1 .. Len(s[a]) PROVE FlattenSeq(s)[P[a - 1] + j] = s[a][j]
  <2> HIDE DEF P
  <2>1. a \in 0 .. n /\ n \in 0 .. n /\ a \in 0 .. n /\ a - 1 \in 0 .. n
    BY <1>1
  <2>2. Len(s[a]) \in Nat /\ P[a - 1] \in Nat
    BY <1>2, <1>5, <2>1
  <2>3. P[a - 1] + j \in 1 .. P[a]
    BY <1>6, <2>2
  <2>4. G(n)[P[a - 1] + j] = G(a)[P[a - 1] + j]
    BY <1>7, <2>1, <2>3
  <2>5. G(a)[P[a - 1] + j] = s[a][j]
    BY <1>6
  <2>6. QED
    BY <1>3, <2>4, <2>5
<1>9. P \in [0 .. n -> Nat] /\ P[0] = 0 /\ Len(FlattenSeq(s)) = P[n]
  <2>1. P = [a \in 0 .. n |-> P[a]]
    BY DEF Offsets, n
  <2>2. 0 \in 0 .. n /\ n \in 0 .. n
    BY <1>1
  <2>3. Len(<<>>) = 0
    OBVIOUS
  <2> HIDE DEF P
  <2>4. P \in [0 .. n -> Nat]
    BY <1>5, <2>1
  <2>5. QED
    BY <1>3, <1>4, <2>2, <2>3, <2>4
<1>10. QED
  BY <1>3, <1>6, <1>8, <1>9 DEF LaidAt, n

\* The parts lie one after the other.
LEMMA LaidGrows ==
  \A s, f, P : Len(s) \in Nat /\ LaidAt(s, f, P) /\ (\A a \in 1 .. Len(s) : Len(s[a]) \in Nat)
    => \A b \in 0 .. Len(s) : \A a \in 0 .. b : P[a] \in Nat /\ P[b] \in Nat /\ P[a] <= P[b]
<1> SUFFICES ASSUME NEW s, NEW f, NEW P, Len(s) \in Nat, LaidAt(s, f, P),
                    \A a \in 1 .. Len(s) : Len(s[a]) \in Nat
             PROVE  \A b \in 0 .. Len(s) : \A a \in 0 .. b : P[a] \in Nat /\ P[b] \in Nat /\ P[a] <= P[b]
  OBVIOUS
<1> DEFINE n == Len(s)
           Above(b) == \A a \in 0 .. b : P[a] <= P[b]
           Q == {b \in 0 .. n : Above(b)}
<1>1. n \in Nat /\ \A a \in 0 .. n : P[a] \in Nat
  BY DEF LaidAt
<1>2. \A a \in 1 .. n : P[a] = P[a - 1] + Len(s[a]) /\ Len(s[a]) \in Nat
  BY DEF LaidAt
<1> HIDE DEF n
<1>3. 0 \in Q
  BY <1>1
<1>4. ASSUME NEW b \in 0 .. n - 1, b \in Q PROVE b + 1 \in Q
  <2>1. b + 1 \in 1 .. n /\ b \in 0 .. n /\ (b + 1) - 1 = b
    BY <1>1
  <2>2. P[b + 1] = P[b] + Len(s[b + 1]) /\ Len(s[b + 1]) \in Nat /\ P[b] \in Nat
    BY <1>1, <1>2, <2>1
  <2>3. Above(b + 1)
    <3>1. ASSUME NEW a \in 0 .. b + 1 PROVE P[a] <= P[b + 1]
      <4>1. CASE a = b + 1
        BY <2>2, <4>1
      <4>2. CASE a # b + 1
        <5>1. a \in 0 .. b /\ a \in 0 .. n
          BY <1>1, <4>2
        <5>2. P[a] <= P[b] /\ P[a] \in Nat
          BY <1>1, <1>4, <5>1
        <5>3. QED
          BY <2>2, <5>2
      <4>3. QED
        BY <4>1, <4>2
    <3>2. QED
      BY <3>1
  <2> HIDE DEF Above
  <2>4. QED
    BY <1>1, <2>1, <2>3
<1> HIDE DEF Q
<1>5. \A b \in 0 .. n : b \in Q
  BY <1>1, <1>3, <1>4, CountingUp
<1>6. ASSUME NEW b \in 0 .. n, NEW a \in 0 .. b PROVE P[a] \in Nat /\ P[b] \in Nat /\ P[a] <= P[b]
  <2>1. a \in 0 .. n
    BY <1>1
  <2>2. QED
    BY <1>1, <1>5, <2>1 DEF Q
<1>7. QED
  BY <1>6 DEF n

\* Every place of the concatenation is the place of one element of one part.
Sized(s) == Len(s) \in Nat /\ \A a \in 1 .. Len(s) : Len(s[a]) \in Nat
AllFound(s, f, P) == \A x \in 1 .. Len(f) : \E a \in 1 .. Len(s) : \E j \in 1 .. Len(s[a]) :
                       x = P[a - 1] + j /\ f[x] = s[a][j]
\* In a concatenation every place is found.
LEMMA LaidFind == \A s, f, P : Sized(s) /\ LaidAt(s, f, P) => AllFound(s, f, P)
<1> SUFFICES ASSUME NEW s, NEW f, NEW P, Len(s) \in Nat, LaidAt(s, f, P),
                    \A a \in 1 .. Len(s) : Len(s[a]) \in Nat, NEW x \in 1 .. Len(f)
             PROVE  \E a \in 1 .. Len(s) : \E j \in 1 .. Len(s[a]) : x = P[a - 1] + j /\ f[x] = s[a][j]
  BY DEF Sized, AllFound
<1> DEFINE n == Len(s)
           S == {a \in 0 .. n : x <= P[a]}
           m == Min(S)
<1>1. n \in Nat /\ P[0] = 0 /\ Len(f) = P[n] /\ \A a \in 0 .. n : P[a] \in Nat
  BY DEF LaidAt
<1>2. \A a \in 1 .. n : /\ P[a] = P[a - 1] + Len(s[a]) /\ Len(s[a]) \in Nat
                        /\ \A j \in 1 .. Len(s[a]) : f[P[a - 1] + j] = s[a][j]
  BY DEF LaidAt
<1> HIDE DEF n
<1>3. x \in Nat /\ 1 <= x /\ x <= P[n] /\ n \in 0 .. n
  BY <1>1
<1>4. n \in S /\ S \in SUBSET Nat
  BY <1>1, <1>3
<1>5. m \in S /\ \A a \in S : m <= a
  BY <1>4, LeastOf
<1> HIDE DEF m
<1>6. m \in 0 .. n /\ x <= P[m] /\ \A a \in 0 .. n : x <= P[a] => m <= a
  BY <1>5
<1> HIDE DEF S
<1>7. m # 0
  BY <1>1, <1>3, <1>6
<1>8. m \in 1 .. n /\ m - 1 \in 0 .. n
  BY <1>1, <1>6, <1>7
<1>9. ~(x <= P[m - 1])
  BY <1>6, <1>8
<1>10. P[m] = P[m - 1] + Len(s[m]) /\ Len(s[m]) \in Nat /\ P[m - 1] \in Nat
  BY <1>1, <1>2, <1>8
<1> DEFINE j == x - P[m - 1]
<1>11. j \in 1 .. Len(s[m]) /\ x = P[m - 1] + j
  BY <1>3, <1>6, <1>9, <1>10
<1> HIDE DEF j
<1>12. f[P[m - 1] + j] = s[m][j]
  BY <1>2, <1>8, <1>11
<1>13. QED
  BY <1>8, <1>11, <1>12 DEF n

\* No place belongs to two.
FoundOnce(s, P) == \A a, b \in 1 .. Len(s) : \A j \in 1 .. Len(s[a]), k \in 1 .. Len(s[b]) :
                     P[a - 1] + j = P[b - 1] + k => a = b /\ j = k
\* In a concatenation each place is found once.
LEMMA LaidOnce == \A s, f, P : Sized(s) /\ LaidAt(s, f, P) => FoundOnce(s, P)
<1> SUFFICES ASSUME NEW s, NEW f, NEW P, Len(s) \in Nat, LaidAt(s, f, P),
                    \A a \in 1 .. Len(s) : Len(s[a]) \in Nat
             PROVE  \A a, b \in 1 .. Len(s) : \A j \in 1 .. Len(s[a]), k \in 1 .. Len(s[b]) :
                      P[a - 1] + j = P[b - 1] + k => a = b /\ j = k
  BY DEF Sized, FoundOnce
<1> DEFINE n == Len(s)
<1>1. \A a \in 1 .. n : P[a] = P[a - 1] + Len(s[a]) /\ Len(s[a]) \in Nat
  BY DEF LaidAt
<1>2. \A b \in 0 .. n : \A a \in 0 .. b : P[a] \in Nat /\ P[b] \in Nat /\ P[a] <= P[b]
  BY LaidGrows
<1>0. n \in Nat
  OBVIOUS
<1> HIDE DEF n
<1>3. ASSUME NEW a \in 1 .. n, NEW b \in 1 .. n, a < b,
             NEW j \in 1 .. Len(s[a]), NEW k \in 1 .. Len(s[b])
      PROVE  P[a - 1] + j < P[b - 1] + k
  <2>1. a - 1 \in 0 .. a /\ a \in 0 .. b - 1 /\ b - 1 \in 0 .. n /\ a \in 0 .. n
    BY <1>0, <1>3
  <2>2. P[a] <= P[b - 1] /\ P[a] \in Nat /\ P[b - 1] \in Nat /\ P[a - 1] \in Nat
    BY <1>2, <2>1
  <2>3. Len(s[a]) \in Nat /\ Len(s[b]) \in Nat /\ P[a] = P[a - 1] + Len(s[a])
    BY <1>1
  <2>4. P[a - 1] + j \in Nat /\ P[a - 1] + j <= P[a] /\ P[b - 1] + k \in Nat /\ P[b - 1] < P[b - 1] + k
    BY <2>2, <2>3, InPart
  <2>5. \A w, x, y, z \in Nat : w <= x /\ x <= y /\ y < z => w < z
    OBVIOUS
  <2>6. QED
    BY <2>2, <2>4, <2>5
<1>4. ASSUME NEW a \in 1 .. n, NEW b \in 1 .. n,
             NEW j \in 1 .. Len(s[a]), NEW k \in 1 .. Len(s[b]), P[a - 1] + j = P[b - 1] + k
      PROVE  a = b /\ j = k
  <2>1. a - 1 \in 0 .. n /\ b - 1 \in 0 .. n /\ a - 1 \in 0 .. a - 1 /\ b - 1 \in 0 .. b - 1
    BY <1>0
  <2>7. Len(s[a]) \in Nat /\ Len(s[b]) \in Nat
    BY <1>1
  <2> DEFINE l == Len(s[a])
             m == Len(s[b])
  <2>11. j \in 1 .. l /\ k \in 1 .. m /\ l \in Nat /\ m \in Nat
    BY <2>7
  <2> HIDE DEF l, m
  <2>8. j \in Nat /\ k \in Nat
    BY <2>11
  <2>2. P[a - 1] \in Nat /\ P[b - 1] \in Nat /\ j \in Nat /\ k \in Nat
    BY <1>2, <2>1, <2>8
  <2>9. \A x, y \in Nat : x = y => ~(x < y) /\ ~(y < x)
    OBVIOUS
  <2>12. \A w, x \in Nat : w + x \in Nat
    OBVIOUS
  <2>10. P[a - 1] + j \in Nat /\ P[b - 1] + k \in Nat
    BY <2>2, <2>12
  <2>3. ~(a < b)
    <3>1. a < b => P[a - 1] + j < P[b - 1] + k
      BY <1>3
    <3>2. QED
      BY <1>4, <2>9, <2>10, <3>1
  <2>4. ~(b < a)
    <3>1. b < a => P[b - 1] + k < P[a - 1] + j
      BY <1>3
    <3>2. QED
      BY <1>4, <2>9, <2>10, <3>1
  <2>5. a = b
    BY <1>0, <2>3, <2>4
  <2>6. QED
    BY <1>4, <2>2, <2>5
<1>5. QED
  BY <1>4 DEF n

\* A sequence is two others end to end.
IsCat(c, p, q) == c = p \o q
\* Concatenation is associative.
LEMMA CatOfCat ==
  \A R : \A p, q, x \in Seq(R) : \A a, b, c : IsCat(a, p, q) /\ IsCat(b, a, x) /\ IsCat(c, q, x) => IsCat(b, p, c)
BY ConcatAssociative DEF IsCat

\* The concatenation of sequences of sequences end to end.
LEMMA FlattenEnds ==
  ASSUME NEW T, NEW s \in Seq(Seq(T)), NEW u \in Seq(Seq(T))
  PROVE  FlattenSeq(s \o u) = FlattenSeq(s) \o FlattenSeq(u)
<1> DEFINE n == Len(u)
           v(k) == SubSeq(u, 1, k)
           Good(k) == FlattenSeq(s \o v(k)) = FlattenSeq(s) \o FlattenSeq(v(k))
           Q == {k \in 0 .. n : Good(k)}
<1>1. n \in Nat /\ v(n) = u /\ v(0) = <<>> /\ <<>> \in Seq(T)
  BY SubSeqFull
<1>2. \A w \in Seq(Seq(T)) : FlattenSeq(w) \in Seq(T)
  BY <1>1, FlattenAppend
<1>3. 0 \in Q
  <2>1. s \o <<>> = s /\ FlattenSeq(<<>>) = <<>>
    <3>1. s \o <<>> = s
      BY ConcatEmptySeq
    <3>2. FlattenSeq(<<>>) = <<>>
      BY <1>1, FlattenAppend
    <3>3. QED
      BY <3>1, <3>2
  <2>2. FlattenSeq(s) \o <<>> = FlattenSeq(s)
    BY <1>2
  <2>3. Good(0)
    BY <1>1, <2>1, <2>2
  <2> HIDE DEF Good
  <2>4. QED
    BY <1>1, <2>3
<1>4. ASSUME NEW k \in 0 .. n - 1, k \in Q PROVE k + 1 \in Q
  <2>1. k + 1 \in 1 .. n /\ (k + 1) - 1 = k
    BY <1>1
  <2> DEFINE w == v(k)
             x == u[k + 1]
  <2>2. w \in Seq(Seq(T)) /\ v(k + 1) = Append(w, x)
    BY <2>1, PrefixGrows
  <2>3. x \in Seq(T)
    BY <2>1
  <2>4. FlattenSeq(s \o w) = FlattenSeq(s) \o FlattenSeq(w)
    BY <1>4
  <2> HIDE DEF w, x, v
  <2>5. s \o Append(w, x) = Append(s \o w, x) /\ s \o w \in Seq(Seq(T))
    <3> DEFINE D == Seq(T)
    <3>1. s \in Seq(D) /\ w \in Seq(D) /\ x \in D
      BY <2>2, <2>3
    <3> HIDE DEF D
    <3>2. s \o Append(w, x) = Append(s \o w, x) /\ s \o w \in Seq(D)
      BY <3>1
    <3>3. QED
      BY <3>2 DEF D
  <2>6. /\ IsCat(FlattenSeq(Append(s \o w, x)), FlattenSeq(s \o w), x)
        /\ IsCat(FlattenSeq(Append(w, x)), FlattenSeq(w), x)
    BY <2>2, <2>3, <2>5, FlattenAppend DEF IsCat
  <2>7. IsCat(FlattenSeq(s \o w), FlattenSeq(s), FlattenSeq(w))
    BY <2>4 DEF IsCat
  <2>10. FlattenSeq(s) \in Seq(T) /\ FlattenSeq(w) \in Seq(T)
    BY <1>2, <2>2
  <2>11. IsCat(FlattenSeq(Append(s \o w, x)), FlattenSeq(s), FlattenSeq(Append(w, x)))
    BY <2>3, <2>6, <2>7, <2>10, CatOfCat
  <2>8. Good(k + 1)
    BY <2>2, <2>5, <2>11 DEF IsCat
  <2> HIDE DEF Good
  <2>9. QED
    BY <1>1, <2>1, <2>8
<1> HIDE DEF Q
<1>5. \A k \in 0 .. n : k \in Q
  BY <1>1, <1>3, <1>4, CountingUp
<1>6. n \in 0 .. n
  BY <1>1
<1>7. Good(n)
  BY <1>5, <1>6 DEF Q
<1>8. QED
  BY <1>1, <1>7

Occurs(x, f) == \E i \in 1 .. Len(f) : f[i] = x
OccursIn(x, s) == \E a \in 1 .. Len(s) : Occurs(x, s[a])
\* The elements of the parts are those of the concatenation.
LEMMA FlattenElements ==
  \A R : \A r \in Seq(Seq(R)) : \A x : Occurs(x, FlattenSeq(r)) <=> OccursIn(x, r)
<1> SUFFICES ASSUME NEW T, NEW s \in Seq(Seq(T))
             PROVE  \A x : Occurs(x, FlattenSeq(s)) <=> OccursIn(x, s)
  OBVIOUS
<1> DEFINE f == FlattenSeq(s)
           P == Offsets(s)
           n == Len(s)
<1>1. n \in Nat /\ \A a \in 1 .. n : Len(s[a]) \in Nat
  <2>1. \A a \in 1 .. n : s[a] \in Seq(T)
    OBVIOUS
  <2>2. QED
    BY <2>1
<1>2. LaidAt(s, f, P)
  BY LaidOut
<1> HIDE DEF f, P
<1>3. \A x \in 1 .. Len(f) : \E a \in 1 .. n : \E j \in 1 .. Len(s[a]) : f[x] = s[a][j]
  BY <1>1, <1>2, LaidFind DEF Sized, AllFound
<1>4. ASSUME NEW a \in 1 .. n, NEW j \in 1 .. Len(s[a]) PROVE \E i \in 1 .. Len(f) : f[i] = s[a][j]
  <2>1. /\ P[a] = P[a - 1] + Len(s[a]) /\ Len(f) = P[n] /\ f[P[a - 1] + j] = s[a][j]
    BY <1>2 DEF LaidAt
  <2>2. a \in 0 .. n /\ n \in 0 .. n /\ a - 1 \in 0 .. a /\ Len(s[a]) \in Nat
    BY <1>1
  <2>3. P[a - 1] \in Nat /\ P[a] \in Nat /\ P[n] \in Nat /\ P[a] <= P[n]
    <3>1. \A d \in 0 .. n : \A c \in 0 .. d : P[c] \in Nat /\ P[d] \in Nat /\ P[c] <= P[d]
      BY <1>1, <1>2, LaidGrows
    <3>2. QED
      BY <2>2, <3>1
  <2>4. P[a - 1] + j \in 1 .. Len(f)
    <3>1. P[a - 1] + j \in Nat /\ 1 <= P[a - 1] + j /\ P[a - 1] + j <= P[a - 1] + Len(s[a])
      BY <2>2, <2>3, InPart
    <3>2. \A w, x, y \in Nat : 1 <= w /\ w <= x /\ x <= y => w \in 1 .. y
      OBVIOUS
    <3>3. QED
      BY <2>1, <2>3, <3>1, <3>2
  <2>5. QED
    BY <2>1, <2>4
<1> DEFINE Within(x) == \E a \in 1 .. n : \E j \in 1 .. Len(s[a]) : s[a][j] = x
<1>5. \A x : (\E i \in 1 .. Len(f) : f[i] = x) => Within(x)
  BY <1>3
<1>6. \A x : Within(x) => \E i \in 1 .. Len(f) : f[i] = x
  BY <1>4
<1>7. QED
  BY <1>5, <1>6 DEF f, Occurs, OccursIn

-----------------------------------------------------------------------------
(* Documents.                                                              *)

Nodes(t) == 1 .. treeSize(t)

\* What the traversal needs of a document: children have larger numbers than their
\* parents, and every node but the root is in one place.
Grown(t) ==
  /\ treeSize(t) \in Nat /\ 1 <= treeSize(t)
  /\ \A v \in Nodes(t) : KidsOf(t, v) \in Seq(Nodes(t))
  /\ \A v \in Nodes(t) : \A j \in 1 .. Len(KidsOf(t, v)) : v < KidsOf(t, v)[j]
  /\ \A v, u \in Nodes(t) : \A j \in 1 .. Len(KidsOf(t, v)), k \in 1 .. Len(KidsOf(t, u)) :
       KidsOf(t, v)[j] = KidsOf(t, u)[k] => v = u /\ j = k
  /\ \A x \in Nodes(t) \ {1} : \E v \in Nodes(t) : \E j \in 1 .. Len(KidsOf(t, v)) : KidsOf(t, v)[j] = x

\* Nodes are numbers from 1.
LEMMA NodesAreNumbers ==
  \A t : Grown(t) => \A v \in Nodes(t) : v \in Nat /\ 1 <= v /\ v <= treeSize(t) /\ treeSize(t) \in Nat
BY DEF Grown, Nodes

\* Children are nodes with larger numbers.
LEMMA KidsOfNode ==
  \A t : Grown(t) => \A v \in Nodes(t) :
    /\ KidsOf(t, v) \in Seq(Nodes(t)) /\ Len(KidsOf(t, v)) \in Nat
    /\ \A j \in 1 .. Len(KidsOf(t, v)) : KidsOf(t, v)[j] \in Nodes(t) /\ v < KidsOf(t, v)[j]
<1> SUFFICES ASSUME NEW t, Grown(t), NEW v \in Nodes(t)
             PROVE  /\ KidsOf(t, v) \in Seq(Nodes(t)) /\ Len(KidsOf(t, v)) \in Nat
                    /\ \A j \in 1 .. Len(KidsOf(t, v)) : KidsOf(t, v)[j] \in Nodes(t) /\ v < KidsOf(t, v)[j]
  OBVIOUS
<1> DEFINE K == KidsOf(t, v)
<1>1. K \in Seq(Nodes(t)) /\ \A j \in 1 .. Len(K) : v < K[j]
  BY DEF Grown
<1> HIDE DEF K
<1>2. Len(K) \in Nat /\ \A j \in 1 .. Len(K) : K[j] \in Nodes(t)
  BY <1>1
<1>3. QED
  BY <1>1, <1>2 DEF K

\* The child lists of a node, one after the other.
Lists(t, v) == [g \in DOMAIN t.kids[v] |-> t.kids[v][g].nodes]

\* The lists of a document are sequences of nodes.
LEMMA ListsTyped ==
  ASSUME NEW t, IsDocument(t)
  PROVE  /\ treeSize(t) \in Nat /\ 1 <= treeSize(t)
         /\ \A v \in Nodes(t) :
              /\ Len(t.kids[v]) \in Nat /\ DOMAIN t.kids[v] = 1 .. Len(t.kids[v])
              /\ \A g \in 1 .. Len(t.kids[v]) : t.kids[v][g] \in [lbl : STRING, nodes : Seq(Nodes(t))]
              /\ Lists(t, v) \in Seq(Seq(Nodes(t))) /\ Len(Lists(t, v)) = Len(t.kids[v])
              /\ \A g \in 1 .. Len(t.kids[v]) : Lists(t, v)[g] = t.kids[v][g].nodes
<1> DEFINE L == [lbl : STRING, nodes : Seq(Nodes(t))]
<1>1. treeSize(t) \in Nat /\ 1 <= treeSize(t)
  <2>1. t.class \in Seq(STRING) /\ t.class # <<>>
    BY DEF IsDocument
  <2>2. QED
    BY <2>1 DEF treeSize
<1>2. t.kids \in [Nodes(t) -> Seq(L)]
  BY DEF IsDocument, Nodes
<1> HIDE DEF L
<1>3. ASSUME NEW v \in Nodes(t)
      PROVE  /\ Len(t.kids[v]) \in Nat /\ DOMAIN t.kids[v] = 1 .. Len(t.kids[v])
             /\ \A g \in 1 .. Len(t.kids[v]) : t.kids[v][g] \in L
  BY <1>2
<1>4. ASSUME NEW v \in Nodes(t)
      PROVE  /\ Lists(t, v) \in Seq(Seq(Nodes(t))) /\ Len(Lists(t, v)) = Len(t.kids[v])
             /\ \A g \in 1 .. Len(t.kids[v]) : Lists(t, v)[g] = t.kids[v][g].nodes
  <2> DEFINE k == t.kids[v]
             n == Len(k)
             D == Seq(Nodes(t))
             s == [g \in 1 .. n |-> k[g].nodes]
  <2>1. n \in Nat /\ DOMAIN k = 1 .. n /\ \A g \in 1 .. n : k[g].nodes \in D
    BY <1>3 DEF L
  <2>2. Lists(t, v) = s
    BY <2>1 DEF Lists
  <2> HIDE DEF k, n, D
  <2>3. s \in Seq(D) /\ Len(s) = n /\ \A g \in 1 .. n : s[g] = k[g].nodes
    BY <2>1
  <2> HIDE DEF s
  <2>4. QED
    BY <2>2, <2>3 DEF k, n, D
<1>5. QED
  BY <1>1, <1>3, <1>4 DEF L

\* A document is such a tree.
LEMMA DocumentsGrow == \A t : IsDocument(t) => Grown(t)
<1> SUFFICES ASSUME NEW t, IsDocument(t) PROVE Grown(t)
  OBVIOUS
<1> DEFINE K(v) == KidsOf(t, v)
           n == treeSize(t)
           places == UNION {{v} \X DOMAIN K(v) : v \in Nodes(t)}
           kid(x) == K(x[1])[x[2]]
<1>1. n \in Nat /\ 1 <= n
  BY ListsTyped
<1>2. \A v \in Nodes(t) : K(v) \in Seq(Nodes(t))
  <2>1. ASSUME NEW v \in Nodes(t) PROVE K(v) \in Seq(Nodes(t))
    <3>1. Lists(t, v) \in Seq(Seq(Nodes(t))) /\ K(v) = FlattenSeq(Lists(t, v))
      BY ListsTyped DEF KidsOf, Lists
    <3>2. QED
      BY <3>1, LaidOut
  <2>2. QED
    BY <2>1
<1>3. /\ \A x \in places : x[1] < kid(x)
      /\ \A x, y \in places : kid(x) = kid(y) => x = y
      /\ \A w \in Nodes(t) \ {1} : \E x \in places : kid(x) = w
  BY DEF IsDocument, Nodes
<1> HIDE DEF K
<1>4. \A v \in Nodes(t) : DOMAIN K(v) = 1 .. Len(K(v))
  BY <1>2
<1>5. \A v \in Nodes(t) : \A j \in 1 .. Len(K(v)) : <<v, j>> \in places /\ kid(<<v, j>>) = K(v)[j]
  BY <1>4
<1>6. \A x \in places : x[1] \in Nodes(t) /\ x[2] \in 1 .. Len(K(x[1]))
  BY <1>4
<1> HIDE DEF places, kid
<1>7. \A v \in Nodes(t) : \A j \in 1 .. Len(K(v)) : v < K(v)[j]
  <2>1. ASSUME NEW v \in Nodes(t), NEW j \in 1 .. Len(K(v)) PROVE v < K(v)[j]
    <3>1. <<v, j>>[1] < kid(<<v, j>>)
      BY <1>3, <1>5
    <3>2. <<v, j>>[1] = v
      OBVIOUS
    <3>3. QED
      BY <1>5, <3>1, <3>2
  <2>2. QED
    BY <2>1
<1>8. \A v, u \in Nodes(t) : \A j \in 1 .. Len(K(v)), k \in 1 .. Len(K(u)) :
        K(v)[j] = K(u)[k] => v = u /\ j = k
  <2>1. ASSUME NEW v \in Nodes(t), NEW u \in Nodes(t),
               NEW j \in 1 .. Len(K(v)), NEW k \in 1 .. Len(K(u)), K(v)[j] = K(u)[k]
        PROVE  v = u /\ j = k
    <3> DEFINE x == <<v, j>>
               y == <<u, k>>
    <3>1. x \in places /\ y \in places /\ kid(x) = K(v)[j] /\ kid(y) = K(u)[k]
      BY <1>5
    <3> HIDE DEF x, y
    <3>2. x = y
      BY <1>3, <2>1, <3>1
    <3>3. QED
      BY <3>2 DEF x, y
  <2>2. QED
    BY <2>1
<1>9. \A w \in Nodes(t) \ {1} : \E v \in Nodes(t) : \E j \in 1 .. Len(K(v)) : K(v)[j] = w
  BY <1>3, <1>6 DEF kid
<1>10. QED
  BY <1>1, <1>2, <1>7, <1>8, <1>9 DEF Grown, K

\* The children of the nodes of a level, node by node.
Parts(t, level) == [i \in DOMAIN level |-> KidsOf(t, level[i])]

\* They are sequences of nodes, and nextLevel is all of them.
LEMMA PartsTyped ==
  \A t : Grown(t) => \A l \in Seq(Nodes(t)) :
    /\ Parts(t, l) \in Seq(Seq(Nodes(t))) /\ Len(Parts(t, l)) = Len(l) /\ Len(l) \in Nat
    /\ \A i \in 1 .. Len(l) : l[i] \in Nodes(t) /\ Parts(t, l)[i] = KidsOf(t, l[i])
    /\ NextLevel(t, l) = FlattenSeq(Parts(t, l))
    /\ NextLevel(t, l) \in Seq(Nodes(t))
<1> SUFFICES ASSUME NEW t, Grown(t), NEW l \in Seq(Nodes(t))
             PROVE  /\ Parts(t, l) \in Seq(Seq(Nodes(t))) /\ Len(Parts(t, l)) = Len(l) /\ Len(l) \in Nat
                    /\ \A i \in 1 .. Len(l) : l[i] \in Nodes(t) /\ Parts(t, l)[i] = KidsOf(t, l[i])
                    /\ NextLevel(t, l) = FlattenSeq(Parts(t, l))
                    /\ NextLevel(t, l) \in Seq(Nodes(t))
  OBVIOUS
<1> DEFINE N == Nodes(t)
           D == Seq(N)
           n == Len(l)
           K(v) == KidsOf(t, v)
           s == [i \in 1 .. n |-> K(l[i])]
<1>1. n \in Nat /\ DOMAIN l = 1 .. n /\ \A i \in 1 .. n : l[i] \in N
  OBVIOUS
<1>2. \A v \in N : K(v) \in D
  BY DEF Grown
<1>3. Parts(t, l) = s
  BY <1>1 DEF Parts
<1>4. NextLevel(t, l) = FlattenSeq(Parts(t, l))
  BY DEF NextLevel, Parts
<1> HIDE DEF N, K, n
<1>6. \A i \in 1 .. n : K(l[i]) \in D
  BY <1>1, <1>2
<1> HIDE DEF D
<1>7. s \in Seq(D) /\ Len(s) = n /\ \A i \in 1 .. n : s[i] = K(l[i])
  BY <1>1, <1>6
<1> HIDE DEF s
<1>8. FlattenSeq(s) \in Seq(N)
  BY <1>7, LaidOut DEF D
<1>9. QED
  BY <1>1, <1>3, <1>4, <1>7, <1>8 DEF N, n, D, K

\* The children of two rows of nodes.
LEMMA NextLevelEnds ==
  \A t : Grown(t) => \A a, b \in Seq(Nodes(t)) :
    NextLevel(t, a \o b) = NextLevel(t, a) \o NextLevel(t, b)
<1> SUFFICES ASSUME NEW t, Grown(t), NEW a \in Seq(Nodes(t)), NEW b \in Seq(Nodes(t))
             PROVE  NextLevel(t, a \o b) = NextLevel(t, a) \o NextLevel(t, b)
  OBVIOUS
<1> DEFINE N == Nodes(t)
           c == a \o b
           m == Len(a)
           n == Len(b)
<1>1. /\ c \in Seq(N) /\ Len(c) = m + n /\ m \in Nat /\ n \in Nat
      /\ \A i \in 1 .. m : c[i] = a[i]
      /\ \A i \in 1 .. n : c[m + i] = b[i]
  BY Ends
<1> HIDE DEF c, m, n
<1> DEFINE pa == Parts(t, a)
           pb == Parts(t, b)
           pc == Parts(t, c)
           D == Seq(N)
<1>2. /\ pa \in Seq(D) /\ Len(pa) = m /\ \A i \in 1 .. m : pa[i] = KidsOf(t, a[i])
      /\ pb \in Seq(D) /\ Len(pb) = n /\ \A i \in 1 .. n : pb[i] = KidsOf(t, b[i])
      /\ NextLevel(t, a) = FlattenSeq(pa) /\ NextLevel(t, b) = FlattenSeq(pb)
  BY PartsTyped DEF m, n
<1>3. /\ pc \in Seq(D) /\ Len(pc) = m + n /\ NextLevel(t, c) = FlattenSeq(pc)
      /\ \A i \in 1 .. m + n : pc[i] = KidsOf(t, c[i])
  BY <1>1, PartsTyped
<1> HIDE DEF pa, pb, pc, D, N
<1> DEFINE q == pa \o pb
<1>10. q \in Seq(D) /\ TwoEnds(q, pa, pb)
  BY <1>2, EndsOf
<1> HIDE DEF q
<1>4. /\ q \in Seq(D) /\ Len(q) = m + n
      /\ \A i \in 1 .. m : q[i] = pa[i]
      /\ \A i \in 1 .. n : q[m + i] = pb[i]
  BY <1>2, <1>10 DEF TwoEnds
<1>5. \A i \in 1 .. m + n : pc[i] = q[i]
  <2>1. ASSUME NEW i \in 1 .. m + n PROVE pc[i] = q[i]
    <3>1. CASE i \in 1 .. m
      BY <1>1, <1>2, <1>3, <1>4, <3>1
    <3>2. CASE i \notin 1 .. m
      <4> DEFINE j == i - m
      <4>1. j \in 1 .. n /\ i = m + j
        BY <1>1, <3>2
      <4> HIDE DEF j
      <4>2. pc[i] = KidsOf(t, b[j]) /\ q[i] = pb[j]
        BY <1>1, <1>3, <1>4, <4>1
      <4>3. QED
        BY <1>2, <4>1, <4>2
    <3>3. QED
      BY <3>1, <3>2
  <2>2. QED
    BY <2>1
<1>6. pc = q
  BY <1>3, <1>4, <1>5, SeqEqual
<1>7. FlattenSeq(pa \o pb) = FlattenSeq(pa) \o FlattenSeq(pb)
  BY <1>2, FlattenEnds DEF D
<1>8. QED
  BY <1>2, <1>3, <1>6, <1>7 DEF q, c

\* x is the child of a node of level, and of which.
LEMMA NextLevelElements ==
  \A t : Grown(t) => \A l \in Seq(Nodes(t)) :
    \A i \in 1 .. Len(NextLevel(t, l)) :
      \E a \in 1 .. Len(l) : \E j \in 1 .. Len(KidsOf(t, l[a])) : NextLevel(t, l)[i] = KidsOf(t, l[a])[j]
<1> SUFFICES ASSUME NEW t, Grown(t), NEW l \in Seq(Nodes(t)), NEW i \in 1 .. Len(NextLevel(t, l))
             PROVE  \E a \in 1 .. Len(l) : \E j \in 1 .. Len(KidsOf(t, l[a])) :
                      NextLevel(t, l)[i] = KidsOf(t, l[a])[j]
  OBVIOUS
<1> DEFINE s == Parts(t, l)
           N == Nodes(t)
<1>1. /\ s \in Seq(Seq(N)) /\ Len(s) = Len(l) /\ NextLevel(t, l) = FlattenSeq(s)
      /\ \A a \in 1 .. Len(l) : s[a] = KidsOf(t, l[a])
  BY PartsTyped
<1> HIDE DEF s, N
<1>2. \E a \in 1 .. Len(s) : \E j \in 1 .. Len(s[a]) : s[a][j] = FlattenSeq(s)[i]
  <2>1. Occurs(FlattenSeq(s)[i], FlattenSeq(s))
    BY <1>1 DEF Occurs
  <2>2. OccursIn(FlattenSeq(s)[i], s)
    BY <1>1, <2>1, FlattenElements
  <2>3. QED
    BY <2>2 DEF Occurs, OccursIn
<1>3. QED
  BY <1>1, <1>2

-----------------------------------------------------------------------------
(* Levels.                                                                 *)

\* The function LevelsOf recurses with.
AreLevels(t, level) == level = [k \in Nat |-> IF k = 0 THEN <<1>> ELSE NextLevel(t, level[k - 1])]
Levels(t) == CHOOSE level : AreLevels(t, level)
Turns(t) == Min({k \in 1 .. treeSize(t) : Levels(t)[k] = <<>>})
\* LevelsOf, with that function named.
LEMMA LevelsDef == \A t : LevelsOf(t) = [k \in 1 .. Turns(t) |-> Levels(t)[k - 1]]
BY DEF LevelsOf, Levels, AreLevels, Turns

\* It exists.
LEMMA LevelsTyped ==
  \A t : Grown(t) => /\ Levels(t) \in [Nat -> Seq(Nodes(t))] /\ Levels(t)[0] = <<1>>
                     /\ \A k \in Nat : Levels(t)[k + 1] = NextLevel(t, Levels(t)[k])
<1> SUFFICES ASSUME NEW t, Grown(t)
             PROVE  /\ Levels(t) \in [Nat -> Seq(Nodes(t))] /\ Levels(t)[0] = <<1>>
                    /\ \A k \in Nat : Levels(t)[k + 1] = NextLevel(t, Levels(t)[k])
  OBVIOUS
<1> DEFINE D == Seq(Nodes(t))
           H == [k \in Nat |-> [d \in D |-> NextLevel(t, d)]]
<1>1. <<1>> \in D
  <2>1. 1 \in Nodes(t)
    BY DEF Nodes, Grown
  <2>2. QED
    BY <2>1
<1>2. \A d \in D : NextLevel(t, d) \in D
  BY PartsTyped
<1> HIDE DEF D
<1>3. IsStep(H, D) /\ \A k \in Nat : \A d \in D : H[k][d] = NextLevel(t, d)
  BY <1>2 DEF IsStep
<1> HIDE DEF H
<1>4. PICK f : Iterates(f, D, <<1>>, H)
  BY <1>1, <1>3, Recursion
<1>5. f \in [Nat -> D] /\ f[0] = <<1>> /\ \A k \in Nat : f[k + 1] = NextLevel(t, f[k])
  BY <1>3, <1>4 DEF Iterates
<1>6. AreLevels(t, f)
  <2>1. ASSUME NEW k \in Nat PROVE f[k] = IF k = 0 THEN <<1>> ELSE NextLevel(t, f[k - 1])
    <3>1. CASE k = 0
      BY <1>5, <3>1
    <3>2. CASE k # 0
      <4>1. k - 1 \in Nat /\ (k - 1) + 1 = k
        BY <3>2
      <4>2. f[(k - 1) + 1] = NextLevel(t, f[k - 1])
        BY <1>5, <4>1
      <4>3. QED
        BY <3>2, <4>1, <4>2
    <3>3. QED
      BY <3>1, <3>2
  <2>2. f = [k \in Nat |-> f[k]]
    BY <1>5
  <2>3. QED
    BY <2>1, <2>2 DEF AreLevels
<1> DEFINE g == Levels(t)
<1>7. AreLevels(t, g)
  BY <1>6 DEF Levels
<1> HIDE DEF g
<1>8. DOMAIN g = Nat /\ g = [k \in Nat |-> g[k]] /\ g[0] = <<1>>
  BY <1>7 DEF AreLevels
<1>9. \A k \in Nat : g[k + 1] = NextLevel(t, g[k])
  <2>1. ASSUME NEW k \in Nat PROVE g[k + 1] = NextLevel(t, g[k])
    <3>1. k + 1 \in Nat /\ k + 1 # 0 /\ (k + 1) - 1 = k
      OBVIOUS
    <3>2. \A m \in Nat : g[m] = IF m = 0 THEN <<1>> ELSE NextLevel(t, g[m - 1])
      BY <1>7 DEF AreLevels
    <3>3. QED
      BY <3>1, <3>2
  <2>2. QED
    BY <2>1
<1>10. \A k \in Nat : g[k] \in D
  <2>1. ASSUME NEW n \in Nat PROVE g[n] \in D
    <3> DEFINE Q == {k \in 0 .. n : g[k] \in D}
    <3>1. 0 \in Q
      BY <1>1, <1>8
    <3>2. \A k \in 0 .. n - 1 : k \in Q => k + 1 \in Q
      BY <1>2, <1>9
    <3> HIDE DEF Q
    <3>3. \A k \in 0 .. n : k \in Q
      BY <3>1, <3>2, CountingUp
    <3>4. QED
      BY <3>3 DEF Q
  <2>2. QED
    BY <2>1
<1>11. g \in [Nat -> D]
  BY <1>8, <1>10
<1>12. QED
  BY <1>8, <1>9, <1>11 DEF g, D

\* Numbers rise from level to level.
LEMMA LevelsRise ==
  \A t : Grown(t) => \A k \in Nat : \A i \in 1 .. Len(Levels(t)[k]) : k < Levels(t)[k][i]
<1> SUFFICES ASSUME NEW t, Grown(t), NEW m \in Nat
             PROVE  \A i \in 1 .. Len(Levels(t)[m]) : m < Levels(t)[m][i]
  OBVIOUS
<1> DEFINE g == Levels(t)
           N == Nodes(t)
           Above(k) == \A i \in 1 .. Len(g[k]) : k < g[k][i]
           Q == {k \in 0 .. m : Above(k)}
<1>1. g \in [Nat -> Seq(N)] /\ g[0] = <<1>> /\ \A k \in Nat : g[k + 1] = NextLevel(t, g[k])
  BY LevelsTyped
<1> HIDE DEF g
<1>2. 0 \in Q
  <2>1. \A i \in 1 .. Len(<<1>>) : 0 < <<1>>[i]
    OBVIOUS
  <2>2. Above(0)
    BY <1>1, <2>1
  <2> HIDE DEF Above
  <2>3. QED
    BY <2>2
<1>3. ASSUME NEW k \in 0 .. m - 1, k \in Q PROVE k + 1 \in Q
  <2> DEFINE l == g[k]
             h == g[k + 1]
  <2>4. l \in Seq(N) /\ h = NextLevel(t, l)
    <3>1. k \in Nat
      OBVIOUS
    <3>2. QED
      BY <1>1, <3>1
  <2>5. \A a \in 1 .. Len(l) : k < l[a]
    BY <1>3
  <2> HIDE DEF l, h, N
  <2>6. \A a \in 1 .. Len(l) : l[a] \in N
    BY <2>4
  <2>1. l \in Seq(N) /\ h = NextLevel(t, l) /\ \A a \in 1 .. Len(l) : k < l[a] /\ l[a] \in N
    BY <2>4, <2>5, <2>6
  <2>2. ASSUME NEW i \in 1 .. Len(h) PROVE k + 1 < h[i]
    <3>1. PICK a \in 1 .. Len(l) : \E j \in 1 .. Len(KidsOf(t, l[a])) : h[i] = KidsOf(t, l[a])[j]
      BY <2>1, NextLevelElements DEF N
    <3>2. PICK j \in 1 .. Len(KidsOf(t, l[a])) : h[i] = KidsOf(t, l[a])[j]
      BY <3>1
    <3>3. k < l[a] /\ l[a] \in N
      BY <2>1
    <3> DEFINE K == KidsOf(t, l[a])
    <3>4. K[j] \in N /\ l[a] < K[j]
      BY <3>3, KidsOfNode DEF N
    <3>6. l[a] \in Nat /\ K[j] \in Nat
      BY <3>3, <3>4, NodesAreNumbers DEF N
    <3> HIDE DEF K
    <3>7. \A x, y \in Nat : k < x /\ x < y => k + 1 < y
      OBVIOUS
    <3>8. k + 1 < K[j]
      BY <3>3, <3>4, <3>6, <3>7
    <3>9. QED
      BY <3>2, <3>8 DEF K
  <2>3. Above(k + 1)
    BY <2>2 DEF h
  <2> HIDE DEF Above
  <2>7. QED
    BY <2>3
<1> HIDE DEF Q
<1>4. \A k \in 0 .. m : k \in Q
  BY <1>2, <1>3, CountingUp
<1>5. QED
  BY <1>4 DEF Q, g

\* The traversal ends at the first empty level.
LEMMA TurnsEnd ==
  \A t : Grown(t) => /\ Turns(t) \in 1 .. treeSize(t) /\ Levels(t)[Turns(t)] = <<>>
                     /\ \A k \in 0 .. Turns(t) - 1 : Levels(t)[k] # <<>>
<1> SUFFICES ASSUME NEW t, Grown(t)
             PROVE  /\ Turns(t) \in 1 .. treeSize(t) /\ Levels(t)[Turns(t)] = <<>>
                    /\ \A k \in 0 .. Turns(t) - 1 : Levels(t)[k] # <<>>
  OBVIOUS
<1> DEFINE n == treeSize(t)
           g == Levels(t)
           S == {k \in 1 .. n : g[k] = <<>>}
           m == Turns(t)
<1>1. n \in Nat /\ 1 <= n
  BY DEF Grown
<1>2. g[n] = <<>>
  <2> DEFINE u == g[n]
             D == 1 .. n
  <2>1. u \in Seq(D) /\ \A i \in 1 .. Len(u) : n < u[i]
    BY <1>1, LevelsTyped, LevelsRise DEF Nodes
  <2> HIDE DEF g, u, D
  <2>2. ~(1 \in 1 .. Len(u))
    <3>1. ASSUME 1 \in 1 .. Len(u) PROVE FALSE
      <4>1. u[1] \in D /\ n < u[1]
        BY <2>1, <3>1
      <4> HIDE DEF n
      <4>2. QED
        BY <1>1, <4>1 DEF D
    <3>2. QED
      BY <3>1
  <2>3. u = <<>>
    BY <2>1, <2>2
  <2>4. QED
    BY <2>3 DEF u
<1>3. S \in SUBSET Nat /\ n \in S
  BY <1>1, <1>2
<1>4. m = Min(S)
  BY DEF Turns
<1> HIDE DEF m, g
<1>5. m \in S /\ \A k \in S : m <= k
  <2> HIDE DEF S
  <2>1. QED
    BY <1>3, <1>4, LeastOf
<1>6. ASSUME NEW k \in 0 .. m - 1 PROVE g[k] # <<>>
  <2>1. CASE k = 0
    <3>1. g[0] = <<1>>
      BY LevelsTyped DEF g
    <3>2. QED
      BY <2>1, <3>1
  <2>2. CASE k # 0
    <3>1. k \in 1 .. n /\ ~(m <= k)
      BY <1>1, <1>5, <2>2
    <3>2. k \notin S
      BY <1>5, <3>1
    <3>3. QED
      BY <3>1, <3>2
  <2>3. QED
    BY <2>1, <2>2
<1>7. QED
  BY <1>5, <1>6 DEF m, g

\* The nodes of the first k levels.
UpTo(t, k) == FlattenSeq(SubSeq(LevelsOf(t), 1, k))

\* The levels up to the last turn.
LEMMA LevelsOfTyped ==
  \A t : Grown(t) =>
    /\ LevelsOf(t) \in Seq(Seq(Nodes(t))) /\ Len(LevelsOf(t)) = Turns(t) /\ Turns(t) \in Nat /\ 1 <= Turns(t)
    /\ \A k \in 1 .. Turns(t) : LevelsOf(t)[k] = Levels(t)[k - 1]
<1> SUFFICES ASSUME NEW t, Grown(t)
             PROVE  /\ LevelsOf(t) \in Seq(Seq(Nodes(t))) /\ Len(LevelsOf(t)) = Turns(t)
                    /\ Turns(t) \in Nat /\ 1 <= Turns(t)
                    /\ \A k \in 1 .. Turns(t) : LevelsOf(t)[k] = Levels(t)[k - 1]
  OBVIOUS
<1> DEFINE D == Seq(Nodes(t))
           g == Levels(t)
           m == Turns(t)
           s == [k \in 1 .. m |-> g[k - 1]]
<1>1. LevelsOf(t) = s
  BY LevelsDef
<1>2. g \in [Nat -> D]
  BY LevelsTyped
<1>3. m \in Nat /\ 1 <= m
  BY TurnsEnd, NodesAreNumbers DEF Grown
<1> HIDE DEF g, m, D
<1>4. \A k \in 1 .. m : g[k - 1] \in D
  BY <1>2, <1>3
<1>5. s \in Seq(D) /\ Len(s) = m /\ \A k \in 1 .. m : s[k] = g[k - 1]
  BY <1>3, <1>4
<1> HIDE DEF s
<1>6. QED
  BY <1>1, <1>3, <1>5 DEF g, m, D

\* One level more.
LEMMA UpToGrows ==
  \A t : Grown(t) =>
    /\ UpTo(t, 0) = <<>> /\ UpTo(t, Turns(t)) = Order(t)
    /\ \A k \in 0 .. Turns(t) : UpTo(t, k) \in Seq(Nodes(t))
    /\ \A k \in 1 .. Turns(t) : UpTo(t, k) = UpTo(t, k - 1) \o Levels(t)[k - 1]
<1> SUFFICES ASSUME NEW t, Grown(t)
             PROVE  /\ UpTo(t, 0) = <<>> /\ UpTo(t, Turns(t)) = Order(t)
                    /\ \A k \in 0 .. Turns(t) : UpTo(t, k) \in Seq(Nodes(t))
                    /\ \A k \in 1 .. Turns(t) : UpTo(t, k) = UpTo(t, k - 1) \o Levels(t)[k - 1]
  OBVIOUS
<1> DEFINE N == Nodes(t)
           D == Seq(N)
           s == LevelsOf(t)
           m == Turns(t)
           v(k) == SubSeq(s, 1, k)
<1>1. s \in Seq(D) /\ Len(s) = m /\ m \in Nat /\ \A k \in 1 .. m : s[k] = Levels(t)[k - 1]
  BY LevelsOfTyped
<1> HIDE DEF s, m, N
<1>2. <<>> \in D /\ \A r \in Seq(D) : FlattenSeq(r) \in D
  <2>1. <<>> \in Seq(N)
    OBVIOUS
  <2>2. QED
    BY <2>1, FlattenAppend
<1>3. v(0) = <<>> /\ v(m) = s
  <2> HIDE DEF D
  <2>1. QED
    BY <1>1, SubSeqFull
<1>4. FlattenSeq(<<>>) = <<>>
  BY FlattenNone
<1>5. UpTo(t, 0) = <<>> /\ UpTo(t, m) = Order(t)
  BY <1>3, <1>4 DEF UpTo, Order, s
<1>6. ASSUME NEW k \in 1 .. m
      PROVE  /\ v(k - 1) \in Seq(D) /\ v(k) = Append(v(k - 1), s[k])
             /\ s[k] \in D
  <2> HIDE DEF D
  <2>1. k \in 1 .. Len(s)
    BY <1>1
  <2>2. s[k] \in D
    BY <1>1
  <2>3. QED
    BY <1>1, <2>1, <2>2, PrefixGrows
<1>7. \A k \in 0 .. m : v(k) \in Seq(D)
  <2> HIDE DEF D
  <2>1. QED
    BY <1>1
<1> HIDE DEF v
<1>8. \A k \in 0 .. m : FlattenSeq(v(k)) \in D
  BY <1>2, <1>7
<1>9. ASSUME NEW k \in 1 .. m PROVE FlattenSeq(v(k)) = FlattenSeq(v(k - 1)) \o s[k]
  BY <1>6, FlattenAppend
<1>10. \A k : UpTo(t, k) = FlattenSeq(v(k))
  BY DEF UpTo, v, s
<1>11. QED
  BY <1>1, <1>5, <1>8, <1>9, <1>10 DEF N, m

\* The nodes so far and the level at hand are the root and all children so far.
LEMMA QueueIsKept ==
  \A t : Grown(t) => \A k \in 0 .. Turns(t) :
    UpTo(t, k) \o Levels(t)[k] = <<1>> \o NextLevel(t, UpTo(t, k))
<1> SUFFICES ASSUME NEW t, Grown(t)
             PROVE  \A k \in 0 .. Turns(t) :
                      UpTo(t, k) \o Levels(t)[k] = <<1>> \o NextLevel(t, UpTo(t, k))
  OBVIOUS
<1> DEFINE N == Nodes(t)
           g == Levels(t)
           m == Turns(t)
           U(k) == UpTo(t, k)
           W(k) == NextLevel(t, U(k))
           Kept(k) == IsCat(<<1>> \o W(k), U(k), g[k])
           Q == {k \in 0 .. m : Kept(k)}
<1>1. m \in Nat
  BY LevelsOfTyped
<1>12. \A k \in Nat : g[k] \in Seq(N)
  BY LevelsTyped
<1>13. \A k \in Nat : g[k + 1] = NextLevel(t, g[k])
  BY LevelsTyped
<1>2. g[0] = <<1>> /\ <<1>> \in Seq(N)
  BY LevelsTyped
<1>3. /\ U(0) = <<>> /\ \A k \in 0 .. m : U(k) \in Seq(N)
      /\ \A k \in 1 .. m : IsCat(U(k), U(k - 1), g[k - 1])
  BY UpToGrows DEF IsCat
<1>4. \A k \in 0 .. m : W(k) \in Seq(N)
  BY <1>3, PartsTyped
<1>5. W(0) = <<>>
  <2>1. <<>> \in Seq(N) /\ Len(<<>>) = 0
    OBVIOUS
  <2>2. /\ NextLevel(t, <<>>) = FlattenSeq(Parts(t, <<>>)) /\ Len(Parts(t, <<>>)) = 0
        /\ Parts(t, <<>>) \in Seq(Seq(N))
    BY <2>1, PartsTyped
  <2>3. Parts(t, <<>>) = <<>>
    <3> DEFINE p == Parts(t, <<>>)
               D == Seq(N)
    <3> HIDE DEF p, D
    <3>1. p \in Seq(D) /\ Len(p) = 0
      BY <2>2 DEF p, D
    <3>2. p = <<>>
      BY <3>1
    <3>3. QED
      BY <3>2 DEF p
  <2>4. FlattenSeq(<<>>) = <<>>
    BY FlattenNone
  <2>5. QED
    BY <1>3, <2>2, <2>3, <2>4
<1>6. \A k \in 0 .. m - 1 : IsCat(W(k + 1), W(k), g[k + 1])
  <2>1. ASSUME NEW k \in 0 .. m - 1 PROVE IsCat(W(k + 1), W(k), g[k + 1])
    <3>1. k \in Nat /\ k \in 0 .. m /\ k + 1 \in 1 .. m /\ (k + 1) - 1 = k
      BY <1>1
    <3>2. U(k) \in Seq(N) /\ g[k] \in Seq(N) /\ U(k + 1) = U(k) \o g[k] /\ g[k + 1] = NextLevel(t, g[k])
      <4>1. U(k) \in Seq(N) /\ g[k] \in Seq(N)
        BY <1>3, <1>12, <3>1
      <4>2. IsCat(U(k + 1), U((k + 1) - 1), g[(k + 1) - 1])
        BY <1>3, <3>1
      <4>3. g[k + 1] = NextLevel(t, g[k])
        BY <1>13, <3>1
      <4> HIDE DEF U, g
      <4>4. QED
        BY <3>1, <4>1, <4>2, <4>3 DEF IsCat
    <3>3. NextLevel(t, U(k) \o g[k]) = NextLevel(t, U(k)) \o NextLevel(t, g[k])
      BY <3>2, NextLevelEnds
    <3>4. QED
      BY <3>2, <3>3 DEF IsCat
  <2>2. QED
    BY <2>1
<1> HIDE DEF g, m, U, W, N
<1>7. 0 \in Q
  <2>1. <<1>> \o <<>> = <<1>> /\ <<>> \o <<1>> = <<1>>
    OBVIOUS
  <2>2. Kept(0)
    BY <1>2, <1>3, <1>5, <2>1 DEF IsCat
  <2> HIDE DEF Kept
  <2>3. QED
    BY <1>1, <2>2
<1>8. ASSUME NEW k \in 0 .. m - 1, k \in Q PROVE k + 1 \in Q
  <2>1. k \in Nat /\ k \in 0 .. m /\ k + 1 \in 0 .. m /\ k + 1 \in 1 .. m /\ (k + 1) - 1 = k
    BY <1>1
  <2> DEFINE r == <<1>>
             q == r \o W(k)
             b == q \o g[k + 1]
  <2>2. r \in Seq(N) /\ W(k) \in Seq(N) /\ g[k + 1] \in Seq(N)
    <3>1. k + 1 \in Nat
      BY <2>1
    <3>2. g[k + 1] \in Seq(N)
      BY <1>12, <3>1
    <3>3. QED
      BY <1>2, <1>4, <2>1, <3>2
  <2>3. IsCat(q, U(k), g[k]) /\ IsCat(U(k + 1), U(k), g[k])
    BY <1>3, <1>8, <2>1
  <2>4. q = U(k + 1)
    BY <2>3 DEF IsCat
  <2>5. IsCat(q, r, W(k)) /\ IsCat(b, q, g[k + 1]) /\ IsCat(W(k + 1), W(k), g[k + 1])
    BY <1>6 DEF IsCat
  <2> HIDE DEF r, q, b
  <2>6. IsCat(b, r, W(k + 1))
    BY <2>2, <2>5, CatOfCat
  <2>7. IsCat(r \o W(k + 1), U(k + 1), g[k + 1])
    BY <2>4, <2>5, <2>6 DEF IsCat
  <2>8. Kept(k + 1)
    BY <2>7 DEF r
  <2> HIDE DEF Kept
  <2>9. QED
    BY <2>1, <2>8
<1> HIDE DEF Q
<1>9. \A k \in 0 .. m : k \in Q
  BY <1>1, <1>7, <1>8, CountingUp
<1>10. \A k \in 0 .. m : Kept(k)
  BY <1>9 DEF Q
<1>11. QED
  BY <1>10 DEF IsCat, U, W, g, m

\* The order of the indices: the root, then the children of the nodes in this order.
LEMMA OrderIsQueue ==
  \A t : Grown(t) => /\ Order(t) \in Seq(Nodes(t)) /\ NextLevel(t, Order(t)) \in Seq(Nodes(t))
                     /\ Order(t) = <<1>> \o NextLevel(t, Order(t))
<1> SUFFICES ASSUME NEW t, Grown(t)
             PROVE  /\ Order(t) \in Seq(Nodes(t)) /\ NextLevel(t, Order(t)) \in Seq(Nodes(t))
                    /\ Order(t) = <<1>> \o NextLevel(t, Order(t))
  OBVIOUS
<1> DEFINE m == Turns(t)
           o == Order(t)
<1>1. m \in 0 .. m /\ Levels(t)[m] = <<>>
  BY LevelsOfTyped, TurnsEnd
<1>2. UpTo(t, m) = o /\ o \in Seq(Nodes(t))
  BY <1>1, UpToGrows
<1>3. o \o <<>> = <<1>> \o NextLevel(t, o)
  BY <1>1, <1>2, QueueIsKept
<1>4. NextLevel(t, o) \in Seq(Nodes(t))
  BY <1>2, PartsTyped
<1>5. \A D : \A r \in Seq(D) : r \o <<>> = r
  OBVIOUS
<1> HIDE DEF o
<1>6. o \o <<>> = o
  BY <1>2, <1>5
<1>7. QED
  BY <1>2, <1>3, <1>4, <1>6 DEF o

-----------------------------------------------------------------------------
(* The numbers of the nodes.                                               *)

\* The index of the leftmost child of each node, had it one.
Firsts(t) == [i \in 0 .. Len(Order(t)) |-> 1 + Offsets(Parts(t, Order(t)))[i]]

\* o is the nodes in the order of their indices, from 0; Fst[i] the index of the first
\* child of node i.  Node i has index i and place i + 1.
Queued(t, o, Fst) ==
  /\ o \in Seq(Nodes(t)) /\ 1 <= Len(o) /\ o[1] = 1
  /\ Fst \in [0 .. Len(o) -> Nat] /\ Fst[0] = 1 /\ Fst[Len(o)] = Len(o)
  /\ \A i \in 0 .. Len(o) - 1 : Fst[i + 1] = Fst[i] + Len(KidsOf(t, o[i + 1]))
  /\ \A i \in 0 .. Len(o) : \A h \in 0 .. i : Fst[h] <= Fst[i]
  /\ \A i \in 0 .. Len(o) - 1 : \A j \in 1 .. Len(KidsOf(t, o[i + 1])) :
       Fst[i] + j - 1 \in 1 .. Len(o) - 1 /\ o[Fst[i] + j] = KidsOf(t, o[i + 1])[j]
  /\ \A x \in 1 .. Len(o) - 1 :
       \E i \in 0 .. Len(o) - 1 : \E j \in 1 .. Len(KidsOf(t, o[i + 1])) : x = Fst[i] + j - 1
  /\ \A i, h \in 0 .. Len(o) - 1 :
       \A j \in 1 .. Len(KidsOf(t, o[i + 1])), k \in 1 .. Len(KidsOf(t, o[h + 1])) :
         Fst[i] + j = Fst[h] + k => i = h /\ j = k

\* The order of flatten is such a queue.
LEMMA OrderIsQueued == \A t : Grown(t) => Queued(t, Order(t), Firsts(t))
<1> SUFFICES ASSUME NEW t, Grown(t) PROVE Queued(t, Order(t), Firsts(t))
  OBVIOUS
<1> DEFINE N == Nodes(t)
           o == Order(t)
           f == NextLevel(t, o)
           s == Parts(t, o)
           P == Offsets(s)
           Fst == Firsts(t)
           m == Len(o)
           K(i) == KidsOf(t, o[i + 1])
<1>1. o \in Seq(N) /\ f \in Seq(N) /\ o = <<1>> \o f
  BY OrderIsQueue
<1>2. 1 \in N /\ <<1>> \in Seq(N) /\ Len(<<1>>) = 1 /\ <<1>>[1] = 1
  BY DEF Grown, Nodes
<1>3. /\ s \in Seq(Seq(N)) /\ Len(s) = m /\ m \in Nat /\ f = FlattenSeq(s)
      /\ \A i \in 1 .. m : o[i] \in N /\ s[i] = KidsOf(t, o[i])
  BY <1>1, PartsTyped
<1>4. LaidAt(s, f, P)
  BY <1>3, LaidOut
<1>5. Fst = [i \in 0 .. m |-> 1 + P[i]]
  BY DEF Firsts
<1>6. m = 1 + Len(f) /\ Len(f) \in Nat /\ o[1] = 1 /\ \A x \in 1 .. Len(f) : o[1 + x] = f[x]
  <2> DEFINE e == <<1>>
  <2>1. e \in Seq(N) /\ f \in Seq(N) /\ o = e \o f /\ Len(e) = 1 /\ e[1] = 1 /\ Len(f) \in Nat
    BY <1>1, <1>2
  <2> HIDE DEF e, f, o, N, s, P, Fst
  <2>2. TwoEnds(o, e, f)
    BY <2>1, EndsOf
  <2>3. 1 \in 1 .. Len(e)
    BY <2>1
  <2>4. QED
    BY <2>1, <2>2, <2>3 DEF TwoEnds
<1> HIDE DEF N, o, f, s, P, Fst, m
<1>7. \A a \in 1 .. m : Len(s[a]) \in Nat
  BY <1>3
<1>8. \A a \in 0 .. m : Fst[a] = 1 + P[a] /\ P[a] \in Nat
  <2>1. P \in [0 .. m -> Nat]
    BY <1>3, <1>4 DEF LaidAt
  <2>2. QED
    BY <1>5, <2>1
<1>9. /\ P[0] = 0 /\ Len(f) = P[m]
      /\ \A a \in 1 .. m : /\ P[a] = P[a - 1] + Len(s[a])
                           /\ \A j \in 1 .. Len(s[a]) : f[P[a - 1] + j] = s[a][j]
  BY <1>3, <1>4 DEF LaidAt
<1>10. \A b \in 0 .. m : \A a \in 0 .. b : P[a] <= P[b]
  BY <1>3, <1>4, <1>7, LaidGrows
<1>11. Fst \in [0 .. m -> Nat] /\ Fst[0] = 1 /\ Fst[m] = m
  <2>1. 0 \in 0 .. m /\ m \in 0 .. m
    BY <1>3
  <2>2. Fst \in [0 .. m -> Nat]
    BY <1>5, <1>8
  <2>3. QED
    BY <1>6, <1>8, <1>9, <2>1, <2>2
<1>12. ASSUME NEW i \in 0 .. m - 1
       PROVE  /\ Fst[i + 1] = Fst[i] + Len(K(i)) /\ Len(K(i)) \in Nat
              /\ \A j \in 1 .. Len(K(i)) : Fst[i] + j - 1 \in 1 .. m - 1 /\ o[Fst[i] + j] = K(i)[j]
  <2> DEFINE k == K(i)
             l == Len(k)
             p == P[i]
  <2>1. i + 1 \in 1 .. m /\ (i + 1) - 1 = i /\ i \in 0 .. m /\ i + 1 \in 0 .. m /\ m \in 0 .. m
    BY <1>3
  <2>2. s[i + 1] = k
    BY <1>3, <2>1 DEF o
  <2>3. l \in Nat
    BY <1>7, <2>1, <2>2
  <2>4. P[i + 1] = p + l /\ \A j \in 1 .. l : f[p + j] = k[j]
    BY <1>9, <2>1, <2>2
  <2>5. p \in Nat /\ P[i + 1] <= Len(f) /\ Fst[i] = 1 + p /\ Fst[i + 1] = 1 + P[i + 1]
    BY <1>8, <1>9, <1>10, <2>1
  <2> HIDE DEF k, l, p
  <2>6. ASSUME NEW j \in 1 .. l PROVE Fst[i] + j - 1 \in 1 .. m - 1 /\ o[Fst[i] + j] = k[j]
    <3>1. p + j \in 1 .. Len(f) /\ Fst[i] + j = 1 + (p + j) /\ Fst[i] + j - 1 = p + j
      BY <1>6, <2>3, <2>4, <2>5
    <3>2. o[1 + (p + j)] = f[p + j]
      BY <1>6, <3>1
    <3>3. QED
      BY <1>6, <2>4, <3>1, <3>2
  <2>7. Fst[i + 1] = Fst[i] + l
    BY <2>3, <2>4, <2>5
  <2>8. QED
    BY <2>3, <2>6, <2>7 DEF k, l
<1>13. ASSUME NEW x \in 1 .. m - 1
       PROVE  \E i \in 0 .. m - 1 : \E j \in 1 .. Len(K(i)) : x = Fst[i] + j - 1
  <2>1. x \in 1 .. Len(f)
    BY <1>6
  <2>11. Len(s) \in Nat /\ (\A a \in 1 .. Len(s) : Len(s[a]) \in Nat) /\ Len(s) = m
    BY <1>3, <1>7
  <2>12. AllFound(s, f, P)
    BY <1>4, <2>11, LaidFind DEF Sized
  <2>2. PICK a \in 1 .. m : \E j \in 1 .. Len(s[a]) : x = P[a - 1] + j /\ f[x] = s[a][j]
    BY <2>1, <2>11, <2>12 DEF AllFound
  <2>3. PICK j \in 1 .. Len(s[a]) : x = P[a - 1] + j
    BY <2>2
  <2>4. a - 1 \in 0 .. m - 1 /\ a - 1 \in 0 .. m /\ (a - 1) + 1 = a
    BY <1>3
  <2>5. s[a] = KidsOf(t, o[a])
    BY <1>3
  <2>6. s[a] = K(a - 1)
    BY <2>4, <2>5 DEF o
  <2>7. Len(s[a]) \in Nat /\ Fst[a - 1] = 1 + P[a - 1] /\ P[a - 1] \in Nat
    BY <1>7, <1>8, <2>4
  <2>8. j \in Nat
    BY <2>7, InPart
  <2>9. x = Fst[a - 1] + j - 1
    BY <2>3, <2>7, <2>8
  <2>10. QED
    BY <2>4, <2>6, <2>9
<1>14. \A i \in 0 .. m : \A h \in 0 .. i : Fst[h] <= Fst[i]
  <2>1. ASSUME NEW i \in 0 .. m, NEW h \in 0 .. i PROVE Fst[h] <= Fst[i]
    <3>1. h \in 0 .. m
      BY <1>3
    <3>2. QED
      BY <1>8, <1>10, <3>1
  <2>2. QED
    BY <2>1
<1>15. 1 <= m
  BY <1>6
<1>17. ASSUME NEW i \in 0 .. m - 1, NEW h \in 0 .. m - 1,
              NEW j \in 1 .. Len(K(i)), NEW k \in 1 .. Len(K(h)), Fst[i] + j = Fst[h] + k
       PROVE  i = h /\ j = k
  <2>1. Len(s) \in Nat /\ (\A a \in 1 .. Len(s) : Len(s[a]) \in Nat) /\ Len(s) = m
    BY <1>3, <1>7
  <2>2. FoundOnce(s, P)
    BY <1>4, <2>1, LaidOnce DEF Sized
  <2> DEFINE a == i + 1
             b == h + 1
  <2>3. /\ a \in 1 .. m /\ b \in 1 .. m /\ a - 1 = i /\ b - 1 = h /\ (a = b => i = h)
        /\ i \in 0 .. m /\ h \in 0 .. m
    BY <1>3
  <2>4. s[a] = K(i) /\ s[b] = K(h)
    <3>1. s[a] = KidsOf(t, o[a]) /\ s[b] = KidsOf(t, o[b])
      BY <1>3, <2>3
    <3>2. QED
      BY <3>1 DEF o
  <2>5. Fst[i] = 1 + P[i] /\ Fst[h] = 1 + P[h] /\ P[i] \in Nat /\ P[h] \in Nat
    BY <1>8, <2>3
  <2> HIDE DEF a, b, K
  <2>6. Len(s[a]) \in Nat /\ Len(s[b]) \in Nat
    BY <1>7, <2>3
  <2>7. j \in 1 .. Len(s[a]) /\ k \in 1 .. Len(s[b])
    BY <1>17, <2>4
  <2>8. P[i] + j = P[h] + k
    <3> DEFINE p == P[i]
               q == P[h]
    <3>1. j \in Nat /\ k \in Nat
      BY <2>6, <2>7, InPart
    <3>2. Fst[i] + j = Fst[h] + k
      BY <1>17
    <3>3. p \in Nat /\ q \in Nat /\ (1 + p) + j = (1 + q) + k
      BY <2>5, <3>2
    <3> HIDE DEF p, q
    <3>4. p + j = q + k
      BY <3>1, <3>3
    <3>5. QED
      BY <3>4 DEF p, q
  <2>9. a = b /\ j = k
    BY <2>1, <2>2, <2>3, <2>7, <2>8 DEF FoundOnce
  <2>10. QED
    BY <2>3, <2>9
<1>16. QED
  <2>1. \A i \in 0 .. m - 1 : /\ Fst[i + 1] = Fst[i] + Len(K(i))
                              /\ \A j \in 1 .. Len(K(i)) :
                                   Fst[i] + j - 1 \in 1 .. m - 1 /\ o[Fst[i] + j] = K(i)[j]
    BY <1>12
  <2>2. \A i, h \in 0 .. m - 1 : \A j \in 1 .. Len(K(i)), k \in 1 .. Len(K(h)) :
          Fst[i] + j = Fst[h] + k => i = h /\ j = k
    BY <1>17
  <2> HIDE DEF K
  <2>3. QED
    BY <1>1, <1>6, <1>11, <1>13, <1>14, <1>15, <2>1, <2>2 DEF Queued, N, m, Fst, o, K

\* x is the place of the j-th child of node i.
IsChild(t, o, Fst, x, i, j) ==
  /\ i \in 0 .. Len(o) - 1 /\ j \in 1 .. Len(KidsOf(t, o[i + 1])) /\ x = Fst[i] + j
  /\ o[x] = KidsOf(t, o[i + 1])[j]

\* Every place but the root's is that of a child.
LEMMA PlacesOfChildren ==
  \A t, o, Fst : Grown(t) /\ Queued(t, o, Fst) =>
    \A x \in 2 .. Len(o) : \E i, j : IsChild(t, o, Fst, x, i, j)
<1> SUFFICES ASSUME NEW t, NEW o, NEW Fst, Grown(t), Queued(t, o, Fst), NEW x \in 2 .. Len(o)
             PROVE  \E i, j : IsChild(t, o, Fst, x, i, j)
  OBVIOUS
<1> DEFINE m == Len(o)
           K(i) == KidsOf(t, o[i + 1])
<1>1. m \in Nat /\ x - 1 \in 1 .. m - 1
  BY DEF Queued
<1>2. PICK i \in 0 .. m - 1 : \E j \in 1 .. Len(K(i)) : x - 1 = Fst[i] + j - 1
  BY <1>1 DEF Queued
<1>3. PICK j \in 1 .. Len(K(i)) : x - 1 = Fst[i] + j - 1
  BY <1>2
<1>4. o[Fst[i] + j] = K(i)[j]
  BY DEF Queued
<1>5. i \in 0 .. m /\ i + 1 \in 1 .. m
  BY <1>1
<1>6. Fst[i] \in Nat /\ Len(K(i)) \in Nat
  <2>1. Fst \in [0 .. m -> Nat] /\ o \in Seq(Nodes(t))
    BY DEF Queued
  <2>2. Fst[i] \in Nat /\ o[i + 1] \in Nodes(t)
    BY <1>5, <2>1
  <2>3. QED
    BY <2>2, KidsOfNode
<1> HIDE DEF m, K
<1>7. x = Fst[i] + j
  BY <1>3, <1>6
<1>8. QED
  BY <1>4, <1>7 DEF IsChild, m, K

\* What a child is.
LEMMA ChildOfNode ==
  \A t, o, Fst : Grown(t) /\ Queued(t, o, Fst) =>
    \A i \in 0 .. Len(o) - 1 :
      /\ i \in Nat /\ i + 1 \in 1 .. Len(o) /\ o[i + 1] \in Nodes(t) /\ Fst[i] \in Nat
      /\ Len(KidsOf(t, o[i + 1])) \in Nat
      /\ \A j \in 1 .. Len(KidsOf(t, o[i + 1])) :
           /\ Fst[i] + j \in 2 .. Len(o) /\ IsChild(t, o, Fst, Fst[i] + j, i, j)
           /\ KidsOf(t, o[i + 1])[j] \in Nodes(t) /\ o[i + 1] < KidsOf(t, o[i + 1])[j]
<1> SUFFICES ASSUME NEW t, NEW o, NEW Fst, Grown(t), Queued(t, o, Fst), NEW i \in 0 .. Len(o) - 1
             PROVE  /\ i \in Nat /\ i + 1 \in 1 .. Len(o) /\ o[i + 1] \in Nodes(t) /\ Fst[i] \in Nat
                    /\ Len(KidsOf(t, o[i + 1])) \in Nat
                    /\ \A j \in 1 .. Len(KidsOf(t, o[i + 1])) :
                         /\ Fst[i] + j \in 2 .. Len(o) /\ IsChild(t, o, Fst, Fst[i] + j, i, j)
                         /\ KidsOf(t, o[i + 1])[j] \in Nodes(t) /\ o[i + 1] < KidsOf(t, o[i + 1])[j]
  OBVIOUS
<1> DEFINE m == Len(o)
           K == KidsOf(t, o[i + 1])
           f == Fst[i]
<1>1. m \in Nat /\ o \in Seq(Nodes(t)) /\ Fst \in [0 .. m -> Nat]
  BY DEF Queued
<1>2. i \in Nat /\ i + 1 \in 1 .. m /\ i \in 0 .. m
  BY <1>1
<1>3. o[i + 1] \in Nodes(t) /\ f \in Nat
  BY <1>1, <1>2
<1>4. Len(K) \in Nat /\ \A j \in 1 .. Len(K) : K[j] \in Nodes(t) /\ o[i + 1] < K[j]
  BY <1>3, KidsOfNode
<1>5. \A j \in 1 .. Len(K) : f + j - 1 \in 1 .. m - 1 /\ o[f + j] = K[j]
  BY DEF Queued
<1>6. ASSUME NEW j \in 1 .. Len(K) PROVE f + j \in 2 .. m /\ IsChild(t, o, Fst, f + j, i, j)
  <2>1. j \in Nat /\ f + j - 1 \in 1 .. m - 1 /\ o[f + j] = K[j]
    BY <1>4, <1>5, InPart
  <2>2. i \in 0 .. m - 1 /\ j \in 1 .. Len(K)
    OBVIOUS
  <2>3. IsChild(t, o, Fst, f + j, i, j)
    BY <2>1, <2>2 DEF IsChild
  <2> HIDE DEF m, f, K
  <2>4. f + j \in 2 .. m
    BY <1>1, <1>3, <2>1
  <2>5. QED
    BY <2>3, <2>4
<1> HIDE DEF m, f, K
<1>7. QED
  BY <1>2, <1>3, <1>4, <1>6 DEF m, f, K

\* No node has two indices.
LEMMA OrderIsOnce ==
  \A t, o, Fst : Grown(t) /\ Queued(t, o, Fst) => \A x, y \in 1 .. Len(o) : o[x] = o[y] => x = y
<1> SUFFICES ASSUME NEW t, NEW o, NEW Fst, Grown(t), Queued(t, o, Fst)
             PROVE  \A x, y \in 1 .. Len(o) : o[x] = o[y] => x = y
  OBVIOUS
<1> DEFINE m == Len(o)
           Twice(v) == \E x, y \in 1 .. m : x # y /\ o[x] = v /\ o[y] = v
           S == {v \in Nodes(t) : Twice(v)}
           K(i) == KidsOf(t, o[i + 1])
<1> SUFFICES ASSUME S # {} PROVE FALSE
  <2>1. \A x \in 1 .. m : o[x] \in Nodes(t)
    BY DEF Queued
  <2>2. QED
    BY <2>1
<1>1. m \in Nat /\ o[1] = 1
  BY DEF Queued
<1>2. S \in SUBSET Nat
  BY NodesAreNumbers
<1> DEFINE v == Min(S)
<1>3. v \in S /\ \A u \in S : v <= u
  <2> HIDE DEF S
  <2>1. QED
    BY <1>2, LeastOf
<1> HIDE DEF v
<1>4. PICK x \in 1 .. m, y \in 1 .. m : x # y /\ o[x] = v /\ o[y] = v
  BY <1>3
<1>5. \A z \in 2 .. m : \E i, j : IsChild(t, o, Fst, z, i, j)
  BY PlacesOfChildren
<1>6. \A i, j, z : IsChild(t, o, Fst, z, i, j) =>
        /\ i \in 0 .. m - 1 /\ j \in 1 .. Len(K(i)) /\ z = Fst[i] + j /\ o[z] = K(i)[j]
        /\ o[i + 1] \in Nodes(t) /\ o[i + 1] < o[z] /\ i \in Nat /\ i + 1 \in 1 .. m
  <2>1. ASSUME NEW i, NEW j, NEW z, IsChild(t, o, Fst, z, i, j)
        PROVE  /\ i \in 0 .. m - 1 /\ j \in 1 .. Len(K(i)) /\ z = Fst[i] + j /\ o[z] = K(i)[j]
               /\ o[i + 1] \in Nodes(t) /\ o[i + 1] < o[z] /\ i \in Nat /\ i + 1 \in 1 .. m
    <3>1. i \in 0 .. m - 1 /\ j \in 1 .. Len(K(i)) /\ z = Fst[i] + j /\ o[z] = K(i)[j]
      BY <2>1 DEF IsChild
    <3>2. o[i + 1] \in Nodes(t) /\ o[i + 1] < K(i)[j] /\ i \in Nat /\ i + 1 \in 1 .. m
      BY <3>1, ChildOfNode
    <3>3. QED
      BY <3>1, <3>2
  <2>2. QED
    BY <2>1
<1>7. \A z \in 2 .. m : 1 < o[z]
  <2>1. ASSUME NEW z \in 2 .. m PROVE 1 < o[z]
    <3>1. PICK i, j : IsChild(t, o, Fst, z, i, j)
      BY <1>5
    <3>2. o[i + 1] \in Nodes(t) /\ o[i + 1] < o[z]
      BY <1>6, <3>1
    <3>3. o[i + 1] \in Nat /\ 1 <= o[i + 1]
      BY <3>2, NodesAreNumbers
    <3>4. o[z] \in Nat
      <4>1. z \in 1 .. m
        BY <1>1
      <4>2. o[z] \in Nodes(t)
        BY <4>1 DEF Queued
      <4>3. QED
        BY <4>2, NodesAreNumbers
    <3> DEFINE a == o[i + 1]
               b == o[z]
    <3> HIDE DEF a, b
    <3>5. QED
      BY <3>2, <3>3, <3>4 DEF a, b
  <2>2. QED
    BY <2>1
<1>8. x \in 2 .. m /\ y \in 2 .. m
  <2>1. ~(1 < 1)
    OBVIOUS
  <2>2. \A z \in 1 .. m : z \in 2 .. m \/ z = 1
    BY <1>1
  <2>3. x # 1
    BY <1>1, <1>4, <1>7, <2>1, <2>2
  <2>4. y # 1
    BY <1>1, <1>4, <1>7, <2>1, <2>2
  <2>5. QED
    BY <2>2, <2>3, <2>4
<1>9. PICK i, j : IsChild(t, o, Fst, x, i, j)
  BY <1>5, <1>8
<1>10. PICK h, k : IsChild(t, o, Fst, y, h, k)
  BY <1>5, <1>8
<1>11. /\ i \in 0 .. m - 1 /\ j \in 1 .. Len(K(i)) /\ x = Fst[i] + j /\ o[x] = K(i)[j]
       /\ o[i + 1] \in Nodes(t) /\ o[i + 1] < o[x] /\ i \in Nat /\ i + 1 \in 1 .. m
  BY <1>6, <1>9
<1>12. /\ h \in 0 .. m - 1 /\ k \in 1 .. Len(K(h)) /\ y = Fst[h] + k /\ o[y] = K(h)[k]
       /\ o[h + 1] \in Nodes(t) /\ o[h + 1] < o[y] /\ h \in Nat /\ h + 1 \in 1 .. m
  BY <1>6, <1>10
<1>13. o[i + 1] = o[h + 1] /\ j = k
  <2>1. K(i)[j] = K(h)[k]
    BY <1>4, <1>11, <1>12
  <2>2. \A a, b \in Nodes(t) : \A q \in 1 .. Len(KidsOf(t, a)), r \in 1 .. Len(KidsOf(t, b)) :
          KidsOf(t, a)[q] = KidsOf(t, b)[r] => a = b /\ q = r
    BY DEF Grown
  <2> DEFINE c == o[i + 1]
             d == o[h + 1]
  <2>3. /\ c \in Nodes(t) /\ d \in Nodes(t) /\ j \in 1 .. Len(KidsOf(t, c))
        /\ k \in 1 .. Len(KidsOf(t, d)) /\ KidsOf(t, c)[j] = KidsOf(t, d)[k]
    BY <1>11, <1>12, <2>1
  <2> HIDE DEF c, d
  <2>4. c = d /\ j = k
    BY <2>2, <2>3
  <2>5. QED
    BY <2>4 DEF c, d
<1>14. i # h
  BY <1>4, <1>11, <1>12, <1>13
<1>15. i + 1 # h + 1
  BY <1>11, <1>12, <1>14
<1>16. o[i + 1] \in S
  BY <1>11, <1>12, <1>13, <1>15
<1>17. v <= o[i + 1] /\ o[i + 1] < v
  BY <1>3, <1>4, <1>11, <1>16
<1>18. v \in Nat /\ o[i + 1] \in Nat
  BY <1>2, <1>3, <1>16
<1> DEFINE a == o[i + 1]
<1> HIDE DEF a, S
<1>19. QED
  BY <1>17, <1>18 DEF a

\* Every node has an index.
LEMMA OrderIsOnto ==
  \A t, o, Fst : Grown(t) /\ Queued(t, o, Fst) => \A v \in Nodes(t) : \E x \in 1 .. Len(o) : o[x] = v
<1> SUFFICES ASSUME NEW t, NEW o, NEW Fst, Grown(t), Queued(t, o, Fst)
             PROVE  \A v \in Nodes(t) : \E x \in 1 .. Len(o) : o[x] = v
  OBVIOUS
<1> DEFINE m == Len(o)
           Placed(v) == \E x \in 1 .. m : o[x] = v
           S == {v \in Nodes(t) : ~Placed(v)}
<1> SUFFICES ASSUME S # {} PROVE FALSE
  OBVIOUS
<1>1. S \in SUBSET Nat
  BY NodesAreNumbers
<1> DEFINE v == Min(S)
<1>2. v \in S /\ \A u \in S : v <= u
  <2> HIDE DEF S
  <2>1. QED
    BY <1>1, LeastOf
<1> HIDE DEF v
<1>3. m \in Nat /\ 1 <= m /\ o[1] = 1
  BY DEF Queued
<1>4. v # 1
  BY <1>2, <1>3
<1>5. PICK u \in Nodes(t) : \E j \in 1 .. Len(KidsOf(t, u)) : KidsOf(t, u)[j] = v
  BY <1>2, <1>4 DEF Grown
<1>6. PICK j \in 1 .. Len(KidsOf(t, u)) : KidsOf(t, u)[j] = v
  BY <1>5
<1>7. u < v /\ u \in Nat /\ v \in Nat
  BY <1>2, <1>6, KidsOfNode, NodesAreNumbers
<1>8. u \notin S
  <2> HIDE DEF S
  <2>1. ~(v <= u)
    BY <1>7
  <2>2. QED
    BY <1>2, <2>1
<1>9. PICK x \in 1 .. m : o[x] = u
  BY <1>8
<1> DEFINE i == x - 1
<1>10. i \in 0 .. m - 1 /\ i + 1 = x
  BY <1>3
<1> HIDE DEF i
<1>11. o[i + 1] = u
  BY <1>9, <1>10
<1>12. Fst[i] + j \in 2 .. m /\ IsChild(t, o, Fst, Fst[i] + j, i, j)
  BY <1>10, <1>11, ChildOfNode
<1>13. Fst[i] + j \in 1 .. m /\ o[Fst[i] + j] = v
  <2>1. o[Fst[i] + j] = KidsOf(t, o[i + 1])[j]
    BY <1>12 DEF IsChild
  <2>2. \A z \in 2 .. m : z \in 1 .. m
    BY <1>3
  <2>3. QED
    BY <1>6, <1>11, <1>12, <2>1, <2>2
<1>14. QED
  BY <1>2, <1>13

\* As many indices as nodes.
LEMMA OrderIsWhole ==
  \A t, o, Fst : Grown(t) /\ Queued(t, o, Fst) => Len(o) = treeSize(t)
<1> SUFFICES ASSUME NEW t, NEW o, NEW Fst, Grown(t), Queued(t, o, Fst)
             PROVE  Len(o) = treeSize(t)
  OBVIOUS
<1> DEFINE m == Len(o)
           n == treeSize(t)
           D == 1 .. m
           N == Nodes(t)
           f == [x \in D |-> o[x]]
<1>1. m \in Nat /\ n \in Nat
  BY DEF Queued, Grown
<1>2. \A x, y \in D : o[x] = o[y] => x = y
  BY OrderIsOnce
<1>3. \A v \in N : \E x \in D : o[x] = v
  BY OrderIsOnto
<1>4. \A x \in D : o[x] \in N
  BY DEF Queued
<1> HIDE DEF D, N
<1>5. f \in [D -> N] /\ \A x \in D : f[x] = o[x]
  BY <1>4
<1> HIDE DEF f
<1>6. (\A x, y \in D : f[x] = f[y] => x = y) /\ \A v \in N : \E x \in D : f[x] = v
  BY <1>2, <1>3, <1>5
<1>7. f \in Bijection(D, N)
  BY <1>5, <1>6, Fun_IsBij
<1>8. ExistsBijection(D, N)
  BY <1>7 DEF ExistsBijection
<1>9. Cardinality(N) = m
  BY <1>1, <1>8, FS_CountingElements DEF D
<1>10. Cardinality(N) = n
  <2>1. 1 <= n
    BY DEF Grown
  <2> HIDE DEF n
  <2>2. 1 \in Int /\ n \in Int
    BY <1>1
  <2>3. Cardinality(1 .. n) = IF 1 > n THEN 0 ELSE n - 1 + 1
    BY <2>2, FS_Interval
  <2>4. Cardinality(1 .. n) = n
    BY <1>1, <2>1, <2>3
  <2>5. QED
    BY <2>4 DEF N, Nodes, n
<1>11. QED
  BY <1>9, <1>10

-----------------------------------------------------------------------------
(* The levels, and the counter leftmostChildIdx.                           *)

\* Sequences with the same elements, and a prefix of a sequence.
LEMMA SameElements ==
  \A R : \A p, q \in Seq(R) : Len(p) = Len(q) /\ (\A x \in 1 .. Len(p) : p[x] = q[x]) => p = q
OBVIOUS
Cut(p, a, b) == SubSeq(p, a, b)
\* A prefix.
LEMMA CutOf ==
  \A R : \A p \in Seq(R) : \A b \in 0 .. Len(p) :
    Cut(p, 1, b) \in Seq(R) /\ Len(Cut(p, 1, b)) = b /\ \A x \in 1 .. b : Cut(p, 1, b)[x] = p[x]
<1> SUFFICES ASSUME NEW R, NEW p \in Seq(R), NEW b \in 0 .. Len(p)
             PROVE  Cut(p, 1, b) \in Seq(R) /\ Len(Cut(p, 1, b)) = b /\ \A x \in 1 .. b : Cut(p, 1, b)[x] = p[x]
  OBVIOUS
<1>1. SubSeq(p, 1, b) \in Seq(R) /\ Len(SubSeq(p, 1, b)) = b /\ \A x \in 1 .. b : SubSeq(p, 1, b)[x] = p[x]
  OBVIOUS
<1>2. QED
  BY <1>1 DEF Cut

\* The place of a node's first child: behind the root and the children of all nodes before.
LEMMA FirstsOf ==
  \A t : Grown(t) => \A i \in 0 .. Len(Order(t)) :
    Firsts(t)[i] = 1 + Len(NextLevel(t, Cut(Order(t), 1, i)))
<1> SUFFICES ASSUME NEW t, Grown(t), NEW i \in 0 .. Len(Order(t))
             PROVE  Firsts(t)[i] = 1 + Len(NextLevel(t, Cut(Order(t), 1, i)))
  OBVIOUS
<1> DEFINE N == Nodes(t)
           D == Seq(N)
           o == Order(t)
           s == Parts(t, o)
           c == Cut(o, 1, i)
           p == Cut(s, 1, i)
           q == Parts(t, c)
<1>1. o \in Seq(N)
  BY OrderIsQueue
<1>2. s \in Seq(D) /\ Len(s) = Len(o) /\ \A x \in 1 .. Len(o) : s[x] = KidsOf(t, o[x])
  BY <1>1, PartsTyped
<1> HIDE DEF D, o, s, c, p
<1>3. c \in Seq(N) /\ Len(c) = i /\ \A x \in 1 .. i : c[x] = o[x]
  BY <1>1, CutOf DEF c, o
<1>4. p \in Seq(D) /\ Len(p) = i /\ \A x \in 1 .. i : p[x] = s[x]
  BY <1>2, CutOf DEF p, o
<1>5. /\ q \in Seq(D) /\ Len(q) = i /\ \A x \in 1 .. i : q[x] = KidsOf(t, c[x])
      /\ NextLevel(t, c) = FlattenSeq(q)
  BY <1>3, PartsTyped DEF D
<1> HIDE DEF q
<1>6. i \in Nat /\ Len(o) \in Nat /\ i \in 0 .. Len(s) /\ \A x \in 1 .. i : x \in 1 .. Len(o)
  BY <1>1, <1>2 DEF o
<1>7. \A x \in 1 .. i : p[x] = q[x]
  BY <1>2, <1>3, <1>4, <1>5, <1>6
<1>8. p = q
  BY <1>4, <1>5, <1>7, SameElements
<1>9. Offsets(s)[i] = Len(FlattenSeq(p))
  BY <1>6 DEF Offsets, p, Cut
<1>10. Firsts(t)[i] = 1 + Offsets(s)[i]
  BY DEF Firsts, s, o
<1>11. QED
  BY <1>5, <1>8, <1>9, <1>10 DEF c, o

\* The first k levels are the beginning of the order.
LEMMA UpToIsPrefix ==
  \A t : Grown(t) => \A k \in 0 .. Turns(t) :
    /\ UpTo(t, k) \in Seq(Nodes(t)) /\ Len(UpTo(t, k)) \in 0 .. Len(Order(t))
    /\ UpTo(t, k) = Cut(Order(t), 1, Len(UpTo(t, k)))
<1> SUFFICES ASSUME NEW t, Grown(t), NEW k \in 0 .. Turns(t)
             PROVE  /\ UpTo(t, k) \in Seq(Nodes(t)) /\ Len(UpTo(t, k)) \in 0 .. Len(Order(t))
                    /\ UpTo(t, k) = Cut(Order(t), 1, Len(UpTo(t, k)))
  OBVIOUS
<1> DEFINE N == Nodes(t)
           D == Seq(N)
           ls == LevelsOf(t)
           m == Turns(t)
           o == Order(t)
           u == UpTo(t, k)
           a == SubSeq(ls, 1, k)
           b == SubSeq(ls, k + 1, m)
           r == FlattenSeq(b)
<1>1. ls \in Seq(D) /\ Len(ls) = m /\ m \in Nat
  BY LevelsOfTyped
<1>2. u = FlattenSeq(a) /\ o = FlattenSeq(ls)
  BY DEF UpTo, Order
<1>3. o \in Seq(N) /\ u \in Seq(N)
  BY OrderIsQueue, UpToGrows
<1> HIDE DEF D, ls, m, o, u
<1>4. k \in Nat /\ k <= m
  BY <1>1 DEF m
<1>5. a \in Seq(D) /\ b \in Seq(D) /\ ls = a \o b
  <2>1. a \in Seq(D) /\ b \in Seq(D)
    BY <1>1, <1>4
  <2>2. ls = a \o b
    BY <1>1, <1>4
  <2>3. QED
    BY <2>1, <2>2
<1> HIDE DEF a, b
<1>6. FlattenSeq(a \o b) = FlattenSeq(a) \o FlattenSeq(b)
  BY <1>5, FlattenEnds DEF D
<1>7. o = u \o r
  BY <1>2, <1>5, <1>6
<1>8. r \in Seq(N)
  BY <1>5, FlattenAppend DEF D
<1> HIDE DEF r
<1>9. TwoEnds(o, u, r) /\ Len(u) \in Nat /\ Len(r) \in Nat
  BY <1>3, <1>7, <1>8, EndsOf
<1>10. Len(u) \in 0 .. Len(o) /\ \A x \in 1 .. Len(u) : u[x] = o[x]
  BY <1>9 DEF TwoEnds
<1> DEFINE l == Len(u)
           c == Cut(o, 1, l)
<1> HIDE DEF l, c
<1>11. c \in Seq(N) /\ Len(c) = l /\ \A x \in 1 .. l : c[x] = o[x]
  BY <1>3, <1>10, CutOf DEF c, l
<1>12. u = c
  BY <1>3, <1>10, <1>11, SameElements DEF l
<1>13. QED
  BY <1>3, <1>10, <1>12 DEF c, l, u, o

\* Where the levels start.
Starts(t) == [k \in 0 .. Turns(t) |-> Len(UpTo(t, k))]
LevelRecord(S, k) == [start_idx |-> S[k - 1], length |-> S[k] - S[k - 1]]

\* S[k - 1] is the first index of level k; the first child of that node starts level k + 1.
Leveled(t, S) ==
  /\ Turns(t) \in Nat /\ 1 <= Turns(t)
  /\ S \in [0 .. Turns(t) -> Nat] /\ S[0] = 0 /\ S[Turns(t)] = Len(Order(t))
  /\ \A k \in 1 .. Turns(t) : S[k - 1] < S[k] /\ S[k - 1] \in 0 .. Len(Order(t)) /\ Firsts(t)[S[k - 1]] = S[k]
  /\ levelsOf(t) = [k \in 1 .. Turns(t) |-> LevelRecord(S, k)]

\* The levels of flatten lie so.
LEMMA OrderIsLeveled == \A t : Grown(t) => Leveled(t, Starts(t))
<1> SUFFICES ASSUME NEW t, Grown(t) PROVE Leveled(t, Starts(t))
  OBVIOUS
<1> DEFINE N == Nodes(t)
           m == Turns(t)
           o == Order(t)
           S == Starts(t)
           U(k) == UpTo(t, k)
           g == Levels(t)
           ls == LevelsOf(t)
<1>1. m \in Nat /\ 1 <= m /\ Len(ls) = m /\ ls \in Seq(Seq(N)) /\ \A k \in 1 .. m : ls[k] = g[k - 1]
  BY LevelsOfTyped
<1>2. \A k \in 0 .. m : S[k] = Len(U(k))
  BY DEF Starts
<1>3. \A k \in 0 .. m : U(k) \in Seq(N) /\ Len(U(k)) \in 0 .. Len(o) /\ U(k) = Cut(o, 1, Len(U(k)))
  BY UpToIsPrefix
<1>4. U(0) = <<>> /\ U(m) = o /\ \A k \in 1 .. m : U(k) = U(k - 1) \o g[k - 1]
  BY UpToGrows
<1>5. o \in Seq(N) /\ Len(o) \in Nat
  BY OrderIsQueue
<1>6. g \in [Nat -> Seq(N)] /\ \A k \in 0 .. m - 1 : g[k] # <<>>
  BY LevelsTyped, TurnsEnd
<1> HIDE DEF m, o, U, g, N, ls
<1>7. S \in [0 .. m -> Nat] /\ S[0] = 0 /\ S[m] = Len(o)
  <2>1. 0 \in 0 .. m /\ m \in 0 .. m
    BY <1>1
  <2>2. S = [k \in 0 .. m |-> S[k]]
    BY DEF Starts, m
  <2>3. \A k \in 0 .. m : S[k] \in Nat
    BY <1>2, <1>3, <1>5
  <2> HIDE DEF S
  <2>4. S \in [0 .. m -> Nat]
    BY <2>2, <2>3
  <2>5. S[0] = 0 /\ S[m] = Len(o)
    BY <1>2, <1>4, <2>1
  <2>6. QED
    BY <2>4, <2>5
<1> HIDE DEF S
<1>8. ASSUME NEW k \in 1 .. m
      PROVE  S[k - 1] < S[k] /\ S[k - 1] \in 0 .. Len(o) /\ Firsts(t)[S[k - 1]] = S[k]
             /\ Len(ls[k]) = S[k] - S[k - 1]
  <2> DEFINE h == k - 1
             u == U(h)
             w == U(k)
             l == g[h]
             f == NextLevel(t, u)
             e == <<1>>
  <2>1. h \in 0 .. m /\ h \in 0 .. m - 1 /\ k \in 0 .. m /\ h \in Nat
    BY <1>1
  <2>2. u \in Seq(N) /\ w = u \o l /\ l \in Seq(N) /\ l # <<>>
    BY <1>3, <1>4, <1>6, <2>1
  <2>3. S[h] = Len(u) /\ S[k] = Len(w) /\ Len(u) \in 0 .. Len(o) /\ u = Cut(o, 1, Len(u))
    BY <1>2, <1>3, <2>1
  <2>4. u \o l = e \o f
    BY <2>1, QueueIsKept DEF u, l, f, U, g, m
  <2>5. f \in Seq(N)
    BY <2>2, PartsTyped DEF N
  <2>6. e \in Seq(N) /\ Len(e) = 1
    BY DEF N, Nodes, Grown
  <2> HIDE DEF u, w, l, f, e, h
  <2>7. Len(u) \in Nat /\ Len(l) \in Nat /\ Len(l) # 0 /\ Len(f) \in Nat /\ Len(w) = Len(u) + Len(l)
    BY <2>2, <2>5
  <2>8. Len(u) + Len(l) = 1 + Len(f)
    <3>1. TwoEnds(e \o f, e, f)
      BY <2>5, <2>6, EndsOf
    <3>2. TwoEnds(u \o l, u, l)
      BY <2>2, EndsOf
    <3>3. QED
      BY <2>4, <2>6, <3>1, <3>2 DEF TwoEnds
  <2>9. Firsts(t)[Len(u)] = 1 + Len(f)
    BY <2>3, FirstsOf DEF o, f
  <2>10. ls[k] = l
    BY <1>1 DEF l, h
  <2>11. S[h] < S[k] /\ S[h] \in 0 .. Len(o) /\ Firsts(t)[S[h]] = S[k] /\ Len(ls[k]) = S[k] - S[h]
    BY <2>3, <2>7, <2>8, <2>9, <2>10
  <2>12. QED
    BY <2>11 DEF h
<1>9. levelsOf(t) = [k \in 1 .. m |-> LevelRecord(S, k)]
  <2> DEFINE R(k) == [start_idx |-> Len(FlattenSeq(SubSeq(LevelsOf(t), 1, k - 1))), length |-> Len(LevelsOf(t)[k])]
  <2>1. levelsOf(t) = [k \in DOMAIN LevelsOf(t) |-> R(k)]
    BY DEF levelsOf
  <2>2. DOMAIN LevelsOf(t) = 1 .. m
    BY <1>1 DEF ls
  <2>3. ASSUME NEW k \in 1 .. m PROVE R(k) = LevelRecord(S, k)
    <3> DEFINE h == k - 1
    <3>1. h \in 0 .. m
      BY <1>1
    <3>2. Len(FlattenSeq(SubSeq(LevelsOf(t), 1, h))) = S[h]
      BY <1>2, <3>1 DEF U, UpTo
    <3>3. Len(LevelsOf(t)[k]) = S[k] - S[h]
      BY <1>8 DEF ls
    <3>4. QED
      BY <3>2, <3>3 DEF LevelRecord
  <2> HIDE DEF R
  <2>4. QED
    BY <2>1, <2>2, <2>3
<1>10. \A k \in 1 .. m : S[k - 1] < S[k] /\ S[k - 1] \in 0 .. Len(o) /\ Firsts(t)[S[k - 1]] = S[k]
  BY <1>8
<1>11. QED
  BY <1>1, <1>7, <1>9, <1>10 DEF Leveled, S, m, o

\* Starts rise.
LEMMA StartsRise ==
  \A t, S : Leveled(t, S) => \A b \in 0 .. Turns(t) : \A a \in 0 .. b : S[a] <= S[b]
<1> SUFFICES ASSUME NEW t, NEW S, Leveled(t, S)
             PROVE  \A b \in 0 .. Turns(t) : \A a \in 0 .. b : S[a] <= S[b]
  OBVIOUS
<1> DEFINE m == Turns(t)
           Above(b) == \A a \in 0 .. b : S[a] <= S[b]
           Q == {b \in 0 .. m : Above(b)}
<1>1. m \in Nat /\ \A k \in 1 .. m : S[k - 1] < S[k]
  BY DEF Leveled
<1>2. \A k \in 0 .. m : S[k] \in Nat
  BY DEF Leveled
<1> HIDE DEF m
<1>3. 0 \in Q
  BY <1>1, <1>2
<1>4. ASSUME NEW b \in 0 .. m - 1, b \in Q PROVE b + 1 \in Q
  <2>1. b + 1 \in 0 .. m /\ b + 1 \in 1 .. m /\ (b + 1) - 1 = b /\ b \in 0 .. m
    BY <1>1
  <2>2. S[b] < S[b + 1] /\ S[b] \in Nat /\ S[b + 1] \in Nat
    <3>1. S[(b + 1) - 1] < S[b + 1]
      BY <1>1, <2>1
    <3>2. QED
      BY <1>2, <2>1, <3>1
  <2>3. \A a \in 0 .. b : S[a] <= S[b] /\ S[a] \in Nat
    BY <1>1, <1>2, <1>4
  <2>4. ASSUME NEW a \in 0 .. b + 1 PROVE S[a] <= S[b + 1]
    <3>1. CASE a = b + 1
      BY <2>2, <3>1
    <3>2. CASE a # b + 1
      <4>1. a \in 0 .. b
        BY <2>1, <3>2
      <4>2. S[a] <= S[b] /\ S[a] \in Nat
        BY <2>3, <4>1
      <4> DEFINE x == S[a]
                 y == S[b]
                 z == S[b + 1]
      <4> HIDE DEF x, y, z
      <4>3. QED
        BY <2>2, <4>2 DEF x, y, z
    <3>3. QED
      BY <3>1, <3>2
  <2>5. Above(b + 1)
    BY <2>4
  <2> HIDE DEF Above
  <2>6. QED
    BY <2>1, <2>5
<1> HIDE DEF Q
<1>5. \A b \in 0 .. m : b \in Q
  BY <1>1, <1>3, <1>4, CountingUp
<1>6. QED
  BY <1>5 DEF Q, m

\* Index i is in level k, and in no other.
InLevel(S, i, k) == S[k - 1] <= i /\ i < S[k]
\* Every index is in one level.
LEMMA OneLevel ==
  \A t, S : Leveled(t, S) => \A i \in 0 .. Len(Order(t)) - 1 :
    /\ \E k \in 1 .. Turns(t) : InLevel(S, i, k)
    /\ \A h, k \in 1 .. Turns(t) : InLevel(S, i, h) /\ InLevel(S, i, k) => h = k
<1> SUFFICES ASSUME NEW t, NEW S, Leveled(t, S), NEW i \in 0 .. Len(Order(t)) - 1
             PROVE  /\ \E k \in 1 .. Turns(t) : InLevel(S, i, k)
                    /\ \A h, k \in 1 .. Turns(t) : InLevel(S, i, h) /\ InLevel(S, i, k) => h = k
  OBVIOUS
<1> DEFINE m == Turns(t)
           n == Len(Order(t))
           R == {k \in 1 .. m : i < S[k]}
           l == Min(R)
<1>1. m \in Nat /\ 1 <= m /\ S[0] = 0 /\ S[m] = n /\ \A k \in 0 .. m : S[k] \in Nat
  BY DEF Leveled
<1>2. \A b \in 0 .. m : \A a \in 0 .. b : S[a] <= S[b]
  BY StartsRise
<1> HIDE DEF m, n
<1>3. i \in Nat /\ i < n
  <2>1. n \in Nat
    <3>1. m \in 0 .. m
      BY <1>1
    <3>2. QED
      BY <1>1, <3>1
  <2>2. QED
    BY <2>1 DEF n
<1>4. \E k \in 1 .. m : InLevel(S, i, k)
  <2>1. R \in SUBSET Nat /\ m \in R
    BY <1>1, <1>3
  <2>2. l \in R /\ \A k \in R : l <= k
    <3> HIDE DEF R
    <3>1. QED
      BY <2>1, LeastOf
  <2> HIDE DEF l
  <2>3. l \in 1 .. m /\ i < S[l]
    BY <2>2
  <2>4. S[l - 1] <= i
    <3>1. CASE l = 1
      BY <1>1, <1>3, <3>1
    <3>2. CASE l # 1
      <4>1. l - 1 \in 1 .. m /\ ~(l <= l - 1) /\ l - 1 \in 0 .. m
        BY <1>1, <2>3, <3>2
      <4>2. ~(i < S[l - 1])
        BY <2>2, <4>1
      <4>3. S[l - 1] \in Nat
        BY <1>1, <4>1
      <4> DEFINE x == S[l - 1]
      <4> HIDE DEF x
      <4>4. QED
        BY <1>3, <4>2, <4>3 DEF x
    <3>3. QED
      BY <3>1, <3>2
  <2>5. QED
    BY <2>3, <2>4 DEF InLevel
<1>5. ASSUME NEW h \in 1 .. m, NEW k \in 1 .. m, InLevel(S, i, h), InLevel(S, i, k), h < k PROVE FALSE
  <2>1. k - 1 \in 0 .. m /\ h \in 0 .. k - 1 /\ h \in 0 .. m
    BY <1>1, <1>5
  <2>2. S[h] <= S[k - 1] /\ S[h] \in Nat /\ S[k - 1] \in Nat
    BY <1>1, <1>2, <2>1
  <2>3. S[k - 1] <= i /\ i < S[h]
    BY <1>5 DEF InLevel
  <2> DEFINE x == S[h]
             y == S[k - 1]
  <2> HIDE DEF x, y
  <2>4. QED
    BY <1>3, <2>2, <2>3 DEF x, y
<1>6. \A h, k \in 1 .. m : InLevel(S, i, h) /\ InLevel(S, i, k) => h = k
  <2>1. \A h, k \in 1 .. m : h < k \/ k < h \/ h = k
    BY <1>1
  <2>2. QED
    BY <1>5, <2>1
<1>7. QED
  BY <1>4, <1>6 DEF m

\* The record LevelAt finds.
LEMMA LevelFound ==
  \A t, S : Leveled(t, S) => \A i \in 0 .. Len(Order(t)) - 1 : \A k \in 1 .. Turns(t) :
    InLevel(S, i, k) => LevelAt(t, i) = LevelRecord(S, k)
<1> SUFFICES ASSUME NEW t, NEW S, Leveled(t, S), NEW i \in 0 .. Len(Order(t)) - 1,
                    NEW k \in 1 .. Turns(t), InLevel(S, i, k)
             PROVE  LevelAt(t, i) = LevelRecord(S, k)
  OBVIOUS
<1> DEFINE m == Turns(t)
           R(h) == LevelRecord(S, h)
           T == ToSet(levelsOf(t))
           In(l) == i \in l.start_idx .. l.start_idx + l.length - 1
<1>1. m \in Nat /\ \A h \in 0 .. m : S[h] \in Nat
  BY DEF Leveled
<1>2. levelsOf(t) = [h \in 1 .. m |-> R(h)]
  BY DEF Leveled
<1>3. T = {R(h) : h \in 1 .. m}
  <2> HIDE DEF R
  <2>1. QED
    BY <1>2 DEF ToSet
<1>4. i \in Nat
  <2>1. i \in 0 .. Len(Order(t)) - 1
    OBVIOUS
  <2>2. QED
    BY <2>1
<1>5. \A h, l \in 1 .. m : InLevel(S, i, h) /\ InLevel(S, i, l) => h = l
  BY OneLevel
<1> HIDE DEF m, T
<1>6. \A h \in 1 .. m : In(R(h)) <=> InLevel(S, i, h)
  <2>1. ASSUME NEW h \in 1 .. m PROVE In(R(h)) <=> InLevel(S, i, h)
    <3>1. R(h).start_idx = S[h - 1] /\ R(h).length = S[h] - S[h - 1]
      BY DEF LevelRecord
    <3>2. h \in 0 .. m /\ h - 1 \in 0 .. m
      BY <1>1
    <3> DEFINE x == S[h - 1]
               y == S[h]
               r == R(h)
    <3>3. x \in Nat /\ y \in Nat
      BY <1>1, <3>2
    <3>4. r.start_idx = x /\ r.length = y - x
      BY <3>1
    <3>5. InLevel(S, i, h) <=> x <= i /\ i < y
      BY DEF InLevel
    <3> HIDE DEF x, y, r
    <3>6. In(r) <=> x <= i /\ i < y
      BY <1>4, <3>3, <3>4
    <3>7. QED
      BY <3>5, <3>6 DEF r
  <2>2. QED
    BY <2>1
<1> DEFINE Is(l) == In(l) /\ \A y \in T : In(y) => y = l
<1>7. LevelAt(t, i) = CHOOSE l \in T : Is(l)
  BY DEF LevelAt, ChooseUnique, T
<1> HIDE DEF R
<1>8. k \in 1 .. m /\ R(k) \in T /\ In(R(k))
  <2>1. k \in 1 .. m
    BY DEF m
  <2> HIDE DEF In
  <2>2. QED
    BY <1>3, <1>6, <2>1
<1>9. \A y \in T : In(y) => y = R(k)
  <2> HIDE DEF In
  <2>1. ASSUME NEW y \in T, In(y) PROVE y = R(k)
    <3>1. PICK h \in 1 .. m : y = R(h)
      BY <1>3
    <3>2. InLevel(S, i, h)
      BY <1>6, <2>1, <3>1
    <3>3. h = k
      BY <1>5, <1>8, <3>2
    <3>4. QED
      BY <3>1, <3>3
  <2>2. QED
    BY <2>1
<1> HIDE DEF In
<1>10. Is(R(k)) /\ \A l \in T : Is(l) => l = R(k)
  BY <1>8, <1>9
<1> HIDE DEF Is
<1>11. (CHOOSE l \in T : Is(l)) = R(k)
  BY <1>8, <1>10
<1>12. QED
  BY <1>7, <1>11 DEF R

\* The counter, when a node is flattened, is the index of its first child.
LEMMA CounterIsFirst ==
  \A t : Grown(t) => \A i \in 0 .. Len(Order(t)) - 1 : LeftmostChildIdx(t, i) = Firsts(t)[i]
<1> SUFFICES ASSUME NEW t, Grown(t), NEW i \in 0 .. Len(Order(t)) - 1
             PROVE  LeftmostChildIdx(t, i) = Firsts(t)[i]
  OBVIOUS
<1> DEFINE N == Nodes(t)
           S == Starts(t)
           m == Turns(t)
           o == Order(t)
<1>1. Leveled(t, S)
  BY OrderIsLeveled
<1>2. PICK k \in 1 .. m : InLevel(S, i, k)
  BY <1>1, OneLevel
<1>3. m \in Nat /\ k - 1 \in 0 .. m /\ k \in 0 .. m /\ S[k - 1] \in Nat /\ S[k] \in Nat /\ Len(o) \in Nat
  <2>1. m \in Nat
    BY <1>1 DEF Leveled
  <2>2. k - 1 \in 0 .. m /\ k \in 0 .. m
    BY <2>1
  <2>3. S[k - 1] \in Nat /\ S[k] \in Nat
    BY <1>1, <2>2 DEF Leveled
  <2>4. Len(o) \in Nat
    BY OrderIsQueue
  <2>5. QED
    BY <2>1, <2>2, <2>3, <2>4
<1>4. LevelAt(t, i) = LevelRecord(S, k)
  BY <1>1, <1>2, LevelFound
<1> DEFINE a == S[k - 1]
           c == SubSeq(o, a + 1, i)
<1>5. LeftmostChildIdx(t, i) = a + (S[k] - a) + Len(NextLevel(t, c))
  <2>1. LevelAt(t, i).start_idx = a /\ LevelAt(t, i).length = S[k] - a
    BY <1>4 DEF LevelRecord
  <2>2. QED
    BY <2>1 DEF LeftmostChildIdx
<1>6. i \in Nat /\ i <= Len(o) /\ a \in Nat /\ a <= i /\ o \in Seq(N)
  <2>1. a <= i
    BY <1>2 DEF InLevel
  <2>2. o \in Seq(N)
    BY OrderIsQueue
  <2>3. i \in 0 .. Len(o) - 1
    OBVIOUS
  <2> HIDE DEF a, o
  <2>4. i \in Nat /\ i <= Len(o)
    BY <1>3, <2>3
  <2>5. QED
    BY <1>3, <2>1, <2>2, <2>4 DEF a
<1>7. a \in 0 .. Len(o) /\ Firsts(t)[a] = S[k]
  BY <1>1 DEF Leveled
<1> DEFINE p == Cut(o, 1, a)
           q == Cut(o, 1, i)
<1> HIDE DEF N, o, a, c, p, q
<1>8. p \in Seq(N) /\ q \in Seq(N)
  <2>1. i \in 0 .. Len(o)
    BY <1>3, <1>6
  <2>2. QED
    BY <1>6, <1>7, <2>1, CutOf DEF p, q
<1>9. c \in Seq(N) /\ q = p \o c
  <2>1. SubSeq(o, 1, i) = SubSeq(o, 1, a) \o SubSeq(o, a + 1, i) /\ SubSeq(o, a + 1, i) \in Seq(N)
    <3>1. \A r \in Seq(N) : \A x, y \in Nat : x <= y /\ y <= Len(r) =>
            SubSeq(r, 1, y) = SubSeq(r, 1, x) \o SubSeq(r, x + 1, y) /\ SubSeq(r, x + 1, y) \in Seq(N)
      OBVIOUS
    <3>2. QED
      BY <1>6, <3>1
  <2>2. QED
    BY <2>1 DEF c, p, q, Cut
<1>10. NextLevel(t, q) = NextLevel(t, p) \o NextLevel(t, c)
  BY <1>8, <1>9, NextLevelEnds DEF N
<1>11. NextLevel(t, p) \in Seq(N) /\ NextLevel(t, c) \in Seq(N)
  BY <1>8, <1>9, PartsTyped DEF N
<1> DEFINE u == NextLevel(t, p)
           w == NextLevel(t, c)
<1> HIDE DEF u, w
<1>12. TwoEnds(u \o w, u, w) /\ Len(u) \in Nat /\ Len(w) \in Nat
  BY <1>11, EndsOf DEF u, w
<1>13. Len(NextLevel(t, q)) = Len(u) + Len(w)
  BY <1>10, <1>12 DEF TwoEnds, u, w
<1>14. Firsts(t)[a] = 1 + Len(u)
  BY <1>7, FirstsOf DEF p, u, o
<1>15. Firsts(t)[i] = 1 + Len(NextLevel(t, q))
  <2>1. i \in 0 .. Len(o)
    BY <1>3, <1>6
  <2>2. QED
    BY <2>1, FirstsOf DEF q, o
<1>16. LeftmostChildIdx(t, i) = a + (S[k] - a) + Len(w)
  BY <1>5 DEF w
<1> HIDE DEF S
<1>17. LeftmostChildIdx(t, i) = S[k] + Len(w)
  BY <1>3, <1>6, <1>12, <1>16
<1>18. Firsts(t)[i] = 1 + (Len(u) + Len(w)) /\ LeftmostChildIdx(t, i) = (1 + Len(u)) + Len(w)
  BY <1>7, <1>13, <1>14, <1>15, <1>17
<1>19. \A x, y \in Nat : 1 + (x + y) = (1 + x) + y
  OBVIOUS
<1>20. QED
  BY <1>12, <1>18, <1>19

-----------------------------------------------------------------------------
(* The lists of children.                                                  *)

\* The children of a node before each of its lists.
Rolls(t, v) == Offsets(Lists(t, v))
ListAt(t, v, g) == t.kids[v][g].nodes

\* The lists of a node lie end to end in its children.
LEMMA ListsLaid ==
  \A t : IsDocument(t) => \A v \in Nodes(t) :
    /\ Len(t.kids[v]) \in Nat
    /\ Rolls(t, v) \in [0 .. Len(t.kids[v]) -> Nat]
    /\ \A g \in 1 .. Len(t.kids[v]) :
         /\ ListAt(t, v, g) \in Seq(Nodes(t)) /\ Len(ListAt(t, v, g)) \in Nat /\ Rolls(t, v)[g - 1] \in Nat
         /\ \A c \in 1 .. Len(ListAt(t, v, g)) :
              /\ Rolls(t, v)[g - 1] + c \in 1 .. Len(KidsOf(t, v))
              /\ KidsOf(t, v)[Rolls(t, v)[g - 1] + c] = ListAt(t, v, g)[c]
    /\ \A x \in 1 .. Len(KidsOf(t, v)) : \E g \in 1 .. Len(t.kids[v]) :
         \E c \in 1 .. Len(ListAt(t, v, g)) : x = Rolls(t, v)[g - 1] + c
    /\ \A g, h \in 1 .. Len(t.kids[v]) : \A c \in 1 .. Len(ListAt(t, v, g)), a \in 1 .. Len(ListAt(t, v, h)) :
         Rolls(t, v)[g - 1] + c = Rolls(t, v)[h - 1] + a => g = h /\ c = a
<1> SUFFICES ASSUME NEW t, IsDocument(t), NEW v \in Nodes(t)
             PROVE
    /\ Len(t.kids[v]) \in Nat
    /\ Rolls(t, v) \in [0 .. Len(t.kids[v]) -> Nat]
    /\ \A g \in 1 .. Len(t.kids[v]) :
         /\ ListAt(t, v, g) \in Seq(Nodes(t)) /\ Len(ListAt(t, v, g)) \in Nat /\ Rolls(t, v)[g - 1] \in Nat
         /\ \A c \in 1 .. Len(ListAt(t, v, g)) :
              /\ Rolls(t, v)[g - 1] + c \in 1 .. Len(KidsOf(t, v))
              /\ KidsOf(t, v)[Rolls(t, v)[g - 1] + c] = ListAt(t, v, g)[c]
    /\ \A x \in 1 .. Len(KidsOf(t, v)) : \E g \in 1 .. Len(t.kids[v]) :
         \E c \in 1 .. Len(ListAt(t, v, g)) : x = Rolls(t, v)[g - 1] + c
    /\ \A g, h \in 1 .. Len(t.kids[v]) : \A c \in 1 .. Len(ListAt(t, v, g)), a \in 1 .. Len(ListAt(t, v, h)) :
         Rolls(t, v)[g - 1] + c = Rolls(t, v)[h - 1] + a => g = h /\ c = a
  OBVIOUS
<1> DEFINE N == Nodes(t)
           D == Seq(N)
           m == Len(t.kids[v])
           s == Lists(t, v)
           K == KidsOf(t, v)
           P == Rolls(t, v)
           l(g) == ListAt(t, v, g)
<1>1. /\ m \in Nat /\ s \in Seq(D) /\ Len(s) = m
      /\ \A g \in 1 .. m : s[g] = l(g)
  BY ListsTyped DEF ListAt
<1>2. K = FlattenSeq(s)
  BY DEF KidsOf, Lists
<1>3. P = Offsets(s)
  BY DEF Rolls
<1> HIDE DEF D, m, s, K, P
<1>4. LaidAt(s, K, P)
  BY <1>1, <1>2, <1>3, LaidOut DEF D
<1> HIDE DEF l, N
<1>5. \A g \in 1 .. m : l(g) \in D
  BY <1>1
<1>6. \A g \in 1 .. m : l(g) \in Seq(N) /\ Len(l(g)) \in Nat
  <2>1. \A r \in Seq(N) : Len(r) \in Nat
    OBVIOUS
  <2>2. QED
    BY <1>5, <2>1 DEF D
<1>7. Sized(s)
  BY <1>1, <1>6 DEF Sized
<1>8. P \in [0 .. m -> Nat] /\ Len(K) = P[m]
  BY <1>1, <1>4 DEF LaidAt
<1>9. ASSUME NEW g \in 1 .. m
      PROVE  P[g - 1] \in Nat /\ \A c \in 1 .. Len(l(g)) : P[g - 1] + c \in 1 .. Len(K) /\ K[P[g - 1] + c] = l(g)[c]
  <2>1. g - 1 \in 0 .. m /\ g \in 0 .. m /\ m \in 0 .. m /\ g \in 0 .. m
    BY <1>1
  <2>2. P[g] = P[g - 1] + Len(s[g]) /\ \A c \in 1 .. Len(s[g]) : K[P[g - 1] + c] = s[g][c]
    BY <1>1, <1>4 DEF LaidAt
  <2>3. P[g] <= P[m]
    <3>1. \A a \in 1 .. Len(s) : Len(s[a]) \in Nat
      BY <1>7 DEF Sized
    <3>2. \A b \in 0 .. Len(s) : \A a \in 0 .. b : P[a] <= P[b]
      BY <1>1, <1>4, <3>1, LaidGrows
    <3>3. QED
      BY <1>1, <2>1, <3>2
  <2>4. P[g - 1] \in Nat /\ P[g] \in Nat /\ P[m] \in Nat /\ Len(l(g)) \in Nat /\ s[g] = l(g)
    BY <1>1, <1>6, <1>8, <2>1
  <2> DEFINE x == P[g - 1]
             y == Len(l(g))
             z == Len(K)
  <2>5. x \in Nat /\ y \in Nat /\ z \in Nat /\ x + y <= z
    BY <1>8, <2>2, <2>3, <2>4
  <2>6. \A c \in 1 .. y : K[x + c] = l(g)[c]
    BY <2>2, <2>4
  <2> HIDE DEF x, y, z
  <2>7. \A c \in 1 .. y : x + c \in 1 .. z
    BY <2>5
  <2>8. QED
    BY <2>5, <2>6, <2>7 DEF x, y, z
<1>10. ASSUME NEW x \in 1 .. Len(K)
       PROVE  \E g \in 1 .. m : \E c \in 1 .. Len(l(g)) : x = P[g - 1] + c
  <2>1. AllFound(s, K, P)
    BY <1>4, <1>7, LaidFind
  <2>2. PICK g \in 1 .. Len(s) : \E c \in 1 .. Len(s[g]) : x = P[g - 1] + c
    BY <2>1 DEF AllFound
  <2>3. g \in 1 .. m /\ s[g] = l(g)
    BY <1>1
  <2>4. QED
    BY <2>2, <2>3
<1>11. \A g, h \in 1 .. m : \A c \in 1 .. Len(l(g)), a \in 1 .. Len(l(h)) :
         P[g - 1] + c = P[h - 1] + a => g = h /\ c = a
  <2>1. FoundOnce(s, P)
    BY <1>4, <1>7, LaidOnce
  <2>2. QED
    BY <1>1, <2>1 DEF FoundOnce
<1>12. QED
  <2>1. \A g \in 1 .. m : /\ l(g) \in Seq(N) /\ Len(l(g)) \in Nat /\ P[g - 1] \in Nat
                          /\ \A c \in 1 .. Len(l(g)) : P[g - 1] + c \in 1 .. Len(K) /\ K[P[g - 1] + c] = l(g)[c]
    BY <1>6, <1>9
  <2>2. QED
    BY <1>1, <1>8, <1>10, <1>11, <2>1 DEF m, N, K, P, l

\* The c-th object of list g of node i has index x.
Slot(t, o, Fst, i, g, c, x) ==
  /\ i \in 0 .. Len(o) - 1 /\ g \in 1 .. Len(t.kids[o[i + 1]]) /\ c \in 1 .. Len(ListAt(t, o[i + 1], g))
  /\ x = Fst[i] + Rolls(t, o[i + 1])[g - 1] + c - 1

\* What a slot is: its object is the child at place j of the node.
SlotOf(t, o, Fst, i, g, c, x, j) ==
  /\ o[i + 1] \in Nodes(t) /\ i \in Nat /\ c \in Nat /\ 1 <= c /\ j \in Nat /\ Fst[i] \in Nat
  /\ Rolls(t, o[i + 1])[g - 1] \in Nat /\ Len(ListAt(t, o[i + 1], g)) \in Nat
  /\ j = Rolls(t, o[i + 1])[g - 1] + c /\ j \in 1 .. Len(KidsOf(t, o[i + 1])) /\ x = Fst[i] + j - 1
  /\ x \in 1 .. Len(o) - 1 /\ x + 1 = Fst[i] + j
  /\ o[x + 1] = ListAt(t, o[i + 1], g)[c] /\ o[x + 1] = KidsOf(t, o[i + 1])[j]
\* Every slot is so.
LEMMA SlotsOf ==
  \A t, o, Fst : IsDocument(t) /\ Queued(t, o, Fst) =>
    \A i, g, c, x : Slot(t, o, Fst, i, g, c, x) =>
      SlotOf(t, o, Fst, i, g, c, x, Rolls(t, o[i + 1])[g - 1] + c)
<1> SUFFICES ASSUME NEW t, NEW o, NEW Fst, IsDocument(t), Queued(t, o, Fst), NEW i, NEW g, NEW c, NEW x,
                    Slot(t, o, Fst, i, g, c, x)
             PROVE  SlotOf(t, o, Fst, i, g, c, x, Rolls(t, o[i + 1])[g - 1] + c)
  OBVIOUS
<1> DEFINE v == o[i + 1]
           K == KidsOf(t, v)
           r == Rolls(t, v)[g - 1]
           l == ListAt(t, v, g)
           f == Fst[i]
           m == Len(o)
           j == r + c
<1>1. i \in 0 .. m - 1 /\ g \in 1 .. Len(t.kids[v]) /\ c \in 1 .. Len(l) /\ x = f + r + c - 1
  BY DEF Slot
<1>2. /\ i \in Nat /\ v \in Nodes(t) /\ f \in Nat
      /\ \A a \in 1 .. Len(K) : f + a \in 2 .. m /\ IsChild(t, o, Fst, f + a, i, a)
  BY <1>1, DocumentsGrow, ChildOfNode
<1>3. r \in Nat /\ Len(l) \in Nat /\ \A a \in 1 .. Len(l) : r + a \in 1 .. Len(K) /\ K[r + a] = l[a]
  BY <1>1, <1>2, ListsLaid
<1>4. m \in Nat
  BY DEF Queued
<1>5. j \in 1 .. Len(K) /\ K[j] = l[c]
  BY <1>1, <1>3
<1>6. f + j \in 2 .. m /\ o[f + j] = K[j]
  BY <1>2, <1>5 DEF IsChild
<1> HIDE DEF v, K, r, l, f, m
<1>7. c \in Nat /\ 1 <= c /\ j \in Nat
  BY <1>1, <1>3, InPart
<1>8. x = f + j - 1 /\ x + 1 = f + j /\ x \in 1 .. m - 1
  <2>1. f \in Nat /\ r \in Nat /\ c \in Nat /\ m \in Nat /\ x = f + r + c - 1
    BY <1>1, <1>2, <1>3, <1>4, <1>7
  <2>2. x = f + j - 1 /\ x + 1 = f + j
    BY <2>1
  <2>3. f + j \in 2 .. m
    BY <1>6
  <2>4. f + j - 1 \in 1 .. m - 1
    BY <2>1, <2>3
  <2>5. QED
    BY <2>2, <2>4
<1>9. o[x + 1] = K[j] /\ o[x + 1] = l[c]
  BY <1>5, <1>6, <1>8
<1>10. QED
  BY <1>2, <1>3, <1>5, <1>7, <1>8, <1>9 DEF SlotOf, v, K, r, l, f, m

\* Every index but the root's is that of a slot, and of one only.
LEMMA SlotsAreAll ==
  \A t, o, Fst : IsDocument(t) /\ Queued(t, o, Fst) =>
    \A x \in 1 .. Len(o) - 1 : \E i, g, c : Slot(t, o, Fst, i, g, c, x)
<1> SUFFICES ASSUME NEW t, NEW o, NEW Fst, IsDocument(t), Queued(t, o, Fst), NEW x \in 1 .. Len(o) - 1
             PROVE  \E i, g, c : Slot(t, o, Fst, i, g, c, x)
  OBVIOUS
<1>1. PICK i \in 0 .. Len(o) - 1 : \E j \in 1 .. Len(KidsOf(t, o[i + 1])) : x = Fst[i] + j - 1
  BY DEF Queued
<1> DEFINE v == o[i + 1]
           f == Fst[i]
<1>2. PICK j \in 1 .. Len(KidsOf(t, v)) : x = f + j - 1
  BY <1>1
<1>3. v \in Nodes(t) /\ f \in Nat
  BY DocumentsGrow, ChildOfNode
<1> HIDE DEF v, f
<1>4. PICK g \in 1 .. Len(t.kids[v]) : \E c \in 1 .. Len(ListAt(t, v, g)) : j = Rolls(t, v)[g - 1] + c
  BY <1>3, ListsLaid
<1>5. PICK c \in 1 .. Len(ListAt(t, v, g)) : j = Rolls(t, v)[g - 1] + c
  BY <1>4
<1>6. Rolls(t, v)[g - 1] \in Nat /\ Len(ListAt(t, v, g)) \in Nat
  BY <1>3, ListsLaid
<1> DEFINE r == Rolls(t, v)[g - 1]
<1>7. c \in Nat
  BY <1>6, InPart
<1> HIDE DEF r
<1>8. x = f + r + c - 1
  <2>1. x = f + j - 1 /\ j = r + c /\ r \in Nat
    BY <1>2, <1>5, <1>6 DEF r
  <2>2. QED
    BY <1>3, <1>7, <2>1
<1>9. Slot(t, o, Fst, i, g, c, x)
  BY <1>8 DEF Slot, v, f, r
<1>10. QED
  BY <1>9

\* No index is in two slots.
LEMMA SlotsDiffer ==
  \A t, o, Fst : IsDocument(t) /\ Queued(t, o, Fst) =>
    \A i, g, c, h, k, a, x : Slot(t, o, Fst, i, g, c, x) /\ Slot(t, o, Fst, h, k, a, x) =>
      i = h /\ g = k /\ c = a
<1> SUFFICES ASSUME NEW t, NEW o, NEW Fst, IsDocument(t), Queued(t, o, Fst),
                    NEW i, NEW g, NEW c, NEW h, NEW k, NEW a, NEW x,
                    Slot(t, o, Fst, i, g, c, x), Slot(t, o, Fst, h, k, a, x)
             PROVE  i = h /\ g = k /\ c = a
  OBVIOUS
<1> DEFINE j == Rolls(t, o[i + 1])[g - 1] + c
           b == Rolls(t, o[h + 1])[k - 1] + a
<1>1. SlotOf(t, o, Fst, i, g, c, x, j) /\ SlotOf(t, o, Fst, h, k, a, x, b)
  BY SlotsOf
<1>2. /\ j \in 1 .. Len(KidsOf(t, o[i + 1])) /\ b \in 1 .. Len(KidsOf(t, o[h + 1]))
      /\ x + 1 = Fst[i] + j /\ x + 1 = Fst[h] + b /\ o[i + 1] \in Nodes(t)
  BY <1>1 DEF SlotOf
<1>3. /\ i \in 0 .. Len(o) - 1 /\ g \in 1 .. Len(t.kids[o[i + 1]]) /\ c \in 1 .. Len(ListAt(t, o[i + 1], g))
      /\ h \in 0 .. Len(o) - 1 /\ k \in 1 .. Len(t.kids[o[h + 1]]) /\ a \in 1 .. Len(ListAt(t, o[h + 1], k))
  BY DEF Slot
<1>4. \A y, z \in 0 .. Len(o) - 1 :
        \A p \in 1 .. Len(KidsOf(t, o[y + 1])), q \in 1 .. Len(KidsOf(t, o[z + 1])) :
          Fst[y] + p = Fst[z] + q => y = z /\ p = q
  BY DEF Queued
<1> HIDE DEF j, b
<1>5. i = h /\ j = b
  <2>1. Fst[i] + j = Fst[h] + b
    BY <1>2
  <2>2. QED
    BY <1>2, <1>3, <1>4, <2>1
<1>6. \A p, q \in 1 .. Len(t.kids[o[i + 1]]) :
        \A y \in 1 .. Len(ListAt(t, o[i + 1], p)), z \in 1 .. Len(ListAt(t, o[i + 1], q)) :
          Rolls(t, o[i + 1])[p - 1] + y = Rolls(t, o[i + 1])[q - 1] + z => p = q /\ y = z
  BY <1>2, ListsLaid
<1>7. Rolls(t, o[i + 1])[g - 1] + c = Rolls(t, o[i + 1])[k - 1] + a
  BY <1>5 DEF j, b
<1>8. QED
  BY <1>3, <1>5, <1>6, <1>7

-----------------------------------------------------------------------------
(* What the edges have to say.                                             *)

\* Index finds the place of a node in the order.
LEMMA IndexIsPlace ==
  \A t, o, Fst : Grown(t) /\ Queued(t, o, Fst) => \A i \in 0 .. Len(o) - 1 : IndexOf(o, o[i + 1]) = i
<1> SUFFICES ASSUME NEW t, NEW o, NEW Fst, Grown(t), Queued(t, o, Fst), NEW i \in 0 .. Len(o) - 1
             PROVE  IndexOf(o, o[i + 1]) = i
  OBVIOUS
<1> DEFINE m == Len(o)
           x == i + 1
           S == {y \in 1 .. m : o[y] = o[x]}
<1>1. m \in Nat /\ x \in 1 .. m /\ x - 1 = i
  <2>1. m \in Nat
    BY DEF Queued
  <2>2. i \in 0 .. m - 1
    OBVIOUS
  <2> HIDE DEF m
  <2>3. QED
    BY <2>1, <2>2
<1>2. \A y, z \in 1 .. m : o[y] = o[z] => y = z
  BY OrderIsOnce
<1>3. S = {x}
  <2> HIDE DEF m, x
  <2>1. QED
    BY <1>1, <1>2
<1>4. IndexOf(o, o[i + 1]) = (IF S # {} THEN Min(S) ELSE 0) - 1
  BY DEF IndexOf, SelectInSeq
<1> HIDE DEF x, S, m
<1>5. S \in SUBSET Nat /\ S # {}
  BY <1>1, <1>3
<1>6. Min(S) = x
  BY <1>3, <1>5, LeastOf
<1>7. QED
  BY <1>1, <1>4, <1>5, <1>6

\* A node is at the place of its index.
LEMMA PlaceOfIndex ==
  \A t, o, Fst : Grown(t) /\ Queued(t, o, Fst) =>
    \A v \in Nodes(t) : IndexOf(o, v) \in 0 .. Len(o) - 1 /\ o[IndexOf(o, v) + 1] = v
<1> SUFFICES ASSUME NEW t, NEW o, NEW Fst, Grown(t), Queued(t, o, Fst), NEW v \in Nodes(t)
             PROVE  IndexOf(o, v) \in 0 .. Len(o) - 1 /\ o[IndexOf(o, v) + 1] = v
  OBVIOUS
<1>1. PICK x \in 1 .. Len(o) : o[x] = v
  BY OrderIsOnto
<1> DEFINE i == x - 1
<1>2. Len(o) \in Nat
  BY DEF Queued
<1>3. i \in 0 .. Len(o) - 1 /\ i + 1 = x
  BY <1>2
<1> HIDE DEF i
<1>4. IndexOf(o, o[i + 1]) = i
  BY <1>3, IndexIsPlace
<1>5. QED
  BY <1>1, <1>3, <1>4

\* N holds the edges of t in the columns of E.
Cell(N, n, col, x) == N[col * n + x]
Flag(p) == IF p THEN 1 ELSE 0
ListCol(t, E, v, g) == E.kids[t.class[v]][t.kids[v][g].lbl]
HeadHolds(t, E, N, i, g) ==
  Cell(N, treeSize(t), ListCol(t, E, Order(t)[i + 1], g), i)
    = Firsts(t)[i] + Rolls(t, Order(t)[i + 1])[g - 1] - i
SlotHolds(t, E, N, i, g, c, x) ==
  /\ Cell(N, treeSize(t), E.parent, x) = i
  /\ Cell(N, treeSize(t), E.right_siblings, x) = Flag(c < Len(ListAt(t, Order(t)[i + 1], g)))
  /\ Cell(N, treeSize(t), E.left_siblings, x) = Flag(c > 1 \/ Rolls(t, Order(t)[i + 1])[g - 1] > 0)
EdgesHold(t, E, N) ==
  /\ \A i \in 0 .. Len(Order(t)) - 1 : \A g \in 1 .. Len(t.kids[Order(t)[i + 1]]) : HeadHolds(t, E, N, i, g)
  /\ \A i, g, c, x : Slot(t, Order(t), Firsts(t), i, g, c, x) => SlotHolds(t, E, N, i, g, c, x)

\* The walk through a list starts at its first object, ends at its last, and meets all.
FirstKid(t, E, N, v, g) ==
  IndexOf(Order(t), v) + Cell(N, treeSize(t), ListCol(t, E, v, g), IndexOf(Order(t), v))
Lasts(t, E, N, v, g) ==
  {j \in FirstKid(t, E, N, v, g) .. treeSize(t) - 1 : Cell(N, treeSize(t), E.right_siblings, j) = 0}
ListKept(t, E, N, v, g) ==
  LET list == ListAt(t, v, g) IN
  list # <<>> =>
    /\ Lasts(t, E, N, v, g) # {}
    /\ FirstKid(t, E, N, v, g) .. Min(Lasts(t, E, N, v, g)) = {IndexOf(Order(t), w) : w \in ToSet(list)}
    /\ FirstKid(t, E, N, v, g) = IndexOf(Order(t), list[1])
\* From the edges follow the lists.
LEMMA ListsFollow ==
  \A t, E, N : IsDocument(t) /\ EdgesHold(t, E, N) =>
    \A v \in Nodes(t) : \A g \in 1 .. Len(t.kids[v]) : ListKept(t, E, N, v, g)
<1> SUFFICES ASSUME NEW t, NEW E, NEW N, IsDocument(t), EdgesHold(t, E, N), NEW v \in Nodes(t),
                    NEW g \in 1 .. Len(t.kids[v])
             PROVE  ListKept(t, E, N, v, g)
  OBVIOUS
<1> DEFINE o == Order(t)
           Fst == Firsts(t)
           n == treeSize(t)
           l == ListAt(t, v, g)
           L == Len(l)
           i == IndexOf(o, v)
           r == Rolls(t, v)[g - 1]
           f == Fst[i]
           p == f + r
           h == FirstKid(t, E, N, v, g)
           Right(j) == Cell(N, n, E.right_siblings, j)
           S == Lasts(t, E, N, v, g)
<1> SUFFICES ASSUME l # <<>>
             PROVE  S # {} /\ h .. Min(S) = {IndexOf(o, w) : w \in ToSet(l)} /\ h = IndexOf(o, l[1])
  BY DEF ListKept
<1>1. Grown(t) /\ Queued(t, o, Fst)
  BY DocumentsGrow, OrderIsQueued
<1>2. Len(o) = n /\ n \in Nat
  BY <1>1, OrderIsWhole DEF Grown
<1>3. i \in 0 .. n - 1 /\ o[i + 1] = v /\ i \in Nat
  <2>1. i \in 0 .. Len(o) - 1 /\ o[i + 1] = v
    BY <1>1, PlaceOfIndex
  <2> HIDE DEF i
  <2>2. QED
    BY <1>2, <2>1
<1>4. l \in Seq(Nodes(t)) /\ L \in Nat /\ r \in Nat
  BY ListsLaid
<1>5. 1 <= L
  <2> HIDE DEF l
  <2>1. QED
    BY <1>4
<1>6. f \in Nat
  <2>1. i \in 0 .. Len(o) - 1
    BY <1>2, <1>3
  <2> HIDE DEF i
  <2>2. QED
    BY <1>1, <2>1, ChildOfNode
<1> HIDE DEF o, Fst, n, l, L, i, r, f
<1>7. p \in Nat
  BY <1>4, <1>6
<1>8. h = p
  <2> DEFINE q == Cell(N, n, ListCol(t, E, v, g), i)
  <2>1. HeadHolds(t, E, N, i, g)
    BY <1>2, <1>3 DEF EdgesHold, o
  <2>2. q = f + r - i
    BY <1>3, <2>1 DEF HeadHolds, o, Fst, n, f, r
  <2>3. h = i + q
    BY DEF FirstKid, i, o, n
  <2> HIDE DEF q, h
  <2>4. QED
    BY <1>3, <1>4, <1>6, <2>2, <2>3
<1> HIDE DEF h
<1>9. ASSUME NEW c \in 1 .. L
      PROVE  /\ p + c - 1 \in p .. n - 1 /\ Right(p + c - 1) = Flag(c < L)
             /\ IndexOf(o, l[c]) = p + c - 1
  <2> DEFINE x == p + c - 1
  <2>1. x = f + r + c - 1
    OBVIOUS
  <2>2. Slot(t, o, Fst, i, g, c, x)
    BY <1>2, <1>3, <2>1 DEF Slot, l, L, r, f
  <2>3. SlotHolds(t, E, N, i, g, c, x)
    BY <2>2 DEF EdgesHold, o, Fst
  <2>4. SlotOf(t, o, Fst, i, g, c, x, Rolls(t, o[i + 1])[g - 1] + c)
    BY <1>1, <2>2, SlotsOf
  <2>5. /\ x \in 1 .. Len(o) - 1 /\ o[x + 1] = ListAt(t, o[i + 1], g)[c] /\ c \in Nat /\ 1 <= c
    BY <2>4 DEF SlotOf
  <2>6. Right(x) = Flag(c < L)
    BY <1>3, <2>3 DEF SlotHolds, o, n, l, L
  <2> HIDE DEF Right
  <2>7. x \in 0 .. Len(o) - 1 /\ o[x + 1] = l[c] /\ x \in p .. n - 1
    <3>1. x \in 0 .. Len(o) - 1 /\ x <= n - 1 /\ x \in Int
      BY <1>2, <2>5
    <3>2. p <= x
      BY <1>7, <2>5
    <3> HIDE DEF x, p
    <3>3. QED
      BY <1>2, <1>3, <1>7, <2>5, <3>1, <3>2 DEF l
  <2> HIDE DEF x
  <2>8. IndexOf(o, l[c]) = x
    BY <1>1, <2>7, IndexIsPlace
  <2>9. QED
    BY <2>6, <2>7, <2>8 DEF x
<1> DEFINE e == p + L - 1
<1>10. S = {j \in p .. n - 1 : Right(j) = 0}
  BY <1>8 DEF Lasts, n, h
<1> HIDE DEF S, Right, p
<1>11. L \in 1 .. L /\ 1 \in 1 .. L /\ e \in Nat
  BY <1>4, <1>5, <1>7
<1>12. e \in p .. n - 1 /\ Right(e) = 0
  <2>1. Flag(L < L) = 0
    BY <1>4 DEF Flag
  <2>2. QED
    BY <1>9, <1>11, <2>1
<1>13. \A j \in p .. n - 1 : j < e => Right(j) # 0
  <2>1. ASSUME NEW j \in p .. n - 1, j < e PROVE Right(j) # 0
    <3> DEFINE c == j - p + 1
    <3>1. c \in 1 .. L /\ c < L /\ p + c - 1 = j
      BY <1>2, <1>4, <1>7, <1>11, <2>1
    <3> HIDE DEF c
    <3>2. Right(j) = Flag(c < L)
      <4>1. Right(p + c - 1) = Flag(c < L)
        BY <1>9, <3>1
      <4>2. QED
        BY <3>1, <4>1
    <3>3. QED
      BY <3>1, <3>2 DEF Flag
  <2>2. QED
    BY <2>1
<1> HIDE DEF e
<1>14. S \in SUBSET Nat /\ e \in S
  BY <1>2, <1>7, <1>10, <1>12
<1>15. Min(S) = e
  <2>1. Min(S) \in S /\ \A j \in S : Min(S) <= j
    BY <1>14, LeastOf
  <2> DEFINE k == Min(S)
  <2> HIDE DEF k
  <2>2. k \in p .. n - 1 /\ Right(k) = 0 /\ k <= e
    BY <1>10, <1>14, <2>1 DEF k
  <2>3. ~(k < e)
    BY <1>13, <2>2
  <2>4. k = e
    BY <1>2, <1>7, <1>11, <2>2, <2>3
  <2>5. QED
    BY <2>4 DEF k
<1>16. ToSet(l) = {l[c] : c \in 1 .. L}
  BY <1>4 DEF ToSet, L
<1>17. {IndexOf(o, w) : w \in ToSet(l)} = {p + c - 1 : c \in 1 .. L}
  <2>1. \A c \in 1 .. L : IndexOf(o, l[c]) = p + c - 1
    BY <1>9
  <2>2. {IndexOf(o, w) : w \in ToSet(l)} = {IndexOf(o, l[c]) : c \in 1 .. L}
    BY <1>16
  <2>3. QED
    BY <2>1, <2>2
<1>18. p .. e = {p + c - 1 : c \in 1 .. L}
  <2>1. ASSUME NEW x \in p .. e PROVE \E c \in 1 .. L : x = p + c - 1
    <3>1. x - p + 1 \in 1 .. L /\ x = p + (x - p + 1) - 1
      BY <1>4, <1>7 DEF e
    <3>2. QED
      BY <3>1
  <2>2. ASSUME NEW c \in 1 .. L PROVE p + c - 1 \in p .. e
    BY <1>4, <1>7 DEF e
  <2>3. QED
    BY <2>1, <2>2
<1>19. h = IndexOf(o, l[1])
  <2>1. IndexOf(o, l[1]) = p + 1 - 1
    BY <1>9, <1>11
  <2>2. QED
    BY <1>7, <1>8, <2>1
<1>20. QED
  BY <1>8, <1>14, <1>15, <1>17, <1>18, <1>19

\* A child knows its parent, and its left neighbour.
ChildKept(t, E, N, v, k) ==
  LET i == IndexOf(Order(t), KidsOf(t, v)[k]) IN
  /\ Cell(N, treeSize(t), E.parent, i) = IndexOf(Order(t), v)
  /\ IF k = 1 THEN Cell(N, treeSize(t), E.left_siblings, i) = 0
     ELSE IndexOf(Order(t), KidsOf(t, v)[k - 1]) = i - Cell(N, treeSize(t), E.left_siblings, i)
\* From the edges follow parents and neighbours.
LEMMA ChildrenFollow ==
  \A t, E, N : IsDocument(t) /\ EdgesHold(t, E, N) =>
    \A v \in Nodes(t) : \A k \in 1 .. Len(KidsOf(t, v)) : ChildKept(t, E, N, v, k)
<1> SUFFICES ASSUME NEW t, NEW E, NEW N, IsDocument(t), EdgesHold(t, E, N), NEW v \in Nodes(t),
                    NEW k \in 1 .. Len(KidsOf(t, v))
             PROVE  ChildKept(t, E, N, v, k)
  OBVIOUS
<1> DEFINE o == Order(t)
           Fst == Firsts(t)
           n == treeSize(t)
           K == KidsOf(t, v)
           i == IndexOf(o, v)
           f == Fst[i]
           x == f + k - 1
           Left(j) == Cell(N, n, E.left_siblings, j)
<1>1. Grown(t) /\ Queued(t, o, Fst)
  BY DocumentsGrow, OrderIsQueued
<1>2. i \in 0 .. Len(o) - 1 /\ o[i + 1] = v
  BY <1>1, PlaceOfIndex
<1>3. PICK g \in 1 .. Len(t.kids[v]) : \E c \in 1 .. Len(ListAt(t, v, g)) : k = Rolls(t, v)[g - 1] + c
  BY ListsLaid
<1>4. PICK c \in 1 .. Len(ListAt(t, v, g)) : k = Rolls(t, v)[g - 1] + c
  BY <1>3
<1> DEFINE r == Rolls(t, v)[g - 1]
<1>5. /\ f \in Nat /\ Len(K) \in Nat
      /\ \A j \in 1 .. Len(K) : f + j \in 2 .. Len(o) /\ IsChild(t, o, Fst, f + j, i, j)
  <2> HIDE DEF i, o, Fst
  <2>1. QED
    BY <1>1, <1>2, ChildOfNode
<1>6. r \in Nat /\ Len(ListAt(t, v, g)) \in Nat
  BY ListsLaid
<1>7. c \in Nat /\ 1 <= c /\ k = r + c
  <2>1. k = r + c
    BY <1>4
  <2> HIDE DEF r
  <2>2. QED
    BY <1>6, <2>1, InPart
<1> HIDE DEF o, Fst, n, K, i, f, r
<1>8. x = f + r + c - 1
  BY <1>5, <1>6, <1>7
<1>9. Slot(t, o, Fst, i, g, c, x)
  BY <1>2, <1>8 DEF Slot, f, r
<1>10. SlotHolds(t, E, N, i, g, c, x)
  BY <1>9 DEF EdgesHold, o, Fst
<1>11. Cell(N, n, E.parent, x) = i /\ Left(x) = Flag(c > 1 \/ r > 0)
  BY <1>2, <1>10 DEF SlotHolds, o, n, r
<1>12. Len(o) \in Nat
  BY <1>1 DEF Queued
<1>13. ASSUME NEW j \in 1 .. Len(K) PROVE IndexOf(o, K[j]) = f + j - 1
  <2> DEFINE y == f + j - 1
  <2>1. f + j \in 2 .. Len(o) /\ IsChild(t, o, Fst, f + j, i, j)
    BY <1>5
  <2>2. o[f + j] = K[j]
    BY <1>2, <2>1 DEF IsChild, K
  <2>3. j \in Nat
    BY <1>5, InPart
  <2>4. y \in 0 .. Len(o) - 1 /\ y + 1 = f + j
    BY <1>5, <1>12, <2>1, <2>3
  <2> HIDE DEF y
  <2>5. IndexOf(o, o[y + 1]) = y
    BY <1>1, <2>4, IndexIsPlace
  <2>6. QED
    BY <2>2, <2>4, <2>5 DEF y
<1>14. k \in 1 .. Len(K) /\ IndexOf(o, K[k]) = x
  <2>1. k \in 1 .. Len(K)
    BY DEF K
  <2>2. QED
    BY <1>13, <2>1
<1> DEFINE Z == IF k = 1 THEN Left(x) = 0 ELSE IndexOf(o, K[k - 1]) = x - Left(x)
<1>15. Z
  <2>1. CASE k = 1
    <3>1. ~(c > 1 \/ r > 0)
      BY <1>6, <1>7, <2>1
    <3>2. QED
      BY <1>11, <2>1, <3>1 DEF Flag
  <2>2. CASE k # 1
    <3>1. c > 1 \/ r > 0
      BY <1>6, <1>7, <2>2
    <3>2. Left(x) = 1
      BY <1>11, <3>1 DEF Flag
    <3>3. k - 1 \in 1 .. Len(K) /\ k \in Nat
      BY <1>5, <1>14, <2>2
    <3>4. IndexOf(o, K[k - 1]) = f + (k - 1) - 1
      BY <1>13, <3>3
    <3> HIDE DEF Left
    <3>5. IndexOf(o, K[k - 1]) = x - Left(x)
      BY <1>5, <3>2, <3>3, <3>4
    <3>6. QED
      BY <2>2, <3>5
  <2>3. QED
    BY <2>1, <2>2
<1> HIDE DEF x
<1>16. Z
  BY <1>15
<1>17. QED
  BY <1>11, <1>14, <1>16 DEF ChildKept, o, n, K, i

\* A level is the children of the level before.
LevelRange(t, k) == levelsOf(t)[k].start_idx .. levelsOf(t)[k].start_idx + levelsOf(t)[k].length - 1
LevelKept(t, E, N, k) ==
  IF k = 1 THEN LevelRange(t, k) = {0}
  ELSE LevelRange(t, k) =
         {i \in 1 .. treeSize(t) - 1 : Cell(N, treeSize(t), E.parent, i) \in LevelRange(t, k - 1)}
\* The indices of a level.
LEMMA LevelRanges ==
  \A t, S : Leveled(t, S) => \A k \in 1 .. Turns(t) : LevelRange(t, k) = S[k - 1] .. S[k] - 1
<1> SUFFICES ASSUME NEW t, NEW S, Leveled(t, S), NEW k \in 1 .. Turns(t)
             PROVE  LevelRange(t, k) = S[k - 1] .. S[k] - 1
  OBVIOUS
<1>1. levelsOf(t)[k] = LevelRecord(S, k)
  BY DEF Leveled
<1> DEFINE a == S[k - 1]
           b == S[k]
<1>2. levelsOf(t)[k].start_idx = a /\ levelsOf(t)[k].length = b - a
  BY <1>1 DEF LevelRecord
<1>3. a \in Nat /\ b \in Nat
  <2>1. k - 1 \in 0 .. Turns(t) /\ k \in 0 .. Turns(t)
    BY DEF Leveled
  <2>2. QED
    BY <2>1 DEF Leveled
<1> HIDE DEF a, b
<1>4. LevelRange(t, k) = a .. a + (b - a) - 1
  BY <1>2 DEF LevelRange
<1>5. a + (b - a) - 1 = b - 1
  BY <1>3
<1>6. QED
  BY <1>4, <1>5 DEF a, b

\* The children of a node lie between its first child's index and the next node's.
LEMMA ParentBetween ==
  \A t, E, N : IsDocument(t) /\ EdgesHold(t, E, N) =>
    \A x \in 1 .. treeSize(t) - 1 :
      \E p \in 0 .. treeSize(t) - 1 :
        Cell(N, treeSize(t), E.parent, x) = p /\ Firsts(t)[p] <= x /\ x < Firsts(t)[p + 1]
<1> SUFFICES ASSUME NEW t, NEW E, NEW N, IsDocument(t), EdgesHold(t, E, N), NEW x \in 1 .. treeSize(t) - 1
             PROVE  \E p \in 0 .. treeSize(t) - 1 :
                      Cell(N, treeSize(t), E.parent, x) = p /\ Firsts(t)[p] <= x /\ x < Firsts(t)[p + 1]
  OBVIOUS
<1> DEFINE o == Order(t)
           Fst == Firsts(t)
           n == treeSize(t)
<1>1. Grown(t) /\ Queued(t, o, Fst)
  BY DocumentsGrow, OrderIsQueued
<1>2. Len(o) = n
  BY <1>1, OrderIsWhole
<1>3. x \in 1 .. Len(o) - 1
  BY <1>2
<1> HIDE DEF o, Fst, n
<1>4. PICK i, g, c : Slot(t, o, Fst, i, g, c, x)
  BY <1>1, <1>3, SlotsAreAll
<1> DEFINE j == Rolls(t, o[i + 1])[g - 1] + c
<1>5. SlotOf(t, o, Fst, i, g, c, x, j)
  BY <1>1, <1>4, SlotsOf
<1> HIDE DEF j
<1> DEFINE K == KidsOf(t, o[i + 1])
           f == Fst[i]
<1>6. i \in 0 .. Len(o) - 1 /\ j \in 1 .. Len(K) /\ x = f + j - 1 /\ j \in Nat /\ f \in Nat
  BY <1>4, <1>5 DEF Slot, SlotOf
<1>7. Cell(N, n, E.parent, x) = i
  BY <1>4 DEF EdgesHold, SlotHolds, o, Fst, n
<1>8. Fst[i + 1] = f + Len(K)
  BY <1>1, <1>6 DEF Queued
<1>9. Len(K) \in Nat
  BY <1>1, <1>6, ChildOfNode
<1> HIDE DEF K, f
<1>10. f <= x /\ x < f + Len(K)
  BY <1>6, <1>9
<1>11. i \in 0 .. n - 1
  BY <1>2, <1>6
<1>12. QED
  BY <1>7, <1>8, <1>10, <1>11 DEF f, n, Fst

\* From the edges follow the levels.
LEMMA LevelsFollow ==
  \A t, E, N : IsDocument(t) /\ EdgesHold(t, E, N) => \A k \in 1 .. Turns(t) : LevelKept(t, E, N, k)
<1> SUFFICES ASSUME NEW t, NEW E, NEW N, IsDocument(t), EdgesHold(t, E, N), NEW k \in 1 .. Turns(t)
             PROVE  LevelKept(t, E, N, k)
  OBVIOUS
<1> DEFINE o == Order(t)
           Fst == Firsts(t)
           n == treeSize(t)
           S == Starts(t)
           m == Turns(t)
           Parent(x) == Cell(N, n, E.parent, x)
<1>1. Grown(t) /\ Queued(t, o, Fst) /\ Leveled(t, S)
  BY DocumentsGrow, OrderIsQueued, OrderIsLeveled
<1>2. Len(o) = n
  BY <1>1, OrderIsWhole
<1>3. n \in Nat /\ m \in Nat
  BY <1>1 DEF Grown, Leveled
<1>4. /\ S[0] = 0 /\ S[m] = n /\ \A h \in 0 .. m : S[h] \in Nat
      /\ \A h \in 1 .. m : S[h - 1] < S[h] /\ S[h - 1] \in 0 .. n /\ Fst[S[h - 1]] = S[h]
  BY <1>1, <1>2 DEF Leveled
<1>5. Fst[0] = 1 /\ \A i \in 0 .. n : Fst[i] \in Nat /\ \A h \in 0 .. i : Fst[h] <= Fst[i]
  BY <1>1, <1>2 DEF Queued
<1>6. \A x \in 1 .. n - 1 : \E p \in 0 .. n - 1 : Parent(x) = p /\ Fst[p] <= x /\ x < Fst[p + 1]
  BY ParentBetween
<1>7. \A h \in 1 .. m : LevelRange(t, h) = S[h - 1] .. S[h] - 1
  BY <1>1, LevelRanges
<1>8. \A b \in 0 .. m : \A a \in 0 .. b : S[a] <= S[b]
  BY <1>1, StartsRise
<1>9. k \in 1 .. m
  OBVIOUS
<1> HIDE DEF o, Fst, n, S, m, Parent
<1>10. CASE k = 1
  <2>1. S[1] = 1
    <3>1. Fst[S[1 - 1]] = S[1]
      BY <1>4, <1>9, <1>10
    <3>2. QED
      BY <1>4, <1>5, <3>1
  <2>2. LevelRange(t, 1) = S[1 - 1] .. S[1] - 1
    BY <1>7, <1>9, <1>10
  <2>3. LevelRange(t, k) = {0}
    BY <1>4, <1>10, <2>1, <2>2
  <2>4. QED
    BY <1>10, <2>3 DEF LevelKept
<1>11. CASE k # 1
  <2> DEFINE a == S[(k - 1) - 1]
             b == S[k - 1]
             c == S[k]
             A == LevelRange(t, k - 1)
  <2>1. k - 1 \in 1 .. m /\ (k - 1) - 1 \in 0 .. m /\ k - 1 \in 0 .. m /\ k \in 0 .. m /\ m \in 0 .. m
    BY <1>3, <1>9, <1>11
  <2>2. a \in Nat /\ b \in Nat /\ c \in Nat /\ a < b /\ b < c /\ Fst[a] = b /\ Fst[b] = c /\ c <= n
    <3>1. a \in Nat /\ b \in Nat /\ c \in Nat
      BY <1>4, <2>1
    <3>2. a < b /\ Fst[a] = b
      BY <1>4, <2>1
    <3>3. b < c /\ Fst[b] = c
      BY <1>4, <1>9
    <3>4. k \in 0 .. m /\ S[k] <= S[m]
      BY <1>8, <2>1
    <3>5. QED
      BY <1>4, <3>1, <3>2, <3>3, <3>4
  <2>3. LevelRange(t, k) = b .. c - 1 /\ A = a .. b - 1
    BY <1>7, <1>9, <2>1
  <2> HIDE DEF a, b, c, A
  <2>4. a \in 0 .. n /\ b \in 0 .. n
    BY <1>3, <2>2
  <2>5. ASSUME NEW x \in 1 .. n - 1 PROVE (Parent(x) \in a .. b - 1) <=> (x \in b .. c - 1)
    <3>1. PICK p \in 0 .. n - 1 : Parent(x) = p /\ Fst[p] <= x /\ x < Fst[p + 1]
      BY <1>6
    <3>2. p \in Nat /\ p \in 0 .. n /\ p + 1 \in 0 .. n /\ x \in Nat
      BY <1>3
    <3>3. Fst[p] \in Nat /\ Fst[p + 1] \in Nat
      BY <1>5, <3>2
    <3> DEFINE y == Fst[p]
               z == Fst[p + 1]
    <3>4. a <= p => b <= y
      <4>1. a <= p => a \in 0 .. p
        BY <2>2, <3>2
      <4>2. a <= p => Fst[a] <= Fst[p]
        BY <1>5, <3>2, <4>1
      <4>3. QED
        BY <2>2, <4>2
    <3>5. b <= p => c <= y
      <4>1. b <= p => b \in 0 .. p
        BY <2>2, <3>2
      <4>2. b <= p => Fst[b] <= Fst[p]
        BY <1>5, <3>2, <4>1
      <4>3. QED
        BY <2>2, <4>2
    <3>6. p < b => z <= c
      <4>1. p < b => p + 1 \in 0 .. b
        BY <2>2, <3>2
      <4>2. p < b => Fst[p + 1] <= Fst[b]
        BY <1>5, <2>4, <4>1
      <4>3. QED
        BY <2>2, <4>2
    <3>7. p < a => z <= b
      <4>1. p < a => p + 1 \in 0 .. a
        BY <2>2, <3>2
      <4>2. p < a => Fst[p + 1] <= Fst[a]
        BY <1>5, <2>4, <4>1
      <4>3. QED
        BY <2>2, <4>2
    <3>8. y <= x /\ x < z /\ y \in Nat /\ z \in Nat
      BY <3>1, <3>3
    <3> HIDE DEF y, z
    <3>9. (p \in a .. b - 1) <=> (x \in b .. c - 1)
      BY <2>2, <3>2, <3>4, <3>5, <3>6, <3>7, <3>8
    <3>10. QED
      BY <3>1, <3>9
  <2>6. b .. c - 1 = {x \in 1 .. n - 1 : Parent(x) \in a .. b - 1}
    <3>1. b .. c - 1 \subseteq 1 .. n - 1
      BY <1>3, <2>2
    <3>2. QED
      BY <2>5, <3>1
  <2>7. LevelRange(t, k) = {x \in 1 .. n - 1 : Parent(x) \in A}
    BY <2>3, <2>6
  <2>8. QED
    BY <1>11, <2>7 DEF LevelKept, n, Parent, A
<1>12. QED
  BY <1>10, <1>11

-----------------------------------------------------------------------------
(* What flatten does.                                                      *)

\* Every object gets exactly one index, and when node i is flattened, leftmostChildIdx
\* is where its children will be put, one after the other in the order of its lists,
\* though none of them has been taken from the queue yet.
THEOREM FlattenRunsAhead ==
  \A t : IsDocument(t) =>
    /\ Order(t) \in [1 .. treeSize(t) -> 1 .. treeSize(t)]
    /\ \A v \in 1 .. treeSize(t) : \E x \in 1 .. treeSize(t) : Order(t)[x] = v
    /\ \A x, y \in 1 .. treeSize(t) : Order(t)[x] = Order(t)[y] => x = y
    /\ \A i \in 0 .. treeSize(t) - 1 : \A j \in 1 .. Len(KidsOf(t, Order(t)[i + 1])) :
         Order(t)[LeftmostChildIdx(t, i) + j] = KidsOf(t, Order(t)[i + 1])[j]
<1> SUFFICES ASSUME NEW t, IsDocument(t)
             PROVE  /\ Order(t) \in [1 .. treeSize(t) -> 1 .. treeSize(t)]
                    /\ \A v \in 1 .. treeSize(t) : \E x \in 1 .. treeSize(t) : Order(t)[x] = v
                    /\ \A x, y \in 1 .. treeSize(t) : Order(t)[x] = Order(t)[y] => x = y
                    /\ \A i \in 0 .. treeSize(t) - 1 : \A j \in 1 .. Len(KidsOf(t, Order(t)[i + 1])) :
                         Order(t)[LeftmostChildIdx(t, i) + j] = KidsOf(t, Order(t)[i + 1])[j]
  OBVIOUS
<1> DEFINE o == Order(t)
           n == treeSize(t)
<1>1. Grown(t) /\ Queued(t, o, Firsts(t)) /\ Nodes(t) = 1 .. n
  BY DocumentsGrow, OrderIsQueued DEF Nodes
<1>2. Len(o) = n
  BY <1>1, OrderIsWhole
<1>3. o \in Seq(Nodes(t))
  BY <1>1 DEF Queued
<1>4. \A x, y \in 1 .. Len(o) : o[x] = o[y] => x = y
  BY <1>1, OrderIsOnce
<1>5. \A v \in Nodes(t) : \E x \in 1 .. Len(o) : o[x] = v
  BY <1>1, OrderIsOnto, Zenon
<1>6. \A i \in 0 .. Len(o) - 1 : LeftmostChildIdx(t, i) = Firsts(t)[i]
  BY <1>1, CounterIsFirst
<1>7. \A i \in 0 .. Len(o) - 1 : \A j \in 1 .. Len(KidsOf(t, o[i + 1])) :
        o[Firsts(t)[i] + j] = KidsOf(t, o[i + 1])[j]
  BY <1>1, Zenon DEF Queued
<1> HIDE DEF o, n
<1>8. o \in [1 .. n -> 1 .. n]
  BY <1>1, <1>2, <1>3
<1>9. \A i \in 0 .. n - 1 : \A j \in 1 .. Len(KidsOf(t, o[i + 1])) :
        o[LeftmostChildIdx(t, i) + j] = KidsOf(t, o[i + 1])[j]
  BY <1>2, <1>6, <1>7
<1>10. /\ o \in [1 .. n -> 1 .. n]
       /\ \A v \in 1 .. n : \E x \in 1 .. n : o[x] = v
       /\ \A x, y \in 1 .. n : o[x] = o[y] => x = y
       /\ \A i \in 0 .. n - 1 : \A j \in 1 .. Len(KidsOf(t, o[i + 1])) :
            o[LeftmostChildIdx(t, i) + j] = KidsOf(t, o[i + 1])[j]
  BY <1>1, <1>2, <1>4, <1>5, <1>8, <1>9
<1>11. QED
  BY <1>10 DEF o, n

=============================================================================
