------------------------ MODULE SparseLoaderProofs ------------------------
(***************************************************************************)
(* Proofs about the sparse format, for every array and every block and     *)
(* chunk size, and about SparseLoader, for any data sets, labels, loads    *)
(* and number of workers.                                                  *)
(*                                                                         *)
(* The format: what deflate and deflateMT leave out are zeros, and what    *)
(* inflate and inflateChunk make of the rest is the array.                 *)
(* deflate recurses forward over the array; deflateMT's loop is a function *)
(* of its turns.  That these functions exist and what holds of their       *)
(* values are shown by induction with CountingUp, whose P is a set.  The   *)
(* invariant of deflateMT's loop is Splitting, and Left counts the turns   *)
(* to come: a block may be split in the middle, and the rest of it, even   *)
(* when nothing is left, is queued for the next chunk.                     *)
(*                                                                         *)
(* The processes: a digest on the disk is complete, the files of a load    *)
(* are accounted for, memory has the shape of the tree it belongs to, and  *)
(* a load no other load meddled with leaves the data set in memory.        *)
(***************************************************************************)
EXTENDS SparseLoader, FiniteSetTheorems, SequenceTheorems, WellFoundedInduction, TLAPS

-----------------------------------------------------------------------------
(* Numbers.                                                                *)

\* A set of naturals has a least element.
LEMMA LeastOf ==
  ASSUME NEW S \in SUBSET Nat, S # {}
  PROVE  Min(S) \in S /\ \A x \in S : Min(S) <= x
<1> DEFINE R == OpToRel(<, Nat)
<1>1. IsWellFoundedOn(R, Nat)
  BY NatLessThanWellFounded
<1>2. \E m \in S : \A x \in S : <<x, m>> \notin R
  <2> HIDE DEF R
  <2> QED
    BY <1>1, WFMin
<1>3. PICK m \in S : \A x \in S : <<x, m>> \notin R
  BY <1>2
<1>4. \A x \in S : m <= x
  <2>1. \A x \in S : x \in Nat /\ m \in Nat /\ (x < m => <<x, m>> \in R)
    BY DEF OpToRel
  <2> HIDE DEF R
  <2>2. \A x \in S : ~(x < m)
    BY <1>3, <2>1
  <2> QED
    BY <2>1, <2>2
<1> QED
  BY <1>3, <1>4, Zenon DEF Min

\* A bounded set of naturals has a greatest element.
LEMMA GreatestOf ==
  ASSUME NEW S \in SUBSET Nat, S # {}, NEW n \in Nat, \A x \in S : x <= n
  PROVE  Max(S) \in S /\ \A x \in S : x <= Max(S)
<1> DEFINE T == {n - x : x \in S}
<1>1. T \in SUBSET Nat /\ T # {}
  <2>1. \A x \in S : n - x \in Nat
    OBVIOUS
  <2> QED
    BY <2>1
<1>2. Min(T) \in T /\ \A y \in T : Min(T) <= y
  BY <1>1, LeastOf
<1>3. PICK m \in S : Min(T) = n - m
  BY <1>2
<1>4. \A x \in S : x <= m
  <2>1. \A x \in S : n - m <= n - x /\ x \in Nat /\ m \in Nat
    BY <1>2, <1>3
  <2> QED
    BY <2>1
<1>5. \E k \in S : \A x \in S : k >= x
  BY <1>4
<1>6. Max(S) \in S /\ \A x \in S : Max(S) >= x
  BY <1>5, Zenon DEF Max
<1> QED
  BY <1>6

\* What holds at 0 and passes from each number to the next holds up to n.
LEMMA CountingUp ==
  ASSUME NEW n \in Nat, NEW P, 0 \in P, \A k \in 0 .. n - 1 : k \in P => k + 1 \in P
  PROVE  \A k \in 0 .. n : k \in P
<1> DEFINE Bad == (0 .. n) \ P
<1> SUFFICES ASSUME Bad # {} PROVE FALSE
  OBVIOUS
<1>1. Bad \in SUBSET Nat
  OBVIOUS
<1> DEFINE m == Min(Bad)
<1>2. m \in Bad /\ \A x \in Bad : m <= x
  BY <1>1, LeastOf
<1> HIDE DEF m
<1>3. m # 0 /\ m - 1 \in 0 .. n - 1
  BY <1>2
<1>4. m - 1 \in P
  BY <1>2, <1>3
<1> QED
  BY <1>2, <1>3, <1>4

-----------------------------------------------------------------------------
(* deflate.                                                                *)

\* The body of the recursion
Step(arr, g, i) ==
  IF i >= Len0(arr) THEN <<>>
  ELSE IF ZeroRun(arr, i) >= MinBlockSize
       THEN g[SkipZeros(i, ZeroRun(arr, i))]
       ELSE <<Block(i, Slice(arr, i, Min({Len0(arr) - i, MinBlockSize})))>>
            \o g[i + Min({Len0(arr) - i, MinBlockSize})]
IsDeflation(arr, g) == g = [i \in Nat |-> Step(arr, g, i)]
LEMMA DeflateDef ==
  ASSUME NEW arr
  PROVE  deflate(arr) = (CHOOSE g : IsDeflation(arr, g))[0]
BY DEF deflate, IsDeflation, Step

\* An array is indexed from 0 to its length.
LEMMA ArrayLength ==
  ASSUME NEW n, NEW arr, IsArray(arr), n = Len0(arr)
  PROVE  n \in Nat /\ DOMAIN arr = 0 .. n - 1
BY FS_CardinalityType DEF IsArray, Len0

\* A run of zeros lies within the array.
LEMMA ZeroRuns ==
  ASSUME NEW n, NEW arr, IsArray(arr), n = Len0(arr), NEW i \in 0 .. n - 1
  PROVE  /\ ZeroRun(arr, i) \in 0 .. n - i
         /\ \A k \in i .. i + ZeroRun(arr, i) - 1 : arr[k] = 0
<1> DEFINE others == {j \in DOMAIN arr : j >= i /\ arr[j] # 0}
<1>1. n \in Nat /\ DOMAIN arr = 0 .. n - 1 /\ Len0(arr) = n
  BY ArrayLength
<1>2. ZeroRun(arr, i) = (IF others = {} THEN n ELSE Min(others)) - i
  BY <1>1 DEF ZeroRun
<1>3. \A k \in i .. n - 1 : k \notin others => arr[k] = 0
  BY <1>1
<1>4. \A k \in others : k \in i .. n - 1
  BY <1>1
<1> HIDE DEF others
<1>5. CASE others = {}
  BY <1>1, <1>2, <1>3, <1>5
<1>6. CASE others # {}
  <2>1. others \in SUBSET Nat
    BY <1>1, <1>4
  <2>2. Min(others) \in others /\ \A k \in others : Min(others) <= k
    BY <1>6, <2>1, LeastOf
  <2>3. Min(others) \in i .. n - 1 /\ ZeroRun(arr, i) = Min(others) - i
    BY <1>2, <1>4, <1>6, <2>2
  <2>4. ZeroRun(arr, i) \in 0 .. n - i
    BY <1>1, <2>3
  <2>5. ASSUME NEW k \in i .. i + ZeroRun(arr, i) - 1 PROVE arr[k] = 0
    <3>1. k \in i .. n - 1 /\ k < Min(others)
      BY <1>1, <2>3
    <3>2. k \notin others
      BY <1>1, <2>2, <2>3, <3>1
    <3> QED
      BY <1>3, <3>1, <3>2
  <2> QED
    BY <2>4, <2>5
<1> QED
  BY <1>5, <1>6

\* How long the block is that begins at i
BlockLen(arr, i) == Min({Len0(arr) - i, MinBlockSize})
LEMMA BlockLengths ==
  ASSUME NEW n, NEW arr, IsArray(arr), n = Len0(arr), NEW i \in 0 .. n - 1
  PROVE  BlockLen(arr, i) \in 1 .. n - i
<1>1. n \in Nat /\ Len0(arr) = n /\ MinBlockSize \in Nat \ {0}
  BY ArrayLength, SizesArePositive
<1> DEFINE S == {n - i, MinBlockSize}
<1>2. S \in SUBSET Nat /\ S # {} /\ \A x \in S : x >= 1
  BY <1>1
<1>3. Min(S) \in Nat /\ Min(S) >= 1 /\ Min(S) <= n - i
  <2> n - i \in S
    OBVIOUS
  <2> HIDE DEF S
  <2>1. Min(S) \in S /\ Min(S) <= n - i
    BY <1>2, LeastOf
  <2> QED
    BY <1>2, <2>1
<1>4. BlockLen(arr, i) = Min(S)
  BY <1>1 DEF BlockLen
<1> HIDE DEF S
<1> QED
  BY <1>1, <1>2, <1>3, <1>4

\* Where the recursion goes on after i, and that it looks at nothing else
Onward(arr, i) ==
  IF ZeroRun(arr, i) >= MinBlockSize THEN i + ZeroRun(arr, i) ELSE i + BlockLen(arr, i)
LEMMA StepForward ==
  ASSUME NEW n, NEW arr, IsArray(arr), n = Len0(arr), NEW i \in 0 .. n - 1
  PROVE  /\ Onward(arr, i) \in i + 1 .. n
         /\ \A g : Step(arr, g, i) = IF ZeroRun(arr, i) >= MinBlockSize THEN g[Onward(arr, i)]
                                     ELSE <<Block(i, Slice(arr, i, BlockLen(arr, i)))>> \o g[Onward(arr, i)]
<1>1. n \in Nat /\ Len0(arr) = n /\ MinBlockSize \in Nat \ {0} /\ i \in Nat /\ i < n
  BY ArrayLength, SizesArePositive
<1>2. ZeroRun(arr, i) \in 0 .. n - i /\ BlockLen(arr, i) \in 1 .. n - i
  BY ZeroRuns, BlockLengths
<1>3. Onward(arr, i) \in i + 1 .. n
  BY <1>1, <1>2 DEF Onward
<1>4. ASSUME NEW g
      PROVE  Step(arr, g, i) = IF ZeroRun(arr, i) >= MinBlockSize THEN g[Onward(arr, i)]
                               ELSE <<Block(i, Slice(arr, i, BlockLen(arr, i)))>> \o g[Onward(arr, i)]
  <2>1. ~(i >= Len0(arr))
    BY <1>1
  <2> QED
    BY <2>1, Zenon DEF Step, Onward, BlockLen, SkipZeros
<1> QED
  BY <1>3, <1>4

\* The recursion defines a function: it goes forward and stops at the end.
LEMMA DeflationExists ==
  ASSUME NEW n, NEW arr, IsArray(arr), n = Len0(arr)
  PROVE  \E g : IsDeflation(arr, g)
<1> DEFINE Good(g, k) == g = [i \in Nat |-> g[i]] /\ \A i \in Nat : i >= n - k => g[i] = Step(arr, g, i)
           P == {k \in 0 .. n : \E g : Good(g, k)}
<1>1. n \in Nat /\ Len0(arr) = n
  BY ArrayLength
<1>2. 0 \in P
  <2> DEFINE g == [i \in Nat |-> <<>>]
  <2>1. \A i \in Nat : i >= n - 0 => g[i] = Step(arr, g, i)
    BY <1>1 DEF Step
  <2>2. Good(g, 0)
    BY <2>1
  <2> HIDE DEF g
  <2> QED
    BY <1>1, <2>2
<1>3. ASSUME NEW k \in 0 .. n - 1, k \in P PROVE k + 1 \in P
  <2>1. PICK g : Good(g, k)
    BY <1>3
  <2> DEFINE i0 == n - (k + 1)
             h == [g EXCEPT ![i0] = Step(arr, g, i0)]
  <2>2. i0 \in 0 .. n - 1 /\ k + 1 \in 0 .. n
    BY <1>1
  <2>3. h = [i \in Nat |-> IF i = i0 THEN Step(arr, g, i0) ELSE g[i]]
    BY <2>1, <2>2, Zenon
  <2> HIDE DEF h
  <2>4. h = [i \in Nat |-> h[i]]
    BY <2>3
  <2>5. ASSUME NEW i \in Nat, i >= i0 PROVE h[i] = Step(arr, h, i)
    <3>1. h[i] = Step(arr, g, i)
      <4>1. CASE i = i0
        BY <2>3, <4>1
      <4>2. CASE i # i0
        <5>1. i >= n - k
          BY <1>1, <2>5, <4>2
        <5> QED
          BY <2>1, <2>3, <4>2, <5>1
      <4> QED
        BY <4>1, <4>2
    <3>2. CASE i >= n
      BY <1>1, <3>1, <3>2 DEF Step
    <3>3. CASE ~(i >= n)
      <4>1. i \in 0 .. n - 1
        BY <1>1, <3>3
      <4>2. Onward(arr, i) \in i + 1 .. n
        BY <4>1, StepForward
      <4>3. Onward(arr, i) \in Nat /\ Onward(arr, i) # i0
        BY <1>1, <2>2, <2>5, <4>2
      <4>4. h[Onward(arr, i)] = g[Onward(arr, i)]
        BY <2>3, <4>3
      <4> QED
        BY <3>1, <4>1, <4>4, StepForward
    <3> QED
      BY <3>2, <3>3
  <2>6. Good(h, k + 1)
    BY <2>4, <2>5
  <2> QED
    BY <2>2, <2>6
<1>4. n \in P
  <2> HIDE DEF P
  <2>1. \A k \in 0 .. n : k \in P
    BY <1>1, <1>2, <1>3, CountingUp
  <2> QED
    BY <1>1, <2>1
<1>5. PICK g : Good(g, n)
  BY <1>4
<1>6. \A i \in Nat : g[i] = Step(arr, g, i)
  BY <1>1, <1>5
<1>7. IsDeflation(arr, g)
  BY <1>5, <1>6 DEF IsDeflation
<1> QED
  BY <1>7

-----------------------------------------------------------------------------

\* The pieces of an array: what a block may be.
Pieces(arr) ==
  {Block(a, Slice(arr, a, len)) : a \in 0 .. Len0(arr), len \in 0 .. Len0(arr)}
    \cap {b \in [at : Nat, vals : Seq({arr[i] : i \in DOMAIN arr})] : b.at + Len(b.vals) <= Len0(arr)}

\* Where a block ends, and which cells the blocks of a dense part hold
Stop(b) == b.at + Len(b.vals)
Held(D, j) == \E k \in DOMAIN D : D[k].at <= j /\ j < Stop(D[k])
InOrder(D) == \A k, l \in DOMAIN D : k < l => Stop(D[k]) <= D[l].at

\* A slice is a sequence of values of the array.
LEMMA Slices ==
  ASSUME NEW arr, IsArray(arr), NEW n, n = Len0(arr), NEW a \in Nat, NEW len \in Nat, a + len <= n
  PROVE  /\ Block(a, Slice(arr, a, len)) \in Pieces(arr)
         /\ Slice(arr, a, len) \in Seq({arr[i] : i \in DOMAIN arr})
         /\ Len(Slice(arr, a, len)) = len
         /\ \A k \in 1 .. len : Slice(arr, a, len)[k] = arr[a + k - 1]
<1> DEFINE V == {arr[i] : i \in DOMAIN arr}
           s == Slice(arr, a, len)
<1>1. n \in Nat /\ DOMAIN arr = 0 .. n - 1
  BY ArrayLength
<1>2. \A k \in 1 .. len : a + k - 1 \in 0 .. n - 1
  BY <1>1
<1>3. \A k \in 1 .. len : arr[a + k - 1] \in V
  BY <1>1, <1>2
<1> HIDE DEF V
<1>4. s = [k \in 1 .. len |-> arr[a + k - 1]]
  BY DEF Slice
<1>5. s \in Seq(V) /\ Len(s) = len
  BY <1>3, <1>4
<1>6. \A k \in 1 .. len : s[k] = arr[a + k - 1]
  BY <1>4
<1> HIDE DEF s
<1>7. Block(a, s) \in [at : Nat, vals : Seq(V)] /\ Block(a, s).at = a /\ Block(a, s).vals = s
  BY <1>5 DEF Block
<1>8. a \in 0 .. n /\ len \in 0 .. n
  BY <1>1
<1>9. Block(a, s) \in Pieces(arr)
  BY <1>5, <1>7, <1>8 DEF Pieces, V, s
<1> QED
  BY <1>5, <1>6, <1>9 DEF s, V

\* What one knows of a piece.
LEMMA PieceFacts ==
  ASSUME NEW arr, IsArray(arr), NEW n, n = Len0(arr), NEW b \in Pieces(arr)
  PROVE  /\ b.at \in Nat /\ Len(b.vals) \in Nat /\ Stop(b) \in Nat
         /\ b.at <= Stop(b) /\ Stop(b) <= n
         /\ b.vals = Slice(arr, b.at, Len(b.vals)) /\ b = Block(b.at, b.vals)
         /\ b.vals \in Seq({arr[i] : i \in DOMAIN arr})
         /\ \A i \in b.at .. Stop(b) - 1 : b.vals[i - b.at + 1] = arr[i]
<1>1. n \in Nat
  BY ArrayLength
<1>2. PICK a \in 0 .. n, len \in 0 .. n : b = Block(a, Slice(arr, a, len))
  BY DEF Pieces
<1>3. b.at = a /\ b.vals = Slice(arr, a, len)
  BY <1>2 DEF Block
<1>4. /\ b.at + Len(b.vals) <= n /\ b.vals \in Seq({arr[i] : i \in DOMAIN arr})
      /\ Len(b.vals) \in Nat
  BY DEF Pieces
<1>5. Len(b.vals) = len
  BY <1>3, <1>1 DEF Slice
<1>6. \A k \in 1 .. len : b.vals[k] = arr[a + k - 1]
  BY <1>3 DEF Slice
<1>7. ASSUME NEW i \in b.at .. Stop(b) - 1 PROVE b.vals[i - b.at + 1] = arr[i]
  <2>1. i - a + 1 \in 1 .. len /\ a + (i - a + 1) - 1 = i
    BY <1>1, <1>3, <1>5, <1>7 DEF Stop
  <2> QED
    BY <1>3, <1>6, <2>1
<1> QED
  BY <1>1, <1>2, <1>3, <1>4, <1>5, <1>7 DEF Stop

\* What deflate promises of the cells from i on.
Deflated(arr, i, D) ==
  /\ D \in Seq(Pieces(arr)) /\ InOrder(D)
  /\ \A k \in DOMAIN D : i <= D[k].at /\ D[k].at < Stop(D[k])
  /\ \A j \in i .. Len0(arr) - 1 : arr[j] # 0 => Held(D, j)

\* A block before others.
LEMMA InFront ==
  ASSUME NEW S, NEW b \in S, NEW D \in Seq(S), NEW E, E = <<b>> \o D
  PROVE  /\ E \in Seq(S) /\ Len(E) = Len(D) + 1 /\ E[1] = b
         /\ \A k \in 1 .. Len(D) : E[k + 1] = D[k]
         /\ \A k \in DOMAIN E : k = 1 \/ (k - 1 \in DOMAIN D /\ E[k] = D[k - 1])
<1>1. E \in Seq(S) /\ Len(E) = Len(D) + 1 /\ E[1] = b
  OBVIOUS
<1>2. \A k \in 1 .. Len(D) : E[k + 1] = D[k]
  OBVIOUS
<1>3. DOMAIN E = 1 .. Len(D) + 1 /\ DOMAIN D = 1 .. Len(D) /\ Len(D) \in Nat
  BY <1>1
<1>4. ASSUME NEW k \in DOMAIN E, k # 1 PROVE k - 1 \in DOMAIN D /\ E[k] = D[k - 1]
  <2>1. k - 1 \in 1 .. Len(D) /\ (k - 1) + 1 = k
    BY <1>3, <1>4
  <2>2. E[(k - 1) + 1] = D[k - 1]
    BY <1>2, <2>1
  <2> QED
    BY <1>3, <2>1, <2>2
<1> QED
  BY <1>1, <1>2, <1>4

\* The recursion holds the rest of the array, by induction from its end.
LEMMA DeflatedFrom ==
  ASSUME NEW n, NEW arr, IsArray(arr), n = Len0(arr), NEW g, IsDeflation(arr, g)
  PROVE  \A i \in 0 .. n : Deflated(arr, i, g[i])
<1> DEFINE P == {k \in 0 .. n : \A i \in n - k .. n : Deflated(arr, i, g[i])}
<1>1. n \in Nat /\ Len0(arr) = n /\ \A i \in Nat : g[i] = Step(arr, g, i)
  BY ArrayLength, Zenon DEF IsDeflation
<1>2. 0 \in P
  <2>1. g[n] = <<>>
    <3>1. g[n] = Step(arr, g, n) /\ n >= Len0(arr)
      BY <1>1
    <3> QED
      BY <3>1, Zenon DEF Step
  <2>2. DOMAIN <<>> = {} /\ <<>> \in Seq(Pieces(arr))
    OBVIOUS
  <2>3. \A j \in n .. n - 1 : FALSE
    BY <1>1
  <2>4. Deflated(arr, n, <<>>)
    <3>1. InOrder(<<>>)
      BY <2>2 DEF InOrder
    <3>2. \A j \in n .. Len0(arr) - 1 : arr[j] # 0 => Held(<<>>, j)
      BY <1>1, <2>3
    <3> QED
      BY <2>2, <3>1, <3>2 DEF Deflated
  <2>5. \A i \in n - 0 .. n : i = n
    BY <1>1
  <2> QED
    BY <1>1, <2>1, <2>4, <2>5
<1>3. ASSUME NEW k \in 0 .. n - 1, k \in P PROVE k + 1 \in P
  <2> DEFINE i == n - (k + 1)
             next == Onward(arr, i)
             D == g[next]
  <2>1. i \in 0 .. n - 1
    BY <1>1
  <2>2. next \in i + 1 .. n
    BY <2>1, StepForward
  <2>3. next \in n - k .. n
    BY <1>1, <2>2
  <2>4. Deflated(arr, next, D)
    BY <1>3, <2>3
  <2>5. g[i] = IF ZeroRun(arr, i) >= MinBlockSize THEN D
               ELSE <<Block(i, Slice(arr, i, BlockLen(arr, i)))>> \o D
    <3>1. g[i] = Step(arr, g, i)
      BY <1>1, <2>1
    <3> HIDE DEF i
    <3> QED
      BY <2>1, <3>1, StepForward, Zenon
  <2>6. /\ D \in Seq(Pieces(arr)) /\ InOrder(D)
        /\ \A m \in DOMAIN D : next <= D[m].at /\ D[m].at < Stop(D[m])
        /\ \A j \in next .. n - 1 : arr[j] # 0 => Held(D, j)
    <3> HIDE DEF D, next, i, P
    <3> QED
      BY <1>1, <2>4, Zenon DEF Deflated
  <2>7. \A m \in DOMAIN D : D[m] \in Pieces(arr)
    BY <2>6
  <2>8. \A m \in DOMAIN D : D[m].at \in Nat /\ Stop(D[m]) \in Nat
    BY <2>7, PieceFacts
  <2>9. ASSUME ZeroRun(arr, i) >= MinBlockSize PROVE Deflated(arr, i, g[i])
    <3> DEFINE z == ZeroRun(arr, i)
    <3>1. g[i] = D
      BY <2>5, <2>9
    <3>2. next = i + z
      BY <2>9 DEF Onward
    <3> HIDE DEF i
    <3>3. \A j \in i .. next - 1 : arr[j] = 0
      <4>1. \A j \in i .. i + z - 1 : arr[j] = 0
        BY <2>1, ZeroRuns
      <4>2. z \in 0 .. n - i
        BY <2>1, ZeroRuns
      <4> HIDE DEF z, next
      <4>3. i \in Int /\ z \in Int /\ next \in Int
        BY <1>1, <2>1, <2>2, <4>2
      <4> QED
        BY <3>2, <4>1, <4>3
    <3> HIDE DEF D, next, P
    <3>4. \A j \in i .. n - 1 : j \in i .. next - 1 \/ j \in next .. n - 1
      BY <1>1, <2>1, <2>2
    <3>5. \A m \in DOMAIN D : i <= D[m].at
      BY <2>1, <2>2, <2>6, <2>8
    <3>6. \A j \in i .. n - 1 : arr[j] # 0 => Held(D, j)
      BY <2>6, <3>3, <3>4
    <3>7. Deflated(arr, i, D)
      BY <1>1, <2>6, <3>5, <3>6 DEF Deflated
    <3> QED
      BY <3>1, <3>7
  <2>10. ASSUME ~(ZeroRun(arr, i) >= MinBlockSize) PROVE Deflated(arr, i, g[i])
    <3> DEFINE L == BlockLen(arr, i)
               b == Block(i, Slice(arr, i, L))
               E == <<b>> \o D
    <3>1. g[i] = E /\ next = i + L
      BY <2>5, <2>10 DEF Onward
    <3>2. L \in 1 .. n - i
      BY <2>1, BlockLengths
    <3>3. b \in Pieces(arr) /\ b.at = i /\ Stop(b) = next
      <4> HIDE DEF L, i, next
      <4>1. L \in Nat /\ i \in Nat /\ i + L <= n
        BY <1>1, <2>1, <3>2
      <4>2. b \in Pieces(arr) /\ Len(Slice(arr, i, L)) = L
        BY <4>1, Slices
      <4> QED
        BY <3>1, <4>2 DEF Block, Stop
    <3> HIDE DEF b, L, D, next, i
    <3>4. /\ E \in Seq(Pieces(arr)) /\ Len(E) = Len(D) + 1 /\ E[1] = b
          /\ \A m \in 1 .. Len(D) : E[m + 1] = D[m]
          /\ \A m \in DOMAIN E : m = 1 \/ (m - 1 \in DOMAIN D /\ E[m] = D[m - 1])
      BY <2>6, <3>3, InFront
    <3> HIDE DEF E
    <3>5. i < next /\ i \in Nat /\ next \in Nat
      BY <1>1, <2>1, <2>2
    <3>6. InOrder(E)
      <4> SUFFICES ASSUME NEW p \in DOMAIN E, NEW q \in DOMAIN E, p < q PROVE Stop(E[p]) <= E[q].at
        BY DEF InOrder
      <4>1. p \in Nat /\ q \in Nat /\ p >= 1 /\ q >= 1
        BY <3>4
      <4>2. q - 1 \in DOMAIN D /\ E[q] = D[q - 1]
        BY <3>4, <4>1
      <4>3. CASE p = 1
        BY <2>6, <3>3, <3>4, <4>2, <4>3
      <4>4. CASE p # 1
        <5>1. p - 1 \in DOMAIN D /\ E[p] = D[p - 1] /\ p - 1 < q - 1
          BY <3>4, <4>1, <4>4
        <5> QED
          BY <2>6, <4>2, <5>1 DEF InOrder
      <4> QED
        BY <4>3, <4>4
    <3>7. ASSUME NEW m \in DOMAIN E PROVE i <= E[m].at /\ E[m].at < Stop(E[m])
      <4>1. CASE m = 1
        BY <3>3, <3>4, <3>5, <4>1
      <4>2. CASE m # 1
        <5>1. m - 1 \in DOMAIN D /\ E[m] = D[m - 1]
          BY <3>4, <4>2
        <5> QED
          BY <2>6, <2>8, <3>5, <5>1
      <4> QED
        BY <4>1, <4>2
    <3>8. ASSUME NEW j \in i .. n - 1, arr[j] # 0 PROVE Held(E, j)
      <4>1. CASE j < next
        <5>1. 1 \in DOMAIN E /\ E[1].at <= j /\ j < Stop(E[1])
          BY <2>6, <3>3, <3>4, <3>5, <4>1
        <5> QED
          BY <5>1 DEF Held
      <4>2. CASE ~(j < next)
        <5>1. j \in next .. n - 1
          BY <1>1, <3>5, <4>2
        <5>2. PICK m \in DOMAIN D : D[m].at <= j /\ j < Stop(D[m])
          BY <2>6, <3>8, <5>1 DEF Held
        <5>3. m \in 1 .. Len(D) /\ m + 1 \in DOMAIN E
          BY <2>6, <3>4
        <5>4. E[m + 1] = D[m]
          BY <3>4, <5>3
        <5> QED
          BY <5>2, <5>3, <5>4 DEF Held
      <4> QED
        BY <4>1, <4>2
    <3>9. Deflated(arr, i, E)
      BY <1>1, <3>4, <3>6, <3>7, <3>8 DEF Deflated
    <3> QED
      BY <3>1, <3>9 DEF E
  <2>11. Deflated(arr, i, g[i])
    BY <2>9, <2>10
  <2>12. \A m \in n - (k + 1) .. n : m = i \/ m \in n - k .. n
    BY <1>1
  <2> QED
    BY <1>1, <1>3, <2>11, <2>12
<1>4. \A k \in 0 .. n : k \in P
  <2> HIDE DEF P
  <2> QED
    BY <1>1, <1>2, <1>3, CountingUp
<1>5. n \in P /\ \A i \in 0 .. n : i \in n - n .. n
  BY <1>1, <1>4
<1> QED
  BY <1>5

\* The blocks of an array are pieces of it in order that do not overlap, and
\* hold everything but zeros.
LEMMA DeflateHolds ==
  ASSUME NEW arr, IsArray(arr)
  PROVE  Deflated(arr, 0, deflate(arr))
<1> DEFINE g == CHOOSE g : IsDeflation(arr, g)
<1>1. IsDeflation(arr, g)
  BY DeflationExists
<1>2. deflate(arr) = g[0]
  BY DeflateDef
<1> HIDE DEF g
<1>3. Len0(arr) \in Nat
  BY ArrayLength
<1>4. \A i \in 0 .. Len0(arr) : Deflated(arr, i, g[i])
  BY <1>1, DeflatedFrom
<1> QED
  BY <1>2, <1>3, <1>4

-----------------------------------------------------------------------------
(* A turn of deflateMT's loop.                                             *)

\* Both parts of a piece that is cut are pieces.
LEMMA CutPiece ==
  ASSUME NEW arr, IsArray(arr), NEW b \in Pieces(arr), NEW cut \in 0 .. Len(b.vals),
         NEW pre, pre = Block(b.at, SubSeq(b.vals, 1, cut)),
         NEW post, post = Block(b.at + cut, SubSeq(b.vals, cut + 1, Len(b.vals)))
  PROVE  /\ pre \in Pieces(arr) /\ pre.at = b.at /\ Stop(pre) = b.at + cut
         /\ post \in Pieces(arr) /\ post.at = b.at + cut /\ Stop(post) = Stop(b)
<1> DEFINE n == Len0(arr)
           V == {arr[i] : i \in DOMAIN arr}
           a == b.at
           size == Len(b.vals)
<1>1. n \in Nat
  BY ArrayLength
<1>2. /\ a \in Nat /\ size \in Nat /\ a + size <= n /\ b.vals = Slice(arr, a, size)
      /\ b.vals \in Seq(V) /\ Stop(b) = a + size
  BY PieceFacts DEF Stop
<1>3. cut \in Nat /\ cut <= size
  BY <1>2
<1> HIDE DEF V, n
<1> DEFINE s == b.vals
<1>4. s \in Seq(V) /\ Len(s) = size /\ \A k \in 1 .. size : s[k] = arr[a + k - 1]
  BY <1>2 DEF Slice
<1>5. pre = Block(a, SubSeq(s, 1, cut)) /\ post = Block(a + cut, SubSeq(s, cut + 1, size))
  OBVIOUS
<1> HIDE DEF a, size, s
<1>6. SubSeq(s, 1, cut) = Slice(arr, a, cut)
  <2>1. SubSeq(s, 1, cut) = [k \in 1 .. cut |-> s[k]]
    BY <1>2, <1>3, <1>4
  <2>2. \A k \in 1 .. cut : s[k] = arr[a + k - 1]
    BY <1>2, <1>3, <1>4
  <2> QED
    BY <2>1, <2>2 DEF Slice
<1>7. SubSeq(s, cut + 1, size) = Slice(arr, a + cut, size - cut)
  <2>1. SubSeq(s, cut + 1, size) = [k \in 1 .. size - cut |-> s[k + cut]]
    BY <1>2, <1>3, <1>4
  <2>2. \A k \in 1 .. size - cut : s[k + cut] = arr[(a + cut) + k - 1]
    BY <1>2, <1>3, <1>4
  <2> QED
    BY <2>1, <2>2 DEF Slice
<1>8. /\ Block(a, Slice(arr, a, cut)) \in Pieces(arr)
      /\ Len(Slice(arr, a, cut)) = cut
  <2>1. a + cut <= Len0(arr)
    BY <1>1, <1>2, <1>3 DEF n
  <2> QED
    <3>1. a \in Nat /\ cut \in Nat
      BY <1>2, <1>3
    <3> QED
      BY <2>1, <3>1, Slices, Zenon
<1>9. /\ Block(a + cut, Slice(arr, a + cut, size - cut)) \in Pieces(arr)
      /\ Len(Slice(arr, a + cut, size - cut)) = size - cut
  <2>1. a + cut \in Nat /\ size - cut \in Nat /\ (a + cut) + (size - cut) <= Len0(arr)
    BY <1>1, <1>2, <1>3 DEF n
  <2> QED
    BY <2>1, Slices
<1>10. pre \in Pieces(arr) /\ pre.at = a /\ Stop(pre) = a + cut
  <2>1. pre = Block(a, Slice(arr, a, cut))
    BY <1>5, <1>6, Zenon
  <2>2. pre.at = a /\ Stop(pre) = a + cut
    BY <1>8, <2>1 DEF Block, Stop
  <2> QED
    BY <1>8, <2>1, <2>2, Zenon
<1>11. post \in Pieces(arr) /\ post.at = a + cut /\ Stop(post) = a + size
  <2>1. post = Block(a + cut, Slice(arr, a + cut, size - cut))
    BY <1>5, <1>7, Zenon
  <2>2. post.at = a + cut /\ Stop(post) = (a + cut) + (size - cut)
    BY <1>9, <2>1 DEF Block, Stop
  <2>3. (a + cut) + (size - cut) = a + size
    BY <1>2, <1>3
  <2> QED
    BY <1>9, <2>1, <2>2, <2>3, Zenon
<1> QED
  BY <1>2, <1>10, <1>11 DEF a

\* A dense part in which a cell between two blocks that is not held is zero.
Faithful(arr, D) ==
  /\ D \in Seq(Pieces(arr))
  /\ \A j \in DOMAIN arr : \A k, l \in DOMAIN D :
       arr[j] # 0 /\ D[k].at <= j /\ j < Stop(D[l]) => Held(D, j)

\* What deflateMT has done lies before what it has left to do, and after the
\* first block of the last chunk nothing is missing.
Behind(q, D) == \A k \in DOMAIN D, l \in DOMAIN q : Stop(D[k]) <= q[l].at
Filled(arr, q, D) ==
  \A j \in DOMAIN arr : \A k \in DOMAIN D : arr[j] # 0 /\ D[k].at <= j => Held(D, j) \/ Held(q, j)

Splitting(arr, s) ==
  /\ s.q \in Seq(Pieces(arr)) /\ InOrder(s.q)
  /\ \A k \in DOMAIN s.q : k > 1 => s.q[k].at < Stop(s.q[k])
  /\ s.counter \in 0 .. MinFileSize - 1
  /\ s.chunks \in Seq(Seq(Pieces(arr))) /\ Len(s.chunks) >= 1
  /\ \A c \in DOMAIN s.chunks : Faithful(arr, s.chunks[c]) /\ Behind(s.q, s.chunks[c])
  /\ Filled(arr, s.q, s.chunks[Len(s.chunks)])
  /\ \A j \in DOMAIN arr : arr[j] # 0 => Held(s.q, j) \/ \E c \in DOMAIN s.chunks : Held(s.chunks[c], j)

\* A block with the beginning of the first item is put behind the last chunk.
LEMMA Appended ==
  ASSUME NEW arr, IsArray(arr), NEW q \in Seq(Pieces(arr)), InOrder(q), q # <<>>,
         NEW D, Faithful(arr, D), Behind(q, D), Filled(arr, q, D),
         NEW v \in Pieces(arr), v.at = q[1].at, Stop(v) <= Stop(q[1]),
         NEW E, E = Append(D, v)
  PROVE  /\ E \in Seq(Pieces(arr)) /\ Faithful(arr, E)
         /\ \A k \in DOMAIN E : E[k] = v \/ \E l \in DOMAIN D : E[k] = D[l]
         /\ \A j : Held(E, j) <=> Held(D, j) \/ (v.at <= j /\ j < Stop(v))
<1>1. /\ D \in Seq(Pieces(arr)) /\ E \in Seq(Pieces(arr)) /\ DOMAIN D = 1 .. Len(D)
      /\ DOMAIN E = 1 .. Len(D) + 1 /\ Len(D) \in Nat /\ E[Len(D) + 1] = v
      /\ \A k \in DOMAIN D : E[k] = D[k]
  BY DEF Faithful
<1>2. \A k \in DOMAIN D : k \in DOMAIN E /\ E[k] = D[k]
  BY <1>1
<1>3. \A k \in DOMAIN E : (k \in DOMAIN D /\ E[k] = D[k]) \/ E[k] = v
  BY <1>1
<1>4. Len(D) + 1 \in DOMAIN E /\ E[Len(D) + 1] = v
  BY <1>1
<1>5. ASSUME NEW j PROVE Held(E, j) <=> Held(D, j) \/ (v.at <= j /\ j < Stop(v))
  BY <1>2, <1>3, <1>4 DEF Held
<1>6. /\ DOMAIN q = 1 .. Len(q) /\ Len(q) \in Nat /\ Len(q) >= 1 /\ 1 \in DOMAIN q
      /\ \A m \in DOMAIN q : q[m].at \in Nat /\ Stop(q[m]) \in Nat
      /\ \A k \in DOMAIN D : D[k].at \in Nat /\ Stop(D[k]) \in Nat
      /\ v.at \in Nat /\ Stop(v) \in Nat
  <2>1. DOMAIN q = 1 .. Len(q) /\ Len(q) \in Nat /\ Len(q) >= 1 /\ 1 \in DOMAIN q
    OBVIOUS
  <2>2. \A m \in DOMAIN q : q[m] \in Pieces(arr)
    OBVIOUS
  <2>3. \A k \in DOMAIN D : D[k] \in Pieces(arr)
    BY <1>1
  <2> QED
    BY <2>1, <2>2, <2>3, PieceFacts
<1>7. ASSUME NEW j \in DOMAIN arr, NEW k \in DOMAIN E, NEW l \in DOMAIN E,
             arr[j] # 0, E[k].at <= j, j < Stop(E[l])
      PROVE  Held(D, j) \/ (v.at <= j /\ j < Stop(v))
  <2>1. j \in Nat
    BY ArrayLength
  <2>2. CASE k \in DOMAIN D /\ E[k] = D[k]
    <3>1. SUFFICES ASSUME ~Held(D, j) PROVE v.at <= j /\ j < Stop(v)
      OBVIOUS
    <3>2. PICK m \in DOMAIN q : q[m].at <= j /\ j < Stop(q[m])
      BY <1>7, <2>2, <3>1 DEF Filled, Held
    <3>3. l \in DOMAIN D /\ E[l] = D[l] => FALSE
      <4> SUFFICES ASSUME l \in DOMAIN D, E[l] = D[l] PROVE FALSE
        OBVIOUS
      <4>1. Held(D, j)
        BY <1>7, <2>2 DEF Faithful
      <4> QED
        BY <3>1, <4>1
    <3>4. j < Stop(v)
      BY <1>3, <1>7, <3>3
    <3>5. m = 1
      <4> SUFFICES ASSUME m # 1 PROVE FALSE
        OBVIOUS
      <4>1. 1 < m
        BY <1>6
      <4>2. Stop(q[1]) <= q[m].at
        BY <1>6, <4>1 DEF InOrder
      <4> QED
        <5>1. /\ Stop(v) \in Nat /\ Stop(q[1]) \in Nat /\ q[m].at \in Nat
              /\ Stop(v) <= Stop(q[1])
          BY <1>6
        <5>2. Stop(v) <= j
          BY <2>1, <3>2, <4>2, <5>1
        <5> QED
          BY <2>1, <3>4, <5>1, <5>2
    <3> QED
      BY <3>2, <3>4, <3>5
  <2>3. CASE E[k] = v
    <3>1. v.at <= j
      BY <1>7, <2>3
    <3>2. CASE E[l] = v
      BY <1>7, <3>1, <3>2
    <3>3. CASE l \in DOMAIN D /\ E[l] = D[l]
      <4>1. Stop(D[l]) <= q[1].at
        BY <1>6, <3>3 DEF Behind
      <4> QED
        BY <1>6, <1>7, <2>1, <3>1, <3>3, <4>1
    <3> QED
      BY <1>3, <3>2, <3>3
  <2> QED
    BY <1>3, <2>2, <2>3
<1>8. Faithful(arr, E)
  BY <1>1, <1>5, <1>7 DEF Faithful
<1> QED
  BY <1>1, <1>3, <1>5, <1>8

\* The last chunk and the chunks after such a step; r is queued then, behind v.
Grown(arr, s, v, r, E, C) ==
  /\ IsArray(arr) /\ Splitting(arr, s) /\ s.q # <<>>
  /\ v \in Pieces(arr) /\ v.at = s.q[1].at /\ Stop(v) <= Stop(s.q[1])
  /\ r \in Seq(Pieces(arr)) /\ \A l \in DOMAIN r : Stop(v) <= r[l].at
  /\ \A j \in DOMAIN arr : Held(s.q, j) => (v.at <= j /\ j < Stop(v)) \/ Held(r, j)
  /\ E = Append(s.chunks[Len(s.chunks)], v)
  /\ C = [s.chunks EXCEPT ![Len(s.chunks)] = E]
LEMMA ChunkGrows ==
  ASSUME NEW arr, NEW s, NEW v, NEW r, NEW E, NEW C, Grown(arr, s, v, r, E, C)
  PROVE  /\ C \in Seq(Seq(Pieces(arr))) /\ Len(C) = Len(s.chunks) /\ C[Len(C)] = E
         /\ \A c \in DOMAIN C : Faithful(arr, C[c]) /\ Behind(r, C[c])
         /\ Filled(arr, r, E)
         /\ \A j \in DOMAIN arr : arr[j] # 0 => Held(r, j) \/ \E c \in DOMAIN C : Held(C[c], j)
<1> DEFINE q == s.q
           L == Len(s.chunks)
           D == s.chunks[L]
<1>a. /\ IsArray(arr) /\ Splitting(arr, s) /\ s.q # <<>>
      /\ v \in Pieces(arr) /\ v.at = s.q[1].at /\ Stop(v) <= Stop(s.q[1])
      /\ r \in Seq(Pieces(arr)) /\ \A l \in DOMAIN r : Stop(v) <= r[l].at
      /\ \A j \in DOMAIN arr : Held(s.q, j) => (v.at <= j /\ j < Stop(v)) \/ Held(r, j)
      /\ E = Append(s.chunks[Len(s.chunks)], v)
      /\ C = [s.chunks EXCEPT ![Len(s.chunks)] = E]
  BY Zenon DEF Grown
<1> USE <1>a
<1>1. /\ q \in Seq(Pieces(arr)) /\ InOrder(q)
      /\ s.chunks \in Seq(Seq(Pieces(arr))) /\ L \in Nat /\ L >= 1
      /\ DOMAIN s.chunks = 1 .. L
      /\ \A c \in DOMAIN s.chunks : Faithful(arr, s.chunks[c]) /\ Behind(q, s.chunks[c])
      /\ Filled(arr, q, D)
      /\ \A j \in DOMAIN arr : arr[j] # 0 => Held(q, j) \/ \E c \in DOMAIN s.chunks : Held(s.chunks[c], j)
  <2>1. /\ q \in Seq(Pieces(arr)) /\ InOrder(q)
        /\ s.chunks \in Seq(Seq(Pieces(arr))) /\ L >= 1
        /\ \A c \in DOMAIN s.chunks : Faithful(arr, s.chunks[c]) /\ Behind(q, s.chunks[c])
        /\ Filled(arr, q, D)
        /\ \A j \in DOMAIN arr : arr[j] # 0 => Held(q, j) \/ \E c \in DOMAIN s.chunks : Held(s.chunks[c], j)
    BY Zenon DEF Splitting
  <2>2. L \in Nat /\ DOMAIN s.chunks = 1 .. L
    BY <2>1
  <2> QED
    BY <2>1, <2>2
<1>2. L \in DOMAIN s.chunks /\ Faithful(arr, D) /\ Behind(q, D)
  <2>1. L \in DOMAIN s.chunks
    <3> HIDE DEF L
    <3> QED
      BY <1>1
  <2> QED
    BY <1>1, <2>1, Zenon
<1>3. 1 \in DOMAIN q /\ q[1] \in Pieces(arr)
  <2> HIDE DEF q
  <2>1. q # <<>>
    BY DEF q
  <2> QED
    BY <1>1, <2>1
<1>4. /\ v.at \in Nat /\ Stop(v) \in Nat /\ v.at <= Stop(v)
      /\ \A l \in DOMAIN r : r[l].at \in Nat
  <2>1. \A l \in DOMAIN r : r[l] \in Pieces(arr)
    OBVIOUS
  <2>2. v.at \in Nat /\ Stop(v) \in Nat /\ v.at <= Stop(v)
    BY PieceFacts
  <2>3. \A b \in Pieces(arr) : b.at \in Nat
    BY PieceFacts
  <2> QED
    BY <2>1, <2>2, <2>3
<1>5. /\ E \in Seq(Pieces(arr)) /\ Faithful(arr, E)
      /\ \A k \in DOMAIN E : E[k] = v \/ \E l \in DOMAIN D : E[k] = D[l]
      /\ \A j : Held(E, j) <=> Held(D, j) \/ (v.at <= j /\ j < Stop(v))
  <2>1. q # <<>> /\ v.at = q[1].at /\ Stop(v) <= Stop(q[1]) /\ E = Append(D, v)
    OBVIOUS
  <2> HIDE DEF q, D
  <2> QED
    BY <1>1, <1>2, <2>1, Appended
<1>6. /\ C \in Seq(Seq(Pieces(arr))) /\ Len(C) = L /\ C[L] = E /\ DOMAIN C = 1 .. L
      /\ \A c \in 1 .. L : c # L => C[c] = s.chunks[c]
  <2> DEFINE X == s.chunks
             S == Seq(Pieces(arr))
  <2>1. X \in Seq(S) /\ E \in S /\ C = [X EXCEPT ![L] = E] /\ Len(X) = L /\ L \in 1 .. L
    BY <1>1, <1>5
  <2> HIDE DEF X, S, L
  <2>2. C \in Seq(S) /\ Len(C) = L /\ C[L] = E /\ DOMAIN C = 1 .. L /\ \A c \in 1 .. L : c # L => C[c] = X[c]
    <3>1. X \in [1 .. L -> S] /\ L \in Nat
      BY <2>1
    <3>2. C \in [1 .. L -> S] /\ C[L] = E /\ \A c \in 1 .. L : c # L => C[c] = X[c]
      BY <2>1, <3>1
    <3>3. C \in Seq(S) /\ Len(C) = L
      <4>1. L \in 1 .. Len(X)
        BY <2>1
      <4>2. [X EXCEPT ![L] = E] \in Seq(S) /\ Len([X EXCEPT ![L] = E]) = Len(X)
        BY <2>1, <4>1, ExceptSeq
      <4> QED
        BY <2>1, <4>2, Zenon
    <3>4. DOMAIN C = 1 .. L
      BY <3>2
    <3> QED
      BY <3>2, <3>3, <3>4, Zenon
  <2> QED
    BY <2>2 DEF X, S
<1> HIDE DEF q, D, L
<1>7. ASSUME NEW c \in DOMAIN C PROVE Faithful(arr, C[c]) /\ Behind(r, C[c])
  <2>1. ASSUME NEW k \in DOMAIN s.chunks[c] PROVE Stop(s.chunks[c][k]) <= v.at /\ Stop(s.chunks[c][k]) \in Nat
    <3>1. c \in DOMAIN s.chunks
      BY <1>1, <1>6
    <3>2. Stop(s.chunks[c][k]) <= q[1].at
      BY <1>1, <1>3, <3>1 DEF Behind
    <3>3. s.chunks[c][k] \in Pieces(arr)
      BY <1>1, <3>1
    <3> QED
      BY <3>2, <3>3, PieceFacts DEF q
  <2>2. ASSUME NEW k \in DOMAIN s.chunks[c], NEW l \in DOMAIN r PROVE Stop(s.chunks[c][k]) <= r[l].at
    BY <1>4, <2>1
  <2>3. CASE c # L
    <3>1. C[c] = s.chunks[c] /\ c \in DOMAIN s.chunks
      BY <1>1, <1>6, <2>3
    <3> QED
      BY <1>1, <2>2, <3>1 DEF Behind
  <2>4. CASE c = L
    <3>1. C[c] = E
      BY <1>6, <2>4
    <3>2. \A k \in DOMAIN E, l \in DOMAIN r : Stop(E[k]) <= r[l].at
      BY <1>5, <2>2, <2>4 DEF D
    <3> QED
      BY <1>5, <3>1, <3>2 DEF Behind
  <2> QED
    BY <2>3, <2>4
<1>8. ASSUME NEW j \in DOMAIN arr, arr[j] # 0
      PROVE  Held(r, j) \/ \E c \in DOMAIN C : Held(C[c], j)
  <2>1. CASE Held(q, j)
    <3>1. Held(r, j) \/ Held(E, j)
      BY <1>5, <2>1 DEF q
    <3>2. L \in DOMAIN C /\ C[L] = E
      BY <1>1, <1>6
    <3> QED
      BY <3>1, <3>2
  <2>2. CASE \E c \in DOMAIN s.chunks : Held(s.chunks[c], j)
    <3>1. PICK c \in DOMAIN s.chunks : Held(s.chunks[c], j)
      BY <2>2
    <3>2. CASE c # L
      BY <1>1, <1>6, <3>1, <3>2
    <3>3. CASE c = L
      <4>1. Held(E, j)
        BY <1>5, <3>1, <3>3 DEF D
      <4> QED
        BY <1>1, <1>6, <4>1
    <3> QED
      BY <3>2, <3>3
  <2> QED
    BY <1>1, <1>8, <2>1, <2>2
<1>9. ASSUME NEW j \in DOMAIN arr, NEW k \in DOMAIN E, arr[j] # 0, E[k].at <= j
      PROVE  Held(E, j) \/ Held(r, j)
  <2>1. CASE Held(q, j)
    BY <1>5, <2>1 DEF q
  <2>2. CASE ~Held(q, j) /\ E[k] = v
    <3>1. PICK c \in DOMAIN s.chunks : Held(s.chunks[c], j)
      BY <1>1, <1>9, <2>2
    <3>2. PICK m \in DOMAIN s.chunks[c] : s.chunks[c][m].at <= j /\ j < Stop(s.chunks[c][m])
      BY <3>1 DEF Held
    <3>3. Stop(s.chunks[c][m]) <= q[1].at
      BY <1>1, <1>3 DEF Behind
    <3>4. s.chunks[c][m] \in Pieces(arr)
      <4>1. s.chunks[c] \in Seq(Pieces(arr))
        BY <1>1
      <4> QED
        BY <4>1
    <3>5. Stop(s.chunks[c][m]) \in Nat
      BY <3>4, PieceFacts
    <3>6. j \in Nat
      BY ArrayLength
    <3>7. v.at <= j /\ q[1].at = v.at
      BY <1>9, <2>2 DEF q
    <3> QED
      BY <1>4, <3>2, <3>3, <3>5, <3>6, <3>7
  <2>3. CASE ~Held(q, j) /\ \E l \in DOMAIN D : E[k] = D[l]
    <3>1. Held(D, j)
      BY <1>1, <1>9, <2>3 DEF Filled
    <3> QED
      BY <1>5, <3>1
  <2> QED
    BY <1>5, <2>1, <2>2, <2>3
<1>10. Filled(arr, r, E)
  BY <1>9 DEF Filled
<1> QED
  BY <1>6, <1>7, <1>8, <1>10 DEF L

\* The queue and its first item before a turn of the loop.
LEMMA FirstItem ==
  ASSUME NEW arr, IsArray(arr), NEW s, Splitting(arr, s), s.q # <<>>, NEW q, q = s.q
  PROVE  /\ q \in Seq(Pieces(arr)) /\ InOrder(q) /\ Len(q) \in Nat /\ Len(q) >= 1 /\ DOMAIN q = 1 .. Len(q)
         /\ \A k \in DOMAIN q : q[k] \in Pieces(arr) /\ q[k].at \in Nat /\ Stop(q[k]) \in Nat
         /\ \A k \in DOMAIN q : k > 1 => q[k].at < Stop(q[k])
         /\ q[1] \in Pieces(arr) /\ Len(q[1].vals) \in Nat /\ Stop(q[1]) = q[1].at + Len(q[1].vals)
         /\ \A k \in DOMAIN q : k > 1 => Stop(q[1]) <= q[k].at
<1>1. /\ q \in Seq(Pieces(arr)) /\ InOrder(q) /\ q # <<>>
      /\ \A k \in DOMAIN q : k > 1 => q[k].at < Stop(q[k])
  BY Zenon DEF Splitting
<1>2. Len(q) \in Nat /\ Len(q) >= 1 /\ DOMAIN q = 1 .. Len(q) /\ 1 \in DOMAIN q
  BY <1>1
<1>3. \A k \in DOMAIN q : q[k] \in Pieces(arr)
  BY <1>1
<1>4. \A k \in DOMAIN q : q[k].at \in Nat /\ Stop(q[k]) \in Nat
  BY <1>3, PieceFacts
<1>5. q[1] \in Pieces(arr) /\ Len(q[1].vals) \in Nat
  BY <1>2, <1>3, PieceFacts
<1>6. Stop(q[1]) = q[1].at + Len(q[1].vals)
  BY DEF Stop
<1>7. \A k \in DOMAIN q : k > 1 => Stop(q[1]) <= q[k].at
  BY <1>1, <1>2 DEF InOrder
<1> QED
  BY <1>1, <1>2, <1>3, <1>4, <1>5, <1>6, <1>7, Zenon

\* How far deflateMT's loop is from its end.
Left(arr, q) ==
  IF q = <<>> THEN 0 ELSE 2 * (Len0(arr) - q[1].at) + (IF Len(q[1].vals) = 0 THEN 1 ELSE 0)

\* What is left behind an item is nearer to the end than the item.
LEMMA RestIsNearer ==
  ASSUME NEW n \in Nat, NEW at \in Nat, NEW size \in Nat, NEW next \in Nat,
         at + size <= next, next <= n
  PROVE  2 * (n - next) < 2 * (n - at) + (IF size = 0 THEN 1 ELSE 0)
OBVIOUS

\* A turn that puts the whole item into the chunk.
LEMMA WholeItem ==
  ASSUME NEW arr, IsArray(arr), NEW s, Splitting(arr, s), s.q # <<>>,
         s.counter + Len(s.q[1].vals) < MinFileSize
  PROVE  Splitting(arr, Split(s)) /\ Left(arr, Split(s).q) < Left(arr, s.q)
<1> DEFINE q == s.q
           item == q[1]
           size == Len(item.vals)
           v == Block(item.at, item.vals)
           r == Tail(q)
           E == Append(s.chunks[Len(s.chunks)], v)
           C == [s.chunks EXCEPT ![Len(s.chunks)] = E]
           n == Len0(arr)
<1>1. /\ q \in Seq(Pieces(arr)) /\ InOrder(q) /\ Len(q) \in Nat /\ Len(q) >= 1 /\ DOMAIN q = 1 .. Len(q)
      /\ \A k \in DOMAIN q : q[k] \in Pieces(arr) /\ q[k].at \in Nat /\ Stop(q[k]) \in Nat
      /\ \A k \in DOMAIN q : k > 1 => q[k].at < Stop(q[k])
      /\ item \in Pieces(arr) /\ size \in Nat /\ Stop(item) = item.at + size
      /\ \A k \in DOMAIN q : k > 1 => Stop(item) <= q[k].at
  BY FirstItem
<1>2. Split(s) = [q |-> r, counter |-> s.counter + size, chunks |-> C]
  BY DEF Split
<1>3. v = item
  <2>1. item \in Pieces(arr)
    BY <1>1
  <2> HIDE DEF q, item
  <2>2. v.at = item.at /\ v.vals = item.vals
    BY DEF Block
  <2> QED
    BY <2>1 DEF Pieces, Block
<1>4. v \in Pieces(arr) /\ v.at = item.at /\ Stop(v) = Stop(item)
  BY <1>1, <1>3, Zenon
<1>5. n \in Nat /\ item.at \in Nat /\ \A k \in DOMAIN q : q[k].at <= n
  <2>1. n \in Nat
    BY ArrayLength
  <2>2. ASSUME NEW b \in Pieces(arr) PROVE b.at \in Nat /\ b.at <= n
    <3> HIDE DEF n
    <3>1. b.at \in Nat /\ Stop(b) \in Nat /\ b.at <= Stop(b) /\ Stop(b) <= n
      BY PieceFacts DEF n
    <3> QED
      BY <2>1, <3>1
  <2> QED
    BY <1>1, <2>1, <2>2
<1>6. MinFileSize \in Nat \ {0} /\ s.counter \in 0 .. MinFileSize - 1
  BY SizesArePositive, Zenon DEF Splitting
<1>7. s.counter + size < MinFileSize
  OBVIOUS
<1> HIDE DEF v, item, size, q, n
<1>8. r \in Seq(Pieces(arr)) /\ Len(r) = Len(q) - 1 /\ DOMAIN r = 1 .. Len(q) - 1
      /\ \A k \in 1 .. Len(q) - 1 : r[k] = q[k + 1]
  <2>1. q # <<>>
    BY DEF q
  <2>2. r \in Seq(Pieces(arr)) /\ Len(r) = Len(q) - 1 /\ \A k \in 1 .. Len(r) : r[k] = q[k + 1]
    BY <1>1, <2>1, HeadTailProperties
  <2> HIDE DEF r
  <2> QED
    BY <1>1, <2>2
<1> HIDE DEF r
<1>9. \A k \in DOMAIN r : k \in Nat /\ k >= 1 /\ k + 1 \in DOMAIN q /\ r[k] = q[k + 1]
  BY <1>1, <1>8
<1>10. InOrder(r)
  BY <1>1, <1>9 DEF InOrder
<1>11. \A l \in DOMAIN r : r[l].at < Stop(r[l]) /\ Stop(v) <= r[l].at
  BY <1>1, <1>4, <1>9
<1>12. ASSUME NEW j \in DOMAIN arr, Held(q, j) PROVE (v.at <= j /\ j < Stop(v)) \/ Held(r, j)
  <2>1. PICK k \in DOMAIN q : q[k].at <= j /\ j < Stop(q[k])
    BY <1>12 DEF Held
  <2>2. CASE k = 1
    BY <1>4, <2>1, <2>2 DEF item
  <2>3. CASE k # 1
    <3>1. k - 1 \in DOMAIN r /\ r[k - 1] = q[k]
      BY <1>1, <1>8, <2>3
    <3> QED
      BY <2>1, <3>1 DEF Held
  <2> QED
    BY <2>2, <2>3
<1>13. /\ C \in Seq(Seq(Pieces(arr))) /\ Len(C) = Len(s.chunks) /\ C[Len(C)] = E
       /\ \A c \in DOMAIN C : Faithful(arr, C[c]) /\ Behind(r, C[c])
       /\ Filled(arr, r, E)
       /\ \A j \in DOMAIN arr : arr[j] # 0 => Held(r, j) \/ \E c \in DOMAIN C : Held(C[c], j)
  <2>1. v.at = s.q[1].at /\ Stop(v) <= Stop(s.q[1])
    BY <1>1, <1>4 DEF item, q, size
  <2>2. \A l \in DOMAIN r : Stop(v) <= r[l].at
    BY <1>11
  <2>3. \A j \in DOMAIN arr : Held(s.q, j) => (v.at <= j /\ j < Stop(v)) \/ Held(r, j)
    BY <1>12 DEF q
  <2>4. E = Append(s.chunks[Len(s.chunks)], v) /\ C = [s.chunks EXCEPT ![Len(s.chunks)] = E]
    OBVIOUS
  <2> HIDE DEF C, E
  <2>5. v \in Pieces(arr) /\ r \in Seq(Pieces(arr)) /\ s.q # <<>>
    BY <1>4, <1>8
  <2>6. Grown(arr, s, v, r, E, C)
    BY <2>1, <2>2, <2>3, <2>4, <2>5, Zenon DEF Grown
  <2> QED
    BY <2>6, ChunkGrows, Zenon
<1>14. Len(s.chunks) >= 1
  BY Zenon DEF Splitting
<1> DEFINE t == Split(s)
<1>15. t.q = r /\ t.counter = s.counter + size /\ t.chunks = C
  BY <1>2
<1> HIDE DEF t, C, E
<1>16. t.counter \in 0 .. MinFileSize - 1
  BY <1>1, <1>6, <1>7, <1>15
<1>17. Splitting(arr, t)
  BY <1>8, <1>10, <1>11, <1>13, <1>14, <1>15, <1>16, Zenon DEF Splitting
<1>18. Left(arr, r) < Left(arr, q)
  <2> DEFINE e == IF size = 0 THEN 1 ELSE 0
  <2>1. Left(arr, q) = 2 * (n - item.at) + e
    BY DEF Left, q, item, size, n
  <2>2. item.at <= n
    BY <1>1, <1>5 DEF item
  <2>3. CASE r = <<>>
    <3>1. Left(arr, r) = 0
      BY <2>3 DEF Left
    <3>2. item.at + size <= n
      BY <1>1, PieceFacts DEF size, n
    <3> QED
      BY <1>1, <1>5, <2>1, <2>2, <3>1, <3>2
  <2>4. CASE r # <<>>
    <3>1. 1 \in DOMAIN r
      <4>1. Len(r) # 0
        BY <1>8, <2>4
      <4> QED
        BY <1>1, <1>8, <4>1
    <3>2. r[1] = q[2] /\ 2 \in DOMAIN q
      BY <1>9, <3>1
    <3>3. r[1].at \in Nat /\ r[1].at <= n /\ r[1].at < Stop(r[1]) /\ item.at + size <= r[1].at
      BY <1>1, <1>5, <3>2
    <3>4. Len(r[1].vals) # 0
      BY <3>3 DEF Stop
    <3>5. Left(arr, r) = 2 * (n - r[1].at)
      BY <1>5, <2>4, <3>3, <3>4 DEF Left, n
    <3> QED
      <4>1. size \in Nat /\ item.at \in Nat /\ n \in Nat
        BY <1>1, <1>5
      <4>2. 2 * (n - r[1].at) < 2 * (n - item.at) + e
        BY <3>3, <4>1, RestIsNearer
      <4> QED
        BY <2>1, <3>5, <4>2
  <2> QED
    BY <2>3, <2>4
<1> QED
  BY <1>15, <1>17, <1>18, Zenon DEF t, q

\* A turn that fills the chunk and begins the next one.
LEMMA CutItem ==
  ASSUME NEW arr, IsArray(arr), NEW s, Splitting(arr, s), s.q # <<>>,
         ~(s.counter + Len(s.q[1].vals) < MinFileSize)
  PROVE  Splitting(arr, Split(s)) /\ Left(arr, Split(s).q) < Left(arr, s.q)
<1> DEFINE q == s.q
           item == q[1]
           size == Len(item.vals)
           cut == MinFileSize - s.counter
           v == Block(item.at, SubSeq(item.vals, 1, cut))
           post == Block(item.at + cut, SubSeq(item.vals, cut + 1, size))
           r == [q EXCEPT ![1] = post]
           E == Append(s.chunks[Len(s.chunks)], v)
           C == [s.chunks EXCEPT ![Len(s.chunks)] = E]
           A == Append(C, <<>>)
           n == Len0(arr)
<1>1. /\ q \in Seq(Pieces(arr)) /\ InOrder(q) /\ Len(q) \in Nat /\ Len(q) >= 1 /\ DOMAIN q = 1 .. Len(q)
      /\ \A k \in DOMAIN q : q[k] \in Pieces(arr) /\ q[k].at \in Nat /\ Stop(q[k]) \in Nat
      /\ \A k \in DOMAIN q : k > 1 => q[k].at < Stop(q[k])
      /\ item \in Pieces(arr) /\ size \in Nat /\ Stop(item) = item.at + size
      /\ \A k \in DOMAIN q : k > 1 => Stop(item) <= q[k].at
  BY FirstItem
<1>2. Split(s) = [q |-> r, counter |-> 0, chunks |-> A]
  BY DEF Split
<1>3. cut \in 1 .. size
  <2>1. MinFileSize \in Nat \ {0} /\ s.counter \in 0 .. MinFileSize - 1
    BY SizesArePositive, Zenon DEF Splitting
  <2>2. size \in Nat /\ ~(s.counter + size < MinFileSize)
    BY <1>1
  <2> HIDE DEF size
  <2> QED
    BY <2>1, <2>2
<1>4. n \in Nat /\ item.at \in Nat /\ item.at + size <= n
  <2>1. n \in Nat
    BY ArrayLength
  <2>2. item.at \in Nat /\ Stop(item) <= n
    BY <1>1, PieceFacts
  <2> QED
    BY <1>1, <2>1, <2>2
<1>5. /\ v \in Pieces(arr) /\ v.at = item.at /\ Stop(v) = item.at + cut
      /\ post \in Pieces(arr) /\ post.at = item.at + cut /\ Stop(post) = Stop(item)
  <2>1. cut \in 0 .. Len(item.vals)
    <3> HIDE DEF cut
    <3> QED
      BY <1>1, <1>3
  <2>2. item \in Pieces(arr)
    BY <1>1
  <2> HIDE DEF cut, item
  <2> QED
    BY <2>1, <2>2, CutPiece
<1>6. Left(arr, q) = 2 * (n - item.at)
  <2>1. size # 0
    <3> HIDE DEF size, cut
    <3> QED
      BY <1>1, <1>3
  <2> QED
    BY <1>4, <2>1 DEF Left
<1> HIDE DEF v, post, item, size, q, n, cut
<1>7. /\ r \in Seq(Pieces(arr)) /\ Len(r) = Len(q) /\ DOMAIN r = 1 .. Len(q) /\ r[1] = post
      /\ \A k \in 2 .. Len(q) : r[k] = q[k]
  <2>1. 1 \in 1 .. Len(q)
    BY <1>1
  <2>2. r \in Seq(Pieces(arr)) /\ Len(r) = Len(q) /\ \A k \in 1 .. Len(q) : r[k] = IF k = 1 THEN post ELSE q[k]
    <3> DEFINE S == Pieces(arr)
    <3>1. q \in Seq(S) /\ post \in S
      BY <1>1, <1>5
    <3> HIDE DEF S
    <3>2. /\ [q EXCEPT ![1] = post] \in Seq(S) /\ Len([q EXCEPT ![1] = post]) = Len(q)
          /\ \A k \in 1 .. Len(q) : [q EXCEPT ![1] = post][k] = IF k = 1 THEN post ELSE q[k]
      BY <2>1, <3>1, ExceptSeq
    <3> QED
      BY <3>2 DEF S
  <2> HIDE DEF r
  <2> QED
    BY <1>1, <2>1, <2>2
<1> HIDE DEF r
<1>8. \A k \in DOMAIN r : k = 1 \/ (k > 1 /\ k \in DOMAIN q /\ r[k] = q[k])
  BY <1>1, <1>7
<1>9. Stop(r[1]) = Stop(item) /\ r[1].at = item.at + cut
  BY <1>5, <1>7
<1>10. InOrder(r)
  <2> SUFFICES ASSUME NEW k \in DOMAIN r, NEW l \in DOMAIN r, k < l PROVE Stop(r[k]) <= r[l].at
    BY DEF InOrder
  <2>1. l > 1 /\ l \in DOMAIN q /\ r[l] = q[l]
    BY <1>1, <1>7
  <2>2. CASE k = 1
    BY <1>1, <1>9, <2>1, <2>2
  <2>3. CASE k # 1
    BY <1>1, <1>8, <2>1, <2>3 DEF InOrder
  <2> QED
    BY <2>2, <2>3
<1>11. \A k \in DOMAIN r : k > 1 => r[k].at < Stop(r[k])
  BY <1>1, <1>8
<1>12. \A l \in DOMAIN r : Stop(v) <= r[l].at
  <2>1. cut \in Nat /\ size \in Nat /\ cut <= size
    BY <1>1, <1>3
  <2>2. ASSUME NEW l \in DOMAIN r, l # 1 PROVE Stop(v) <= r[l].at
    <3>1. Stop(item) <= r[l].at /\ r[l].at \in Nat
      BY <1>1, <1>8, <2>2
    <3> QED
      BY <1>1, <1>4, <1>5, <2>1, <3>1
  <2> QED
    BY <1>4, <1>5, <1>9, <2>1, <2>2
<1>13. ASSUME NEW j \in DOMAIN arr, Held(q, j) PROVE (v.at <= j /\ j < Stop(v)) \/ Held(r, j)
  <2>1. PICK k \in DOMAIN q : q[k].at <= j /\ j < Stop(q[k])
    BY <1>13 DEF Held
  <2>2. CASE k = 1
    <3>0. j \in Nat /\ cut \in Nat
      BY <1>1, <1>3, ArrayLength
    <3>1. item.at <= j /\ j < Stop(item)
      BY <2>1, <2>2 DEF item
    <3>2. CASE j < item.at + cut
      BY <1>5, <3>1, <3>2
    <3>3. CASE ~(j < item.at + cut)
      <4>1. r[1].at <= j /\ j < Stop(r[1])
        <5>1. 1 \in DOMAIN r
          BY <1>1, <1>7
        <5> QED
          BY <1>4, <1>9, <3>0, <3>1, <3>3
      <4> QED
        BY <1>1, <1>7, <4>1 DEF Held
    <3> QED
      BY <3>2, <3>3
  <2>3. CASE k # 1
    <3>1. k \in DOMAIN r /\ r[k] = q[k]
      BY <1>1, <1>7, <2>3
    <3> QED
      BY <2>1, <3>1 DEF Held
  <2> QED
    BY <2>2, <2>3
<1>14. /\ C \in Seq(Seq(Pieces(arr))) /\ Len(C) = Len(s.chunks) /\ C[Len(C)] = E
       /\ \A c \in DOMAIN C : Faithful(arr, C[c]) /\ Behind(r, C[c])
       /\ Filled(arr, r, E)
       /\ \A j \in DOMAIN arr : arr[j] # 0 => Held(r, j) \/ \E c \in DOMAIN C : Held(C[c], j)
  <2>1. v.at = s.q[1].at /\ Stop(v) <= Stop(s.q[1])
    <3>1. item = s.q[1]
      BY DEF item, q
    <3>2. cut \in Nat /\ size \in Nat /\ cut <= size
      BY <1>1, <1>3
    <3> QED
      BY <1>1, <1>4, <1>5, <3>1, <3>2
  <2>2. \A j \in DOMAIN arr : Held(s.q, j) => (v.at <= j /\ j < Stop(v)) \/ Held(r, j)
    BY <1>13 DEF q
  <2>3. Grown(arr, s, v, r, E, C)
    <3>1. E = Append(s.chunks[Len(s.chunks)], v) /\ C = [s.chunks EXCEPT ![Len(s.chunks)] = E]
      OBVIOUS
    <3>2. s.q # <<>> /\ v \in Pieces(arr) /\ r \in Seq(Pieces(arr))
      BY <1>5, <1>7
    <3> HIDE DEF E, C
    <3> QED
      BY <1>12, <2>1, <2>2, <3>1, <3>2, Zenon DEF Grown
  <2> HIDE DEF E, C
  <2> QED
    BY <2>3, ChunkGrows, Zenon
<1>15. Len(s.chunks) >= 1
  BY Zenon DEF Splitting
<1> HIDE DEF C, E
<1>16. /\ A \in Seq(Seq(Pieces(arr))) /\ Len(A) = Len(C) + 1 /\ Len(A) >= 1 /\ A[Len(A)] = <<>>
       /\ DOMAIN C \subseteq DOMAIN A
       /\ \A c \in DOMAIN A : A[c] = <<>> \/ (c \in DOMAIN C /\ A[c] = C[c])
  <2>1. <<>> \in Seq(Pieces(arr)) /\ C \in Seq(Seq(Pieces(arr)))
    BY <1>14
  <2> DEFINE S == Seq(Pieces(arr))
  <2> HIDE DEF S
  <2>2. <<>> \in S /\ C \in Seq(S)
    BY <2>1 DEF S
  <2>3. A \in Seq(S) /\ Len(A) = Len(C) + 1 /\ A[Len(C) + 1] = <<>> /\ \A c \in 1 .. Len(C) : A[c] = C[c]
    BY <2>2, AppendProperties
  <2>4. Len(C) \in Nat /\ DOMAIN C = 1 .. Len(C) /\ DOMAIN A = 1 .. Len(A)
    BY <2>2, <2>3
  <2> HIDE DEF A
  <2> QED
    BY <2>3, <2>4 DEF S
<1>17. \A c \in DOMAIN C : c \in DOMAIN A /\ A[c] = C[c]
  <2>1. Len(C) \in Nat /\ DOMAIN C = 1 .. Len(C)
    BY <1>14
  <2> QED
    BY <1>16, <2>1
<1> DEFINE t == Split(s)
<1>18. t.q = r /\ t.counter = 0 /\ t.chunks = A
  BY <1>2
<1> HIDE DEF t, A
<1>19. Faithful(arr, <<>>) /\ Behind(r, <<>>) /\ Filled(arr, r, <<>>)
  <2>1. DOMAIN <<>> = {} /\ <<>> \in Seq(Pieces(arr))
    OBVIOUS
  <2> QED
    BY <2>1, Zenon DEF Faithful, Behind, Filled
<1>20. \A c \in DOMAIN A : Faithful(arr, A[c]) /\ Behind(r, A[c])
  BY <1>14, <1>16, <1>19, Zenon
<1>21. \A j \in DOMAIN arr : arr[j] # 0 => Held(r, j) \/ \E c \in DOMAIN A : Held(A[c], j)
  BY <1>14, <1>17, Zenon
<1>22. 0 \in 0 .. MinFileSize - 1
  BY SizesArePositive
<1>23. Splitting(arr, t)
  BY <1>7, <1>10, <1>11, <1>16, <1>18, <1>19, <1>20, <1>21, <1>22, Zenon DEF Splitting
<1>24. Left(arr, r) < Left(arr, q)
  <2> DEFINE e == IF Len(r[1].vals) = 0 THEN 1 ELSE 0
  <2>1. r # <<>>
    <3>1. Len(r) # 0
      BY <1>1, <1>7
    <3> QED
      BY <3>1
  <2>2. Left(arr, r) = 2 * (n - (item.at + cut)) + e
    BY <1>9, <2>1 DEF Left, n
  <2>3. e \in 0 .. 1 /\ cut \in Nat /\ cut >= 1
    BY <1>1, <1>3
  <2> HIDE DEF e
  <2> QED
    BY <1>4, <1>6, <2>2, <2>3
<1> QED
  BY <1>18, <1>23, <1>24, Zenon DEF t, q

\* A turn keeps what is known of the loop and brings it closer to its end, until
\* the queue is empty.
LEMMA Turn ==
  ASSUME NEW arr, IsArray(arr), NEW s, Splitting(arr, s)
  PROVE  /\ Splitting(arr, Split(s))
         /\ IF s.q = <<>> THEN Split(s) = s ELSE Left(arr, Split(s).q) < Left(arr, s.q)
<1>1. CASE s.q = <<>>
  BY <1>1, Zenon DEF Split
<1>2. CASE s.q # <<>>
  BY <1>2, WholeItem, CutItem, Zenon
<1> QED
  BY <1>1, <1>2

-----------------------------------------------------------------------------
(* deflateMT.                                                              *)

\* The loop as the function of its turns.
FirstTurn(arr) == [q |-> deflate(arr), counter |-> 0, chunks |-> <<<<>>>>]
TurnOf(arr, g, k) == IF k = 0 THEN FirstTurn(arr) ELSE Split(g[k - 1])
AreTurns(arr, g) == g = [k \in 0 .. 2 * Len0(arr) |-> TurnOf(arr, g, k)]
LEMMA DeflateMTDef ==
  ASSUME NEW arr
  PROVE  deflateMT(arr) = (CHOOSE g : AreTurns(arr, g))[2 * Len0(arr)].chunks
BY DEF deflateMT, AreTurns, TurnOf, FirstTurn

\* The turns define a function: each looks at the one before.
LEMMA TurnsExist ==
  ASSUME NEW arr, IsArray(arr)
  PROVE  \E g : AreTurns(arr, g)
<1> DEFINE last == 2 * Len0(arr)
           Good(g, k) == g = [i \in 0 .. last |-> g[i]] /\ \A i \in 0 .. k : g[i] = TurnOf(arr, g, i)
           P == {k \in 0 .. last : \E g : Good(g, k)}
<1>1. last \in Nat
  BY ArrayLength
<1> HIDE DEF last
<1>2. 0 \in P
  <2> DEFINE g == [i \in 0 .. last |-> FirstTurn(arr)]
  <2>1. \A i \in 0 .. 0 : i = 0 /\ i \in 0 .. last
    BY <1>1
  <2>2. \A i \in 0 .. 0 : g[i] = TurnOf(arr, g, i)
    BY <2>1, Zenon DEF TurnOf
  <2>3. Good(g, 0)
    BY <2>2
  <2> HIDE DEF g
  <2> QED
    BY <1>1, <2>3
<1>3. ASSUME NEW k \in 0 .. last - 1, k \in P PROVE k + 1 \in P
  <2>1. PICK g : Good(g, k)
    BY <1>3
  <2> DEFINE h == [g EXCEPT ![k + 1] = Split(g[k])]
  <2>2. k \in Nat /\ k + 1 \in 0 .. last /\ k \in 0 .. last /\ 0 \in 0 .. last
    BY <1>1
  <2>3. h = [i \in 0 .. last |-> IF i = k + 1 THEN Split(g[k]) ELSE g[i]]
    BY <2>1, <2>2, Zenon
  <2> HIDE DEF h
  <2>4. h = [i \in 0 .. last |-> h[i]]
    BY <2>3
  <2>5. ASSUME NEW i \in 0 .. k PROVE h[i] = g[i]
    <3>1. i \in 0 .. last /\ i # k + 1
      BY <1>1, <2>2
    <3> QED
      BY <2>3, <3>1
  <2>6. h[k + 1] = Split(g[k])
    BY <2>2, <2>3
  <2>7. ASSUME NEW i \in 0 .. k + 1 PROVE h[i] = TurnOf(arr, h, i)
    <3>1. CASE i = 0
      <4>1. g[0] = FirstTurn(arr)
        <5>1. 0 \in 0 .. k
          BY <2>2
        <5>2. g[0] = TurnOf(arr, g, 0)
          BY <2>1, <5>1
        <5> QED
          BY <5>2, Zenon DEF TurnOf
      <4>2. h[0] = g[0]
        BY <2>2, <2>5
      <4> QED
        BY <3>1, <4>1, <4>2, Zenon DEF TurnOf
    <3>2. CASE i # 0
      <4>1. i - 1 \in 0 .. k
        BY <2>2, <3>2
      <4>2. h[i] = Split(g[i - 1])
        <5>1. CASE i = k + 1
          BY <2>2, <2>6, <5>1
        <5>2. CASE i # k + 1
          <6>1. i \in 0 .. k
            BY <2>2, <5>2
          <6>2. g[i] = TurnOf(arr, g, i) /\ h[i] = g[i]
            BY <2>1, <2>5, <6>1
          <6> QED
            BY <3>2, <6>2, Zenon DEF TurnOf
        <5> QED
          BY <5>1, <5>2
      <4>3. h[i - 1] = g[i - 1]
        BY <2>5, <4>1
      <4> QED
        BY <3>2, <4>2, <4>3, Zenon DEF TurnOf
    <3> QED
      BY <3>1, <3>2
  <2>8. Good(h, k + 1)
    BY <2>4, <2>7
  <2> QED
    BY <2>2, <2>8
<1>4. last \in P
  <2> HIDE DEF P
  <2>1. \A k \in 0 .. last : k \in P
    BY <1>1, <1>2, <1>3, CountingUp
  <2> QED
    BY <1>1, <2>1
<1>5. PICK g : Good(g, last)
  BY <1>4
<1>6. AreTurns(arr, g)
  <2>1. g = [i \in 0 .. last |-> g[i]] /\ \A i \in 0 .. last : g[i] = TurnOf(arr, g, i)
    BY <1>5
  <2>2. g = [i \in 0 .. last |-> TurnOf(arr, g, i)]
    BY <2>1
  <2> QED
    BY <2>2, Zenon DEF AreTurns, last
<1> QED
  BY <1>6

\* The loop begins with nothing done, and is not at its end while blocks are left.
LEMMA FirstTurnSplits ==
  ASSUME NEW arr, IsArray(arr), NEW q, q = deflate(arr)
  PROVE  /\ Splitting(arr, FirstTurn(arr)) /\ FirstTurn(arr).q = q
         /\ q = <<>> \/ Left(arr, q) <= 2 * Len0(arr)
<1> DEFINE t == FirstTurn(arr)
           D == <<>>
           C == <<D>>
<1>1. t.q = q /\ t.counter = 0 /\ t.chunks = C
  BY DEF FirstTurn
<1>2. Deflated(arr, 0, q)
  BY DeflateHolds
<1>3. /\ q \in Seq(Pieces(arr)) /\ InOrder(q)
      /\ \A m \in DOMAIN q : 0 <= q[m].at /\ q[m].at < Stop(q[m])
      /\ \A j \in 0 .. Len0(arr) - 1 : arr[j] # 0 => Held(q, j)
  BY <1>2, Zenon DEF Deflated
<1>4. DOMAIN D = {} /\ D \in Seq(Pieces(arr))
  OBVIOUS
<1>5. C \in Seq(Seq(Pieces(arr))) /\ Len(C) = 1 /\ C[1] = D /\ DOMAIN C = 1 .. 1
  BY <1>4
<1>6. Faithful(arr, D) /\ Behind(q, D) /\ Filled(arr, q, D)
  <2> HIDE DEF D
  <2> QED
    BY <1>4, Zenon DEF Faithful, Behind, Filled
<1> HIDE DEF t, C, D
<1>7. \A c \in DOMAIN C : Faithful(arr, C[c]) /\ Behind(q, C[c])
  <2>1. \A c \in DOMAIN C : c = 1
    BY <1>5
  <2> QED
    BY <1>5, <1>6, <2>1
<1>8. 0 \in 0 .. MinFileSize - 1
  BY SizesArePositive
<1>9. \A j \in DOMAIN arr : arr[j] # 0 => Held(q, j)
  BY <1>3, ArrayLength
<1>10. C[Len(C)] = D /\ Len(C) >= 1
  BY <1>5
<1>11. \A k \in DOMAIN q : k > 1 => q[k].at < Stop(q[k])
  BY <1>3
<1>12. Splitting(arr, t)
  BY <1>1, <1>3, <1>5, <1>6, <1>7, <1>8, <1>9, <1>10, <1>11, Zenon DEF Splitting
<1>13. ASSUME q # <<>> PROVE Left(arr, q) <= 2 * Len0(arr)
  <2>1. 1 \in DOMAIN q
    BY <1>3, <1>13
  <2>2. q[1] \in Pieces(arr)
    BY <1>3, <2>1
  <2>3. q[1].at \in Nat /\ q[1].at < Stop(q[1])
    BY <1>3, <2>1, <2>2, PieceFacts
  <2>4. Len(q[1].vals) # 0
    BY <2>3 DEF Stop
  <2>5. Left(arr, q) = 2 * (Len0(arr) - q[1].at)
    BY <1>13, <2>3, <2>4, ArrayLength DEF Left
  <2>6. Len0(arr) \in Nat
    BY ArrayLength
  <2> QED
    BY <2>3, <2>5, <2>6
<1> QED
  BY <1>1, <1>12, <1>13 DEF t

\* While blocks are queued the loop is not at its end.
LEMMA LeftIsPositive ==
  ASSUME NEW arr, IsArray(arr), NEW s, Splitting(arr, s), s.q # <<>>
  PROVE  Left(arr, s.q) \in Nat \ {0}
<1> DEFINE q == s.q
           item == q[1]
           size == Len(item.vals)
           n == Len0(arr)
           e == IF size = 0 THEN 1 ELSE 0
<1>1. item \in Pieces(arr) /\ size \in Nat /\ Stop(item) = item.at + size
  BY FirstItem
<1>2. n \in Nat /\ item.at \in Nat /\ Stop(item) <= n
  BY <1>1, PieceFacts, ArrayLength
<1>3. Left(arr, q) = 2 * (n - item.at) + e
  BY DEF Left
<1> HIDE DEF size, n, item
<1> QED
  BY <1>1, <1>2, <1>3

\* What the chunk files of an array are: parts of it, at least one, that
\* together hold everything but zeros
Chunked(arr, C) ==
  /\ C \in Seq(Seq(Pieces(arr))) /\ Len(C) >= 1
  /\ \A c \in DOMAIN C : Faithful(arr, C[c])
  /\ \A j \in DOMAIN arr : arr[j] # 0 => \E c \in DOMAIN C : Held(C[c], j)
LEMMA DeflateMTHolds ==
  ASSUME NEW arr, IsArray(arr)
  PROVE  Chunked(arr, deflateMT(arr))
<1> DEFINE last == 2 * Len0(arr)
           g == CHOOSE g : AreTurns(arr, g)
           Going(k) == Splitting(arr, g[k]) /\ (g[k].q = <<>> \/ Left(arr, g[k].q) <= last - k)
           P == {k \in 0 .. last : Going(k)}
<1>1. last \in Nat
  BY ArrayLength
<1>2. AreTurns(arr, g)
  BY TurnsExist
<1>3. deflateMT(arr) = g[last].chunks
  BY DeflateMTDef
<1> HIDE DEF g
<1>4. \A k \in 0 .. last : g[k] = TurnOf(arr, g, k)
  BY <1>2, Zenon DEF AreTurns
<1>5. 0 \in P
  <2>1. g[0] = FirstTurn(arr)
    BY <1>1, <1>4 DEF TurnOf
  <2>2. last - 0 = last
    BY <1>1
  <2>3. Going(0)
    BY <2>1, <2>2, FirstTurnSplits
  <2> QED
    BY <1>1, <2>3
<1> HIDE DEF last
<1>6. ASSUME NEW k \in 0 .. last - 1, k \in P PROVE k + 1 \in P
  <2>1. k \in Nat /\ k + 1 \in 0 .. last /\ k + 1 # 0 /\ (k + 1) - 1 = k
    BY <1>1
  <2>2. g[k + 1] = Split(g[k])
    BY <1>4, <2>1 DEF TurnOf
  <2>3. Going(k)
    BY <1>6
  <2>4. Splitting(arr, g[k + 1])
    BY <2>2, <2>3, Turn, Zenon
  <2>5. CASE g[k].q = <<>>
    <3>1. g[k + 1] = g[k]
      BY <2>2, <2>3, <2>5, Turn, Zenon
    <3> QED
      BY <2>1, <2>4, <2>5, <3>1
  <2>6. CASE g[k].q # <<>> /\ g[k + 1].q # <<>>
    <3>1. Left(arr, g[k + 1].q) < Left(arr, g[k].q)
      BY <2>2, <2>3, <2>6, Turn, Zenon
    <3>2. Left(arr, g[k + 1].q) \in Nat \ {0} /\ Left(arr, g[k].q) \in Nat \ {0}
      BY <2>3, <2>4, <2>6, LeftIsPositive
    <3>3. Left(arr, g[k].q) <= last - k
      BY <2>3, <2>6
    <3>4. Left(arr, g[k + 1].q) <= last - (k + 1)
      BY <1>1, <2>1, <3>1, <3>2, <3>3
    <3> QED
      BY <2>1, <2>4, <3>4
  <2> QED
    BY <2>1, <2>4, <2>5, <2>6
<1>7. Going(last)
  <2>1. \A k \in 0 .. last : k \in P
    <3> HIDE DEF P
    <3> QED
      BY <1>1, <1>5, <1>6, CountingUp
  <2>2. last \in 0 .. last
    BY <1>1
  <2> QED
    BY <2>1, <2>2
<1> DEFINE s == g[last]
<1>8. Splitting(arr, s)
  BY <1>7
<1>9. s.q = <<>>
  <2> SUFFICES ASSUME s.q # <<>> PROVE FALSE
    OBVIOUS
  <2>1. Left(arr, s.q) \in Nat \ {0}
    BY <1>8, LeftIsPositive
  <2>2. Left(arr, s.q) <= last - last
    BY <1>7
  <2> HIDE DEF s
  <2> QED
    BY <1>1, <2>1, <2>2
<1> HIDE DEF s
<1>10. /\ s.chunks \in Seq(Seq(Pieces(arr))) /\ Len(s.chunks) >= 1
       /\ \A c \in DOMAIN s.chunks : Faithful(arr, s.chunks[c])
       /\ \A j \in DOMAIN arr : arr[j] # 0 => Held(s.q, j) \/ \E c \in DOMAIN s.chunks : Held(s.chunks[c], j)
  BY <1>8, Zenon DEF Splitting
<1>11. \A j : ~Held(s.q, j)
  BY <1>9 DEF Held
<1>12. Chunked(arr, s.chunks)
  BY <1>10, <1>11, Zenon DEF Chunked
<1> QED
  BY <1>3, <1>12 DEF s

-----------------------------------------------------------------------------
(* inflate and inflateChunk.                                               *)

\* What is written back: the array where a block holds a cell, elsewhere zeros.
LEMMA InflatedCell ==
  ASSUME NEW arr, IsArray(arr), NEW D \in Seq(Pieces(arr)), NEW lo \in Int, NEW hi \in Int,
         NEW i \in lo .. hi - 1
  PROVE  inflateChunk(D, lo, hi)[i] = IF Held(D, i) THEN arr[i] ELSE 0
<1> DEFINE holders == {k \in DOMAIN D : D[k].at <= i /\ i < D[k].at + Len(D[k].vals)}
           block == D[Max(holders)]
<1>1. inflateChunk(D, lo, hi)[i] = IF holders = {} THEN 0 ELSE block.vals[i - block.at + 1]
  BY DEF inflateChunk
<1>2. holders # {} <=> Held(D, i)
  BY DEF Held, Stop
<1>3. ASSUME holders # {} PROVE block.vals[i - block.at + 1] = arr[i]
  <2>1. Len(D) \in Nat /\ holders \in SUBSET Nat /\ \A k \in holders : k <= Len(D)
    OBVIOUS
  <2>2. Max(holders) \in holders
    <3> HIDE DEF holders
    <3> QED
      BY <1>3, <2>1, GreatestOf
  <2>3. Max(holders) \in DOMAIN D
    BY <2>2
  <2>4. block.at <= i /\ i < Stop(block)
    BY <2>2, Zenon DEF Stop
  <2>5. block \in Pieces(arr)
    BY <2>3
  <2> HIDE DEF block, holders
  <2>6. block.at \in Nat /\ Stop(block) \in Nat
    BY <2>5, PieceFacts
  <2>7. i \in block.at .. Stop(block) - 1
    BY <2>4, <2>6
  <2>8. \A c \in block.at .. Stop(block) - 1 : block.vals[c - block.at + 1] = arr[c]
    BY <2>5, PieceFacts, Zenon
  <2> QED
    BY <2>7, <2>8
<1> HIDE DEF holders, block
<1> QED
  BY <1>1, <1>2, <1>3

\* A held cell is one of the array.
LEMMA HeldCell ==
  ASSUME NEW arr, IsArray(arr), NEW D \in Seq(Pieces(arr)), NEW i \in Int, Held(D, i)
  PROVE  i \in DOMAIN arr
<1>1. PICK k \in DOMAIN D : D[k].at <= i /\ i < Stop(D[k])
  BY DEF Held
<1>2. D[k] \in Pieces(arr)
  BY <1>1
<1>3. Len0(arr) \in Nat /\ DOMAIN arr = 0 .. Len0(arr) - 1
  BY ArrayLength
<1>4. D[k].at \in Nat /\ Stop(D[k]) \in Nat /\ Stop(D[k]) <= Len0(arr)
  BY <1>2, PieceFacts
<1> QED
  BY <1>1, <1>3, <1>4

\* deflate and inflate (a flat load): one sparse array holds the whole array,
\* whatever the blocks and the runs of zeros between them are.
THEOREM InflateUndoesDeflate ==
  ASSUME NEW arr, IsArray(arr), NEW a, a = inflate(deflate(arr), Len0(arr))
  PROVE  DOMAIN a = DOMAIN arr /\ \A i \in DOMAIN arr : a[i] = arr[i]
<1> DEFINE D == deflate(arr)
           n == Len0(arr)
<1>1. n \in Nat /\ DOMAIN arr = 0 .. n - 1
  BY ArrayLength
<1>2. DOMAIN a = 0 .. n - 1 /\ a = inflateChunk(D, 0, n)
  BY DEF inflate, inflateChunk
<1>3. D \in Seq(Pieces(arr)) /\ \A j \in 0 .. n - 1 : arr[j] # 0 => Held(D, j)
  BY DeflateHolds, Zenon DEF Deflated
<1> HIDE DEF D, n
<1>4. ASSUME NEW i \in DOMAIN arr PROVE a[i] = arr[i]
  <2>1. i \in 0 .. n - 1 /\ 0 \in Int /\ n \in Int
    BY <1>1
  <2>2. a[i] = IF Held(D, i) THEN arr[i] ELSE 0
    BY <1>2, <1>3, <2>1, InflatedCell
  <2> QED
    BY <1>3, <2>1, <2>2
<1> QED
  BY <1>1, <1>2, <1>4

\* The range of a part lies within the array, covers the cells it holds, and is
\* written with what the array has there.
LEMMA PartCovers ==
  ASSUME NEW arr, IsArray(arr), NEW D, Faithful(arr, D), NEW lo, lo = Start(D), NEW hi, hi = End(D)
  PROVE  /\ lo \in Nat /\ hi \in Nat /\ hi <= Len0(arr)
         /\ DOMAIN inflateChunk(D, lo, hi) = lo .. hi - 1
         /\ \A i \in lo .. hi - 1 : i \in DOMAIN arr /\ inflateChunk(D, lo, hi)[i] = arr[i]
         /\ \A j \in DOMAIN arr : Held(D, j) => j \in lo .. hi - 1
<1> DEFINE n == Len0(arr)
           ats == {D[k].at : k \in DOMAIN D}
           stops == {Stop(D[k]) : k \in DOMAIN D}
<1>1. n \in Nat /\ DOMAIN arr = 0 .. n - 1
  BY ArrayLength
<1>2. D \in Seq(Pieces(arr))
  BY Zenon DEF Faithful
<1>3. \A k \in DOMAIN D : /\ D[k].at \in Nat /\ Stop(D[k]) \in Nat /\ Stop(D[k]) <= n
  <2>1. \A k \in DOMAIN D : D[k] \in Pieces(arr)
    BY <1>2
  <2>2. ASSUME NEW b \in Pieces(arr) PROVE b.at \in Nat /\ Stop(b) \in Nat /\ Stop(b) <= n
    BY PieceFacts
  <2> QED
    BY <2>1, <2>2
<1>4. DOMAIN inflateChunk(D, lo, hi) = lo .. hi - 1
  BY DEF inflateChunk
<1>5. CASE D = <<>>
  <2>1. lo = 0 /\ hi = 0 /\ DOMAIN D = {}
    BY <1>5 DEF Start, End
  <2> HIDE DEF n
  <2>2. \A i \in lo .. hi - 1 : FALSE
    BY <2>1
  <2>3. \A j \in DOMAIN arr : ~Held(D, j)
    BY <2>1 DEF Held
  <2> QED
    BY <1>1, <1>4, <2>1, <2>2, <2>3 DEF n
<1>6. CASE D # <<>>
  <2>1. lo = Min(ats) /\ hi = Max(stops)
    <3>1. Start(D) = IF D = <<>> THEN 0 ELSE Min(ats)
      BY DEF Start
    <3>2. End(D) = IF D = <<>> THEN 0 ELSE Max(stops)
      BY DEF End, Stop
    <3> HIDE DEF ats, stops
    <3> QED
      BY <1>6, <3>1, <3>2
  <2>2. DOMAIN D # {}
    <3>1. Len(D) \in Nat /\ Len(D) # 0 /\ DOMAIN D = 1 .. Len(D)
      BY <1>2, <1>6, EmptySeq
    <3> QED
      BY <3>1
  <2> HIDE DEF n
  <2>3. ats \in SUBSET Nat /\ ats # {} /\ stops \in SUBSET Nat /\ stops # {} /\ \A x \in stops : x <= n
    BY <1>3, <2>2
  <2>4. lo \in ats /\ \A x \in ats : lo <= x
    BY <2>1, <2>3, LeastOf
  <2>5. hi \in stops /\ \A x \in stops : x <= hi
    BY <1>1, <2>1, <2>3, GreatestOf
  <2>6. PICK k \in DOMAIN D : lo = D[k].at
    BY <2>4
  <2>7. PICK l \in DOMAIN D : hi = Stop(D[l])
    BY <2>5
  <2>8. lo \in Nat /\ hi \in Nat /\ hi <= n
    BY <2>3, <2>4, <2>5
  <2>9. ASSUME NEW i \in lo .. hi - 1 PROVE i \in DOMAIN arr /\ inflateChunk(D, lo, hi)[i] = arr[i]
    <3>1. i \in DOMAIN arr
      BY <1>1, <2>8
    <3>2. inflateChunk(D, lo, hi)[i] = IF Held(D, i) THEN arr[i] ELSE 0
      BY <1>2, <2>8, InflatedCell
    <3>3. arr[i] # 0 => Held(D, i)
      <4>1. D[k].at <= i /\ i < Stop(D[l])
        BY <2>6, <2>7, <2>8
      <4> QED
        BY <3>1, <4>1 DEF Faithful
    <3> QED
      BY <3>1, <3>2, <3>3
  <2>10. ASSUME NEW j \in DOMAIN arr, Held(D, j) PROVE j \in lo .. hi - 1
    <3>1. PICK m \in DOMAIN D : D[m].at <= j /\ j < Stop(D[m])
      BY <2>10 DEF Held
    <3>2. lo <= D[m].at /\ Stop(D[m]) <= hi
      BY <2>4, <2>5
    <3>3. j \in Nat /\ D[m].at \in Nat /\ Stop(D[m]) \in Nat
      BY <1>1, <1>3
    <3> QED
      BY <2>8, <3>1, <3>2, <3>3
  <2> QED
    BY <1>4, <2>8, <2>9, <2>10 DEF n
<1> QED
  BY <1>5, <1>6

\* deflateMT and inflateChunk (a load of many files): there is a chunk, what a
\* worker inflates from one is the array between its Start and its End, and
\* every value that is not zero lies in the range of some chunk.
THEOREM ChunksHoldTheArray ==
  ASSUME NEW arr, IsArray(arr), NEW C, C = deflateMT(arr)
  PROVE  /\ Len(C) >= 1
         /\ \A c \in DOMAIN C : \A i \in Start(C[c]) .. End(C[c]) - 1 :
              i \in DOMAIN arr /\ inflateChunk(C[c], Start(C[c]), End(C[c]))[i] = arr[i]
         /\ \A j \in DOMAIN arr :
              arr[j] # 0 => \E c \in DOMAIN C : j \in Start(C[c]) .. End(C[c]) - 1
<1>1. /\ Len(C) >= 1 /\ \A c \in DOMAIN C : Faithful(arr, C[c])
      /\ \A j \in DOMAIN arr : arr[j] # 0 => \E c \in DOMAIN C : Held(C[c], j)
  BY DeflateMTHolds, Zenon DEF Chunked
<1>2. ASSUME NEW c \in DOMAIN C
      PROVE  /\ \A i \in Start(C[c]) .. End(C[c]) - 1 :
                  i \in DOMAIN arr /\ inflateChunk(C[c], Start(C[c]), End(C[c]))[i] = arr[i]
             /\ \A j \in DOMAIN arr : Held(C[c], j) => j \in Start(C[c]) .. End(C[c]) - 1
  <2> DEFINE D == C[c]
             lo == Start(D)
             hi == End(D)
  <2>1. Faithful(arr, D) /\ lo = Start(D) /\ hi = End(D)
    BY <1>1
  <2> HIDE DEF D, lo, hi
  <2>2. /\ \A i \in lo .. hi - 1 : i \in DOMAIN arr /\ inflateChunk(D, lo, hi)[i] = arr[i]
        /\ \A j \in DOMAIN arr : Held(D, j) => j \in lo .. hi - 1
    BY <2>1, PartCovers
  <2> QED
    BY <2>2 DEF D, lo, hi
<1> QED
  BY <1>1, <1>2

-----------------------------------------------------------------------------
(* The processes.                                                          *)

All == UNION Shelves
Numbers(d) == 1 .. NumFiles(d)

-----------------------------------------------------------------------------
(* The files of a data set.                                                *)

\* The chunk file c of a label, and the recursion over the labels.
FileOf(data, b, c) == [label |-> b, dense |-> deflateMT(data[b])[c]]
FilesOf(data, b) == [c \in 1 .. Len(deflateMT(data[b])) |-> FileOf(data, b, c)]
EveryFile(data) ==
  UNION {{FileOf(data, b, c) : c \in 1 .. Len(deflateMT(data[b]))} : b \in Labels}
NumLabels == Cardinality(Labels)
UpToLabel(data, g, i) == IF i = 0 THEN <<>> ELSE g[i - 1] \o FilesOf(data, LabelSeq[i])
IsSummary(data, g) == g = [i \in 0 .. NumLabels |-> UpToLabel(data, g, i)]
LEMMA SummaryDef ==
  ASSUME NEW data
  PROVE  Summary(data) = (CHOOSE g : IsSummary(data, g))[NumLabels]
BY DEF Summary, IsSummary, UpToLabel, FilesOf, FileOf, NumLabels

\* The labels are numbered.
LEMMA LabelNumbers ==
  /\ NumLabels \in Nat \ {0}
  /\ \A i \in 1 .. NumLabels : LabelSeq[i] \in Labels
  /\ \A b \in Labels : \E i \in 1 .. NumLabels : LabelSeq[i] = b
<1> DEFINE n == Cardinality(Labels)
           Lists(s) == s \in [1 .. n -> Labels] /\ \A b \in Labels : \E i \in DOMAIN s : s[i] = b
<1>1. n \in Nat /\ ExistsBijection(1 .. n, Labels)
  BY LabelsAreFinite, FS_CardinalityType
<1>2. n # 0
  BY LabelsAreFinite, FS_EmptySet
<1>3. \E s \in [1 .. n -> Labels] : \A b \in Labels : \E i \in DOMAIN s : s[i] = b
  <2>1. PICK s \in Bijection(1 .. n, Labels) : TRUE
    BY <1>1 DEF ExistsBijection
  <2>2. s \in [1 .. n -> Labels] /\ \A b \in Labels : \E i \in 1 .. n : s[i] = b
    BY DEF Bijection, Surjection, Injection
  <2> QED
    BY <2>2
<1>4. LabelSeq \in [1 .. n -> Labels] /\ \A b \in Labels : \E i \in DOMAIN LabelSeq : LabelSeq[i] = b
  BY <1>3, Zenon DEF LabelSeq
<1> QED
  BY <1>1, <1>2, <1>4 DEF NumLabels

\* The recursion over the labels defines a function.
LEMMA SummaryExists ==
  ASSUME NEW data
  PROVE  \E g : IsSummary(data, g)
<1> DEFINE last == NumLabels
           Good(g, k) == g = [i \in 0 .. last |-> g[i]] /\ \A i \in 0 .. k : g[i] = UpToLabel(data, g, i)
           P == {k \in 0 .. last : \E g : Good(g, k)}
<1>1. last \in Nat
  BY LabelNumbers
<1> HIDE DEF last
<1>2. 0 \in P
  <2> DEFINE g == [i \in 0 .. last |-> <<>>]
  <2>1. \A i \in 0 .. 0 : i = 0 /\ i \in 0 .. last
    BY <1>1
  <2>2. \A i \in 0 .. 0 : g[i] = UpToLabel(data, g, i)
    BY <2>1, Zenon DEF UpToLabel
  <2>3. Good(g, 0)
    BY <2>2
  <2> HIDE DEF g
  <2> QED
    BY <1>1, <2>3
<1>3. ASSUME NEW k \in 0 .. last - 1, k \in P PROVE k + 1 \in P
  <2>1. PICK g : Good(g, k)
    BY <1>3
  <2> DEFINE new == g[k] \o FilesOf(data, LabelSeq[k + 1])
             h == [g EXCEPT ![k + 1] = new]
  <2>2. k \in Nat /\ k + 1 \in 0 .. last /\ k \in 0 .. last /\ 0 \in 0 .. last
    BY <1>1
  <2>3. h = [i \in 0 .. last |-> IF i = k + 1 THEN new ELSE g[i]]
    BY <2>1, <2>2, Zenon
  <2> HIDE DEF h
  <2>4. h = [i \in 0 .. last |-> h[i]]
    BY <2>3
  <2>5. ASSUME NEW i \in 0 .. k PROVE h[i] = g[i]
    <3>1. i \in 0 .. last /\ i # k + 1
      BY <1>1, <2>2
    <3> QED
      BY <2>3, <3>1
  <2>6. h[k + 1] = g[k] \o FilesOf(data, LabelSeq[k + 1])
    BY <2>2, <2>3
  <2> HIDE DEF new
  <2>7. ASSUME NEW i \in 0 .. k + 1 PROVE h[i] = UpToLabel(data, h, i)
    <3>1. CASE i = k + 1
      <4>1. k + 1 # 0 /\ (k + 1) - 1 = k /\ k \in 0 .. k
        BY <2>2
      <4>2. h[k] = g[k]
        BY <2>5, <4>1
      <4> QED
        BY <2>6, <3>1, <4>1, <4>2 DEF UpToLabel
    <3>2. CASE i # k + 1
      <4>1. i \in 0 .. k
        BY <2>2, <3>2
      <4>2. h[i] = UpToLabel(data, g, i)
        BY <2>1, <2>5, <4>1
      <4>3. CASE i = 0
        BY <4>2, <4>3, Zenon DEF UpToLabel
      <4>4. CASE i # 0
        <5>1. i - 1 \in 0 .. k
          BY <2>2, <4>1, <4>4
        <5>2. h[i - 1] = g[i - 1]
          BY <2>5, <5>1
        <5> QED
          BY <4>2, <4>4, <5>2, Zenon DEF UpToLabel
      <4> QED
        BY <4>3, <4>4
    <3> QED
      BY <3>1, <3>2
  <2>8. Good(h, k + 1)
    BY <2>4, <2>7
  <2> QED
    BY <2>2, <2>8
<1>4. last \in P
  <2> HIDE DEF P
  <2>1. \A k \in 0 .. last : k \in P
    BY <1>1, <1>2, <1>3, CountingUp
  <2> QED
    BY <1>1, <2>1
<1>5. PICK g : Good(g, last)
  BY <1>4
<1>6. IsSummary(data, g)
  <2>1. g = [i \in 0 .. last |-> g[i]] /\ \A i \in 0 .. last : g[i] = UpToLabel(data, g, i)
    BY <1>5
  <2>2. g = [i \in 0 .. last |-> UpToLabel(data, g, i)]
    BY <2>1
  <2> QED
    BY <2>2, Zenon DEF IsSummary, last
<1> QED
  BY <1>6

\* One sequence behind another.
AreJoined(S, s, t, u) == s \in Seq(S) /\ t \in Seq(S) /\ u = s \o t
LEMMA Joined ==
  ASSUME NEW S, NEW s, NEW t, NEW u, AreJoined(S, s, t, u)
  PROVE  /\ u \in Seq(S)
         /\ \A k \in DOMAIN s : \E m \in DOMAIN u : u[m] = s[k]
         /\ \A k \in DOMAIN t : \E m \in DOMAIN u : u[m] = t[k]
<1>1. /\ u \in Seq(S) /\ Len(u) = Len(s) + Len(t)
      /\ \A k \in 1 .. Len(s) + Len(t) : u[k] = IF k <= Len(s) THEN s[k] ELSE t[k - Len(s)]
  BY ConcatProperties DEF AreJoined
<1>2. /\ DOMAIN u = 1 .. Len(s) + Len(t) /\ DOMAIN s = 1 .. Len(s) /\ DOMAIN t = 1 .. Len(t)
      /\ Len(s) \in Nat /\ Len(t) \in Nat
  BY <1>1 DEF AreJoined
<1>3. \A k \in DOMAIN s : k \in DOMAIN u /\ u[k] = s[k]
  BY <1>1, <1>2
<1>4. ASSUME NEW k \in DOMAIN t PROVE Len(s) + k \in DOMAIN u /\ u[Len(s) + k] = t[k]
  <2>1. Len(s) + k \in 1 .. Len(s) + Len(t) /\ ~(Len(s) + k <= Len(s)) /\ (Len(s) + k) - Len(s) = k
    BY <1>2
  <2> QED
    BY <1>1, <1>2, <2>1
<1> QED
  BY <1>1, <1>3, <1>4

\* The summary lists the chunk files of the labels, each of them and no others.
LEMMA SummaryLists ==
  ASSUME NEW data, \A b \in Labels : Len(deflateMT(data[b])) \in Nat
  PROVE  /\ Summary(data) \in Seq(EveryFile(data))
         /\ \A b \in Labels : \A c \in 1 .. Len(deflateMT(data[b])) :
              \E i \in DOMAIN Summary(data) : Summary(data)[i] = FileOf(data, b, c)
<1> DEFINE g == CHOOSE g : IsSummary(data, g)
           S == EveryFile(data)
           Lists(i, b) == \A c \in 1 .. Len(deflateMT(data[b])) : \E k \in DOMAIN g[i] : g[i][k] = FileOf(data, b, c)
           P == {i \in 0 .. NumLabels : g[i] \in Seq(S) /\ \A j \in 1 .. i : Lists(i, LabelSeq[j])}
<1>1. IsSummary(data, g)
  BY SummaryExists
<1>2. Summary(data) = g[NumLabels]
  BY SummaryDef
<1> HIDE DEF g
<1>3. NumLabels \in Nat /\ \A i \in 0 .. NumLabels : g[i] = UpToLabel(data, g, i)
  BY <1>1, LabelNumbers, Zenon DEF IsSummary
<1>4. 0 \in P
  <2>1. g[0] = <<>> /\ <<>> \in Seq(S)
    BY <1>3 DEF UpToLabel
  <2>2. \A j \in 1 .. 0 : FALSE
    OBVIOUS
  <2>3. 0 \in 0 .. NumLabels
    BY <1>3
  <2> HIDE DEF Lists, S
  <2> QED
    BY <2>1, <2>2, <2>3
<1>5. ASSUME NEW k \in 0 .. NumLabels - 1, k \in P PROVE k + 1 \in P
  <2> DEFINE b == LabelSeq[k + 1]
             t == FilesOf(data, b)
             u == g[k + 1]
  <2>1. k \in Nat /\ k + 1 \in 0 .. NumLabels /\ k + 1 \in 1 .. NumLabels /\ (k + 1) - 1 = k /\ k + 1 # 0
    BY <1>3
  <2>2. b \in Labels
    BY <2>1, LabelNumbers
  <2>3. u = g[k] \o t
    BY <1>3, <2>1 DEF UpToLabel
  <2> HIDE DEF b
  <2>4. Len(deflateMT(data[b])) \in Nat
    BY <2>2
  <2>5. \A c \in 1 .. Len(deflateMT(data[b])) : FileOf(data, b, c) \in S
        /\ c \in DOMAIN t /\ t[c] = FileOf(data, b, c)
    <3> SUFFICES ASSUME NEW c \in 1 .. Len(deflateMT(data[b]))
                 PROVE  FileOf(data, b, c) \in S /\ c \in DOMAIN t /\ t[c] = FileOf(data, b, c)
      OBVIOUS
    <3>1. FileOf(data, b, c) \in {FileOf(data, b, k2) : k2 \in 1 .. Len(deflateMT(data[b]))}
      OBVIOUS
    <3>2. FileOf(data, b, c) \in S
      BY <2>2, <3>1, Zenon DEF EveryFile
    <3>3. c \in DOMAIN t /\ t[c] = FileOf(data, b, c)
      BY Zenon DEF FilesOf
    <3> QED
      BY <3>2, <3>3
  <2>6. t \in Seq(S)
    <3>1. t \in [1 .. Len(deflateMT(data[b])) -> S]
      BY <2>5 DEF FilesOf
    <3> HIDE DEF t, S
    <3> QED
      BY <2>4, <3>1
  <2>7. g[k] \in Seq(S) /\ \A j \in 1 .. k : Lists(k, LabelSeq[j])
    BY <1>5
  <2> HIDE DEF u, t, S
  <2>8. /\ u \in Seq(S)
        /\ \A m \in DOMAIN g[k] : \E n \in DOMAIN u : u[n] = g[k][m]
        /\ \A m \in DOMAIN t : \E n \in DOMAIN u : u[n] = t[m]
    <3> DEFINE s == g[k]
    <3>1. AreJoined(S, s, t, u)
      BY <2>3, <2>6, <2>7 DEF AreJoined
    <3> HIDE DEF s
    <3>2. /\ u \in Seq(S)
          /\ \A m \in DOMAIN s : \E n \in DOMAIN u : u[n] = s[m]
          /\ \A m \in DOMAIN t : \E n \in DOMAIN u : u[n] = t[m]
      BY <3>1, Joined
    <3> QED
      BY <3>2 DEF s
  <2>9. Lists(k + 1, b)
    BY <2>5, <2>8 DEF u
  <2>10. ASSUME NEW j \in 1 .. k PROVE Lists(k + 1, LabelSeq[j])
    <3> SUFFICES ASSUME NEW c \in 1 .. Len(deflateMT(data[LabelSeq[j]]))
                 PROVE  \E n \in DOMAIN u : u[n] = FileOf(data, LabelSeq[j], c)
      BY DEF u
    <3>1. PICK m \in DOMAIN g[k] : g[k][m] = FileOf(data, LabelSeq[j], c)
      BY <2>7
    <3> QED
      BY <2>8, <3>1
  <2>11. \A j \in 1 .. k + 1 : j \in 1 .. k \/ j = k + 1
    BY <2>1
  <2>12. \A j \in 1 .. k + 1 : Lists(k + 1, LabelSeq[j])
    BY <2>9, <2>10, <2>11 DEF b
  <2> QED
    BY <2>1, <2>8, <2>12 DEF u
<1>6. NumLabels \in P
  <2>1. \A k \in 0 .. NumLabels : k \in P
    <3> HIDE DEF P
    <3> QED
      BY <1>3, <1>4, <1>5, CountingUp
  <2>2. NumLabels \in 0 .. NumLabels
    BY <1>3
  <2> HIDE DEF P
  <2> QED
    BY <2>1, <2>2
<1>7. \A b \in Labels : Lists(NumLabels, b)
  <2>1. \A j \in 1 .. NumLabels : Lists(NumLabels, LabelSeq[j])
    BY <1>6
  <2> HIDE DEF Lists
  <2> QED
    BY <2>1, LabelNumbers
<1> QED
  BY <1>2, <1>6, <1>7

\* The files of a data set: at least one; each is part of the array of its label;
\* every value that is not zero is in one of them.
LEMMA FileFacts ==
  ASSUME NEW d \in All
  PROVE  /\ NumFiles(d) \in Nat \ {0} /\ \A b \in Labels : IsArray(Data[d][b])
         /\ \A i \in Numbers(d) : /\ Files[d][i].label \in Labels
                                 /\ Faithful(Data[d][Files[d][i].label], Files[d][i].dense)
         /\ \A b \in Labels : \A j \in DOMAIN Data[d][b] :
              Data[d][b][j] # 0 => \E i \in Numbers(d) : Files[d][i].label = b /\ Held(Files[d][i].dense, j)
<1> DEFINE data == Data[d]
           f == Summary(data)
<1>1. d \in DOMAIN Data /\ \A b \in Labels : IsArray(data[b])
  BY DataSetsAreArrays DEF All
<1>2. Files[d] = f
  BY <1>1 DEF Files
<1>3. \A b \in Labels : Chunked(data[b], deflateMT(data[b]))
  BY <1>1, DeflateMTHolds
<1>4. ASSUME NEW b \in Labels
      PROVE  /\ Len(deflateMT(data[b])) \in Nat /\ Len(deflateMT(data[b])) >= 1
             /\ DOMAIN deflateMT(data[b]) = 1 .. Len(deflateMT(data[b]))
             /\ \A c \in 1 .. Len(deflateMT(data[b])) : Faithful(data[b], deflateMT(data[b])[c])
             /\ \A j \in DOMAIN data[b] :
                  data[b][j] # 0 => \E c \in 1 .. Len(deflateMT(data[b])) : Held(deflateMT(data[b])[c], j)
  <2> DEFINE arr == data[b]
             C == deflateMT(arr)
  <2>1. Chunked(arr, C)
    BY <1>3
  <2> HIDE DEF C, arr
  <2>2. /\ C \in Seq(Seq(Pieces(arr))) /\ Len(C) >= 1
        /\ \A c \in DOMAIN C : Faithful(arr, C[c])
        /\ \A j \in DOMAIN arr : arr[j] # 0 => \E c \in DOMAIN C : Held(C[c], j)
    BY <2>1, Zenon DEF Chunked
  <2>3. Len(C) \in Nat /\ DOMAIN C = 1 .. Len(C)
    BY <2>2
  <2> QED
    BY <2>2, <2>3 DEF C, arr
<1>5. /\ f \in Seq(EveryFile(data))
      /\ \A b \in Labels : \A c \in 1 .. Len(deflateMT(data[b])) : \E i \in DOMAIN f : f[i] = FileOf(data, b, c)
  <2> HIDE DEF data
  <2> QED
    BY <1>4, SummaryLists
<1> HIDE DEF data, f
<1>6. Len(f) \in Nat /\ DOMAIN f = 1 .. Len(f) /\ Len(f) = NumFiles(d) /\ Numbers(d) = DOMAIN f
  BY <1>2, <1>5 DEF NumFiles, Numbers
<1>7. NumFiles(d) # 0
  <2>1. PICK b \in Labels : TRUE
    BY LabelsAreFinite
  <2>2. 1 \in 1 .. Len(deflateMT(data[b]))
    BY <1>4
  <2>3. \E i \in DOMAIN f : f[i] = FileOf(data, b, 1)
    BY <1>5, <2>2
  <2> QED
    BY <1>6, <2>3
<1>8. ASSUME NEW i \in Numbers(d) PROVE f[i].label \in Labels /\ Faithful(data[f[i].label], f[i].dense)
  <2>1. f[i] \in EveryFile(data)
    BY <1>5, <1>6
  <2>a. PICK b \in Labels : f[i] \in {FileOf(data, b, c) : c \in 1 .. Len(deflateMT(data[b]))}
    BY <2>1, Zenon DEF EveryFile
  <2>2. PICK c \in 1 .. Len(deflateMT(data[b])) : f[i] = FileOf(data, b, c)
    BY <2>a
  <2>3. f[i].label = b /\ f[i].dense = deflateMT(data[b])[c]
    BY <2>2 DEF FileOf
  <2> QED
    BY <1>4, <2>2, <2>3
<1>9. ASSUME NEW b \in Labels, NEW j \in DOMAIN data[b], data[b][j] # 0
      PROVE  \E i \in Numbers(d) : f[i].label = b /\ Held(f[i].dense, j)
  <2>1. PICK c \in 1 .. Len(deflateMT(data[b])) : Held(deflateMT(data[b])[c], j)
    BY <1>4, <1>9
  <2>2. PICK i \in DOMAIN f : f[i] = FileOf(data, b, c)
    BY <1>5
  <2>3. f[i].label = b /\ f[i].dense = deflateMT(data[b])[c]
    BY <2>2 DEF FileOf
  <2> QED
    BY <1>6, <2>1, <2>2, <2>3
<1> QED
  BY <1>1, <1>2, <1>6, <1>7, <1>8, <1>9 DEF data

-----------------------------------------------------------------------------
(* The digest.                                                             *)

Answered == NumFiles(job.data) - Cardinality(job.pending)

\* done counts the files written, or, once a write failed, stays behind the
\* number of callbacks by two at least and so never gets to their number
Counting ==
  /\ job.data \in All /\ job.pending \subseteq Numbers(job.data)
  /\ job.done \in Int /\ job.failed \in BOOLEAN /\ -1 <= job.done
  /\ ~job.failed => /\ job.done = Answered
                    /\ \A i \in Numbers(job.data) \ job.pending : <<job.data, i>> \in disk.files
  /\ job.failed => job.done <= Answered - 2

JobRecords == [data : All, pending : SUBSET Nat, done : Int, failed : BOOLEAN]

CompressInv ==
  /\ shelf \in Shelves
  /\ job = NoJob \/ (job \in JobRecords /\ Counting)
  /\ disk = [files |-> disk.files, digests |-> disk.digests]
  /\ disk.digests \subseteq All
  /\ DigestIsComplete

\* The numbers of the files of a data set, and any that are pending, can be counted.
LEMMA PendingIsFinite ==
  ASSUME NEW d \in All, NEW p \in SUBSET Numbers(d)
  PROVE  /\ NumFiles(d) \in Nat \ {0}
         /\ IsFiniteSet(Numbers(d)) /\ Cardinality(Numbers(d)) = NumFiles(d)
         /\ IsFiniteSet(p) /\ Cardinality(p) \in Nat /\ Cardinality(p) <= NumFiles(d)
         /\ Cardinality(p) = 0 => p = {}
<1>1. NumFiles(d) \in Nat \ {0}
  BY FileFacts
<1>2. IsFiniteSet(Numbers(d)) /\ Cardinality(Numbers(d)) = NumFiles(d)
  BY <1>1, FS_Interval DEF Numbers
<1> QED
  BY <1>1, <1>2, FS_Subset, FS_CardinalityType, FS_EmptySet

\* compress hands out all its files at once.
LEMMA CompressStart ==
  ASSUME CompressInv, NEW d \in shelf, Compress(d)
  PROVE  CompressInv'
<1>1. /\ job' = [data |-> d, pending |-> Numbers(d), done |-> 0, failed |-> FALSE]
      /\ UNCHANGED <<shelf, disk>>
  BY DEF Compress, Numbers
<1>2. d \in All
  BY DEF CompressInv, All
<1>3. NumFiles(d) \in Nat /\ Cardinality(Numbers(d)) = NumFiles(d) /\ Numbers(d) \subseteq Nat
  <2>1. NumFiles(d) \in Nat /\ Cardinality(Numbers(d)) = NumFiles(d)
    BY <1>2, PendingIsFinite
  <2>2. Numbers(d) \subseteq Nat
    BY <2>1 DEF Numbers
  <2>3. QED
    BY <2>1, <2>2
<1>4. job' \in JobRecords
  BY <1>1, <1>2, <1>3 DEF JobRecords
<1>5. Counting'
  BY <1>1, <1>2, <1>3 DEF Counting, Answered, Numbers
<1> QED
  BY <1>1, <1>4, <1>5 DEF CompressInv, DigestIsComplete

\* A write ends, well or with an error.
LEMMA CompressWrite ==
  ASSUME CompressInv, NEW i, NEW err \in BOOLEAN, WriteEnds(i, err)
  PROVE  CompressInv'
<1>1. /\ job \in JobRecords /\ Counting /\ i \in job.pending
      /\ job' = [job EXCEPT !.pending = @ \ {i}, !.done = Count(err, @), !.failed = @ \/ err]
      /\ disk' = IF err THEN disk ELSE [disk EXCEPT !.files = @ \cup {<<job.data, i>>}]
      /\ shelf' = shelf
  BY DEF WriteEnds, CompressInv
<1>2. /\ job.data \in All /\ job.pending \subseteq Numbers(job.data)
      /\ job.done \in Int /\ job.failed \in BOOLEAN
  BY <1>1 DEF Counting
<1>3. /\ job'.data = job.data /\ job'.pending = job.pending \ {i}
      /\ job'.done = Count(err, job.done) /\ job'.failed = (job.failed \/ err)
  BY <1>1 DEF JobRecords
<1>4. /\ disk'.digests = disk.digests /\ disk' = [files |-> disk'.files, digests |-> disk'.digests]
      /\ disk.files \subseteq disk'.files /\ (~err => <<job.data, i>> \in disk'.files)
  BY <1>1 DEF CompressInv
<1>5. Cardinality(job'.pending) = Cardinality(job.pending) - 1 /\ Cardinality(job.pending) \in Nat
  BY <1>1, <1>2, <1>3, PendingIsFinite, FS_RemoveElement
<1>6. NumFiles(job.data) \in Nat /\ Answered' = Answered + 1 /\ Answered \in Int
  BY <1>2, <1>3, <1>5, PendingIsFinite DEF Answered
<1>7. job' \in JobRecords
  <2>1. Count(err, job.done) \in Int
    BY <1>2 DEF Count
  <2> QED
    BY <1>1, <1>2, <2>1 DEF JobRecords
<1>8. Counting'
  <2>1. job'.data \in All /\ job'.pending \subseteq Numbers(job'.data)
    BY <1>2, <1>3
  <2>2. job'.done \in Int /\ job'.failed \in BOOLEAN /\ -1 <= job'.done
    BY <1>1, <1>2, <1>3 DEF Count, Counting
  <2>3. ASSUME ~job'.failed
        PROVE  /\ job'.done = Answered'
               /\ \A k \in Numbers(job'.data) \ job'.pending : <<job'.data, k>> \in disk'.files
    <3>1. ~job.failed /\ ~err
      BY <1>3, <2>3
    <3>2. job'.done = Answered'
      BY <1>1, <1>3, <1>6, <3>1 DEF Counting, Count
    <3>3. \A k \in Numbers(job.data) \ job.pending : <<job.data, k>> \in disk.files
      BY <1>1, <3>1 DEF Counting
    <3> QED
      BY <1>3, <1>4, <3>1, <3>2, <3>3
  <2>4. ASSUME job'.failed PROVE job'.done <= Answered' - 2
    <3>1. CASE job.failed
      BY <1>1, <1>2, <1>3, <1>6, <3>1 DEF Counting, Count
    <3>2. CASE ~job.failed
      <4>1. err
        BY <1>3, <2>4, <3>2
      <4>2. Answered >= 0
        BY <1>2, PendingIsFinite DEF Answered
      <4> QED
        BY <1>3, <1>6, <4>1, <4>2 DEF Count
    <3> QED
      BY <3>1, <3>2
  <2> QED
    BY <2>1, <2>2, <2>3, <2>4 DEF Counting
<1>9. DigestIsComplete'
  BY <1>4 DEF CompressInv, DigestIsComplete
<1> QED
  BY <1>1, <1>4, <1>7, <1>8, <1>9 DEF CompressInv

\* The digest is written after the last success only.
LEMMA CompressDigest ==
  ASSUME CompressInv, NEW err \in BOOLEAN, WriteDigest(err)
  PROVE  CompressInv'
<1>1. /\ job \in JobRecords /\ Counting /\ job.done = NumFiles(job.data)
      /\ disk' = IF err THEN disk ELSE [disk EXCEPT !.digests = @ \cup {job.data}]
      /\ job' = NoJob /\ shelf' = shelf
  BY DEF WriteDigest, CompressInv
<1>2. /\ job.data \in All /\ Cardinality(job.pending) \in Nat /\ NumFiles(job.data) \in Nat
      /\ Cardinality(job.pending) = 0 => job.pending = {}
  BY <1>1, PendingIsFinite DEF Counting
<1>3. ~job.failed /\ job.pending = {}
  BY <1>1, <1>2 DEF Counting, Answered
<1>4. \A i \in Numbers(job.data) : <<job.data, i>> \in disk.files
  BY <1>1, <1>3 DEF Counting
<1>5. /\ disk'.files = disk.files /\ disk'.digests \subseteq disk.digests \cup {job.data}
      /\ disk' = [files |-> disk'.files, digests |-> disk'.digests]
  BY <1>1 DEF CompressInv
<1>6. DigestIsComplete'
  BY <1>4, <1>5 DEF CompressInv, DigestIsComplete, Numbers
<1> QED
  BY <1>1, <1>2, <1>5, <1>6 DEF CompressInv

\* Each step keeps the invariant of compress.
LEMMA CompressStep == CompressInv /\ [Next]_vars => CompressInv'
<1> SUFFICES ASSUME CompressInv, [Next]_vars PROVE CompressInv'
  OBVIOUS
<1>1. ASSUME UNCHANGED <<shelf, disk, job>> PROVE CompressInv'
  BY <1>1 DEF CompressInv, Counting, Answered, DigestIsComplete
<1>2. CASE \E l \in Loads : \/ \E d \in shelf, kind \in {"mt", "flat"} : StartLoad(l, d, kind)
                            \/ Answer(l)
  <2>1. ASSUME NEW l \in Loads, NEW d \in shelf, NEW kind \in {"mt", "flat"}, StartLoad(l, d, kind)
        PROVE  UNCHANGED <<shelf, disk, job>>
    BY <2>1 DEF StartLoad
  <2>2. ASSUME NEW l \in Loads, DigestLost(l) \/ DigestArrivesMt(l) \/ DigestArrivesFlat(l)
        PROVE  UNCHANGED <<shelf, disk, job>>
    BY <2>2 DEF DigestLost, DigestArrivesMt, DigestArrivesFlat
  <2>3. ASSUME NEW l \in Loads, NEW w \in Workers,
               ChunkLost(l, w) \/ ChunkRejected(l, w) \/ ChunkArrives(l, w)
        PROVE  UNCHANGED <<shelf, disk, job>>
    BY <2>3 DEF ChunkLost, ChunkRejected, ChunkArrives
  <2> QED
    BY <1>1, <1>2, <2>1, <2>2, <2>3, Zenon DEF Answer
<1>3. CASE UNCHANGED vars
  BY <1>1, <1>3 DEF vars
<1> QED
  BY <1>2, <1>3, CompressStart, CompressWrite, CompressDigest DEF Next

\* Whichever writes fail and in whatever order they end, a digest is on the disk
\* only with all its files, for any data sets
THEOREM DigestsAreComplete == Spec => []DigestIsComplete
<1>1. Init => CompressInv
  BY DEF Init, CompressInv, DigestIsComplete
<1>2. CompressInv => DigestIsComplete
  BY DEF CompressInv
<1> QED
  BY <1>1, <1>2, CompressStep, PTL DEF Spec

-----------------------------------------------------------------------------
(* The files of a load.                                                    *)

ChunkRecords ==
  [state : {"chunks"}, data : All, ready : Nat, applied : SUBSET Nat, next : Nat,
   worker : [Workers -> Int], mixed : BOOLEAN]

BusyOf(f) == {w \in Workers : f[w] > Off}
StuckOf(f) == {w \in Workers : f[w] = Stuck}

\* FilesAreAccountedFor of one load, with the numbers that were handed out
Accounted(d, ready, applied, next, f) ==
  /\ next \in 1 .. NumFiles(d) + 1
  /\ f \in [Workers -> Stuck .. NumFiles(d)]
  /\ applied \subseteq 1 .. next - 1
  /\ \A w \in Workers : f[w] > Off => f[w] < next /\ f[w] \notin applied
  /\ \A v, w \in Workers : f[v] > Off /\ f[w] = f[v] => v = w
  /\ ready = Cardinality(applied)
  /\ next - 1 = ready + Cardinality(BusyOf(f)) + Cardinality(StuckOf(f))

Shape(r) ==
  \/ r \in {NoLoad, [state |-> "lost"]}
  \/ r \in [state : {"digest"}, data : All, kind : {"mt", "flat"}]
  \/ r \in ChunkRecords /\ Accounted(r.data, r.ready, r.applied, r.next, r.worker)
  \/ r.state = "done" /\ r.applied = Numbers(r.data)

LoadInv ==
  /\ CompressInv
  /\ load = [l \in Loads |-> load[l]]
  /\ \A l \in Loads : Shape(load[l])

\* The workers are numbered, and those busy or stuck can be counted.
LEMMA WorkerSets ==
  /\ IsFiniteSet(Workers)
  /\ Cardinality(Workers) \in Nat \ {0} /\ Workers = 1 .. Cardinality(Workers)
  /\ \A f : /\ IsFiniteSet(BusyOf(f)) /\ Cardinality(BusyOf(f)) \in Nat
            /\ IsFiniteSet(StuckOf(f)) /\ Cardinality(StuckOf(f)) \in Nat
<1>1. IsFiniteSet(Workers) /\ Cardinality(Workers) \in Nat /\ Workers = 1 .. Cardinality(Workers)
  BY WorkersAreNumbered, FS_CardinalityType
<1>2. Cardinality(Workers) # 0
  BY <1>1, WorkersAreNumbered, FS_EmptySet
<1>3. \A f : BusyOf(f) \in SUBSET Workers /\ StuckOf(f) \in SUBSET Workers
  BY DEF BusyOf, StuckOf
<1> QED
  BY <1>1, <1>2, <1>3, FS_Subset, FS_CardinalityType

\* The smaller of two numbers.
LEMMA SmallerOfTwo ==
  ASSUME NEW a \in Int, NEW b \in Int
  PROVE  Min({a, b}) = IF a <= b THEN a ELSE b
<1> DEFINE x == IF a <= b THEN a ELSE b
<1>1. x \in {a, b} /\ \A y \in {a, b} : x <= y
  OBVIOUS
<1>2. \A z \in {a, b} : (\A y \in {a, b} : z <= y) => z = x
  OBVIOUS
<1> HIDE DEF x
<1>3. Min({a, b}) \in {a, b} /\ \A y \in {a, b} : Min({a, b}) <= y
  BY <1>1, Zenon DEF Min
<1>4. Min({a, b}) = x
  BY <1>2, <1>3
<1> QED
  BY <1>4 DEF x

\* The launch: the first workers have the first files
LEMMA LaunchIsAccounted ==
  ASSUME NEW d \in All
  PROVE  Accounted(d, 0, {}, Min({Cardinality(Workers), NumFiles(d)}) + 1, Launched(d))
<1> DEFINE c == Cardinality(Workers)
           n == Min({c, NumFiles(d)})
           f == Launched(d)
<1>1. NumFiles(d) \in Nat \ {0} /\ c \in Nat \ {0} /\ Workers = 1 .. c
  BY WorkerSets, PendingIsFinite
<1>2. n \in Nat \ {0} /\ n <= c /\ n <= NumFiles(d)
  BY <1>1, SmallerOfTwo
<1> HIDE DEF c, n
<1>3. f = [w \in Workers |-> IF w <= n THEN w ELSE Off]
  BY DEF Launched, n, c
<1>4. BusyOf(f) = 1 .. n
  BY <1>1, <1>2, <1>3 DEF BusyOf, Off
<1>5. StuckOf(f) = {}
  BY <1>1, <1>2, <1>3 DEF StuckOf, Off, Stuck
<1>6. Cardinality(BusyOf(f)) = n /\ Cardinality(StuckOf(f)) = 0 /\ Cardinality({}) = 0
  BY <1>2, <1>4, <1>5, FS_Interval, FS_EmptySet
<1>7. f \in [Workers -> Stuck .. NumFiles(d)]
  BY <1>1, <1>2, <1>3 DEF Off, Stuck
<1>8. \A w \in Workers : f[w] > Off => f[w] < n + 1
  BY <1>1, <1>2, <1>3 DEF Off
<1>9. \A v, w \in Workers : f[v] > Off /\ f[w] = f[v] => v = w
  BY <1>1, <1>2, <1>3 DEF Off
<1> HIDE DEF f
<1>10. Accounted(d, 0, {}, n + 1, f)
  BY <1>1, <1>2, <1>6, <1>7, <1>8, <1>9 DEF Accounted
<1> QED
  BY <1>10 DEF n, c, f

\* A message: the worker's file is applied and the worker gets the next one
LEMMA ArrivalIsAccounted ==
  ASSUME NEW d \in All, NEW ready \in Nat, NEW applied, NEW next, NEW f, NEW w \in Workers,
         Accounted(d, ready, applied, next, f), f[w] > Off,
         NEW g, g = [f EXCEPT ![w] = IF next <= NumFiles(d) THEN next ELSE Off]
  PROVE  /\ Accounted(d, ready + 1, applied \cup {f[w]},
                      IF next <= NumFiles(d) THEN next + 1 ELSE next, g)
         /\ ready + 1 = NumFiles(d) => applied \cup {f[w]} = Numbers(d)
<1> DEFINE next2 == IF next <= NumFiles(d) THEN next + 1 ELSE next
           applied2 == applied \cup {f[w]}
<1>1. /\ NumFiles(d) \in Nat \ {0} /\ next \in 1 .. NumFiles(d) + 1
      /\ f \in [Workers -> Stuck .. NumFiles(d)] /\ applied \subseteq 1 .. next - 1
      /\ f[w] < next /\ f[w] \notin applied /\ f[w] \in 1 .. NumFiles(d)
      /\ next2 \in 1 .. NumFiles(d) + 1
  <2>1. NumFiles(d) \in Nat \ {0}
    BY PendingIsFinite
  <2>2. /\ next \in 1 .. NumFiles(d) + 1
        /\ f \in [Workers -> Stuck .. NumFiles(d)] /\ applied \subseteq 1 .. next - 1
        /\ f[w] < next /\ f[w] \notin applied
    BY DEF Accounted
  <2>3. f[w] \in Stuck .. NumFiles(d)
    BY <2>2
  <2>4. f[w] \in 1 .. NumFiles(d)
    BY <2>1, <2>3 DEF Off, Stuck
  <2> QED
    BY <2>1, <2>2, <2>4
<1>2. g \in [Workers -> Stuck .. NumFiles(d)]
  BY <1>1 DEF Off, Stuck
<1>3. g[w] = (IF next <= NumFiles(d) THEN next ELSE Off) /\ \A v \in Workers \ {w} : g[v] = f[v]
  BY <1>1
<1>4. applied2 \subseteq 1 .. next2 - 1 /\ applied2 \subseteq Numbers(d)
  <2>1. next2 \in Int /\ next - 1 <= next2 - 1 /\ next - 1 <= NumFiles(d)
    BY <1>1
  <2>2. f[w] \in 1 .. next2 - 1
    BY <1>1, <2>1
  <2>3. \A i \in applied : i \in 1 .. next2 - 1 /\ i \in 1 .. NumFiles(d)
    BY <1>1, <2>1
  <2> QED
    BY <1>1, <2>2, <2>3 DEF Numbers
<1>5. \A v \in Workers : g[v] > Off => g[v] < next2 /\ g[v] \notin applied2
  <2> SUFFICES ASSUME NEW v \in Workers, g[v] > Off
               PROVE  g[v] < next2 /\ g[v] \notin applied2
    OBVIOUS
  <2>1. CASE v = w
    BY <1>1, <1>3, <2>1 DEF Off
  <2>2. CASE v # w
    BY <1>1, <1>3, <2>2 DEF Accounted
  <2> QED
    BY <2>1, <2>2
<1>6. \A u, v \in Workers : g[u] > Off /\ g[v] = g[u] => u = v
  <2> SUFFICES ASSUME NEW u \in Workers, NEW v \in Workers, g[u] > Off, g[v] = g[u]
               PROVE  u = v
    OBVIOUS
  <2>1. \A x \in Workers : f[x] > Off => f[x] < next
    BY DEF Accounted
  <2>2. CASE u # w /\ v # w
    BY <1>3, <2>2 DEF Accounted
  <2>3. CASE u = w /\ v # w
    BY <1>1, <1>3, <2>1, <2>3 DEF Off
  <2>4. CASE u # w /\ v = w
    BY <1>1, <1>3, <2>1, <2>4 DEF Off
  <2> QED
    BY <2>2, <2>3, <2>4
<1>7. IsFiniteSet(applied) /\ Cardinality(applied) \in Nat
  <2>1. applied \in SUBSET Numbers(d)
    BY <1>1 DEF Numbers
  <2> QED
    BY <2>1, PendingIsFinite
<1>8. ready + 1 = Cardinality(applied2)
  BY <1>1, <1>7, FS_AddElement DEF Accounted
<1>9. StuckOf(g) = StuckOf(f)
  BY <1>1, <1>3 DEF StuckOf, Off, Stuck
<1>10. next2 - 1 = ready + 1 + Cardinality(BusyOf(g)) + Cardinality(StuckOf(g))
  <2>1. /\ next - 1 = ready + Cardinality(BusyOf(f)) + Cardinality(StuckOf(f))
        /\ Cardinality(BusyOf(f)) \in Nat /\ Cardinality(StuckOf(f)) \in Nat
        /\ IsFiniteSet(BusyOf(f))
    BY WorkerSets DEF Accounted
  <2>2. CASE next <= NumFiles(d)
    <3>1. BusyOf(g) = BusyOf(f)
      BY <1>1, <1>3, <2>2 DEF BusyOf, Off
    <3> QED
      BY <1>1, <1>9, <2>1, <2>2, <3>1
  <2>3. CASE ~(next <= NumFiles(d))
    <3>1. BusyOf(g) = BusyOf(f) \ {w} /\ w \in BusyOf(f)
      BY <1>1, <1>3, <2>3 DEF BusyOf, Off
    <3>2. Cardinality(BusyOf(g)) = Cardinality(BusyOf(f)) - 1
      <4>1. Cardinality(BusyOf(f) \ {w})
              = IF w \in BusyOf(f) THEN Cardinality(BusyOf(f)) - 1 ELSE Cardinality(BusyOf(f))
        BY <2>1, FS_RemoveElement, Zenon
      <4> QED
        BY <3>1, <4>1, Zenon
    <3> QED
      BY <1>1, <1>9, <2>1, <2>3, <3>2
  <2> QED
    BY <2>2, <2>3
<1>11. ready + 1 = NumFiles(d) => applied2 = Numbers(d)
  BY <1>4, <1>8, PendingIsFinite, FS_Subset
<1> QED
  BY <1>1, <1>2, <1>4, <1>5, <1>6, <1>8, <1>10, <1>11 DEF Accounted

\* A worker that is lost takes its file with it
LEMMA LossIsAccounted ==
  ASSUME NEW d \in All, NEW ready \in Nat, NEW applied, NEW next, NEW f, NEW w \in Workers,
         Accounted(d, ready, applied, next, f), f[w] > Off,
         NEW g, g = [f EXCEPT ![w] = Stuck]
  PROVE  Accounted(d, ready, applied, next, g)
<1>1. /\ NumFiles(d) \in Nat \ {0} /\ f \in [Workers -> Stuck .. NumFiles(d)]
      /\ next \in 1 .. NumFiles(d) + 1
  BY PendingIsFinite DEF Accounted
<1>2. g[w] = Stuck /\ \A v \in Workers \ {w} : g[v] = f[v]
  BY <1>1
<1>3. g \in [Workers -> Stuck .. NumFiles(d)]
  BY <1>1 DEF Stuck
<1>4. /\ \A v \in Workers : g[v] > Off => g[v] < next /\ g[v] \notin applied
      /\ \A u, v \in Workers : g[u] > Off /\ g[v] = g[u] => u = v
  BY <1>2 DEF Accounted, Off, Stuck
<1>5. /\ BusyOf(g) = BusyOf(f) \ {w} /\ w \in BusyOf(f)
      /\ StuckOf(g) = StuckOf(f) \cup {w} /\ w \notin StuckOf(f)
  BY <1>2 DEF BusyOf, StuckOf, Off, Stuck
<1>6. /\ Cardinality(BusyOf(g)) = Cardinality(BusyOf(f)) - 1
      /\ Cardinality(StuckOf(g)) = Cardinality(StuckOf(f)) + 1
  <2>1. /\ IsFiniteSet(BusyOf(f)) /\ IsFiniteSet(StuckOf(f))
    BY WorkerSets
  <2>2. Cardinality(BusyOf(f) \ {w}) = Cardinality(BusyOf(f)) - 1
    BY <1>5, <2>1, FS_RemoveElement
  <2>3. Cardinality(StuckOf(f) \cup {w}) = Cardinality(StuckOf(f)) + 1
    BY <1>5, <2>1, FS_AddElement
  <2> QED
    BY <1>5, <2>2, <2>3
<1>7. next - 1 = ready + Cardinality(BusyOf(g)) + Cardinality(StuckOf(g))
  BY <1>1, <1>6, WorkerSets DEF Accounted
<1> QED
  BY <1>3, <1>4, <1>7 DEF Accounted

\* Marking a load changes nothing else about it.
LEMMA ShapeKeepsWhenTouched ==
  ASSUME NEW r, Shape(r), r.state = "chunks"
  PROVE  Shape([r EXCEPT !.mixed = TRUE])
<1>1. r \in ChunkRecords /\ Accounted(r.data, r.ready, r.applied, r.next, r.worker)
  BY DEF Shape, NoLoad
<1> DEFINE t == [r EXCEPT !.mixed = TRUE]
<1>2. /\ t \in ChunkRecords /\ t.data = r.data /\ t.ready = r.ready /\ t.applied = r.applied
      /\ t.next = r.next /\ t.worker = r.worker
  BY <1>1 DEF ChunkRecords
<1> HIDE DEF t
<1>3. Shape(t)
  BY <1>1, <1>2 DEF Shape
<1> QED
  BY <1>3 DEF t

\* The table of loads after the others were marked.
LEMMA TouchedShapes ==
  ASSUME LoadInv, NEW l \in Loads
  PROVE  /\ Touched(l, load) = [k \in Loads |-> Touched(l, load)[k]]
         /\ \A k \in Loads : Shape(Touched(l, load)[k])
         /\ Touched(l, load)[l] = load[l]
<1>1. Touched(l, load) =
        [k \in Loads |-> IF k # l /\ load[k].state = "chunks"
                         THEN [load[k] EXCEPT !.mixed = TRUE] ELSE load[k]]
  BY DEF Touched
<1>2. \A k \in Loads : Shape(load[k])
  BY DEF LoadInv
<1>3. \A k \in Loads : Shape(Touched(l, load)[k])
  BY <1>1, <1>2, ShapeKeepsWhenTouched
<1> QED
  BY <1>1, <1>3

\* One entry of the table of loads is replaced
LEMMA ReplaceOne ==
  ASSUME LoadInv, CompressInv', NEW l \in Loads, NEW r, Shape(r),
         \/ load' = [load EXCEPT ![l] = r]
         \/ load' = [Touched(l, load) EXCEPT ![l] = r]
  PROVE  LoadInv'
<1>1. load' = [k \in Loads |-> load'[k]]
  BY TouchedShapes DEF LoadInv
<1>2. \A k \in Loads : Shape(load'[k])
  BY TouchedShapes DEF LoadInv
<1> QED
  BY <1>1, <1>2 DEF LoadInv

\* A load under way remains one when its counters move.
LEMMA ChunkRecordUpdate ==
  ASSUME NEW r \in ChunkRecords, NEW ready \in Nat, NEW applied \in SUBSET Nat,
         NEW h \in [Workers -> Int], NEW next \in Nat
  PROVE  [r EXCEPT !.state = "chunks", !.ready = ready, !.applied = applied,
                   !.worker = h, !.next = next] \in ChunkRecords
BY DEF ChunkRecords

\* A worker's message arrives.
LEMMA ArriveStep ==
  ASSUME LoadInv, CompressInv', NEW l \in Loads, NEW w \in Workers, ChunkArrives(l, w)
  PROVE  LoadInv'
<1> DEFINE r == load[l]
           i == r.worker[w]
           t == [r EXCEPT !.state = IF Complete(l, r.ready + 1) THEN "done" ELSE "chunks",
                          !.ready = r.ready + 1, !.applied = r.applied \cup {i},
                          !.worker = [r.worker EXCEPT ![w] = NextFile(l)], !.next = After(l)]
<1>1. r.state = "chunks" /\ i > Off /\ load' = [Touched(l, load) EXCEPT ![l] = t]
  BY TouchedShapes DEF ChunkArrives
<1>2. r \in ChunkRecords /\ Accounted(r.data, r.ready, r.applied, r.next, r.worker)
  BY <1>1 DEF LoadInv, Shape, NoLoad
<1> DEFINE g == [r.worker EXCEPT ![w] = IF r.next <= NumFiles(r.data) THEN r.next ELSE Off]
           n == IF r.next <= NumFiles(r.data) THEN r.next + 1 ELSE r.next
<1>3. /\ Accounted(r.data, r.ready + 1, r.applied \cup {i}, n, g)
      /\ r.ready + 1 = NumFiles(r.data) => r.applied \cup {i} = Numbers(r.data)
  BY <1>1, <1>2, ArrivalIsAccounted DEF ChunkRecords
<1>4. /\ t.state = (IF r.ready + 1 = NumFiles(r.data) THEN "done" ELSE "chunks")
      /\ t.data = r.data /\ t.ready = r.ready + 1 /\ t.applied = r.applied \cup {i}
      /\ t.worker = g /\ t.next = n
  BY <1>1, <1>2 DEF ChunkRecords, Complete, NextFile, After
<1>5. r.ready + 1 # NumFiles(r.data) => t \in ChunkRecords
  <2>1. /\ r.data \in All /\ r.ready \in Nat /\ r.applied \in SUBSET Nat /\ r.mixed \in BOOLEAN
        /\ r.worker \in [Workers -> Int] /\ r.next \in Nat /\ NumFiles(r.data) \in Nat
    BY <1>2, PendingIsFinite DEF ChunkRecords
  <2>2. i \in Nat
    BY <1>1, <2>1 DEF Off
  <2>3. NextFile(l) \in Int /\ After(l) \in Nat
    BY <2>1 DEF NextFile, After, Off
  <2>4. [r.worker EXCEPT ![w] = NextFile(l)] \in [Workers -> Int]
    BY <2>1, <2>3
  <2> DEFINE h == [r.worker EXCEPT ![w] = NextFile(l)]
  <2>5. SUFFICES ASSUME r.ready + 1 # NumFiles(r.data)  PROVE t \in ChunkRecords
    OBVIOUS
  <2>6. ~Complete(l, r.ready + 1)
    BY <2>5 DEF Complete
  <2>7. t = [r EXCEPT !.state = "chunks", !.ready = r.ready + 1, !.applied = r.applied \cup {i},
                      !.worker = h, !.next = After(l)]
    BY <2>6
  <2>8. r.ready + 1 \in Nat /\ r.applied \cup {i} \in SUBSET Nat /\ h \in [Workers -> Int]
    BY <2>1, <2>2, <2>4
  <2> HIDE DEF t, h, i, r
  <2> QED
    BY <1>2, <2>3, <2>7, <2>8, ChunkRecordUpdate, Zenon
<1> HIDE DEF t, g, n, i, r
<1>6. Shape(t)
  BY <1>3, <1>4, <1>5 DEF Shape
<1> QED
  BY <1>1, <1>6, ReplaceOne

\* A worker is lost.
LEMMA LossStep ==
  ASSUME LoadInv, CompressInv', NEW l \in Loads, NEW w \in Workers,
         ChunkRejected(l, w) \/ ChunkLost(l, w)
  PROVE  LoadInv'
<1> DEFINE r == load[l]
           t == [r EXCEPT !.worker[w] = Stuck]
<1>1. r.state = "chunks" /\ r.worker[w] > Off /\ load' = [load EXCEPT ![l] = t]
  BY DEF ChunkRejected, ChunkLost
<1>2. r \in ChunkRecords /\ Accounted(r.data, r.ready, r.applied, r.next, r.worker)
  BY <1>1 DEF LoadInv, Shape, NoLoad
<1> DEFINE g == [r.worker EXCEPT ![w] = Stuck]
<1>3. Accounted(r.data, r.ready, r.applied, r.next, g)
  BY <1>1, <1>2, LossIsAccounted DEF ChunkRecords
<1>4. /\ t \in ChunkRecords /\ t.data = r.data /\ t.ready = r.ready /\ t.applied = r.applied
      /\ t.worker = g /\ t.next = r.next
  BY <1>2 DEF ChunkRecords, Stuck
<1> HIDE DEF t, g, r
<1>5. Shape(t)
  BY <1>3, <1>4 DEF Shape
<1> QED
  BY <1>1, <1>5, ReplaceOne

\* A digest arrives or is lost.
LEMMA DigestStep ==
  ASSUME LoadInv, CompressInv', NEW l \in Loads,
         DigestLost(l) \/ DigestArrivesMt(l) \/ DigestArrivesFlat(l)
  PROVE  LoadInv'
<1>1. load[l].state = "digest"
  BY DEF DigestLost, DigestArrivesMt, DigestArrivesFlat
<1>2. load[l].data \in All
  BY <1>1 DEF LoadInv, Shape, NoLoad, ChunkRecords
<1> DEFINE d == load[l].data
<1>3. CASE load' = [load EXCEPT ![l] = [state |-> "lost"]]
  <2>1. Shape([state |-> "lost"])
    BY DEF Shape
  <2> QED
    BY <1>3, <2>1, ReplaceOne
<1>4. CASE DigestArrivesMt(l)
  <2> DEFINE t == [state |-> "chunks", data |-> d, ready |-> 0, applied |-> {},
                   next |-> Min({Cardinality(Workers), NumFiles(d)}) + 1,
                   worker |-> Launched(d),
                   mixed |-> \E k \in Loads \ {l} : load[k].state = "chunks"]
  <2>1. load' = [Touched(l, load) EXCEPT ![l] = t]
    BY <1>4 DEF DigestArrivesMt
  <2>2. Accounted(d, 0, {}, Min({Cardinality(Workers), NumFiles(d)}) + 1, Launched(d))
    BY <1>2, LaunchIsAccounted
  <2>3. /\ Min({Cardinality(Workers), NumFiles(d)}) + 1 \in Nat
        /\ Launched(d) \in [Workers -> Int]
    BY <1>2, <2>2, PendingIsFinite DEF Accounted, Stuck
  <2>4. t \in ChunkRecords
    BY <1>2, <2>3 DEF ChunkRecords
  <2>5. Shape(t)
    BY <2>2, <2>4 DEF Shape
  <2> HIDE DEF t
  <2> QED
    BY <2>1, <2>5, ReplaceOne
<1>5. CASE DigestArrivesFlat(l) /\ ~ignoreCL
  <2> DEFINE t == [state |-> "done", data |-> d, applied |-> 1 .. NumFiles(d), mixed |-> FALSE]
  <2>1. load' = [Touched(l, load) EXCEPT ![l] = t]
    BY <1>5 DEF DigestArrivesFlat
  <2>2. Shape(t)
    BY DEF Shape, Numbers
  <2> HIDE DEF t
  <2> QED
    BY <2>1, <2>2, ReplaceOne
<1> QED
  BY <1>3, <1>4, <1>5 DEF DigestLost, DigestArrivesFlat

\* Each step keeps the invariant of the loads.
LEMMA LoadStep == LoadInv /\ [Next]_vars => LoadInv'
<1> SUFFICES ASSUME LoadInv, [Next]_vars PROVE LoadInv'
  OBVIOUS
<1>1. CompressInv'
  BY CompressStep DEF LoadInv
<1>2. ASSUME load' = load PROVE LoadInv'
  BY <1>1, <1>2 DEF LoadInv
<1>3. ASSUME NEW l \in Loads, NEW d \in shelf, NEW kind \in {"mt", "flat"}, StartLoad(l, d, kind)
      PROVE  LoadInv'
  <2> DEFINE t == [state |-> "digest", data |-> d, kind |-> kind]
  <2>1. load' = [load EXCEPT ![l] = t]
    BY <1>3 DEF StartLoad
  <2>2. d \in All
    BY DEF LoadInv, CompressInv, All
  <2>3. Shape(t)
    BY <2>2 DEF Shape
  <2> QED
    BY <1>1, <2>1, <2>3, ReplaceOne
<1>4. ASSUME NEW l \in Loads, Answer(l) PROVE LoadInv'
  BY <1>1, <1>4, DigestStep, ArriveStep, LossStep DEF Answer
<1>5. CASE \/ \E d \in shelf : Compress(d)
           \/ \E i, err : WriteEnds(i, err)
           \/ \E err : WriteDigest(err)
           \/ UNCHANGED vars
  BY <1>2, <1>5 DEF Compress, WriteEnds, WriteDigest, vars
<1> QED
  BY <1>3, <1>4, <1>5 DEF Next

\* Whatever is lost on the way, each file of a load is in one place, and the
\* callback has run only after all of them were applied
THEOREM LoadsAccountForFiles == Spec => []FilesAreAccountedFor
<1>1. Init => LoadInv
  BY DEF Init, LoadInv, CompressInv, DigestIsComplete, Shape
<1>2. LoadInv => FilesAreAccountedFor
  <2> SUFFICES ASSUME LoadInv, NEW l \in Loads
               PROVE  /\ Under(l) =>
                           /\ \A v, w \in Busy(l) : v # w => load[l].worker[v] # load[l].worker[w]
                           /\ \A w \in Busy(l) : load[l].worker[w] \notin load[l].applied
                           /\ load[l].ready = Cardinality(load[l].applied)
                           /\ load[l].next - 1 = load[l].ready + Cardinality(Busy(l))
                                                 + Cardinality(StuckWorkers(l))
                      /\ load[l].state = "done" => load[l].applied = 1 .. NumFiles(load[l].data)
    BY DEF FilesAreAccountedFor
  <2>1. Shape(load[l])
    BY DEF LoadInv
  <2>2. load[l].state = "done" => load[l].applied = 1 .. NumFiles(load[l].data)
    BY <2>1 DEF Shape, NoLoad, ChunkRecords, Numbers
  <2>3. CASE Under(l)
    <3>1. Accounted(load[l].data, load[l].ready, load[l].applied, load[l].next, load[l].worker)
      BY <2>1, <2>3 DEF Shape, Under, NoLoad
    <3>2. Busy(l) = BusyOf(load[l].worker) /\ StuckWorkers(l) = StuckOf(load[l].worker)
      BY <2>3 DEF Busy, StuckWorkers, BusyOf, StuckOf
    <3>3. \A w \in Busy(l) : w \in Workers /\ load[l].worker[w] > Off
      BY DEF Busy
    <3> QED
      BY <2>2, <3>1, <3>2, <3>3 DEF Accounted
  <2> QED
    BY <2>2, <2>3
<1> QED
  BY <1>1, <1>2, LoadStep, PTL DEF Spec

-----------------------------------------------------------------------------
(* What is in memory.                                                      *)

Blank == IF ignoreCL THEN 0 ELSE Garbage

\* A cell holds what the data set d has there, or what was there before the
\* first of the files came; then none of them has a block that holds it.
HeldBy(d, files, b, i) == \E n \in files : Files[d][n].label = b /\ Held(Files[d][n].dense, i)
Placed(m, blank, d, files) ==
  \A b \in Labels : \A i \in DOMAIN Data[d][b] :
    m[b][i] = Data[d][b][i] \/ (m[b][i] = blank /\ ~HeldBy(d, files, b, i))

\* Memory has the shape of the tree; of two loads under way both know that they
\* are; one that is alone has placed its files.
MemInv ==
  /\ tree \in shelf \cup {None} /\ disk.digests \subseteq shelf
  /\ job # NoJob => job.data \in shelf
  /\ \A l \in Loads : load[l].state \in {"digest", "chunks"} => load[l].data \in shelf
  /\ mem = [b \in Labels |-> mem[b]]
  /\ tree # None => \A b \in Labels : DOMAIN mem[b] = DOMAIN Data[tree][b]
  /\ \A k, l \in Loads : k # l /\ Under(k) /\ Under(l) => load[k].mixed
  /\ \A l \in Loads : Under(l) /\ ~load[l].mixed =>
       tree = load[l].data /\ Placed(mem, Blank, load[l].data, load[l].applied)

FullInv == LoadInv /\ MemInv /\ ignoreCL \in BOOLEAN /\ rejectsEmpty \in BOOLEAN

\* What a worker's message writes: the array of its label, wherever its part
\* holds a cell and perhaps beside.
PartOf(m) == inflateChunk(m.dense, m.start, m.end)
MessageIsPart(d, i, m) ==
  /\ m.label \in Labels /\ m.label = Files[d][i].label
  /\ \A j \in DOMAIN PartOf(m) : j \in DOMAIN Data[d][m.label] /\ PartOf(m)[j] = Data[d][m.label][j]
  /\ \A j \in DOMAIN Data[d][m.label] : Held(Files[d][i].dense, j) => j \in DOMAIN PartOf(m)
LEMMA MessageFacts ==
  ASSUME NEW d \in All, NEW i \in Numbers(d)
  PROVE  MessageIsPart(d, i, Message(d, i))
<1> DEFINE m == Message(d, i)
           part == PartOf(m)
           f == Files[d][i]
           arr == Data[d][f.label]
           D == f.dense
<1>1. /\ m.label = f.label /\ m.start = Start(D) /\ m.end = End(D)
      /\ part = inflateChunk(D, m.start, m.end)
  BY DEF Message, PartOf
<1>2. f.label \in Labels /\ IsArray(arr) /\ Faithful(arr, D)
  BY FileFacts
<1> HIDE DEF f, arr, D, m, part
<1>3. /\ DOMAIN part = m.start .. m.end - 1
      /\ \A j \in m.start .. m.end - 1 : j \in DOMAIN arr /\ part[j] = arr[j]
      /\ \A j \in DOMAIN arr : Held(D, j) => j \in m.start .. m.end - 1
  BY <1>1, <1>2, PartCovers
<1>4. \A j \in DOMAIN part : j \in DOMAIN arr /\ part[j] = arr[j]
  BY <1>3
<1>5. \A j \in DOMAIN arr : Held(D, j) => j \in DOMAIN part
  BY <1>3
<1>6. m.label \in Labels /\ m.label = f.label /\ arr = Data[d][m.label]
  BY <1>1, <1>2 DEF arr
<1>7. MessageIsPart(d, i, m)
  BY <1>4, <1>5, <1>6, Zenon DEF MessageIsPart, part, f, D
<1> QED
  BY <1>7 DEF m

\* A message writes the cells of its part and no others.
LEMMA WrittenCells ==
  ASSUME mem = [b \in Labels |-> mem[b]], NEW m, m.label \in Labels, NEW mm, mm = Written(m)
  PROVE  /\ mm = [b \in Labels |-> mm[b]]
         /\ \A b \in Labels : DOMAIN mm[b] = DOMAIN mem[b]
         /\ \A b \in Labels : \A i \in DOMAIN mem[b] :
              mm[b][i] = IF b = m.label /\ i \in DOMAIN PartOf(m) THEN PartOf(m)[i] ELSE mem[b][i]
<1> DEFINE part == PartOf(m)
           row == [i \in DOMAIN mem[m.label] |-> IF i \in DOMAIN part THEN part[i] ELSE mem[m.label][i]]
<1>1. mm = [mem EXCEPT ![m.label] = row]
  BY DEF Written, PartOf
<1> HIDE DEF row, part
<1>2. mm = [b \in Labels |-> IF b = m.label THEN row ELSE mem[b]]
  BY <1>1
<1>3. mm[m.label] = row /\ \A b \in Labels : b # m.label => mm[b] = mem[b]
  BY <1>2
<1>4. mm = [b \in Labels |-> mm[b]]
  BY <1>2
<1>5. /\ DOMAIN row = DOMAIN mem[m.label]
      /\ \A i \in DOMAIN mem[m.label] : row[i] = IF i \in DOMAIN part THEN part[i] ELSE mem[m.label][i]
  BY DEF row
<1>6. \A b \in Labels : DOMAIN mm[b] = DOMAIN mem[b]
  BY <1>3, <1>5
<1>7. ASSUME NEW b \in Labels, NEW i \in DOMAIN mem[b]
      PROVE  mm[b][i] = IF b = m.label /\ i \in DOMAIN part THEN part[i] ELSE mem[b][i]
  <2>1. CASE b = m.label
    BY <1>3, <1>5, <1>7, <2>1
  <2>2. CASE b # m.label
    BY <1>3, <2>2
  <2> QED
    BY <2>1, <2>2
<1> QED
  BY <1>4, <1>6, <1>7 DEF part

\* A file more is in its place.
LEMMA FileIsPlaced ==
  ASSUME mem = [b \in Labels |-> mem[b]], NEW d \in All, NEW i \in Numbers(d), NEW files,
         \A b \in Labels : DOMAIN mem[b] = DOMAIN Data[d][b],
         NEW blank, Placed(mem, blank, d, files), NEW mm, mm = Written(Message(d, i))
  PROVE  Placed(mm, blank, d, files \cup {i})
<1> DEFINE m == Message(d, i)
           part == PartOf(m)
<1>1. /\ m.label \in Labels /\ m.label = Files[d][i].label
      /\ \A j \in DOMAIN part : j \in DOMAIN Data[d][m.label] /\ part[j] = Data[d][m.label][j]
      /\ \A j \in DOMAIN Data[d][m.label] : Held(Files[d][i].dense, j) => j \in DOMAIN part
  BY MessageFacts, Zenon DEF MessageIsPart
<1>2. \A b \in Labels : \A j \in DOMAIN mem[b] :
        mm[b][j] = IF b = m.label /\ j \in DOMAIN part THEN part[j] ELSE mem[b][j]
  <2> HIDE DEF m
  <2>1. mm = Written(m)
    BY DEF m
  <2> QED
    BY <1>1, <2>1, WrittenCells
<1> HIDE DEF m, part
<1> SUFFICES ASSUME NEW b \in Labels, NEW j \in DOMAIN Data[d][b]
             PROVE  mm[b][j] = Data[d][b][j] \/ (mm[b][j] = blank /\ ~HeldBy(d, files \cup {i}, b, j))
  BY DEF Placed
<1>3. j \in DOMAIN mem[b]
  OBVIOUS
<1>4. CASE b = m.label /\ j \in DOMAIN part
  BY <1>1, <1>2, <1>3, <1>4
<1>5. CASE ~(b = m.label /\ j \in DOMAIN part)
  <2>1. mm[b][j] = mem[b][j]
    BY <1>2, <1>3, <1>5
  <2>2. mem[b][j] = Data[d][b][j] \/ (mem[b][j] = blank /\ ~HeldBy(d, files, b, j))
    BY DEF Placed
  <2>3. ~(Files[d][i].label = b /\ Held(Files[d][i].dense, j))
    BY <1>1, <1>5
  <2> QED
    BY <2>1, <2>2, <2>3 DEF HeldBy
<1> QED
  BY <1>4, <1>5

\* When all files are in place, so is the data set.
LEMMA AllPlaced ==
  ASSUME NEW d \in All, NEW m, NEW blank, Placed(m, blank, d, Numbers(d)),
         NEW b \in Labels, NEW i \in DOMAIN Data[d][b]
  PROVE  m[b][i] = Data[d][b][i] \/ (m[b][i] = blank /\ Data[d][b][i] = 0)
<1>1. m[b][i] = Data[d][b][i] \/ (m[b][i] = blank /\ ~HeldBy(d, Numbers(d), b, i))
  BY DEF Placed
<1>2. Data[d][b][i] # 0 => HeldBy(d, Numbers(d), b, i)
  BY FileFacts DEF HeldBy
<1> QED
  BY <1>1, <1>2

\* Before the first of them the memory is as it was allocated.
LEMMA FreshIsPlaced ==
  ASSUME NEW d, NEW m, m = Fresh(d)
  PROVE  /\ m = [b \in Labels |-> m[b]] /\ \A b \in Labels : DOMAIN m[b] = DOMAIN Data[d][b]
         /\ Placed(m, Blank, d, {})
<1>1. m = [b \in Labels |-> [i \in DOMAIN Data[d][b] |-> Blank]]
  BY DEF Fresh, Blank
<1>2. \A b \in Labels : DOMAIN m[b] = DOMAIN Data[d][b] /\ \A i \in DOMAIN Data[d][b] : m[b][i] = Blank
  BY <1>1
<1>3. m = [b \in Labels |-> m[b]]
  BY <1>1
<1>4. Placed(m, Blank, d, {})
  BY <1>2 DEF Placed, HeldBy
<1> QED
  BY <1>2, <1>3, <1>4

\* A step that touches memory marks the other loads.
LEMMA TouchedFields ==
  ASSUME LoadInv, NEW l \in Loads, NEW r, load' = [Touched(l, load) EXCEPT ![l] = r]
  PROVE  /\ load'[l] = r
         /\ \A k \in Loads : k # l =>
              /\ load'[k].state = load[k].state
              /\ load[k].state \in {"digest", "chunks"} => load'[k].data = load[k].data
              /\ load[k].state = "chunks" => load'[k].mixed = TRUE
<1>1. load'[l] = r /\ \A k \in Loads : k # l => load'[k] = Touched(l, load)[k]
  BY TouchedShapes
<1>2. ASSUME NEW k \in Loads, k # l, load[k].state = "chunks"
      PROVE  /\ Touched(l, load)[k].state = "chunks" /\ Touched(l, load)[k].data = load[k].data
             /\ Touched(l, load)[k].mixed = TRUE
  <2>1. Touched(l, load)[k] = [load[k] EXCEPT !.mixed = TRUE]
    BY <1>2 DEF Touched
  <2>2. Shape(load[k])
    BY DEF LoadInv
  <2>3. load[k] \in ChunkRecords
    BY <1>2, <2>2 DEF Shape, NoLoad
  <2> QED
    BY <1>2, <2>1, <2>3 DEF ChunkRecords
<1>3. ASSUME NEW k \in Loads, k # l, load[k].state # "chunks" PROVE Touched(l, load)[k] = load[k]
  BY <1>3 DEF Touched
<1>4. ASSUME NEW k \in Loads, k # l
      PROVE  /\ load'[k].state = load[k].state
             /\ load[k].state \in {"digest", "chunks"} => load'[k].data = load[k].data
             /\ load[k].state = "chunks" => load'[k].mixed = TRUE
  <2>1. CASE load[k].state = "chunks"
    BY <1>1, <1>2, <1>4, <2>1
  <2>2. CASE load[k].state # "chunks"
    BY <1>1, <1>3, <1>4, <2>2
  <2> QED
    BY <2>1, <2>2
<1> QED
  BY <1>1, <1>4

\* A load that is under way.
LEMMA UnderFacts ==
  ASSUME FullInv, NEW l \in Loads, Under(l)
  PROVE  /\ load[l] \in ChunkRecords /\ load[l].data \in All /\ load[l].data \in shelf
         /\ Accounted(load[l].data, load[l].ready, load[l].applied, load[l].next, load[l].worker)
         /\ \A w \in Workers : load[l].worker[w] > Off => load[l].worker[w] \in Numbers(load[l].data)
<1>1. Shape(load[l]) /\ load[l].state = "chunks"
  BY DEF FullInv, LoadInv, Under
<1>2. /\ load[l] \in ChunkRecords
      /\ Accounted(load[l].data, load[l].ready, load[l].applied, load[l].next, load[l].worker)
  BY <1>1 DEF Shape, NoLoad
<1>3. load[l].data \in All
  BY <1>2 DEF ChunkRecords
<1>4. load[l].data \in shelf
  BY <1>1 DEF FullInv, MemInv
<1>5. ASSUME NEW w \in Workers, load[l].worker[w] > Off PROVE load[l].worker[w] \in Numbers(load[l].data)
  <2>1. load[l].worker[w] \in Stuck .. NumFiles(load[l].data) /\ NumFiles(load[l].data) \in Nat
    BY <1>2, <1>3, FileFacts DEF Accounted
  <2> QED
    BY <1>5, <2>1 DEF Numbers, Off, Stuck
<1> QED
  BY <1>2, <1>3, <1>4, <1>5

\* A step that changes one load and no memory.
LEMMA QuietMemory ==
  ASSUME FullInv, NEW l \in Loads, NEW r, load' = [load EXCEPT ![l] = r],
         UNCHANGED <<shelf, disk, job, ignoreCL, tree, mem>>,
         r.state \in {"digest", "chunks"} => r.data \in shelf,
         r.state = "chunks" => /\ Under(l) /\ r.data = load[l].data
                               /\ r.applied = load[l].applied /\ r.mixed = load[l].mixed
  PROVE  MemInv'
<1>1. load'[l] = r /\ \A k \in Loads : k # l => load'[k] = load[k]
  BY DEF FullInv, LoadInv
<1>2. \A k \in Loads : load'[k].state \in {"digest", "chunks"} => load'[k].data \in shelf
  BY <1>1 DEF FullInv, MemInv
<1>3. \A k \in Loads : Under(k)' => /\ Under(k) /\ load'[k].data = load[k].data
                                  /\ load'[k].applied = load[k].applied /\ load'[k].mixed = load[k].mixed
  BY <1>1 DEF Under
<1>4. \A k, m \in Loads : k # m /\ Under(k)' /\ Under(m)' => load'[k].mixed
  BY <1>3 DEF FullInv, MemInv
<1>5. Blank' = Blank
  BY DEF Blank
<1>6. \A k \in Loads : Under(k)' /\ ~load'[k].mixed =>
        tree' = load'[k].data /\ Placed(mem', Blank', load'[k].data, load'[k].applied)
  BY <1>3, <1>5 DEF FullInv, MemInv
<1> QED
  BY <1>2, <1>4, <1>6 DEF FullInv, MemInv

\* A digest arrives for a load of many files.
LEMMA MtMemory ==
  ASSUME FullInv, NEW l \in Loads, DigestArrivesMt(l)
  PROVE  MemInv' /\ load'[l].state # "done"
<1> DEFINE d == load[l].data
           r == [state |-> "chunks", data |-> d, ready |-> 0, applied |-> {},
                 next |-> Min({Cardinality(Workers), NumFiles(d)}) + 1,
                 worker |-> Launched(d),
                 mixed |-> \E k \in Loads \ {l} : load[k].state = "chunks"]
<1>1. /\ load[l].state = "digest" /\ tree' = d /\ mem' = Fresh(d)
      /\ load' = [Touched(l, load) EXCEPT ![l] = r]
      /\ UNCHANGED <<shelf, disk, job, ignoreCL, rejectsEmpty>>
  BY DEF DigestArrivesMt
<1>2. d \in shelf
  BY <1>1 DEF FullInv, MemInv
<1>3. /\ r.state = "chunks" /\ r.data = d /\ r.applied = {}
      /\ r.mixed = \E k \in Loads \ {l} : load[k].state = "chunks"
  OBVIOUS
<1> HIDE DEF d, r
<1>4. /\ load'[l] = r
      /\ \A k \in Loads : k # l =>
           /\ load'[k].state = load[k].state
           /\ load[k].state \in {"digest", "chunks"} => load'[k].data = load[k].data
           /\ load[k].state = "chunks" => load'[k].mixed = TRUE
  BY <1>1, TouchedFields DEF FullInv
<1>5. /\ mem' = [b \in Labels |-> mem'[b]] /\ \A b \in Labels : DOMAIN mem'[b] = DOMAIN Data[d][b]
      /\ Placed(mem', Blank, d, {})
  BY <1>1, FreshIsPlaced
<1>6. Blank' = Blank
  BY <1>1 DEF Blank
<1>7. \A k \in Loads : load'[k].state \in {"digest", "chunks"} => load'[k].data \in shelf'
  BY <1>1, <1>2, <1>3, <1>4 DEF FullInv, MemInv
<1>8. ASSUME NEW k \in Loads, NEW m \in Loads, k # m, Under(k)', Under(m)' PROVE load'[k].mixed
  <2>1. CASE k # l
    BY <1>4, <1>8, <2>1 DEF Under
  <2>2. CASE k = l
    <3>1. m \in Loads \ {l} /\ load[m].state = "chunks"
      BY <1>4, <1>8, <2>2 DEF Under
    <3> QED
      BY <1>3, <1>4, <2>2, <3>1
  <2> QED
    BY <2>1, <2>2
<1>9. ASSUME NEW k \in Loads, Under(k)', ~load'[k].mixed
      PROVE  tree' = load'[k].data /\ Placed(mem', Blank', load'[k].data, load'[k].applied)
  <2>1. k = l
    BY <1>4, <1>9 DEF Under
  <2> QED
    <3>1. load'[k].data = d /\ load'[k].applied = {}
      BY <1>3, <1>4, <2>1, Zenon
    <3>2. Placed(mem', Blank', d, {})
      BY <1>5, <1>6, Zenon
    <3> QED
      BY <1>1, <3>1, <3>2
<1>10. /\ tree' \in shelf' \cup {None} /\ disk'.digests \subseteq shelf'
       /\ (job' # NoJob => job'.data \in shelf')
       /\ tree' # None => \A b \in Labels : DOMAIN mem'[b] = DOMAIN Data[tree'][b]
  BY <1>1, <1>2, <1>5 DEF FullInv, MemInv
<1>11. MemInv'
  BY <1>5, <1>7, <1>8, <1>9, <1>10 DEF MemInv
<1> QED
  BY <1>3, <1>4, <1>11

\* A load of one file.
LEMMA FlatMemory ==
  ASSUME FullInv, NEW l \in Loads, DigestArrivesFlat(l)
  PROVE  /\ MemInv'
         /\ load'[l].state = "done" =>
              load[l].data \in shelf /\ tree' = load[l].data
              /\ Placed(mem', Blank, load[l].data, Numbers(load[l].data))
<1> DEFINE d == load[l].data
<1>1. load[l].state = "digest" /\ d \in shelf /\ UNCHANGED <<shelf, disk, job, ignoreCL, rejectsEmpty>>
  BY DEF DigestArrivesFlat, FullInv, MemInv
<1>2. CASE ignoreCL
  <2> DEFINE r == [state |-> "lost"]
  <2>1. load' = [load EXCEPT ![l] = r] /\ UNCHANGED <<tree, mem>> /\ r.state = "lost"
    BY <1>2 DEF DigestArrivesFlat
  <2> HIDE DEF r
  <2>2. MemInv'
    BY <1>1, <2>1, QuietMemory
  <2>3. load'[l] = r
    BY <2>1 DEF FullInv, LoadInv
  <2> QED
    BY <2>1, <2>2, <2>3
<1>3. CASE ~ignoreCL
  <2> DEFINE r == [state |-> "done", data |-> d, applied |-> 1 .. NumFiles(d), mixed |-> FALSE]
  <2>1. /\ tree' = d /\ mem' = [b \in Labels |-> inflate(deflate(Data[d][b]), Len0(Data[d][b]))]
        /\ load' = [Touched(l, load) EXCEPT ![l] = r] /\ r.state = "done"
    BY <1>3 DEF DigestArrivesFlat
  <2>2. d \in All
    BY <1>1 DEF FullInv, LoadInv, CompressInv, All
  <2> HIDE DEF d, r
  <2>3. ASSUME NEW b \in Labels
        PROVE  DOMAIN mem'[b] = DOMAIN Data[d][b] /\ \A i \in DOMAIN Data[d][b] : mem'[b][i] = Data[d][b][i]
    <3>1. mem'[b] = inflate(deflate(Data[d][b]), Len0(Data[d][b]))
      BY <2>1
    <3>2. IsArray(Data[d][b])
      BY <2>2, FileFacts
    <3> QED
      BY <3>1, <3>2, InflateUndoesDeflate
  <2>4. mem' = [b \in Labels |-> mem'[b]]
    BY <2>1
  <2>5. /\ load'[l] = r
        /\ \A k \in Loads : k # l =>
             /\ load'[k].state = load[k].state
             /\ load[k].state \in {"digest", "chunks"} => load'[k].data = load[k].data
             /\ load[k].state = "chunks" => load'[k].mixed = TRUE
    BY <2>1, TouchedFields DEF FullInv
  <2>6. \A k \in Loads : load'[k].state \in {"digest", "chunks"} => load'[k].data \in shelf'
    BY <1>1, <2>1, <2>5 DEF FullInv, MemInv
  <2>7. \A k, m \in Loads : k # m /\ Under(k)' /\ Under(m)' => load'[k].mixed
    BY <2>1, <2>5 DEF Under
  <2>8. \A k \in Loads : ~(Under(k)' /\ ~load'[k].mixed)
    BY <2>1, <2>5 DEF Under
  <2>9. /\ tree' \in shelf' \cup {None} /\ disk'.digests \subseteq shelf'
        /\ (job' # NoJob => job'.data \in shelf')
        /\ tree' # None => \A b \in Labels : DOMAIN mem'[b] = DOMAIN Data[tree'][b]
    BY <1>1, <2>1, <2>3 DEF FullInv, MemInv, d
  <2>10. MemInv'
    BY <2>4, <2>6, <2>7, <2>8, <2>9 DEF MemInv
  <2>11. Placed(mem', Blank, d, Numbers(d))
    BY <2>3 DEF Placed
  <2> QED
    BY <1>1, <2>1, <2>10, <2>11 DEF d
<1> QED
  BY <1>2, <1>3

\* A worker's message.
LEMMA ChunkMemory ==
  ASSUME FullInv, NEW l \in Loads, NEW w \in Workers, ChunkArrives(l, w)
  PROVE  /\ MemInv'
         /\ load'[l].state = "done" /\ ~load'[l].mixed =>
              load[l].data \in shelf /\ tree' = load[l].data
              /\ Placed(mem', Blank, load[l].data, Numbers(load[l].data))
<1> DEFINE old == load[l]
           d == old.data
           i == old.worker[w]
           r == [old EXCEPT !.state = IF Complete(l, old.ready + 1) THEN "done" ELSE "chunks",
                            !.ready = old.ready + 1, !.applied = old.applied \cup {i},
                            !.worker = [old.worker EXCEPT ![w] = NextFile(l)], !.next = After(l)]
<1>1. /\ old.state = "chunks" /\ i > Off /\ mem' = Written(Message(d, i))
      /\ load' = [Touched(l, load) EXCEPT ![l] = r]
      /\ UNCHANGED <<shelf, disk, job, ignoreCL, rejectsEmpty, tree>>
  BY DEF ChunkArrives
<1>2. old \in ChunkRecords /\ d \in All /\ d \in shelf /\ i \in Numbers(d)
  BY <1>1, UnderFacts DEF Under
<1>3. /\ r.data = d /\ r.applied = old.applied \cup {i} /\ r.mixed = old.mixed
      /\ r.state = (IF Complete(l, old.ready + 1) THEN "done" ELSE "chunks")
  BY <1>2 DEF ChunkRecords
<1>4. r.state = "done" => r.applied = Numbers(d)
  <2>1. LoadInv'
    BY LoadStep DEF FullInv, Next, Answer
  <2>2. load'[l] = r
    <3> HIDE DEF r
    <3> QED
      BY <1>1, TouchedFields DEF FullInv
  <2>3. Shape(r)
    BY <2>1, <2>2 DEF LoadInv
  <2> HIDE DEF r, d
  <2> QED
    BY <1>3, <2>3 DEF Shape, NoLoad, ChunkRecords
<1>5. /\ mem' = [b \in Labels |-> mem'[b]]
      /\ \A b \in Labels : DOMAIN mem'[b] = DOMAIN mem[b]
  <2>1. Message(d, i).label \in Labels
    BY <1>2, MessageFacts, Zenon DEF MessageIsPart
  <2>2. mem = [b \in Labels |-> mem[b]]
    BY DEF FullInv, MemInv
  <2> HIDE DEF d, i
  <2> QED
    BY <1>1, <2>1, <2>2, WrittenCells
<1> HIDE DEF old, d, i, r
<1>6. /\ load'[l] = r
      /\ \A k \in Loads : k # l =>
           /\ load'[k].state = load[k].state
           /\ load[k].state \in {"digest", "chunks"} => load'[k].data = load[k].data
           /\ load[k].state = "chunks" => load'[k].mixed = TRUE
  BY <1>1, TouchedFields DEF FullInv
<1>7. ASSUME ~r.mixed PROVE tree' = d /\ Placed(mem', Blank, d, r.applied)
  <2>1. Under(l) /\ ~load[l].mixed
    BY <1>1, <1>3, <1>7 DEF Under, old
  <2>2. tree = d /\ Placed(mem, Blank, d, old.applied)
    BY <2>1 DEF FullInv, MemInv, d, old
  <2>3. tree # None
    BY <1>2, <2>2, DataSetsAreArrays DEF All
  <2>4. \A b \in Labels : DOMAIN mem[b] = DOMAIN Data[d][b]
    BY <2>2, <2>3 DEF FullInv, MemInv
  <2>5. mem = [b \in Labels |-> mem[b]]
    BY DEF FullInv, MemInv
  <2>6. Placed(mem', Blank, d, old.applied \cup {i})
    BY <1>1, <1>2, <2>2, <2>4, <2>5, FileIsPlaced
  <2> QED
    BY <1>1, <1>3, <2>2, <2>6
<1>8. Blank' = Blank
  BY <1>1 DEF Blank
<1>9. \A k \in Loads : load'[k].state \in {"digest", "chunks"} => load'[k].data \in shelf'
  BY <1>1, <1>2, <1>3, <1>6 DEF FullInv, MemInv
<1>10. ASSUME NEW k \in Loads, NEW m \in Loads, k # m, Under(k)', Under(m)' PROVE load'[k].mixed
  <2>1. CASE k # l
    BY <1>6, <1>10, <2>1 DEF Under
  <2>2. CASE k = l
    <3>1. Under(m) /\ Under(l)
      BY <1>1, <1>6, <1>10, <2>2 DEF Under, old
    <3>2. load[l].mixed
      BY <1>10, <2>2, <3>1 DEF FullInv, MemInv
    <3> QED
      BY <1>3, <1>6, <2>2, <3>2 DEF old
  <2> QED
    BY <2>1, <2>2
<1>11. ASSUME NEW k \in Loads, Under(k)', ~load'[k].mixed
       PROVE  tree' = load'[k].data /\ Placed(mem', Blank', load'[k].data, load'[k].applied)
  <2>1. k = l
    BY <1>6, <1>11 DEF Under
  <2> QED
    BY <1>3, <1>6, <1>7, <1>8, <1>11, <2>1
<1>12. /\ tree' \in shelf' \cup {None} /\ disk'.digests \subseteq shelf'
       /\ (job' # NoJob => job'.data \in shelf')
       /\ tree' # None => \A b \in Labels : DOMAIN mem'[b] = DOMAIN Data[tree'][b]
  BY <1>1, <1>5 DEF FullInv, MemInv
<1>13. MemInv'
  BY <1>5, <1>9, <1>10, <1>11, <1>12 DEF MemInv
<1>14. load'[l].state = "done" /\ ~load'[l].mixed =>
       d \in shelf /\ tree' = d /\ Placed(mem', Blank, d, Numbers(d))
  BY <1>2, <1>4, <1>6, <1>7
<1> QED
  BY <1>13, <1>14 DEF d, old

\* A message that does not arrive, or is not written, changes no memory.
LEMMA LostMemory ==
  ASSUME FullInv, NEW l \in Loads, NEW w \in Workers, ChunkRejected(l, w) \/ ChunkLost(l, w)
  PROVE  MemInv' /\ load'[l].state # "done"
<1> DEFINE r == [load[l] EXCEPT !.worker[w] = Stuck]
<1>1. /\ load[l].state = "chunks" /\ load' = [load EXCEPT ![l] = r]
      /\ UNCHANGED <<shelf, disk, job, ignoreCL, tree, mem>>
  BY DEF ChunkRejected, ChunkLost
<1>2. load[l] \in ChunkRecords /\ load[l].data \in shelf /\ Under(l)
  BY <1>1, UnderFacts DEF Under
<1>3. /\ r.state = "chunks" /\ r.data = load[l].data
      /\ r.applied = load[l].applied /\ r.mixed = load[l].mixed
  BY <1>1, <1>2 DEF ChunkRecords
<1> HIDE DEF r
<1>4. MemInv'
  BY <1>1, <1>2, <1>3, QuietMemory
<1>5. load'[l] = r
  BY <1>1 DEF FullInv, LoadInv
<1> QED
  BY <1>3, <1>4, <1>5

\* A load starts, or its digest is lost.
LEMMA DigestMemory ==
  ASSUME FullInv, NEW l \in Loads,
         DigestLost(l) \/ \E d \in shelf, kind \in {"mt", "flat"} : StartLoad(l, d, kind)
  PROVE  MemInv' /\ load'[l].state # "done"
<1>1. CASE DigestLost(l)
  <2> DEFINE r == [state |-> "lost"]
  <2>1. /\ load' = [load EXCEPT ![l] = r] /\ r.state = "lost"
        /\ UNCHANGED <<shelf, disk, job, ignoreCL, tree, mem>>
    BY <1>1 DEF DigestLost
  <2> HIDE DEF r
  <2>2. load'[l] = r
    BY <2>1 DEF FullInv, LoadInv
  <2> QED
    BY <2>1, <2>2, QuietMemory
<1>2. ASSUME NEW d \in shelf, NEW kind \in {"mt", "flat"}, StartLoad(l, d, kind)
      PROVE  MemInv' /\ load'[l].state # "done"
  <2> DEFINE r == [state |-> "digest", data |-> d, kind |-> kind]
  <2>1. /\ load' = [load EXCEPT ![l] = r] /\ r.state = "digest" /\ r.data = d
        /\ UNCHANGED <<shelf, disk, job, ignoreCL, tree, mem>>
    BY <1>2 DEF StartLoad
  <2> HIDE DEF r
  <2>2. load'[l] = r
    BY <2>1 DEF FullInv, LoadInv
  <2> QED
    BY <2>1, <2>2, QuietMemory
<1> QED
  BY <1>1, <1>2

\* The compressor does not touch memory.
LEMMA CompressMemory ==
  ASSUME FullInv, \/ \E d \in shelf : Compress(d)
                  \/ \E i, err : WriteEnds(i, err)
                  \/ \E err : WriteDigest(err)
                  \/ UNCHANGED vars
  PROVE  MemInv' /\ load' = load
<1>1. UNCHANGED <<shelf, ignoreCL, load, tree, mem>>
  BY DEF Compress, WriteEnds, WriteDigest, vars
<1>2. /\ disk'.digests \subseteq shelf /\ (job' # NoJob => job'.data \in shelf)
  <2>1. ASSUME NEW d \in shelf, Compress(d)
        PROVE  disk'.digests \subseteq shelf /\ (job' # NoJob => job'.data \in shelf)
    BY <2>1 DEF Compress, FullInv, MemInv
  <2>2. ASSUME NEW i, NEW err, WriteEnds(i, err)
        PROVE  disk'.digests \subseteq shelf /\ (job' # NoJob => job'.data \in shelf)
    <3>1. disk'.digests = disk.digests
      BY <2>2 DEF WriteEnds, FullInv, LoadInv, CompressInv
    <3>2. job'.data = job.data /\ job # NoJob
      BY <2>2 DEF WriteEnds, FullInv, LoadInv, CompressInv, JobRecords
    <3> QED
      BY <3>1, <3>2 DEF FullInv, MemInv
  <2>3. ASSUME NEW err, WriteDigest(err)
        PROVE  disk'.digests \subseteq shelf /\ (job' # NoJob => job'.data \in shelf)
    <3>1. disk'.digests \subseteq disk.digests \cup {job.data} /\ job # NoJob /\ job' = NoJob
      BY <2>3 DEF WriteDigest, FullInv, LoadInv, CompressInv
    <3> QED
      BY <3>1 DEF FullInv, MemInv
  <2>4. CASE UNCHANGED vars
    BY <2>4 DEF vars, FullInv, MemInv
  <2> QED
    BY <2>1, <2>2, <2>3, <2>4
<1> QED
  BY <1>1, <1>2 DEF FullInv, MemInv, Under, Blank

\* Each step keeps the invariant; one that ends a load that is alone leaves its
\* data set in memory.
LEMMA MemoryStep ==
  ASSUME FullInv, [Next]_vars
  PROVE  /\ FullInv'
         /\ \A l \in Loads : load[l].state # "done" /\ load'[l].state = "done" /\ ~load'[l].mixed =>
              load[l].data \in shelf /\ tree' = load[l].data
              /\ Placed(mem', Blank, load[l].data, Numbers(load[l].data))
<1> DEFINE Ends(l) == load[l].state # "done" /\ load'[l].state = "done" /\ ~load'[l].mixed =>
                        load[l].data \in shelf /\ tree' = load[l].data
                        /\ Placed(mem', Blank, load[l].data, Numbers(load[l].data))
<1>1. LoadInv'
  BY LoadStep DEF FullInv
<1>2. UNCHANGED <<ignoreCL, rejectsEmpty>>
  BY DEF Next, Compress, WriteEnds, WriteDigest, StartLoad, Answer, DigestLost, DigestArrivesMt,
         DigestArrivesFlat, ChunkLost, ChunkRejected, ChunkArrives, vars
<1>3. ASSUME NEW l \in Loads, NEW r, \/ load' = [load EXCEPT ![l] = r]
                                     \/ load' = [Touched(l, load) EXCEPT ![l] = r]
      PROVE  \A k \in Loads : k # l => load'[k].state = load[k].state
  BY <1>3, TouchedFields DEF FullInv, LoadInv
<1>4. ASSUME NEW l \in Loads, Answer(l) \/ \E d \in shelf, kind \in {"mt", "flat"} : StartLoad(l, d, kind)
      PROVE  \A k \in Loads : k # l => load'[k].state = load[k].state
  <2>1. \E r : \/ load' = [load EXCEPT ![l] = r]
               \/ load' = [Touched(l, load) EXCEPT ![l] = r]
    <3>1. CASE \E d \in shelf, kind \in {"mt", "flat"} : StartLoad(l, d, kind)
      BY <3>1 DEF StartLoad
    <3>2. CASE DigestLost(l) \/ DigestArrivesMt(l)
      BY <3>2 DEF DigestLost, DigestArrivesMt
    <3>3. CASE DigestArrivesFlat(l)
      BY <3>3 DEF DigestArrivesFlat
    <3>4. ASSUME NEW w \in Workers, ChunkLost(l, w) \/ ChunkRejected(l, w)
          PROVE  \E r : load' = [load EXCEPT ![l] = r]
      <4>1. load' = [load EXCEPT ![l] = [load[l] EXCEPT !.worker[w] = Stuck]]
        BY <3>4 DEF ChunkLost, ChunkRejected
      <4> QED
        BY <4>1
    <3>5. ASSUME NEW w \in Workers, ChunkArrives(l, w)
          PROVE  \E r : load' = [Touched(l, load) EXCEPT ![l] = r]
      BY <3>5 DEF ChunkArrives
    <3> QED
      BY <1>4, <3>1, <3>2, <3>3, <3>4, <3>5 DEF Answer
  <2> QED
    BY <1>3, <2>1
<1>5. ASSUME NEW l \in Loads, (\E d \in shelf, kind \in {"mt", "flat"} : StartLoad(l, d, kind)) \/ Answer(l)
      PROVE  MemInv' /\ \A k \in Loads : Ends(k)
  <2>1. MemInv' /\ Ends(l)
    <3>1. CASE DigestLost(l) \/ \E d \in shelf, kind \in {"mt", "flat"} : StartLoad(l, d, kind)
      BY <3>1, DigestMemory
    <3>2. CASE DigestArrivesMt(l)
      BY <3>2, MtMemory
    <3>3. CASE DigestArrivesFlat(l)
      BY <3>3, FlatMemory
    <3>4. ASSUME NEW w \in Workers, ChunkLost(l, w) \/ ChunkRejected(l, w) PROVE MemInv' /\ Ends(l)
      BY <3>4, LostMemory
    <3>5. ASSUME NEW w \in Workers, ChunkArrives(l, w) PROVE MemInv' /\ Ends(l)
      BY <3>5, ChunkMemory
    <3> QED
      BY <1>5, <3>1, <3>2, <3>3, <3>4, <3>5 DEF Answer
  <2>2. \A k \in Loads : k # l => Ends(k)
    BY <1>4, <1>5
  <2> QED
    BY <2>1, <2>2
<1>6. ASSUME \/ \E d \in shelf : Compress(d)
             \/ \E i, err : WriteEnds(i, err)
             \/ \E err : WriteDigest(err)
             \/ UNCHANGED vars
      PROVE  MemInv' /\ \A k \in Loads : Ends(k)
  BY <1>6, CompressMemory
<1>7. MemInv' /\ \A k \in Loads : Ends(k)
  BY <1>5, <1>6 DEF Next
<1> QED
  BY <1>1, <1>2, <1>7 DEF FullInv

\* Before anything is compressed or loaded.
LEMMA InitFull == Init => FullInv
<1> SUFFICES ASSUME Init PROVE FullInv
  OBVIOUS
<1>1. LoadInv
  BY DEF Init, LoadInv, CompressInv, DigestIsComplete, Shape
<1>2. \A l \in Loads : load[l].state = "none"
  BY DEF Init, NoLoad
<1>3. /\ tree = None /\ disk.digests = {} /\ job = NoJob
      /\ mem = [b \in Labels |-> mem[b]]
  BY DEF Init
<1>4. MemInv
  BY <1>2, <1>3 DEF MemInv, Under
<1> QED
  BY <1>1, <1>4 DEF FullInv, Init

\* The invariant of the whole.
LEMMA SpecFull == Spec => []FullInv
<1>1. FullInv /\ [Next]_vars => FullInv'
  BY MemoryStep
<1> QED
  BY <1>1, InitFull, PTL DEF Spec

\* TypeOK: the memory a load or the layout works on has the shape of the tree it
\* belongs to, and a load under way has a queue and workers of its own data set.
THEOREM MemoryFitsTheTree == Spec => []TypeOK
<1>1. FullInv => TypeOK
  <2> SUFFICES ASSUME FullInv PROVE TypeOK
    OBVIOUS
  <2>1. ASSUME NEW l \in Loads PROVE load[l].state \in {"none", "digest", "lost", "chunks", "done"}
    BY DEF FullInv, LoadInv, Shape, NoLoad, ChunkRecords
  <2>2. ASSUME NEW l \in Loads, load[l].state = "chunks"
        PROVE  /\ load[l].next \in 1 .. NumFiles(load[l].data) + 1
               /\ load[l].worker \in [Workers -> Stuck .. NumFiles(load[l].data)]
    BY <2>2, UnderFacts DEF Under, Accounted
  <2>3. /\ shelf \in Shelves /\ ignoreCL \in BOOLEAN /\ rejectsEmpty \in BOOLEAN
        /\ tree \in shelf \cup {None} /\ disk.digests \subseteq shelf
        /\ tree # None => \A b \in Labels : DOMAIN mem[b] = DOMAIN Data[tree][b]
    BY DEF FullInv, LoadInv, CompressInv, MemInv
  <2> QED
    BY <2>1, <2>2, <2>3 DEF TypeOK
<1> QED
  BY <1>1, SpecFull, PTL

\* LoadIsFaithful: whatever is left out as zeros, wherever a block is split,
\* however the files fall to the workers and in whatever order their messages
\* come, a load that was alone leaves its data set in memory.
THEOREM LoadsAreFaithful == Spec => LoadIsFaithful
<1> DEFINE Faith ==
      \A l \in Loads :
        load[l].state # "done" /\ load'[l].state = "done" /\ ~load'[l].mixed =>
          LET d == load[l].data IN
          /\ tree' = d
          /\ \A b \in Labels : /\ DOMAIN mem'[b] = DOMAIN Data[d][b]
                              /\ \A i \in DOMAIN mem'[b] : Holds(mem', d, b, i)
<1>1. FullInv /\ [Next]_vars => Faith
  <2> SUFFICES ASSUME FullInv, [Next]_vars, NEW l \in Loads,
                      load[l].state # "done", load'[l].state = "done", ~load'[l].mixed
               PROVE  LET d == load[l].data IN
                      /\ tree' = d
                      /\ \A b \in Labels : /\ DOMAIN mem'[b] = DOMAIN Data[d][b]
                                          /\ \A i \in DOMAIN mem'[b] : Holds(mem', d, b, i)
    OBVIOUS
  <2> DEFINE d == load[l].data
  <2>1. FullInv' /\ d \in shelf /\ tree' = d /\ Placed(mem', Blank, d, Numbers(d))
    BY MemoryStep
  <2>2. d \in All /\ d # None
    BY <2>1, DataSetsAreArrays DEF FullInv, LoadInv, CompressInv, All
  <2> HIDE DEF d
  <2>3. \A b \in Labels : DOMAIN mem'[b] = DOMAIN Data[d][b]
    BY <2>1, <2>2 DEF FullInv, MemInv
  <2>4. ASSUME NEW b \in Labels, NEW i \in DOMAIN Data[d][b] PROVE Holds(mem', d, b, i)
    <3>1. mem'[b][i] = Data[d][b][i] \/ (mem'[b][i] = Blank /\ Data[d][b][i] = 0)
      BY <2>1, <2>2, AllPlaced
    <3> QED
      BY <3>1 DEF Holds, Blank
  <2> QED
    BY <2>1, <2>3, <2>4 DEF d
<1> QED
  BY <1>1, SpecFull, PTL DEF LoadIsFaithful, Spec

=============================================================================
