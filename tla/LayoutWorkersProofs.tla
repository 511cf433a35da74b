------------------------ MODULE LayoutWorkersProofs ------------------------
(***************************************************************************)
(* The pool of layout workers, for any number of workers, any tree, any    *)
(* engine and any order of calls: every level finds a free worker for each *)
(* of its chunks, renders are serial, a level waits for the one before it, *)
(* and what the traversals compute is what the next one finds.             *)
(*                                                                         *)
(* The argument for the pool has two halves.  Arithmetic: the chunks of a  *)
(* level are at most as many as the workers (ChunksFit).  State: when a    *)
(* level is visited every worker is free, because the last answer of the   *)
(* level before it completed it (PoolInv, the inductive invariant).        *)
(***************************************************************************)
EXTENDS LayoutWorkers, FiniteSetTheorems, TLAPS

-----------------------------------------------------------------------------
(***************************************************************************)
(* The arithmetic.                                                         *)
(***************************************************************************)

\* What integer division promises.
LEMMA DivisionBounds ==
  ASSUME NEW a \in Nat, NEW b \in Nat \ {0}
  PROVE  /\ a \div b \in Nat
         /\ b * (a \div b) <= a
         /\ a < b * (a \div b) + b
<1>1. a = b * (a \div b) + (a % b)
  BY SMT
<1>2. a % b \in 0..b - 1
  BY SMT
<1>3. QED
  BY <1>1, <1>2, SMT

\* A common factor may be cancelled.
LEMMA Cancel ==
  ASSUME NEW a \in Nat, NEW b \in Nat, NEW c \in Nat \ {0}, c * a < c * b
  PROVE  a < b
<1>1. SUFFICES ASSUME b <= a PROVE c * b <= c * a
  OBVIOUS
<1>2. QED
  BY <1>1, SMT

\* There is a worker.
LEMMA SomeWorkers == NumWorkers \in Nat \ {0}
  BY ConstantsAssumption, FS_CardinalityType, FS_EmptySet DEF NumWorkers

\* A chunk for every worker covers the level: Math.round may round down, and
\* the `+ 1` makes up for it.
LEMMA ChunksCover ==
  ASSUME NEW length \in Nat
  PROVE  /\ ChunkLength(length) \in Nat \ {0}
         /\ length < NumWorkers * ChunkLength(length)
<1> DEFINE W == NumWorkers
           q == (2 * length + W) \div (2 * W)
<1>1. W \in Nat \ {0}
  BY SomeWorkers
<1>2. 2 * length + W \in Nat /\ 2 * W \in Nat \ {0}
  BY <1>1
<1>3. q \in Nat /\ 2 * length + W < (2 * W) * q + 2 * W
  BY <1>2, DivisionBounds
<1>4. ChunkLength(length) = q + 1
  BY DEF ChunkLength, Round
<1> HIDE DEF W, q
<1>5. (2 * W) * q + 2 * W = 2 * (W * (q + 1)) /\ W * (q + 1) \in Nat
  BY <1>1, <1>3, SMT
<1>6. length < W * (q + 1)
  BY <1>1, <1>3, <1>5
<1>7. QED
  BY <1>3, <1>4, <1>6 DEF W

\* traverseAsync never cuts a level into more chunks than there are workers.
THEOREM ChunksFit ==
  ASSUME NEW length \in Nat \ {0}
  PROVE  Chunks(length) \in 1..NumWorkers
<1> DEFINE W == NumWorkers
           c == ChunkLength(length)
           n == (length + c - 1) \div c
<1>1. W \in Nat \ {0} /\ c \in Nat \ {0} /\ length < W * c
  BY SomeWorkers, ChunksCover
<1>2. length + c - 1 \in Nat
  BY <1>1
<1>3. n \in Nat /\ c * n <= length + c - 1 /\ length + c - 1 < c * n + c
  BY <1>1, <1>2, DivisionBounds
<1>4. Chunks(length) = n
  BY DEF Chunks
<1> HIDE DEF W, c, n
<1>5. n # 0
  BY <1>1, <1>3, SMT
<1>6. n <= W
  <2>1. c * n <= length + c - 1
    BY <1>3
  <2>2. c * n < c * (W + 1)
    <3>1. c * (W + 1) = W * c + c
      BY <1>1, SMT
    <3>2. c * n \in Nat /\ W * c \in Nat
      BY <1>1, <1>3, SMT
    <3>3. QED
      BY <1>1, <2>1, <3>1, <3>2
  <2>3. n < W + 1
    BY <1>1, <1>3, <2>2, Cancel
  <2>4. QED
    BY <1>1, <1>3, <2>3
<1>7. QED
  BY <1>1, <1>3, <1>4, <1>5, <1>6 DEF W

-----------------------------------------------------------------------------
(***************************************************************************)
(* The inductive invariant.                                                *)
(***************************************************************************)

\* Each worker is free once or busy.
Shared ==
  /\ freeLayoutWorkers \in Seq(Workers)
  /\ \A i, j \in DOMAIN freeLayoutWorkers :
       freeLayoutWorkers[i] = freeLayoutWorkers[j] => i = j
  /\ busyLayoutWorkers \subseteq Workers
  /\ ToSet(freeLayoutWorkers) = Workers \ busyLayoutWorkers

\* A busy worker has one message, and a free one has none.
Messages ==
  /\ request = [w \in Workers |-> request[w]]
  /\ reply = [w \in Workers |-> reply[w]]
  /\ \A w \in Workers :
       /\ w \in busyLayoutWorkers <=> request[w] # None \/ reply[w] # None
       /\ request[w] = None \/ reply[w] = None

\* At least as many answers are awaited as workers are busy, and a level is
\* visited only when none is.
Awaited ==
  /\ chunks \in Nat /\ chunksReady \in Nat
  /\ turn # "idle" => outstandingRender /\ busyLayoutWorkers = {}
  /\ busyLayoutWorkers # {} =>
       /\ outstandingRender
       /\ Cardinality(busyLayoutWorkers) <= chunks - chunksReady

\* `levels` is a tree that was loaded.
Loaded == levels \in Trees \cup {<<>>}

PoolInv ==
  /\ Shared /\ Messages /\ Awaited /\ Loaded /\ NoFreeWorkerIsNeverThrown

\* A posted message and an answer are messages.
LEMMA MessagesAreSome ==
  /\ \A p, b : [pass |-> p, buffer |-> b] # None
  /\ \A p, b : [pass |-> p, writes |-> b] # None
<1>1. DOMAIN None = {"none"}
  BY DEF None
<1>2. \A p, b : /\ "pass" \in DOMAIN [pass |-> p, buffer |-> b]
                /\ "pass" \in DOMAIN [pass |-> p, writes |-> b]
  OBVIOUS
<1>3. QED
  BY <1>1, <1>2

\* The free workers are a stack without duplicates: as many as it is long.
LEMMA StackLength ==
  ASSUME Shared
  PROVE  /\ Len(freeLayoutWorkers) \in Nat
         /\ Cardinality(ToSet(freeLayoutWorkers)) = Len(freeLayoutWorkers)
<1> DEFINE s == freeLayoutWorkers
           n == Len(s)
<1>1. s \in [1..n -> ToSet(s)] /\ n \in Nat /\ DOMAIN s = 1..n
  BY DEF Shared, ToSet
<1>2. s \in Surjection(1..n, ToSet(s))
  BY <1>1 DEF Surjection, ToSet
<1>3. s \in Injection(1..n, ToSet(s))
  BY <1>1 DEF Shared, Injection, IsInjective
<1>4. IsFiniteSet(1..n) /\ Cardinality(1..n) = n
  <2>1. 1 \in Int /\ n \in Int
    BY <1>1
  <2>2. IsFiniteSet(1..n)
        /\ Cardinality(1..n) = IF 1 > n THEN 0 ELSE n - 1 + 1
    BY <2>1, FS_Interval
  <2>3. QED
    BY <1>1, <2>2
<1>5. Cardinality(ToSet(s)) = Cardinality(1..n)
  BY <1>2, <1>3, <1>4, FS_Surjection
<1>6. QED
  BY <1>1, <1>4, <1>5

\* The workers taken off the stack are at most as many as the chunks.
LEMMA TakenBound ==
  ASSUME Shared, NEW kept \in 0..Len(freeLayoutWorkers)
  PROVE  Cardinality({freeLayoutWorkers[k] :
                        k \in kept + 1..Len(freeLayoutWorkers)})
           <= Len(freeLayoutWorkers) - kept
<1> DEFINE s == freeLayoutWorkers
           I == kept + 1..Len(s)
           T == {s[k] : k \in I}
           f == [k \in I |-> s[k]]
<1>1. Len(s) \in Nat /\ kept \in Nat /\ kept <= Len(s)
  BY DEF Shared
<1>2. f \in Surjection(I, T)
  BY DEF Surjection
<1>3. IsFiniteSet(I) /\ Cardinality(I) = Len(s) - kept
  <2>1. kept + 1 \in Int /\ Len(s) \in Int
    BY <1>1
  <2>2. IsFiniteSet(I) /\ Cardinality(I) =
          IF kept + 1 > Len(s) THEN 0 ELSE Len(s) - (kept + 1) + 1
    BY <2>1, FS_Interval
  <2>3. QED
    BY <1>1, <2>2
<1> HIDE DEF f, I, T
<1>4. Cardinality(T) <= Cardinality(I)
  BY <1>2, <1>3, FS_Surjection
<1>5. QED
  BY <1>3, <1>4 DEF T, I

-----------------------------------------------------------------------------
(***************************************************************************)
(* Every step preserves it.                                                *)
(***************************************************************************)

\* The pool as the page creates it: a stack of all workers.
LEMMA PoolInit == Init => PoolInv
<1> SUFFICES ASSUME Init PROVE PoolInv
  OBVIOUS
<1> DEFINE n == NumWorkers
           s == freeLayoutWorkers
<1>1. n \in Nat /\ IsFiniteSet(Workers)
  BY SomeWorkers, ConstantsAssumption
<1>2. ExistsBijection(1..n, Workers)
  BY <1>1, FS_CardinalityType DEF NumWorkers
<1>3. PICK b \in [1..n -> Workers] :
        /\ IsInjective(b) /\ \A w \in Workers : \E i \in 1..n : b[i] = w
  BY <1>2 DEF ExistsBijection, Bijection, Injection, Surjection
<1>4. s \in [1..n -> Workers] /\ IsInjective(s)
  BY <1>3 DEF Init, SetToSeq, NumWorkers
<1>5. s \in Seq(Workers) /\ DOMAIN s = 1..n
  BY <1>1, <1>4
<1>6. ToSet(s) = Workers
  <2>1. s \in Injection(1..n, Workers)
    BY <1>4 DEF Injection
  <2>2. Cardinality(1..n) = Cardinality(Workers)
    BY <1>1, FS_Interval DEF NumWorkers
  <2>3. s \in Surjection(1..n, Workers)
    BY <1>1, <2>1, <2>2, FS_Injection
  <2>4. QED
    BY <1>4, <2>3 DEF Surjection, ToSet
<1>7. Shared
  BY <1>4, <1>5, <1>6 DEF Init, Shared, IsInjective
<1>8. QED
  BY <1>7 DEF Init, PoolInv, Messages, Awaited, Loaded,
              NoFreeWorkerIsNeverThrown

\* A level that is visited has nodes.
LEMMA LevelLength ==
  ASSUME Loaded, level \in DOMAIN levels
  PROVE  levels[level].length \in Nat \ {0}
<1>1. levels # <<>>
  OBVIOUS
<1>2. IsTree(levels)
  BY <1>1, ConstantsAssumption DEF Loaded
<1>3. levels \in Seq([start_idx : Nat, length : Nat \ {0}])
  BY <1>2 DEF IsTree
<1> DEFINE Level == [start_idx : Nat, length : Nat \ {0}]
<1>4. levels[level] \in Level
  <2> HIDE DEF Level
  <2>1. levels \in Seq(Level)
    BY <1>3 DEF Level
  <2>2. QED
    BY <2>1
<1>5. QED
  BY <1>4

\* Posting a level takes as many workers as it has chunks, and they are there.
LEMMA PostLevelPool == PoolInv /\ PostLevel => PoolInv'
<1> SUFFICES ASSUME PoolInv, PostLevel PROVE PoolInv'
  OBVIOUS
<1> DEFINE s     == freeLayoutWorkers
           n     == Chunks(levels[level].length)
           kept  == Len(s) - n
           taken == {s[k] : k \in kept + 1..Len(s)}
<1>1. /\ busyLayoutWorkers = {} /\ outstandingRender
      /\ ToSet(s) = Workers
  BY DEF PoolInv, Awaited, Shared, PostLevel
<1>2. Len(s) = NumWorkers /\ NumWorkers \in Nat \ {0}
  BY <1>1, StackLength, SomeWorkers DEF PoolInv, NumWorkers
<1>3. n \in 1..NumWorkers
  BY LevelLength, ChunksFit DEF PoolInv, PostLevel
<1>4. kept \in 0..Len(s)
  BY <1>2, <1>3
<1>5. /\ freeLayoutWorkers' = SubSeq(s, 1, kept)
      /\ busyLayoutWorkers' = taken
      /\ chunks' = n /\ chunksReady' = 0
      /\ turn' = "idle"
      /\ UNCHANGED <<reply, outstandingRender, levels, thrown>>
  BY <1>1, <1>2, <1>3 DEF PostLevel, treeVars
<1>6. /\ s \in Seq(Workers)
      /\ \A i, j \in 1..Len(s) : s[i] = s[j] => i = j
      /\ Len(s) \in Nat
  BY DEF PoolInv, Shared
<1>7. taken \subseteq Workers
  BY <1>4, <1>6
<1>8. Shared'
  <2>1. /\ SubSeq(s, 1, kept) \in Seq(Workers)
        /\ Len(SubSeq(s, 1, kept)) = kept
        /\ DOMAIN SubSeq(s, 1, kept) = 1..kept
        /\ \A i \in 1..kept : SubSeq(s, 1, kept)[i] = s[i]
    BY <1>4, <1>6
  <2>2. \A i, j \in 1..kept :
          SubSeq(s, 1, kept)[i] = SubSeq(s, 1, kept)[j] => i = j
    BY <1>4, <1>6, <2>1
  <2>3. ToSet(SubSeq(s, 1, kept)) = {s[i] : i \in 1..kept}
    BY <2>1 DEF ToSet
  <2>4. ToSet(s) = {s[i] : i \in 1..Len(s)}
    BY <1>6 DEF ToSet
  <2>5. {s[i] : i \in 1..kept} = Workers \ taken
    <3>1. Workers = {s[i] : i \in 1..Len(s)}
      BY <1>1, <2>4
    <3>2. \A i \in 1..Len(s) : i \in 1..kept <=> i \notin kept + 1..Len(s)
      BY <1>4, <1>6
    <3>3. 1..kept \subseteq 1..Len(s) /\ kept + 1..Len(s) \subseteq 1..Len(s)
      BY <1>4, <1>6
    <3>4. ASSUME NEW i \in 1..Len(s)
          PROVE  s[i] \in {s[j] : j \in 1..kept} <=> s[i] \notin taken
      <4> HIDE DEF kept
      <4>1. s[i] \in {s[j] : j \in 1..kept} <=> i \in 1..kept
        BY <1>6, <3>3
      <4>2. s[i] \in taken <=> i \in kept + 1..Len(s)
        BY <1>6, <3>3
      <4>3. QED
        BY <3>2, <4>1, <4>2
    <3>5. {s[j] : j \in 1..kept} \subseteq Workers
      BY <3>1, <3>3
    <3>6. \A w \in Workers : \E i \in 1..Len(s) : w = s[i]
      BY <3>1
    <3> DEFINE below == {s[j] : j \in 1..kept}
    <3>7. \A i \in 1..Len(s) : s[i] \in below <=> s[i] \notin taken
      BY <3>4
    <3>8. below \subseteq Workers
      BY <3>5
    <3> HIDE DEF below, taken
    <3>9. \A w \in Workers : w \in below <=> w \notin taken
      BY <3>6, <3>7
    <3>10. below = Workers \ taken
      BY <3>8, <3>9
    <3>11. QED
      BY <3>10 DEF below
  <2>6. QED
    BY <1>5, <1>7, <2>1, <2>2, <2>3, <2>5 DEF Shared
<1>9. Messages'
  <2>1. /\ request' = [w \in Workers |->
                         IF w \in taken
                           THEN [pass |-> pass, buffer |-> Buffer(pass, level)]
                           ELSE request[w]]
    BY <1>2, <1>3 DEF PostLevel
  <2>2. \A w \in Workers : request[w] = None /\ reply[w] = None
    BY <1>1 DEF PoolInv, Messages
  <2>3. \A w \in Workers : w \in taken <=> request'[w] # None
    BY <2>1, <2>2, MessagesAreSome
  <2>4. QED
    BY <1>5, <2>1, <2>2, <2>3 DEF PoolInv, Messages
<1>10. Awaited'
  <2>1. Cardinality(taken) <= n
    <3>1. Cardinality(taken) <= Len(s) - kept
      BY <1>4, TakenBound DEF PoolInv
    <3>2. Len(s) - kept = n
      BY <1>2, <1>3
    <3>3. QED
      BY <3>1, <3>2
  <2>2. QED
    BY <1>1, <1>3, <1>5, <2>1 DEF Awaited
<1>11. QED
  BY <1>5, <1>8, <1>9, <1>10
     DEF PoolInv, Loaded, NoFreeWorkerIsNeverThrown

\* An answer frees its worker, and the last one of a level completes it.
LEMMA WorkerAnswersPool ==
  ASSUME PoolInv, NEW w \in Workers, WorkerAnswers(w)
  PROVE  PoolInv'
<1> DEFINE busy == busyLayoutWorkers
<1>1. /\ reply[w] # None /\ w \in busy /\ request[w] = None
      /\ freeLayoutWorkers' = Append(freeLayoutWorkers, w)
      /\ busyLayoutWorkers' = busy \ {w}
      /\ reply' = [reply EXCEPT ![w] = None]
      /\ UNCHANGED <<request, outstandingRender, levels>>
  BY DEF WorkerAnswers, PoolInv, Messages, Freed
<1>2. IsFiniteSet(busy) /\ Cardinality(busy) \in Nat
  BY ConstantsAssumption, FS_Subset, FS_CardinalityType DEF PoolInv, Shared
<1>3. /\ Cardinality(busy \ {w}) = Cardinality(busy) - 1
      /\ Cardinality(busy \ {w}) \in Nat
      /\ Cardinality(busy \ {w}) = 0 => busy \ {w} = {}
  <2>1. /\ IsFiniteSet(busy \ {w})
        /\ Cardinality(busy \ {w}) = Cardinality(busy) - 1
    BY <1>1, <1>2, FS_RemoveElement
  <2>2. QED
    BY <2>1, FS_CardinalityType, FS_EmptySet
<1>4. /\ outstandingRender
      /\ Cardinality(busy) <= chunks - chunksReady
      /\ chunks \in Nat /\ chunksReady \in Nat
  BY <1>1 DEF PoolInv, Awaited
<1>5. Shared'
  <2> DEFINE s == freeLayoutWorkers
             t == Append(s, w)
  <2>1. /\ s \in Seq(Workers) /\ Len(s) \in Nat /\ DOMAIN s = 1..Len(s)
        /\ \A i, j \in 1..Len(s) : s[i] = s[j] => i = j
        /\ \A i \in 1..Len(s) : s[i] # w
        /\ {s[i] : i \in 1..Len(s)} = Workers \ busy
    BY <1>1 DEF PoolInv, Shared, ToSet
  <2>2. /\ t \in Seq(Workers) /\ DOMAIN t = 1..Len(s) + 1
        /\ \A i \in 1..Len(s) : t[i] = s[i]
        /\ t[Len(s) + 1] = w
    BY <2>1
  <2> HIDE DEF t
  <2>3. \A i, j \in 1..Len(s) + 1 : t[i] = t[j] => i = j
    BY <2>1, <2>2
  <2>4. ToSet(t) = Workers \ (busy \ {w})
    <3>1. ToSet(t) = {t[i] : i \in 1..Len(s) + 1}
      BY <2>2 DEF ToSet
    <3>2. 1..Len(s) + 1 = 1..Len(s) \cup {Len(s) + 1}
      BY <2>1
    <3>3. ToSet(t) = {t[i] : i \in 1..Len(s)} \cup {w}
      BY <2>2, <3>1, <3>2
    <3>4. {t[i] : i \in 1..Len(s)} = {s[i] : i \in 1..Len(s)}
      BY <2>2
    <3>5. QED
      BY <1>1, <2>1, <3>3, <3>4
  <2>5. busy \ {w} \subseteq Workers
    BY DEF PoolInv, Shared
  <2>6. QED
    BY <1>1, <2>2, <2>3, <2>4, <2>5 DEF Shared, t
<1>6. Messages'
  <2>1. /\ reply' = [v \in Workers |-> IF v = w THEN None ELSE reply[v]]
        /\ request' = [v \in Workers |-> request[v]]
    BY <1>1 DEF PoolInv, Messages
  <2>2. QED
    BY <1>1, <2>1 DEF PoolInv, Messages
<1>7. Awaited'
  <2>1. CASE /\ Throw("RangeError")
             /\ UNCHANGED <<chunks, chunksReady>>
    BY <1>1, <1>2, <1>3, <1>4, <2>1 DEF Awaited, Throw
  <2>2. CASE WorkerDone(chunksReady + 1, chunks)
    <3>1. CASE chunksReady + 1 = chunks
      <4>1. busy \ {w} = {}
        BY <1>2, <1>3, <1>4, <3>1
      <4>2. chunks' = chunks /\ chunksReady' = 0
        BY <2>2, <3>1 DEF WorkerDone, Complete
      <4>3. QED
        BY <1>1, <1>4, <4>1, <4>2 DEF Awaited
    <3>2. CASE chunksReady + 1 # chunks
      <4>1. chunks' = chunks /\ chunksReady' = chunksReady + 1 /\ turn' = "idle"
        BY <2>2, <3>2 DEF WorkerDone, Complete
      <4>2. QED
        BY <1>1, <1>2, <1>3, <1>4, <4>1 DEF Awaited
    <3>3. QED
      BY <3>1, <3>2
  <2>3. QED
    BY <2>1, <2>2 DEF WorkerAnswers
<1>8. thrown' \subseteq thrown \cup {"RangeError"}
  BY DEF WorkerAnswers, Throw
<1>9. QED
  BY <1>1, <1>5, <1>6, <1>7, <1>8
     DEF PoolInv, Loaded, NoFreeWorkerIsNeverThrown

\* A worker that runs trades its message for an answer.
LEMMA WorkerRunsPool ==
  ASSUME PoolInv, NEW w \in Workers, WorkerRuns(w)
  PROVE  PoolInv'
<1>1. /\ request[w] # None /\ w \in busyLayoutWorkers
      /\ request' = [v \in Workers |-> IF v = w THEN None ELSE request[v]]
  BY DEF WorkerRuns, PoolInv, Messages
<1>2. PICK ok \in BOOLEAN :
        reply' = [reply EXCEPT ![w] =
                    [pass |-> request[w].pass,
                     writes |-> IF ok THEN Visit(request[w].buffer) ELSE NoWrites]]
  BY DEF WorkerRuns
<1>3. /\ reply'[w] # None
      /\ reply' = [v \in Workers |-> IF v = w THEN reply'[w] ELSE reply[v]]
  BY <1>2, MessagesAreSome DEF PoolInv, Messages
<1>4. Messages'
  BY <1>1, <1>3 DEF WorkerRuns, PoolInv, Messages
<1>5. QED
  BY <1>4 DEF WorkerRuns, loopVars, treeVars, PoolInv, Shared, Awaited, Loaded,
              NoFreeWorkerIsNeverThrown

\* The steps that leave the pool alone.
LEMMA PageStepsPool ==
  PoolInv /\ (\/ LoadData \/ LayoutAndRenderAsync \/ TimerFires \/ StartPass
              \/ RunMissingLevel \/ RunLevel \/ RunRenderTraversalAsync
              \/ UNCHANGED vars)
    => PoolInv'
<1> SUFFICES ASSUME PoolInv,
                    \/ LoadData \/ LayoutAndRenderAsync \/ TimerFires
                    \/ StartPass \/ RunMissingLevel \/ RunLevel
                    \/ RunRenderTraversalAsync \/ UNCHANGED vars
             PROVE  PoolInv'
  OBVIOUS
<1>1. UNCHANGED poolVars
  BY DEF LoadData, LayoutAndRenderAsync, TimerFires, StartPass, RunMissingLevel,
         RunLevel, RunRenderTraversalAsync, vars
<1>2. Shared' /\ Messages'
  BY <1>1 DEF PoolInv, Shared, Messages, poolVars
<1>3. Loaded'
  BY DEF PoolInv, Loaded, LoadData, LayoutAndRenderAsync, TimerFires, StartPass,
         RunMissingLevel, RunLevel, RunRenderTraversalAsync, vars, treeVars
<1>4. NoFreeWorkerIsNeverThrown'
  <2>1. thrown' \subseteq thrown \cup {"levels", "runTraversalsAsync"}
    <3>1. CASE LayoutAndRenderAsync
      BY <3>1 DEF LayoutAndRenderAsync, Begin, Throw
    <3>2. CASE TimerFires
      BY <3>2 DEF TimerFires, Begin, Throw
    <3>3. CASE StartPass
      BY <3>3 DEF StartPass, Throw
    <3>4. CASE RunMissingLevel
      BY <3>4 DEF RunMissingLevel, Throw
    <3>5. CASE LoadData \/ RunLevel \/ RunRenderTraversalAsync
               \/ UNCHANGED vars
      BY <3>5 DEF LoadData, RunLevel, RunRenderTraversalAsync, vars
    <3>6. QED
      BY <3>1, <3>2, <3>3, <3>4, <3>5
  <2>2. QED
    BY <2>1 DEF PoolInv, NoFreeWorkerIsNeverThrown
<1>5. Awaited'
  <2>1. CASE LoadData \/ UNCHANGED vars
    BY <2>1 DEF PoolInv, Awaited, LoadData, vars, loopVars, poolVars
  <2>2. CASE LayoutAndRenderAsync \/ TimerFires
    <3>1. ~outstandingRender => busyLayoutWorkers = {}
      BY DEF PoolInv, Awaited
    <3>2. UNCHANGED <<chunks, chunksReady, busyLayoutWorkers>>
      BY <1>1, <2>2 DEF LayoutAndRenderAsync, TimerFires, poolVars
    <3>3. CASE UNCHANGED <<outstandingRender, turn>>
      BY <3>2, <3>3 DEF PoolInv, Awaited
    <3>4. CASE outstandingRender' = TRUE /\ ~outstandingRender
      BY <3>1, <3>2, <3>4 DEF PoolInv, Awaited
    <3>5. QED
      BY <2>2, <3>3, <3>4 DEF LayoutAndRenderAsync, TimerFires, Waits, Begin
  <2>3. CASE StartPass \/ RunMissingLevel
    BY <1>1, <2>3 DEF PoolInv, Awaited, StartPass, RunMissingLevel, Throw,
                      poolVars
  <2>4. CASE RunLevel
    BY <1>1, <2>4 DEF PoolInv, Awaited, RunLevel, WorkerDone, Complete, poolVars
  <2>5. CASE RunRenderTraversalAsync
    BY <1>1, <2>5 DEF PoolInv, Awaited, RunRenderTraversalAsync, poolVars
  <2>6. QED
    BY <2>1, <2>2, <2>3, <2>4, <2>5
<1>6. QED
  BY <1>2, <1>3, <1>4, <1>5 DEF PoolInv

LEMMA PoolNext == PoolInv /\ [Next]_vars => PoolInv'
  BY PostLevelPool, WorkerAnswersPool, WorkerRunsPool, PageStepsPool
     DEF Next, Handler

LEMMA PoolAlways == Spec => []PoolInv
  BY PoolInit, PoolNext, PTL DEF Spec

-----------------------------------------------------------------------------
(***************************************************************************)
(* What follows.                                                           *)
(***************************************************************************)

\* `throw 'no free worker'` in runKernelRange is unreachable.
THEOREM NoFreeWorker == Spec => []NoFreeWorkerIsNeverThrown
<1>1. PoolInv => NoFreeWorkerIsNeverThrown
  BY DEF PoolInv
<1>2. QED
  BY <1>1, PoolAlways, PTL

\* freeLayoutWorkers and busyLayoutWorkers share the workers out, and a worker
\* is busy exactly while a message of its is under way.
THEOREM WorkersShared == Spec => []WorkersAccounted
<1>1. PoolInv => WorkersAccounted
  BY StackLength DEF PoolInv, Shared, Messages, WorkersAccounted
<1>2. QED
  BY <1>1, PoolAlways, PTL

\* The callback of every render begun has run, but for the outstanding one.
LEMMA SerialNext ==
  ASSUME PoolInv, RendersAreSerial, render \in Nat, ended \in Nat, [Next]_vars
  PROVE  RendersAreSerial' /\ render' \in Nat /\ ended' \in Nat
<1>1. CASE UNCHANGED <<outstandingRender, render, ended>>
  BY <1>1 DEF RendersAreSerial
<1>2. CASE /\ ~outstandingRender /\ outstandingRender' = TRUE
           /\ render' = render + 1 /\ ended' = ended
  <2>1. render = ended
    BY <1>2 DEF RendersAreSerial
  <2>2. render' - ended' = 1
    BY <1>2, <2>1
  <2>3. QED
    BY <1>2, <2>2 DEF RendersAreSerial
<1>3. CASE /\ outstandingRender /\ outstandingRender' = FALSE
           /\ render' = render /\ ended' = ended + 1
  <2>1. render - ended = 1
    BY <1>3 DEF RendersAreSerial
  <2>2. render' - ended' = 0
    BY <1>3, <2>1
  <2>3. QED
    BY <1>3, <2>2 DEF RendersAreSerial
<1>4. CASE LayoutAndRenderAsync \/ TimerFires
  <2>1. UNCHANGED ended
    BY <1>4 DEF LayoutAndRenderAsync, TimerFires
  <2>2. \/ UNCHANGED <<outstandingRender, render>>
        \/ /\ ~outstandingRender /\ outstandingRender' = TRUE
           /\ render' = render + 1
    BY <1>4, Zenon DEF LayoutAndRenderAsync, TimerFires, Begin, Waits
  <2>3. QED
    BY <1>1, <1>2, <2>1, <2>2
<1>5. CASE RunRenderTraversalAsync
  <2>1. outstandingRender
    BY <1>5 DEF PoolInv, Awaited, RunRenderTraversalAsync
  <2>2. QED
    BY <1>3, <1>5, <2>1 DEF RunRenderTraversalAsync, Finished
<1>6. CASE StartPass \/ RunMissingLevel \/ RunLevel \/ PostLevel
  BY <1>1, <1>6 DEF StartPass, RunMissingLevel, RunLevel, PostLevel
<1>7. CASE LoadData \/ UNCHANGED vars
  BY <1>1, <1>7 DEF LoadData, vars
<1>8. CASE \E w \in Workers : WorkerRuns(w) \/ WorkerAnswers(w)
  BY <1>1, <1>8 DEF WorkerRuns, WorkerAnswers
<1>9. QED
  BY <1>4, <1>5, <1>6, <1>7, <1>8 DEF Next, Handler

\* layoutAndRenderAsync lets one render run at a time and loses none: the
\* callback of every render begun has run, but for the outstanding one.
THEOREM RendersSerial == Spec => []RendersAreSerial
<1> DEFINE Inv == RendersAreSerial /\ render \in Nat /\ ended \in Nat
<1>1. Init => Inv
  <2>1. Init => outstandingRender = FALSE /\ render = 0 /\ ended = 0
    BY DEF Init
  <2>2. outstandingRender = FALSE /\ render = 0 /\ ended = 0 => Inv
    BY DEF RendersAreSerial
  <2>3. QED
    BY <2>1, <2>2
<1>2. PoolInv /\ Inv /\ [Next]_vars => Inv'
  BY SerialNext
<1>3. QED
  BY <1>1, <1>2, PoolAlways, PTL DEF Spec

-----------------------------------------------------------------------------
(***************************************************************************)
(* Refinement: what the callers see is a RenderService.                    *)
(***************************************************************************)

\* Every call made has been answered, waits, or has the outstanding render.
CallsInv ==
  /\ calls \in Nat /\ waiting \in Nat /\ ended \in Nat
  /\ outstandingRender => calls = ended + waiting + 1
  /\ ~outstandingRender => calls = ended + waiting

\* What a step does to the callers' view: nothing, a call that waits, a call or
\* a timer that begins a render, or the end of one.
CallStep ==
  \/ UNCHANGED <<calls, waiting, ended, outstandingRender>>
  \/ /\ outstandingRender /\ calls' = calls + 1 /\ waiting' = waiting + 1
     /\ outstandingRender' = TRUE /\ UNCHANGED ended
  \/ /\ ~outstandingRender /\ outstandingRender' = TRUE /\ calls' = calls + 1
     /\ UNCHANGED <<ended, waiting>>
  \/ /\ ~outstandingRender /\ outstandingRender' = TRUE /\ waiting > 0
     /\ waiting' = waiting - 1 /\ UNCHANGED <<calls, ended>>
  \/ /\ outstandingRender /\ outstandingRender' = FALSE /\ ended' = ended + 1
     /\ UNCHANGED <<calls, waiting>>

LEMMA NextCallStep ==
  ASSUME PoolInv, [Next]_vars
  PROVE  CallStep
<1>1. CASE LayoutAndRenderAsync
  BY <1>1, Zenon DEF LayoutAndRenderAsync, Begin, Waits, CallStep
<1>2. CASE TimerFires
  BY <1>2, Zenon DEF TimerFires, Begin, Waits, pageVars, CallStep
<1>3. CASE RunRenderTraversalAsync
  <2>1. outstandingRender
    BY <1>3 DEF PoolInv, Awaited, RunRenderTraversalAsync
  <2>2. QED
    BY <1>3, <2>1 DEF RunRenderTraversalAsync, Finished, pageVars, CallStep
<1>4. CASE StartPass \/ RunMissingLevel \/ RunLevel \/ PostLevel
  BY <1>4 DEF StartPass, RunMissingLevel, RunLevel, PostLevel, pageVars, CallStep
<1>5. CASE LoadData \/ UNCHANGED vars
  BY <1>5 DEF LoadData, vars, pageVars, CallStep
<1>6. CASE \E w \in Workers : WorkerRuns(w) \/ WorkerAnswers(w)
  BY <1>6 DEF WorkerRuns, WorkerAnswers, pageVars, CallStep
<1>7. QED
  BY <1>1, <1>2, <1>3, <1>4, <1>5, <1>6 DEF Next, Handler

LEMMA CallStepInv ==
  ASSUME CallsInv, CallStep
  PROVE  CallsInv'
<1>1. CASE UNCHANGED <<calls, waiting, ended, outstandingRender>>
  BY <1>1 DEF CallsInv
<1>2. CASE /\ outstandingRender /\ calls' = calls + 1 /\ waiting' = waiting + 1
           /\ outstandingRender' = TRUE /\ UNCHANGED ended
  BY <1>2 DEF CallsInv
<1>3. CASE /\ ~outstandingRender /\ outstandingRender' = TRUE /\ calls' = calls + 1
           /\ UNCHANGED <<ended, waiting>>
  BY <1>3 DEF CallsInv
<1>4. CASE /\ ~outstandingRender /\ outstandingRender' = TRUE /\ waiting > 0
           /\ waiting' = waiting - 1 /\ UNCHANGED <<calls, ended>>
  BY <1>4 DEF CallsInv
<1>5. CASE /\ outstandingRender /\ outstandingRender' = FALSE /\ ended' = ended + 1
           /\ UNCHANGED <<calls, waiting>>
  BY <1>5 DEF CallsInv
<1>6. QED
  BY <1>1, <1>2, <1>3, <1>4, <1>5 DEF CallStep

LEMMA CallStepServes ==
  ASSUME CallsInv, CallStep
  PROVE  [Service!Next]_(Service!vars)
<1>1. CASE UNCHANGED <<calls, waiting, ended, outstandingRender>>
  BY <1>1 DEF Service!vars
<1>2. CASE /\ outstandingRender /\ calls' = calls + 1 /\ waiting' = waiting + 1
           /\ outstandingRender' = TRUE /\ UNCHANGED ended
  BY <1>2 DEF CallsInv, Service!Next, Service!Ask
<1>3. CASE /\ ~outstandingRender /\ outstandingRender' = TRUE /\ calls' = calls + 1
           /\ UNCHANGED <<ended, waiting>>
  BY <1>3 DEF Service!Next, Service!Ask
<1>4. CASE /\ ~outstandingRender /\ outstandingRender' = TRUE /\ waiting > 0
           /\ waiting' = waiting - 1 /\ UNCHANGED <<calls, ended>>
  <2>1. ended < calls
    BY <1>4 DEF CallsInv
  <2>2. QED
    BY <1>4, <2>1 DEF Service!Next, Service!Start
<1>5. CASE /\ outstandingRender /\ outstandingRender' = FALSE /\ ended' = ended + 1
           /\ UNCHANGED <<calls, waiting>>
  BY <1>5 DEF Service!Next, Service!Finish
<1>6. QED
  BY <1>1, <1>2, <1>3, <1>4, <1>5 DEF CallStep

\* Whatever trees are loaded and whichever workers fail, layoutAndRenderAsync is
\* a RenderService to its callers: a render begins only for an unanswered call,
\* while none runs, and its callback answers exactly one call.
THEOREM ServiceImplemented == Spec => ImplementsService
<1>1. Init => Service!Init /\ CallsInv
  <2>1. Init => outstandingRender = FALSE /\ calls = 0 /\ waiting = 0 /\ ended = 0
    BY DEF Init
  <2>2. QED
    BY <2>1 DEF Service!Init, CallsInv
<1>2. PoolInv /\ CallsInv /\ [Next]_vars => CallsInv' /\ [Service!Next]_(Service!vars)
  BY NextCallStep, CallStepInv, CallStepServes
<1>3. QED
  BY <1>1, <1>2, PoolAlways, PTL DEF Spec, ImplementsService, Service!Spec

-----------------------------------------------------------------------------
(***************************************************************************)
(* What the traversals compute: types, the barrier between two levels, and *)
(* the values a render pass finds.  Two further invariants, LayoutInv and  *)
(* Progress, on top of the pool (PoolInv) and the calls (CallsInv).        *)
(***************************************************************************)

Level == [start_idx : Nat, length : Nat \ {0}]

-----------------------------------------------------------------------------
(***************************************************************************)
(* Trees.                                                                  *)
(***************************************************************************)

\* A loaded tree has levels.
LEMMA LoadedLevels ==
  ASSUME Loaded, levels # <<>>
  PROVE  /\ IsTree(levels) /\ levels \in Seq(Level)
         /\ Len(levels) \in Nat \ {0} /\ DOMAIN levels = 1..Len(levels)
<1>1. IsTree(levels)
  BY ConstantsAssumption DEF Loaded
<1>2. levels \in Seq(Level)
  BY <1>1 DEF IsTree, Level
<1>3. Len(levels) \in Nat \ {0} /\ DOMAIN levels = 1..Len(levels)
  <2> HIDE DEF Level
  <2>1. QED
    BY <1>2
<1>4. QED
  BY <1>1, <1>2, <1>3

\* A level of the loaded tree is a range of its nodes.
LEMMA LevelsAreRanges ==
  ASSUME Loaded, NEW l \in DOMAIN levels
  PROVE  /\ levels # <<>> /\ Len(levels) \in Nat \ {0} /\ DOMAIN levels = 1..Len(levels)
         /\ levels[l] \in Level
         /\ Visited(levels[l]) \subseteq Nodes(levels)
<1>1. levels # <<>>
  OBVIOUS
<1>2. IsTree(levels)
  BY <1>1, LoadedLevels
<1>3. levels \in Seq(Level)
  BY <1>1, LoadedLevels
<1>4. Len(levels) \in Nat \ {0} /\ DOMAIN levels = 1..Len(levels)
  BY <1>1, LoadedLevels
<1>5. levels[l] \in Level /\ levels[Len(levels)] \in Level
  <2> HIDE DEF Level
  <2>1. QED
    BY <1>3, <1>4
<1>6. levels[l].start_idx + levels[l].length
        <= levels[Len(levels)].start_idx + levels[Len(levels)].length
  <2>1. CASE l = Len(levels)
    BY <1>5, <2>1 DEF Level
  <2>2. CASE l < Len(levels)
    <3>1. levels[l].start_idx + levels[l].length <= levels[Len(levels)].start_idx
      BY <1>2, <1>4, <2>2 DEF IsTree
    <3>2. QED
      BY <1>5, <3>1 DEF Level
  <2>3. QED
    BY <1>4, <2>1, <2>2
<1>7. TreeSize(levels) = levels[Len(levels)].start_idx + levels[Len(levels)].length
  BY <1>1 DEF TreeSize, Last
<1>8. Visited(levels[l]) \subseteq Nodes(levels)
  BY <1>5, <1>6, <1>7 DEF Visited, Nodes, Level
<1>9. QED
  BY <1>1, <1>4, <1>5, <1>8

\* Two levels of the loaded tree have no node in common.
LEMMA LevelsAreDisjoint ==
  ASSUME Loaded, NEW k \in DOMAIN levels, NEW l \in DOMAIN levels, k # l
  PROVE  Visited(levels[k]) \cap Visited(levels[l]) = {}
<1>1. /\ DOMAIN levels = 1..Len(levels) /\ Len(levels) \in Nat
      /\ levels[k] \in Level /\ levels[l] \in Level
  BY LevelsAreRanges
<1>2. IsTree(levels)
  BY ConstantsAssumption DEF Loaded
<1>3. \/ levels[k].start_idx + levels[k].length <= levels[l].start_idx
      \/ levels[l].start_idx + levels[l].length <= levels[k].start_idx
  <2>1. k < l \/ l < k
    BY <1>1
  <2>2. QED
    BY <1>1, <1>2, <2>1 DEF IsTree
<1>4. QED
  BY <1>1, <1>3 DEF Visited, Level

\* What a pass writes at a level is in the memory of the loaded tree.
LEMMA WrittenIsThere ==
  ASSUME Loaded, NEW l \in DOMAIN levels, NEW p \in Passes
  PROVE  Written(p, levels, l) \subseteq Cells(levels)
<1>1. Visited(levels[l]) \subseteq Nodes(levels)
  BY LevelsAreRanges
<1>2. Below(levels, l) \subseteq Nodes(levels)
  <2>1. CASE l + 1 \in DOMAIN levels
    BY <2>1, LevelsAreRanges DEF Below
  <2>2. CASE l + 1 \notin DOMAIN levels
    BY <2>2 DEF Below
  <2>3. QED
    BY <2>1, <2>2
<1>3. QED
  BY <1>1, <1>2 DEF Written, Cells, Kinds

\* Two levels write different cells, in whatever passes: nodes and children of
\* two levels are different nodes.
LEMMA WrittenApart ==
  ASSUME Loaded, NEW k \in DOMAIN levels, NEW l \in DOMAIN levels, k # l,
         NEW p, NEW q
  PROVE  Written(p, levels, k) \cap Written(q, levels, l) = {}
<1>1. Visited(levels[k]) \cap Visited(levels[l]) = {}
  BY LevelsAreDisjoint
<1>2. Below(levels, k) \cap Below(levels, l) = {}
  <2>1. CASE k + 1 \in DOMAIN levels /\ l + 1 \in DOMAIN levels
    <3>1. k + 1 # l + 1
      BY LevelsAreRanges
    <3>2. QED
      BY <2>1, <3>1, LevelsAreDisjoint DEF Below
  <2>2. CASE ~(k + 1 \in DOMAIN levels /\ l + 1 \in DOMAIN levels)
    BY <2>2 DEF Below
  <2>3. QED
    BY <2>1, <2>2
<1>3. "self" # "child"
  OBVIOUS
<1>4. QED
  BY <1>1, <1>2, <1>3 DEF Written
-----------------------------------------------------------------------------
(***************************************************************************)
(* Types.                                                                  *)
(***************************************************************************)

\* Where the traversals are.
LoopType ==
  /\ turn \in {"idle", "pass", "level", "render"}
  /\ pass \in Passes /\ level \in Nat \ {0}

LEMMA WorkerDoneLoop ==
  ASSUME LoopType, NEW ready, NEW posted, WorkerDone(ready, posted)
  PROVE  LoopType'
<1>0. Len(Directions) \in Nat
  BY ConstantsAssumption
<1>1. CASE Complete(ready, posted) /\ More(pass, level)
  <2>1. turn' = "level" /\ pass' = pass /\ level' = NextLevel(pass, level)
    BY <1>1 DEF WorkerDone
  <2>2. NextLevel(pass, level) \in Nat \ {0}
    BY <1>1 DEF More, NextLevel, LoopType
  <2>3. QED
    BY <2>1, <2>2 DEF LoopType
<1>2. CASE Complete(ready, posted) /\ ~More(pass, level) /\ pass < Len(Directions)
  <2>1. turn' = "pass" /\ pass' = pass + 1 /\ level' = level
    BY <1>2 DEF WorkerDone
  <2>2. pass + 1 \in Passes
    BY <1>0, <1>2 DEF LoopType, Passes
  <2>3. QED
    BY <2>1, <2>2 DEF LoopType
<1>3. CASE Complete(ready, posted) /\ ~More(pass, level) /\ ~(pass < Len(Directions))
  BY <1>3 DEF WorkerDone, LoopType
<1>4. CASE ~Complete(ready, posted)
  BY <1>4 DEF WorkerDone, LoopType
<1>5. QED
  BY <1>1, <1>2, <1>3, <1>4

LEMMA LoopTypeNext ==
  ASSUME PoolInv, LoopType, [Next]_vars
  PROVE  LoopType'
<1>0. 1 \in Passes
  <2>1. Len(Directions) \in Nat \ {0}
    BY ConstantsAssumption
  <2>2. QED
    BY <2>1 DEF Passes
<1>1. CASE LayoutAndRenderAsync \/ TimerFires
  <2>1. level' = level
    BY <1>1 DEF LayoutAndRenderAsync, TimerFires
  <2>2. /\ turn' = "pass" \/ turn' = turn \/ turn' = "idle"
        /\ pass' = 1 \/ pass' = pass
    BY <1>1 DEF LayoutAndRenderAsync, TimerFires, Begin, Throw
  <2>3. QED
    BY <1>0, <2>1, <2>2 DEF LoopType
<1>2. CASE StartPass
  <2>1. CASE levels = <<>>
    BY <1>2, <2>1 DEF StartPass, Throw, LoopType
  <2>2. CASE levels # <<>>
    <3>1. Len(levels) \in Nat \ {0}
      BY <2>2, LoadedLevels DEF PoolInv
    <3>2. turn' = "level" /\ pass' = pass /\ level' = FirstLevel(pass)
      BY <1>2, <2>2 DEF StartPass
    <3>3. QED
      BY <3>1, <3>2 DEF FirstLevel, LoopType
  <2>3. QED
    BY <2>1, <2>2
<1>3. CASE RunMissingLevel
  BY <1>3 DEF RunMissingLevel, Throw, LoopType
<1>4. CASE RunLevel
  BY <1>4, WorkerDoneLoop DEF RunLevel
<1>5. CASE PostLevel
  BY <1>5 DEF PostLevel, LoopType
<1>6. CASE RunRenderTraversalAsync
  BY <1>6 DEF RunRenderTraversalAsync, LoopType
<1>7. CASE LoadData \/ UNCHANGED vars
  BY <1>7 DEF LoadData, vars, loopVars, LoopType
<1>8. ASSUME NEW w \in Workers, WorkerRuns(w)
      PROVE  LoopType'
  BY <1>8 DEF WorkerRuns, loopVars, LoopType
<1>9. ASSUME NEW w \in Workers, WorkerAnswers(w)
      PROVE  LoopType'
  <2>1. CASE WorkerDone(chunksReady + 1, chunks)
    BY <2>1, WorkerDoneLoop
  <2>2. CASE Throw("RangeError") /\ UNCHANGED <<pass, level>>
    BY <2>2 DEF Throw, LoopType
  <2>3. QED
    BY <1>9, <2>1, <2>2 DEF WorkerAnswers
<1>10. QED
  BY <1>1, <1>2, <1>3, <1>4, <1>5, <1>6, <1>7, <1>8, <1>9 DEF Next, Handler

\* The calls are bounded, and what is asked, waited for and rendered with them.
CallsBound ==
  /\ CallsInv /\ RendersAreSerial /\ render \in Nat
  /\ calls <= MaxCalls /\ loads \in 0..MaxLoads

LEMMA BoundNext ==
  ASSUME PoolInv, CallsBound, [Next]_vars
  PROVE  CallsBound'
<1>1. CallsInv' /\ RendersAreSerial' /\ render' \in Nat
  BY NextCallStep, CallStepInv, SerialNext DEF CallsBound, CallsInv
<1>2. calls' <= MaxCalls
  <2>1. CASE UNCHANGED calls
    BY <2>1 DEF CallsBound
  <2>2. CASE LayoutAndRenderAsync
    BY <2>2, ConstantsAssumption DEF LayoutAndRenderAsync, CallsBound, CallsInv
  <2>3. CASE LoadData \/ TimerFires \/ Handler \/ UNCHANGED vars
             \/ \E w \in Workers : WorkerRuns(w) \/ WorkerAnswers(w)
    <3>1. UNCHANGED calls
      BY <2>3 DEF LoadData, TimerFires, Handler, StartPass, RunMissingLevel, RunLevel,
                  PostLevel, RunRenderTraversalAsync, WorkerRuns, WorkerAnswers, pageVars, vars
    <3>2. QED
      BY <2>1, <3>1
  <2>4. QED
    BY <2>2, <2>3 DEF Next
<1>3. loads' \in 0..MaxLoads
  <2>1. CASE LoadData
    BY <2>1, ConstantsAssumption DEF LoadData, CallsBound
  <2>2. CASE LayoutAndRenderAsync \/ TimerFires \/ Handler \/ UNCHANGED vars
             \/ \E w \in Workers : WorkerRuns(w) \/ WorkerAnswers(w)
    <3>1. UNCHANGED loads
      BY <2>2 DEF LayoutAndRenderAsync, TimerFires, Handler, StartPass, RunMissingLevel, RunLevel,
                  PostLevel, RunRenderTraversalAsync, WorkerRuns, WorkerAnswers, pageVars, vars
    <3>2. QED
      BY <3>1 DEF CallsBound
  <2>3. QED
    BY <2>1, <2>2 DEF Next
<1>4. QED
  BY <1>1, <1>2, <1>3 DEF CallsBound

\* No number exceeds the number of calls.
LEMMA BoundRanges ==
  ASSUME CallsBound
  PROVE  /\ waiting \in 0..MaxCalls /\ calls \in 0..MaxCalls /\ loads \in 0..MaxLoads
         /\ render \in 0..MaxCalls /\ ended \in Nat
<1>1. MaxCalls \in Nat /\ calls \in Nat /\ waiting \in Nat /\ ended \in Nat /\ render \in Nat
  BY ConstantsAssumption DEF CallsBound, CallsInv
<1>2. CASE outstandingRender
  <2>1. calls = ended + waiting + 1 /\ render - ended = 1
    BY <1>2 DEF CallsBound, CallsInv, RendersAreSerial
  <2>2. QED
    BY <1>1, <2>1 DEF CallsBound
<1>3. CASE ~outstandingRender
  <2>1. calls = ended + waiting /\ render - ended = 0
    BY <1>3 DEF CallsBound, CallsInv, RendersAreSerial
  <2>2. QED
    BY <1>1, <2>1 DEF CallsBound
<1>4. QED
  BY <1>2, <1>3

\* The memory and the messages hold numbers of renders.
Numbers(f) == \E C : f \in [C -> 0..MaxCalls]
ValueType ==
  /\ value \in [Cells(levels) -> 0..MaxCalls]
  /\ \A w \in Workers :
       /\ request[w] # None => Numbers(request[w].buffer)
       /\ reply[w] # None => Numbers(reply[w].writes)

\* The answer of a worker that failed holds nothing.
LEMMA NoWritesAreNumbers == Numbers(NoWrites)
<1>1. <<>> \in [{} -> 0..MaxCalls]
  OBVIOUS
<1>2. QED
  BY <1>1 DEF Numbers, NoWrites

\* Copying numbers over the memory leaves it one of numbers.
LEMMA OverwrittenType ==
  ASSUME NEW C, value \in [C -> 0..MaxCalls], NEW writes, Numbers(writes), NEW kinds
  PROVE  Overwritten(writes, kinds) \in [C -> 0..MaxCalls]
<1>1. \A c \in DOMAIN writes : writes[c] \in 0..MaxCalls
  BY DEF Numbers
<1>2. QED
  BY <1>1 DEF Overwritten

LEMMA ValueLoadData ==
  ASSUME ValueType, LoadData
  PROVE  ValueType'
<1>1. PICK tree \in Trees : levels' = tree /\ value' = [c \in Cells(tree) |-> 0]
  BY DEF LoadData
<1>2. 0 \in 0..MaxCalls
  BY ConstantsAssumption
<1>3. value' \in [Cells(tree) -> 0..MaxCalls]
  BY <1>1, <1>2
<1>4. Cells(levels)' = Cells(tree)
  BY <1>1 DEF Cells, Nodes, TreeSize
<1>5. UNCHANGED <<request, reply>>
  BY DEF LoadData, poolVars
<1>6. QED
  BY <1>3, <1>4, <1>5 DEF ValueType, Numbers

LEMMA ValueRunLevel ==
  ASSUME ValueType, CallsBound, RunLevel
  PROVE  ValueType'
<1>1. /\ value' = [c \in DOMAIN value |->
                     IF c \in Written(pass, levels, level) THEN render ELSE value[c]]
      /\ UNCHANGED <<levels, request, reply>>
  BY DEF RunLevel, poolVars
<1>2. render \in 0..MaxCalls
  BY BoundRanges
<1>3. value \in [Cells(levels) -> 0..MaxCalls]
  BY DEF ValueType
<1>4. value' \in [Cells(levels) -> 0..MaxCalls]
  BY <1>1, <1>2, <1>3
<1>5. Cells(levels)' = Cells(levels)
  BY <1>1 DEF Cells, Nodes, TreeSize
<1>6. QED
  BY <1>1, <1>4, <1>5 DEF ValueType, Numbers

LEMMA ValuePostLevel ==
  ASSUME PoolInv, ValueType, LoopType, PostLevel
  PROVE  ValueType'
<1> DEFINE m == [pass |-> pass, buffer |-> Buffer(pass, level)]
<1>1. /\ UNCHANGED <<value, levels, reply>>
      /\ \A w \in Workers : request'[w] = m \/ request'[w] = request[w]
  BY DEF PostLevel, treeVars
<1>2. Written(pass, levels, level) \subseteq Cells(levels)
  BY WrittenIsThere DEF PoolInv, PostLevel, LoopType
<1>3. Numbers(Buffer(pass, level))
  <2>1. \A c \in Written(pass, levels, level) : value[c] \in 0..MaxCalls
    BY <1>2 DEF ValueType
  <2>2. 0 \in 0..MaxCalls
    BY ConstantsAssumption
  <2>3. Buffer(pass, level) \in [Written(pass, levels, level) -> 0..MaxCalls]
    BY <2>1, <2>2 DEF Buffer
  <2>4. QED
    BY <2>3 DEF Numbers
<1>4. m.buffer = Buffer(pass, level)
  OBVIOUS
<1>5. Cells(levels)' = Cells(levels)
  BY <1>1 DEF Cells, Nodes, TreeSize
<1> HIDE DEF m
<1>6. QED
  BY <1>1, <1>3, <1>4, <1>5 DEF ValueType, Numbers

LEMMA ValueWorkerRuns ==
  ASSUME PoolInv, ValueType, NEW w \in Workers, WorkerRuns(w)
  PROVE  ValueType'
<1>1. request[w] # None /\ UNCHANGED <<value, levels>>
  BY DEF WorkerRuns, treeVars
<1>2. PICK ok \in BOOLEAN :
        reply' = [reply EXCEPT ![w] =
                    [pass |-> request[w].pass,
                     writes |-> IF ok THEN request[w].buffer ELSE NoWrites]]
  BY DEF WorkerRuns, Visit
<1>3. request' = [request EXCEPT ![w] = None]
  BY DEF WorkerRuns
<1>4. \A v \in Workers : v # w => request'[v] = request[v] /\ reply'[v] = reply[v]
  BY <1>2, <1>3 DEF PoolInv, Messages
<1>5. request'[w] = None
  BY <1>3 DEF PoolInv, Messages
<1>6. reply'[w].writes = request[w].buffer \/ reply'[w].writes = NoWrites
  BY <1>2 DEF PoolInv, Messages
<1>7. Numbers(reply'[w].writes)
  BY <1>1, <1>6, NoWritesAreNumbers DEF ValueType
<1>8. Cells(levels)' = Cells(levels)
  BY <1>1 DEF Cells, Nodes, TreeSize
<1>9. QED
  BY <1>1, <1>4, <1>5, <1>7, <1>8 DEF ValueType, Numbers

LEMMA ValueWorkerAnswers ==
  ASSUME PoolInv, ValueType, NEW w \in Workers, WorkerAnswers(w)
  PROVE  ValueType'
<1>1. /\ reply[w] # None /\ UNCHANGED <<levels, request>>
      /\ reply' = [reply EXCEPT ![w] = None]
  BY DEF WorkerAnswers
<1>2. \A v \in Workers : reply'[v] = None \/ reply'[v] = reply[v]
  BY <1>1 DEF PoolInv, Messages
<1>3. \/ value' = value
      \/ \E kinds : value' = Overwritten(reply[w].writes, kinds)
  BY DEF WorkerAnswers
<1>4. value' \in [Cells(levels) -> 0..MaxCalls]
  BY <1>1, <1>3, OverwrittenType DEF ValueType
<1>5. Cells(levels)' = Cells(levels)
  BY <1>1 DEF Cells, Nodes, TreeSize
<1>6. QED
  BY <1>1, <1>2, <1>4, <1>5 DEF ValueType, Numbers

LEMMA ValueNext ==
  ASSUME PoolInv, LoopType, CallsBound, ValueType, [Next]_vars
  PROVE  ValueType'
<1>1. CASE \/ LayoutAndRenderAsync \/ TimerFires \/ StartPass \/ RunMissingLevel
           \/ RunRenderTraversalAsync \/ UNCHANGED vars
  <2>1. UNCHANGED <<value, levels, request, reply>>
    BY <1>1 DEF LayoutAndRenderAsync, TimerFires, StartPass, RunMissingLevel,
                RunRenderTraversalAsync, vars, treeVars, poolVars
  <2>2. Cells(levels)' = Cells(levels)
    BY <2>1 DEF Cells, Nodes, TreeSize
  <2>3. QED
    BY <2>1, <2>2 DEF ValueType, Numbers
<1>2. QED
  BY <1>1, ValueLoadData, ValueRunLevel, ValuePostLevel, ValueWorkerRuns, ValueWorkerAnswers
     DEF Next, Handler

\* The parts of TypeOK no other part needs.
RestType ==
  /\ ignoreCL \in BOOLEAN /\ habits \subseteq Habits /\ outstandingRender \in BOOLEAN
  /\ thrown \subseteq {"runTraversalsAsync", "levels", "no free worker", "RangeError"}

LEMMA RestNext ==
  ASSUME RestType, [Next]_vars
  PROVE  RestType'
<1> DEFINE Whys == {"runTraversalsAsync", "levels", "no free worker", "RangeError"}
<1>1. ignoreCL' = ignoreCL /\ habits' = habits
  <2>1. CASE LoadData \/ LayoutAndRenderAsync \/ UNCHANGED vars
    BY <2>1 DEF LoadData, LayoutAndRenderAsync, vars, pageVars
  <2>2. CASE TimerFires \/ Handler \/ \E w \in Workers : WorkerRuns(w) \/ WorkerAnswers(w)
    BY <2>2 DEF TimerFires, Handler, StartPass, RunMissingLevel, RunLevel, PostLevel,
                RunRenderTraversalAsync, WorkerRuns, WorkerAnswers, pageVars
  <2>3. QED
    BY <2>1, <2>2 DEF Next
<1>2. outstandingRender' \in BOOLEAN
  <2>1. CASE UNCHANGED outstandingRender
    BY <2>1, Zenon DEF RestType
  <2>2. CASE outstandingRender' = TRUE \/ outstandingRender' = FALSE
    BY <2>2, Zenon
  <2>3. CASE LayoutAndRenderAsync \/ TimerFires
    BY <2>1, <2>2, <2>3, Zenon DEF LayoutAndRenderAsync, TimerFires, Begin
  <2>4. CASE RunRenderTraversalAsync
    BY <2>2, <2>4, Zenon DEF RunRenderTraversalAsync, Finished
  <2>5. CASE LoadData \/ StartPass \/ RunMissingLevel \/ RunLevel \/ PostLevel \/ UNCHANGED vars
             \/ \E w \in Workers : WorkerRuns(w) \/ WorkerAnswers(w)
    <3>1. UNCHANGED outstandingRender
      BY <2>5 DEF LoadData, StartPass, RunMissingLevel, RunLevel, PostLevel, WorkerRuns,
                  WorkerAnswers, vars
    <3>2. QED
      BY <2>1, <3>1
  <2>6. QED
    BY <2>3, <2>4, <2>5 DEF Next, Handler
<1>3. thrown' \subseteq thrown \cup Whys
  <2>1. CASE LayoutAndRenderAsync \/ TimerFires
    BY <2>1 DEF LayoutAndRenderAsync, TimerFires, Begin, Throw
  <2>2. CASE StartPass \/ RunMissingLevel \/ PostLevel
    BY <2>2 DEF StartPass, RunMissingLevel, PostLevel, Throw
  <2>3. CASE LoadData \/ RunLevel \/ RunRenderTraversalAsync \/ UNCHANGED vars
    BY <2>3 DEF LoadData, RunLevel, RunRenderTraversalAsync, vars
  <2>4. CASE \E w \in Workers : WorkerRuns(w) \/ WorkerAnswers(w)
    BY <2>4 DEF WorkerRuns, WorkerAnswers, Throw
  <2>5. QED
    BY <2>1, <2>2, <2>3, <2>4 DEF Next, Handler
<1>4. QED
  BY <1>1, <1>2, <1>3 DEF RestType

LayoutInv == PoolInv /\ LoopType /\ CallsBound /\ ValueType /\ RestType

LEMMA LayoutInit == Init => LayoutInv
<1> SUFFICES ASSUME Init PROVE LayoutInv
  OBVIOUS
<1>1. LoopType
  <2>1. Len(Directions) \in Nat \ {0}
    BY ConstantsAssumption
  <2>2. QED
    BY <2>1 DEF Init, LoopType, Passes
<1>2. CallsBound
  <2>1. outstandingRender = FALSE /\ calls = 0 /\ waiting = 0 /\ ended = 0 /\ render = 0 /\ loads = 0
    BY DEF Init
  <2>2. QED
    BY <2>1, ConstantsAssumption DEF CallsBound, CallsInv, RendersAreSerial
<1>3. ValueType
  <2>1. Nodes(levels) = {}
    BY DEF Init, Nodes, TreeSize
  <2>2. Cells(levels) = {}
    BY <2>1 DEF Cells
  <2>3. <<>> \in [{} -> 0..MaxCalls]
    OBVIOUS
  <2>4. value \in [Cells(levels) -> 0..MaxCalls]
    BY <2>2, <2>3 DEF Init
  <2>5. \A w \in Workers : request[w] = None /\ reply[w] = None
    BY DEF Init
  <2>6. QED
    BY <2>4, <2>5 DEF ValueType
<1>4. RestType
  BY ConstantsAssumption DEF Init, RestType
<1>5. QED
  BY <1>1, <1>2, <1>3, <1>4, PoolInit DEF LayoutInv

LEMMA LayoutNext == LayoutInv /\ [Next]_vars => LayoutInv'
  BY PoolNext, LoopTypeNext, BoundNext, ValueNext, RestNext DEF LayoutInv

LEMMA LayoutAlways == Spec => []LayoutInv
  BY LayoutInit, LayoutNext, PTL DEF Spec

\* Every variable keeps its type; in particular the traversals are always at a
\* level `levels` could have, and every field at every node of the loaded tree is
\* the number of a render, whatever was loaded in the middle of a render.
THEOREM LayoutTypes == Spec => []TypeOK
<1>1. LayoutInv => TypeOK
  <2> SUFFICES ASSUME LayoutInv PROVE TypeOK
    OBVIOUS
  <2>1. value \in [Cells(levels) -> 0..MaxCalls]
    BY DEF LayoutInv, ValueType
  <2>2. DOMAIN request = Workers /\ DOMAIN reply = Workers
    BY DEF LayoutInv, PoolInv, Messages
  <2>3. /\ waiting \in 0..MaxCalls /\ calls \in 0..MaxCalls /\ loads \in 0..MaxLoads
        /\ render \in 0..MaxCalls /\ ended \in Nat
    BY BoundRanges DEF LayoutInv
  <2>4. /\ freeLayoutWorkers \in Seq(Workers) /\ busyLayoutWorkers \subseteq Workers
        /\ levels \in Trees \cup {<<>>} /\ chunks \in Nat /\ chunksReady \in Nat
    BY DEF LayoutInv, PoolInv, Shared, Awaited, Loaded
  <2>5. QED
    BY <2>1, <2>2, <2>3, <2>4, Zenon DEF TypeOK, LayoutInv, LoopType, RestType
<1>2. QED
  BY <1>1, LayoutAlways, PTL
-----------------------------------------------------------------------------
(***************************************************************************)
(* The barrier between two levels.                                         *)
(***************************************************************************)

\* The workers taken off the stack are as many as the chunks.
LEMMA TakenExactly ==
  ASSUME Shared, NEW kept \in 0..Len(freeLayoutWorkers)
  PROVE  Cardinality({freeLayoutWorkers[k] : k \in kept + 1..Len(freeLayoutWorkers)})
           = Len(freeLayoutWorkers) - kept
<1> DEFINE s == freeLayoutWorkers
           I == kept + 1..Len(s)
           T == {s[k] : k \in I}
           f == [k \in I |-> s[k]]
<1>1. Len(s) \in Nat /\ kept \in Nat /\ kept <= Len(s) /\ DOMAIN s = 1..Len(s)
  BY DEF Shared
<1>2. f \in Surjection(I, T)
  BY DEF Surjection
<1>3. f \in Injection(I, T)
  <2>1. \A i, j \in I : s[i] = s[j] => i = j
    BY <1>1 DEF Shared
  <2>2. f \in [I -> T]
    OBVIOUS
  <2>3. QED
    BY <2>1, <2>2 DEF Injection, IsInjective
<1>4. IsFiniteSet(I) /\ Cardinality(I) = Len(s) - kept
  <2>1. kept + 1 \in Int /\ Len(s) \in Int
    BY <1>1
  <2>2. IsFiniteSet(I) /\ Cardinality(I) =
          IF kept + 1 > Len(s) THEN 0 ELSE Len(s) - (kept + 1) + 1
    BY <2>1, FS_Interval
  <2>3. QED
    BY <1>1, <2>2
<1> HIDE DEF f, I, T
<1>5. Cardinality(T) = Cardinality(I)
  BY <1>2, <1>3, <1>4, FS_Surjection
<1>6. QED
  BY <1>4, <1>5 DEF T, I

\* The message of a busy worker, read or not.
Message(w) == IF request[w] # None THEN request[w] ELSE reply[w]

LEMMA BarrierPostLevel ==
  ASSUME PoolInv, PostLevel
  PROVE  LevelBarrier'
<1> DEFINE s     == freeLayoutWorkers
           n     == Chunks(levels[level].length)
           kept  == Len(s) - n
           taken == {s[k] : k \in kept + 1..Len(s)}
           m     == [pass |-> pass, buffer |-> Buffer(pass, level)]
<1>1. busyLayoutWorkers = {} /\ ToSet(s) = Workers
  BY DEF PoolInv, Awaited, Shared, PostLevel
<1>2. Len(s) = NumWorkers /\ NumWorkers \in Nat \ {0}
  BY <1>1, StackLength, SomeWorkers DEF PoolInv, NumWorkers
<1>3. n \in 1..NumWorkers
  BY LevelLength, ChunksFit DEF PoolInv, PostLevel
<1>4. kept \in 0..Len(s)
  BY <1>2, <1>3
<1>5. /\ busyLayoutWorkers' = taken /\ chunks' = n /\ chunksReady' = 0
      /\ turn' = "idle" /\ pass' = pass
      /\ request' = [w \in Workers |-> IF w \in taken THEN m ELSE request[w]]
  BY <1>1, <1>2, <1>3 DEF PostLevel
<1>6. taken \subseteq Workers
  BY <1>4 DEF PoolInv, Shared
<1>7. Cardinality(taken) = n
  <2>1. Cardinality(taken) = Len(s) - kept
    BY <1>4, TakenExactly DEF PoolInv
  <2>2. Len(s) - kept = n
    BY <1>2, <1>3
  <2>3. QED
    BY <2>1, <2>2
<1>8. chunks' - chunksReady' = Cardinality(busyLayoutWorkers')
  BY <1>3, <1>5, <1>7
<1>9. \A w \in taken : request'[w] # None /\ request'[w].pass = pass'
  BY <1>5, <1>6, MessagesAreSome
<1> HIDE DEF taken, kept, n, m
<1>10. QED
  BY <1>5, <1>8, <1>9 DEF LevelBarrier

LEMMA BarrierWorkerAnswers ==
  ASSUME PoolInv, LevelBarrier, NEW w \in Workers, WorkerAnswers(w)
  PROVE  LevelBarrier'
<1> DEFINE busy == busyLayoutWorkers
<1>1. /\ reply[w] # None /\ w \in busy /\ turn = "idle"
      /\ busyLayoutWorkers' = busy \ {w}
      /\ reply' = [reply EXCEPT ![w] = None]
      /\ UNCHANGED request
  BY DEF WorkerAnswers, PoolInv, Messages
<1>2. IsFiniteSet(busy) /\ Cardinality(busy) \in Nat
  BY ConstantsAssumption, FS_Subset, FS_CardinalityType DEF PoolInv, Shared
<1>3. /\ Cardinality(busy \ {w}) = Cardinality(busy) - 1
      /\ Cardinality(busy \ {w}) \in Nat
      /\ Cardinality(busy \ {w}) = 0 => busy \ {w} = {}
  <2>1. /\ IsFiniteSet(busy \ {w})
        /\ Cardinality(busy \ {w}) = Cardinality(busy) - 1
    BY <1>1, <1>2, FS_RemoveElement
  <2>2. QED
    BY <2>1, FS_CardinalityType, FS_EmptySet
<1>4. /\ chunks \in Nat /\ chunksReady \in Nat /\ Cardinality(busy) <= chunks - chunksReady
  BY <1>1 DEF PoolInv, Awaited
<1>5. CASE Throw("RangeError")
  BY <1>5 DEF Throw, LevelBarrier
<1>6. CASE WorkerDone(chunksReady + 1, chunks) /\ UNCHANGED thrown
  <2>1. CASE chunksReady + 1 = chunks
    <3>1. busyLayoutWorkers' = {}
      BY <1>1, <1>2, <1>3, <1>4, <2>1
    <3>2. QED
      BY <3>1 DEF LevelBarrier
  <2>2. CASE chunksReady + 1 # chunks
    <3>1. /\ chunks' = chunks /\ chunksReady' = chunksReady + 1
          /\ turn' = "idle" /\ pass' = pass
      BY <1>6, <2>2 DEF WorkerDone, Complete
    <3>2. CASE thrown' = {}
      <4>1. /\ \A v \in busy : Message(v).pass = pass
            /\ chunks - chunksReady = Cardinality(busy)
        BY <1>1, <1>6, <3>2 DEF LevelBarrier, Message
      <4>2. chunks' - chunksReady' = Cardinality(busyLayoutWorkers')
        BY <1>1, <1>2, <1>3, <1>4, <3>1, <4>1
      <4>3. \A v \in busy \ {w} : Message(v)' = Message(v)
        BY <1>1 DEF Message, PoolInv, Messages, Shared
      <4>4. \A v \in busyLayoutWorkers' : Message(v)'.pass = pass'
        BY <1>1, <3>1, <4>1, <4>3
      <4>5. QED
        BY <3>1, <4>2, <4>4 DEF LevelBarrier, Message
    <3>3. CASE thrown' # {}
      BY <3>3 DEF LevelBarrier
    <3>4. QED
      BY <3>2, <3>3
  <2>3. QED
    BY <2>1, <2>2
<1>7. QED
  BY <1>5, <1>6 DEF WorkerAnswers

LEMMA BarrierWorkerRuns ==
  ASSUME PoolInv, LevelBarrier, NEW w \in Workers, WorkerRuns(w)
  PROVE  LevelBarrier'
<1>1. /\ request[w] # None /\ w \in busyLayoutWorkers
      /\ UNCHANGED <<busyLayoutWorkers, turn, pass, chunks, chunksReady, thrown>>
  BY DEF WorkerRuns, PoolInv, Messages, loopVars
<1>2. /\ request' = [request EXCEPT ![w] = None]
      /\ \E writes : reply' = [reply EXCEPT ![w] =
           [pass |-> request[w].pass, writes |-> writes]]
  BY DEF WorkerRuns
<1>3. \A v \in Workers : v # w => Message(v)' = Message(v)
  BY <1>2 DEF Message, PoolInv, Messages
<1>4. Message(w)'.pass = Message(w).pass
  BY <1>1, <1>2 DEF Message, PoolInv, Messages
<1>5. busyLayoutWorkers \subseteq Workers
  BY DEF PoolInv, Shared
<1>6. \A v \in busyLayoutWorkers : Message(v)'.pass = Message(v).pass
  BY <1>3, <1>4, <1>5
<1>7. QED
  BY <1>1, <1>6 DEF LevelBarrier, Message

LEMMA BarrierNext ==
  ASSUME PoolInv, LevelBarrier, [Next]_vars
  PROVE  LevelBarrier'
<1>1. CASE \/ LayoutAndRenderAsync \/ TimerFires \/ StartPass \/ RunMissingLevel \/ RunLevel
           \/ RunRenderTraversalAsync
  <2>1. UNCHANGED <<busyLayoutWorkers, request, reply>>
    BY <1>1 DEF LayoutAndRenderAsync, TimerFires, StartPass, RunMissingLevel, RunLevel,
                RunRenderTraversalAsync, poolVars
  <2>2. CASE busyLayoutWorkers = {}
    BY <2>1, <2>2 DEF LevelBarrier
  <2>3. CASE LayoutAndRenderAsync /\ Waits
    <3>1. UNCHANGED <<turn, pass, chunks, chunksReady, thrown>>
      BY <2>3, Zenon DEF LayoutAndRenderAsync
    <3>2. QED
      BY <2>1, <3>1 DEF LevelBarrier
  <2>4. busyLayoutWorkers = {} \/ (LayoutAndRenderAsync /\ Waits)
    BY <1>1 DEF PoolInv, Awaited, LayoutAndRenderAsync, TimerFires, StartPass, RunMissingLevel,
                RunLevel, RunRenderTraversalAsync, Waits
  <2>5. QED
    BY <2>2, <2>3, <2>4
<1>2. CASE LoadData \/ UNCHANGED vars
  <2>1. UNCHANGED <<busyLayoutWorkers, request, reply, turn, pass, chunks, chunksReady, thrown>>
    BY <1>2 DEF LoadData, vars, loopVars, poolVars
  <2>2. QED
    BY <2>1 DEF LevelBarrier
<1>3. QED
  BY <1>1, <1>2, BarrierPostLevel, BarrierWorkerRuns, BarrierWorkerAnswers DEF Next, Handler

\* No level is visited before every chunk of the one before it was answered:
\* traverseAsync's counters are exact until a handler throws.
THEOREM BarrierHolds == Spec => []LevelBarrier
<1>1. Init => LevelBarrier
  BY DEF Init, LevelBarrier
<1>2. LayoutInv /\ LevelBarrier /\ [Next]_vars => LevelBarrier'
  BY BarrierNext DEF LayoutInv
<1>3. QED
  BY <1>1, <1>2, LayoutAlways, PTL DEF Spec
-----------------------------------------------------------------------------
(***************************************************************************)
(* The values of a render.                                                 *)
(***************************************************************************)

\* The page visits level l itself.
Own(l) == l \in DOMAIN levels /\ ~IsParallel(levels[l])
CurrentAt(p, l) == \A c \in Written(p, levels, l) : value[c] = render

\* Pass p is done with level l when the traversals are at (pass, level).
Behind(p, l) ==
  \/ p < pass
  \/ p = pass /\ IF Directions[p] = "topDown" THEN l < level ELSE l > level

\* The cells of the message of a busy worker.
Carried(w) ==
  IF request[w] # None THEN DOMAIN request[w].buffer ELSE DOMAIN reply[w].writes

\* As long as no tree is loaded during a render, what the traversals have behind
\* them is current, and the workers have levels the page does not visit itself.
Progress ==
  "reload" \notin habits =>
    /\ turn = "pass" => \A p \in Passes, l \in DOMAIN levels : p < pass /\ Own(l) => CurrentAt(p, l)
    /\ turn = "level" \/ busyLayoutWorkers # {} =>
         /\ level \in DOMAIN levels
         /\ \A p \in Passes, l \in DOMAIN levels : Behind(p, l) /\ Own(l) => CurrentAt(p, l)
    /\ turn = "render" => \A p \in Passes, l \in DOMAIN levels : Own(l) => CurrentAt(p, l)
    /\ busyLayoutWorkers # {} => ~Own(level)
    /\ \A w \in busyLayoutWorkers : \E p \in Passes, k \in DOMAIN levels :
         ~Own(k) /\ Carried(w) \subseteq Written(p, levels, k)

\* A level is done: the next one, the next pass or the render pass finds its part.
LEMMA WorkerDoneProgress ==
  ASSUME PoolInv, LoopType, level \in DOMAIN levels,
         NEW ready, NEW posted, WorkerDone(ready, posted), Complete(ready, posted),
         UNCHANGED <<levels, render>>, busyLayoutWorkers' = {},
         \A p \in Passes, l \in DOMAIN levels :
           (Behind(p, l) \/ (p = pass /\ l = level)) /\ Own(l) => CurrentAt(p, l)'
  PROVE  Progress'
<1>1. /\ DOMAIN levels = 1..Len(levels) /\ Len(levels) \in Nat /\ level \in Nat
      /\ pass \in Passes /\ Passes = 1..Len(Directions) /\ Len(Directions) \in Nat
  BY LevelsAreRanges, ConstantsAssumption DEF PoolInv, LoopType, Passes
<1>2. \A l : Own(l)' <=> Own(l)
  BY DEF Own
<1>3. CASE More(pass, level)
  <2>1. turn' = "level" /\ pass' = pass /\ level' = NextLevel(pass, level)
    BY <1>3 DEF WorkerDone
  <2>2. level' \in DOMAIN levels
    BY <1>1, <1>3, <2>1 DEF More, NextLevel
  <2>3. ASSUME NEW p \in Passes, NEW l \in DOMAIN levels, Behind(p, l)'
        PROVE  Behind(p, l) \/ (p = pass /\ l = level)
    BY <1>1, <2>1, <2>3 DEF Behind, NextLevel
  <2>4. \A p \in Passes, l \in DOMAIN levels : Behind(p, l)' /\ Own(l)' => CurrentAt(p, l)'
    BY <1>2, <2>3
  <2>5. QED
    BY <2>1, <2>2, <2>4 DEF Progress
<1>4. CASE ~More(pass, level) /\ pass < Len(Directions)
  <2>1. turn' = "pass" /\ pass' = pass + 1
    BY <1>4 DEF WorkerDone
  <2>2. ASSUME NEW p \in Passes, NEW l \in DOMAIN levels, p < pass'
        PROVE  Behind(p, l) \/ (p = pass /\ l = level)
    BY <1>1, <1>4, <2>1, <2>2 DEF Behind, More
  <2>3. \A p \in Passes, l \in DOMAIN levels : p < pass' /\ Own(l)' => CurrentAt(p, l)'
    BY <1>2, <2>2
  <2>4. QED
    BY <2>1, <2>3 DEF Progress
<1>5. CASE ~More(pass, level) /\ ~(pass < Len(Directions))
  <2>1. turn' = "render"
    BY <1>1, <1>5 DEF WorkerDone
  <2>2. ASSUME NEW p \in Passes, NEW l \in DOMAIN levels
        PROVE  Behind(p, l) \/ (p = pass /\ l = level)
    BY <1>1, <1>5 DEF Behind, More
  <2>3. \A p \in Passes, l \in DOMAIN levels : Own(l)' => CurrentAt(p, l)'
    BY <1>2, <2>2
  <2>4. QED
    BY <2>1, <2>3 DEF Progress
<1>6. QED
  BY <1>3, <1>4, <1>5

LEMMA ProgressStartPass ==
  ASSUME PoolInv, LoopType, Progress, StartPass
  PROVE  Progress'
<1>1. busyLayoutWorkers' = {}
  BY DEF StartPass, PoolInv, Awaited, poolVars
<1>2. CASE levels = <<>>
  BY <1>1, <1>2 DEF StartPass, Throw, Progress
<1>3. CASE levels # <<>>
  <2>1. /\ turn = "pass" /\ turn' = "level" /\ pass' = pass /\ level' = FirstLevel(pass)
        /\ UNCHANGED <<levels, value, render, habits>>
    BY <1>3 DEF StartPass, pageVars, treeVars
  <2>2. DOMAIN levels = 1..Len(levels) /\ Len(levels) \in Nat \ {0} /\ pass \in Nat
    BY <1>3, LoadedLevels, ConstantsAssumption DEF PoolInv, LoopType, Passes
  <2>3. level' \in DOMAIN levels
    BY <2>1, <2>2 DEF FirstLevel
  <2>4. ASSUME NEW p \in Passes, NEW l \in DOMAIN levels, Behind(p, l)'
        PROVE  p < pass
    BY <2>1, <2>2, <2>4 DEF Behind, FirstLevel
  <2>5. \A p, l : (CurrentAt(p, l)' <=> CurrentAt(p, l)) /\ (Own(l)' <=> Own(l))
    BY <2>1 DEF CurrentAt, Own
  <2>6. QED
    BY <1>1, <2>1, <2>3, <2>4, <2>5 DEF Progress
<1>4. QED
  BY <1>2, <1>3

LEMMA ProgressRunLevel ==
  ASSUME PoolInv, LoopType, ValueType, Progress, RunLevel
  PROVE  Progress'
<1>1. /\ turn = "level" /\ level \in DOMAIN levels
      /\ value' = [c \in DOMAIN value |->
                     IF c \in Written(pass, levels, level) THEN render ELSE value[c]]
      /\ WorkerDone(1, 1) /\ UNCHANGED <<levels, render, habits, busyLayoutWorkers>>
  BY DEF RunLevel, pageVars, poolVars
<1>2. busyLayoutWorkers' = {}
  BY <1>1 DEF PoolInv, Awaited
<1>3. CASE "reload" \in habits
  BY <1>1, <1>3 DEF Progress
<1>4. CASE "reload" \notin habits
  <2>1. ASSUME NEW p \in Passes, NEW l \in DOMAIN levels, Own(l),
               Behind(p, l) \/ (p = pass /\ l = level)
        PROVE  CurrentAt(p, l)'
    <3> SUFFICES ASSUME NEW c \in Written(p, levels, l) PROVE value'[c] = render
      BY <1>1 DEF CurrentAt
    <3>1. c \in DOMAIN value
      BY WrittenIsThere DEF PoolInv, ValueType
    <3>2. value'[c] = IF c \in Written(pass, levels, level) THEN render ELSE value[c]
      BY <1>1, <3>1
    <3>3. CASE p = pass /\ l = level
      BY <3>2, <3>3
    <3>4. CASE Behind(p, l)
      <4>1. value[c] = render
        BY <1>1, <1>4, <2>1, <3>4 DEF Progress, CurrentAt
      <4>2. QED
        BY <3>2, <4>1
    <3>5. QED
      BY <2>1, <3>3, <3>4
  <2>2. Complete(1, 1)
    BY DEF Complete
  <2>3. QED
    BY <1>1, <1>2, <2>1, <2>2, WorkerDoneProgress
<1>5. QED
  BY <1>3, <1>4

LEMMA ProgressPostLevel ==
  ASSUME PoolInv, LoopType, Progress, PostLevel
  PROVE  Progress'
<1> DEFINE m == [pass |-> pass, buffer |-> Buffer(pass, level)]
<1>1. /\ turn = "level" /\ turn' = "idle" /\ ~Own(level)
      /\ UNCHANGED <<levels, value, render, habits, pass, level>>
  BY DEF PostLevel, Own, pageVars, treeVars
<1>2. PICK taken : /\ busyLayoutWorkers' = busyLayoutWorkers \cup taken
                   /\ request' = [w \in Workers |-> IF w \in taken THEN m ELSE request[w]]
  BY DEF PostLevel
<1>3. busyLayoutWorkers = {}
  BY <1>1 DEF PoolInv, Awaited
<1>4. busyLayoutWorkers' \subseteq Workers
  BY PostLevelPool DEF PoolInv, Shared
<1>5. \A w \in busyLayoutWorkers' : Carried(w)' = Written(pass, levels, level)
  <2>1. \A w \in taken : request'[w] = m /\ m # None
    BY <1>2, <1>3, <1>4, MessagesAreSome
  <2>2. DOMAIN m.buffer = Written(pass, levels, level)
    BY DEF Buffer
  <2> HIDE DEF m
  <2>3. \A w \in taken : Carried(w)' = Written(pass, levels, level)
    BY <2>1, <2>2 DEF Carried
  <2>4. QED
    BY <1>2, <1>3, <2>3
<1>6. \A p, l : /\ CurrentAt(p, l)' <=> CurrentAt(p, l)
                /\ Own(l)' <=> Own(l)
                /\ Behind(p, l)' <=> Behind(p, l)
  BY <1>1 DEF CurrentAt, Own, Behind
<1>7. \A w \in busyLayoutWorkers' : \E p \in Passes, k \in DOMAIN levels' :
        ~Own(k)' /\ Carried(w)' \subseteq Written(p, levels, k)'
  <2>1. pass \in Passes /\ level \in DOMAIN levels' /\ ~Own(level)'
    BY <1>1, <1>6 DEF LoopType, PostLevel
  <2>2. Written(pass, levels, level)' = Written(pass, levels, level)
    BY <1>1 DEF Written, Below
  <2>3. QED
    BY <1>1, <1>5, <2>1, <2>2
<1>8. QED
  BY <1>1, <1>6, <1>7 DEF Progress

LEMMA ProgressWorkerRuns ==
  ASSUME PoolInv, Progress, NEW w \in Workers, WorkerRuns(w)
  PROVE  Progress'
<1>1. /\ request[w] # None
      /\ UNCHANGED <<busyLayoutWorkers, turn, pass, level, levels, value, render, habits>>
  BY DEF WorkerRuns, loopVars, treeVars, pageVars
<1>2. PICK ok \in BOOLEAN :
        reply' = [reply EXCEPT ![w] =
                    [pass |-> request[w].pass,
                     writes |-> IF ok THEN request[w].buffer ELSE NoWrites]]
  BY DEF WorkerRuns, Visit
<1>3. request' = [request EXCEPT ![w] = None]
  BY DEF WorkerRuns
<1>4. \A v \in Workers : v # w => Carried(v)' = Carried(v)
  BY <1>2, <1>3 DEF Carried, PoolInv, Messages
<1>5. Carried(w)' \subseteq Carried(w)
  <2>1. request'[w] = None
    BY <1>3 DEF PoolInv, Messages
  <2>2. reply'[w].writes = request[w].buffer \/ reply'[w].writes = NoWrites
    BY <1>2 DEF PoolInv, Messages
  <2>3. DOMAIN NoWrites = {}
    BY DEF NoWrites
  <2>4. QED
    BY <1>1, <2>1, <2>2, <2>3 DEF Carried
<1>6. \A v \in busyLayoutWorkers : Carried(v)' \subseteq Carried(v)
  BY <1>4, <1>5 DEF PoolInv, Shared
<1>7. \A p, l : /\ CurrentAt(p, l)' <=> CurrentAt(p, l)
                /\ Own(l)' <=> Own(l)
                /\ Behind(p, l)' <=> Behind(p, l)
                /\ Written(p, levels, l)' = Written(p, levels, l)
  BY <1>1 DEF CurrentAt, Own, Behind, Written, Below
<1>8. QED
  BY <1>1, <1>6, <1>7 DEF Progress

\* An answer is copied over what a level writes that the page does not visit
\* itself, in its nodes and in their children.
LEMMA ProgressWorkerAnswers ==
  ASSUME PoolInv, LoopType, ValueType, Progress, NEW w \in Workers, WorkerAnswers(w)
  PROVE  Progress'
<1>1. /\ reply[w] # None /\ w \in busyLayoutWorkers /\ turn = "idle"
      /\ request[w] = None /\ Carried(w) = DOMAIN reply[w].writes
      /\ busyLayoutWorkers' = busyLayoutWorkers \ {w}
      /\ reply' = [reply EXCEPT ![w] = None]
      /\ UNCHANGED <<request, levels, render, habits>>
  BY DEF WorkerAnswers, PoolInv, Messages, Carried, pageVars
<1>2. CASE "reload" \in habits
  BY <1>1, <1>2 DEF Progress
<1>3. CASE "reload" \notin habits
  <2>1. PICK q \in Passes, k \in DOMAIN levels :
          ~Own(k) /\ DOMAIN reply[w].writes \subseteq Written(q, levels, k)
    BY <1>1, <1>3 DEF Progress
  <2>2. /\ level \in DOMAIN levels /\ ~Own(level)
        /\ \A p \in Passes, l \in DOMAIN levels : Behind(p, l) /\ Own(l) => CurrentAt(p, l)
    BY <1>1, <1>3 DEF Progress
  <2>3. \A v \in busyLayoutWorkers' : Carried(v)' = Carried(v)
    BY <1>1 DEF Carried, PoolInv, Messages, Shared
  <2>4. ASSUME NEW p \in Passes, NEW l \in DOMAIN levels, Own(l), CurrentAt(p, l)
        PROVE  CurrentAt(p, l)'
    <3> SUFFICES ASSUME NEW c \in Written(p, levels, l) PROVE value'[c] = render
      BY <1>1 DEF CurrentAt
    <3>1. value[c] = render
      BY <2>4 DEF CurrentAt
    <3>2. c \in DOMAIN value
      BY WrittenIsThere DEF PoolInv, ValueType
    <3>3. c \notin DOMAIN reply[w].writes
      <4>1. k # l
        BY <2>1, <2>4
      <4>2. Written(q, levels, k) \cap Written(p, levels, l) = {}
        BY <4>1, WrittenApart DEF PoolInv
      <4>3. QED
        BY <2>1, <4>2
    <3>4. \/ value' = value
          \/ \E kinds : value' = Overwritten(reply[w].writes, kinds)
      BY DEF WorkerAnswers
    <3>5. QED
      BY <3>1, <3>2, <3>3, <3>4 DEF Overwritten
  <2>5. ASSUME NEW v \in busyLayoutWorkers'
        PROVE  \E p \in Passes, j \in DOMAIN levels' :
                 ~Own(j)' /\ Carried(v)' \subseteq Written(p, levels, j)'
    <3>1. \A p, l : (Own(l)' <=> Own(l)) /\ Written(p, levels, l)' = Written(p, levels, l)
      BY <1>1 DEF Own, Written, Below
    <3>2. PICK p \in Passes, j \in DOMAIN levels :
            ~Own(j) /\ Carried(v) \subseteq Written(p, levels, j)
      BY <1>1, <1>3 DEF Progress
    <3>3. Carried(v)' = Carried(v)
      BY <2>3
    <3>4. QED
      BY <1>1, <3>1, <3>2, <3>3
  <2>6. CASE Throw("RangeError") /\ UNCHANGED <<pass, level>>
    <3>1. turn' = "idle"
      BY <2>6 DEF Throw
    <3>2. \A p, l : (Own(l)' <=> Own(l)) /\ (Behind(p, l)' <=> Behind(p, l))
      BY <1>1, <2>6 DEF Own, Behind
    <3>3. \A p \in Passes, l \in DOMAIN levels : Behind(p, l)' /\ Own(l)' => CurrentAt(p, l)'
      BY <2>2, <2>4, <3>2
    <3>4. QED
      BY <1>1, <2>2, <2>5, <2>6, <3>1, <3>2, <3>3 DEF Progress
  <2>7. CASE WorkerDone(chunksReady + 1, chunks)
    <3>1. CASE Complete(chunksReady + 1, chunks)
      <4>1. busyLayoutWorkers' = {}
        <5>1. IsFiniteSet(busyLayoutWorkers) /\ Cardinality(busyLayoutWorkers) \in Nat
          BY ConstantsAssumption, FS_Subset, FS_CardinalityType DEF PoolInv, Shared
        <5>2. /\ IsFiniteSet(busyLayoutWorkers \ {w})
              /\ Cardinality(busyLayoutWorkers \ {w}) = Cardinality(busyLayoutWorkers) - 1
          BY <1>1, <5>1, FS_RemoveElement
        <5>3. /\ chunks \in Nat /\ chunksReady \in Nat
              /\ Cardinality(busyLayoutWorkers) <= chunks - chunksReady
          BY <1>1 DEF PoolInv, Awaited
        <5>4. Cardinality(busyLayoutWorkers \ {w}) \in Nat
          BY <5>2, FS_CardinalityType
        <5>5. Cardinality(busyLayoutWorkers \ {w}) = 0
          BY <3>1, <5>1, <5>2, <5>3, <5>4 DEF Complete
        <5>6. QED
          BY <1>1, <5>2, <5>5, FS_EmptySet
      <4>2. \A p \in Passes, l \in DOMAIN levels :
              (Behind(p, l) \/ (p = pass /\ l = level)) /\ Own(l) => CurrentAt(p, l)'
        BY <2>2, <2>4
      <4>3. QED
        BY <1>1, <2>2, <2>7, <3>1, <4>1, <4>2, WorkerDoneProgress
    <3>2. CASE ~Complete(chunksReady + 1, chunks)
      <4>1. turn' = "idle" /\ pass' = pass /\ level' = level
        BY <2>7, <3>2 DEF WorkerDone
      <4>2. \A p, l : (Own(l)' <=> Own(l)) /\ (Behind(p, l)' <=> Behind(p, l))
        BY <1>1, <4>1 DEF Own, Behind
      <4>3. \A p \in Passes, l \in DOMAIN levels : Behind(p, l)' /\ Own(l)' => CurrentAt(p, l)'
        BY <2>2, <2>4, <4>2
      <4>4. QED
        BY <1>1, <2>2, <2>5, <4>1, <4>2, <4>3 DEF Progress
    <3>3. QED
      BY <3>1, <3>2
  <2>8. QED
    BY <2>6, <2>7 DEF WorkerAnswers
<1>4. QED
  BY <1>2, <1>3

\* Calls, timers and loads: a render begins with nothing behind it.
LEMMA ProgressPage ==
  ASSUME PoolInv, LoopType, Progress,
         \/ LoadData \/ LayoutAndRenderAsync \/ TimerFires \/ RunMissingLevel
         \/ RunRenderTraversalAsync \/ UNCHANGED vars
  PROVE  Progress'
<1>1. /\ UNCHANGED <<habits, busyLayoutWorkers, request, reply, level>>
      /\ \A v : Carried(v)' = Carried(v)
  <2>1. UNCHANGED <<habits, busyLayoutWorkers, request, reply, level>>
    BY DEF LoadData, LayoutAndRenderAsync, TimerFires, RunMissingLevel, RunRenderTraversalAsync,
           vars, pageVars, loopVars, poolVars
  <2>2. QED
    BY <2>1 DEF Carried
<1>2. CASE UNCHANGED <<levels, value, render, turn, pass>>
  <2>1. \A p, l : /\ CurrentAt(p, l)' <=> CurrentAt(p, l)
                  /\ Own(l)' <=> Own(l)
                  /\ Behind(p, l)' <=> Behind(p, l)
                  /\ Written(p, levels, l)' = Written(p, levels, l)
    BY <1>1, <1>2 DEF CurrentAt, Own, Behind, Written, Below
  <2>2. QED
    BY <1>1, <1>2, <2>1 DEF Progress
<1>3. CASE turn' = "idle" /\ busyLayoutWorkers = {}
  BY <1>1, <1>3 DEF Progress
<1>4. CASE turn' = "pass" /\ pass' = 1 /\ busyLayoutWorkers = {}
  <2>1. \A p \in Passes : ~(p < pass')
    BY <1>4, ConstantsAssumption DEF Passes
  <2>2. QED
    BY <1>1, <1>4, <2>1 DEF Progress
<1>5. CASE LayoutAndRenderAsync
  <2>1. CASE Waits
    <3>1. UNCHANGED <<levels, value, render, turn, pass>>
      BY <1>5, <2>1, Zenon DEF LayoutAndRenderAsync, treeVars
    <3>2. QED
      BY <1>2, <3>1
  <2>2. CASE ~Waits
    <3>1. busyLayoutWorkers = {} /\ turn = "idle"
      BY <1>5, <2>2 DEF PoolInv, Awaited, Waits, LayoutAndRenderAsync
    <3>2. \/ turn' = "pass" /\ pass' = 1
          \/ turn' = turn \/ turn' = "idle"
      BY <1>5, <2>2, Zenon DEF LayoutAndRenderAsync, Begin, Throw
    <3>3. QED
      BY <1>3, <1>4, <3>1, <3>2
  <2>3. QED
    BY <2>1, <2>2
<1>6. CASE TimerFires
  <2>1. busyLayoutWorkers = {} /\ turn = "idle"
    BY <1>6 DEF PoolInv, Awaited, Waits, TimerFires
  <2>2. \/ turn' = "pass" /\ pass' = 1
        \/ turn' = turn \/ turn' = "idle"
    BY <1>6, Zenon DEF TimerFires, Begin, Throw
  <2>3. QED
    BY <1>3, <1>4, <2>1, <2>2
<1>7. CASE LoadData
  <2>1. CASE "reload" \in habits
    BY <1>1, <2>1 DEF Progress
  <2>2. CASE "reload" \notin habits
    <3>1. turn' = "idle" /\ busyLayoutWorkers = {}
      BY <1>7, <2>2 DEF LoadData, PoolInv, Awaited, loopVars
    <3>2. QED
      BY <1>3, <3>1
  <2>3. QED
    BY <2>1, <2>2
<1>8. CASE RunMissingLevel \/ RunRenderTraversalAsync
  <2>1. turn' = "idle" /\ busyLayoutWorkers = {}
    BY <1>8 DEF RunMissingLevel, RunRenderTraversalAsync, Throw, PoolInv, Awaited
  <2>2. QED
    BY <1>3, <2>1
<1>9. CASE UNCHANGED vars
  BY <1>2, <1>9 DEF vars, treeVars, loopVars
<1>10. QED
  BY <1>5, <1>6, <1>7, <1>8, <1>9

LEMMA ProgressNext == LayoutInv /\ Progress /\ [Next]_vars => Progress'
  BY ProgressPage, ProgressStartPass, ProgressRunLevel, ProgressPostLevel, ProgressWorkerRuns,
     ProgressWorkerAnswers DEF Next, Handler, LayoutInv

\* In a page that does not load a tree during a render, the render pass finds
\* what the page's own visits wrote, in their nodes and in the children of these:
\* no answer for another level is copied over it, in whatever order answers come
\* and whichever workers fail.
THEOREM OwnVisitsCurrent == Spec => []OwnVisitsAreCurrent
<1>1. Init => Progress
  BY DEF Init, Progress
<1>2. Progress => OwnVisitsAreCurrent
  BY DEF Progress, OwnVisitsAreCurrent, Own, CurrentAt
<1>3. QED
  BY <1>1, <1>2, ProgressNext, LayoutAlways, PTL DEF Spec
=============================================================================
