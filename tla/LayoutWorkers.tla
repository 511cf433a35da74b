--------------------------- MODULE LayoutWorkers ---------------------------
(***************************************************************************)
(* Superconductor's parallel layout: layoutAndRenderAsync (main.js) runs   *)
(* the traversals of a compiled layout engine over the levels of a tree,   *)
(* one pass after the other; traverseAsync (CLRunner.js) visits a short    *)
(* level itself and cuts a long one into chunks, which runKernelRange      *)
(* posts to Web Workers.                                                   *)
(*                                                                         *)
(* A JavaScript handler runs to completion.  What one handler does is cut  *)
(* here at every level it visits: `turn` is "idle" between handlers and    *)
(* names the code that continues otherwise, and no other handler starts    *)
(* before it is "idle" again.  A handler that throws ends its turn, and    *)
(* `thrown` remembers why.                                                 *)
(*                                                                         *)
(* Data: a layout pass writes a field of the nodes it visits ("self") and  *)
(* one of their children ("child"), and a field holds the number of the    *)
(* render that computed it.  A level is sent to a worker, and comes back,  *)
(* with the rows of both: its own, and those of the level below.           *)
(***************************************************************************)
EXTENDS Integers, Sequences, FiniteSets, SequencesExt

CONSTANTS
  Workers,       \* the Web Workers, cfg.numWorkers of them
  MinParallel,   \* cfg.minParallelLayoutLevelLength
  Directions,    \* the direction of each layout pass, in the engine's order
  ReadBack,      \* the fields, of a pass and a kind, the pass also reads there
  Trees,         \* the trees that may be loaded, each as its `levels`
  IgnoreCL,      \* the values cfg.ignoreCL may have
  Habits,        \* the careless orders of calls a page may have
  Faults,        \* what a worker may do besides answering
  MaxLoads,      \* bound: trees loaded
  MaxCalls       \* bound: calls of layoutAndRenderAsync

NumWorkers == Cardinality(Workers)
Passes == 1..Len(Directions)
Kinds == {"self", "child"}
TreeSize(tree) ==
  IF tree = <<>> THEN 0 ELSE Last(tree).start_idx + Last(tree).length
Nodes(tree) == 0..TreeSize(tree) - 1
Visited(lvl) == lvl.start_idx..lvl.start_idx + lvl.length - 1

\* The memory has a cell for each field and node.  A pass at level l of the tree
\* writes those of its nodes, and those of the next level, their children.
Cells(tree) == Passes \X Kinds \X Nodes(tree)
Below(tree, l) == IF l + 1 \in DOMAIN tree THEN Visited(tree[l + 1]) ELSE {}
Written(p, tree, l) ==
  ({p} \X {"self"} \X Visited(tree[l])) \cup ({p} \X {"child"} \X Below(tree, l))

\* Levels are consecutive, none is empty, and the first one is the root; so they
\* do not overlap.
IsTree(tree) ==
  /\ tree \in Seq([start_idx : Nat, length : Nat \ {0}])
  /\ tree # <<>> => tree[1].start_idx = 0
  /\ \A l \in 1..Len(tree) - 1 :
       tree[l + 1].start_idx = tree[l].start_idx + tree[l].length
  /\ \A k, l \in 1..Len(tree) :
       k < l => tree[k].start_idx + tree[k].length <= tree[l].start_idx

ASSUME ConstantsAssumption ==
  /\ IsFiniteSet(Workers) /\ Workers # {}
  /\ MinParallel \in Nat
  /\ Directions \in Seq({"topDown", "bottomUp"}) /\ Directions # <<>>
  /\ ReadBack \subseteq Passes \X Kinds
  /\ \A tree \in Trees : IsTree(tree) /\ tree # <<>>
  /\ IgnoreCL \subseteq BOOLEAN /\ IgnoreCL # {}
  /\ Habits \subseteq {"early", "reload"}
  /\ Faults \subseteq {"error"}
  /\ MaxLoads \in Nat /\ MaxCalls \in Nat

VARIABLES
  ignoreCL,            \* cfg.ignoreCL
  habits,              \* "early": the page renders before it has loaded a tree;
                       \* "reload": it loads one while a render is outstanding
  outstandingRender,   \* a render has begun and its callback has not run
  waiting,             \* callers whose 10 ms timer runs, to try again
  calls, loads,        \* how often the page rendered and loaded a tree
  render,              \* renders begun
  ended,               \* renders whose callback has run
  levels,              \* the loaded tree, <<>> while `levels` is undefined
  value,               \* value[p, k, n]: the render that computed this field of n
  turn,                \* the code of the handler that runs
  pass, level,         \* the level being visited
  chunks, chunksReady, \* the chunks posted for it, and those answered
  freeLayoutWorkers, busyLayoutWorkers,
  request,             \* the message a busy worker has not read yet
  reply,               \* the message of a worker not yet handled
  thrown               \* why handlers ended early

pageVars == <<ignoreCL, habits, calls, loads>>
treeVars == <<levels, value>>
loopVars == <<turn, pass, level, chunks, chunksReady>>
poolVars == <<freeLayoutWorkers, busyLayoutWorkers, request, reply>>
vars == <<pageVars, outstandingRender, waiting, render, ended, treeVars,
          loopVars, poolVars, thrown>>

None == [none |-> TRUE]     \* no message
NoWrites == <<>>            \* the answer {err: ...} has no buffer

-----------------------------------------------------------------------------
(***************************************************************************)
(* The code's helpers.                                                     *)
(***************************************************************************)

\* Math.round(x / y) of two natural numbers.
Round(x, y) == (2 * x + y) \div (2 * y)

\* The nodes of a chunk, and the chunks of a level.
ChunkLength_NotPadded(length) == Round(length, NumWorkers)
ChunkLength(length) == Round(length, NumWorkers) + 1
Chunks(length) ==
  (length + ChunkLength(length) - 1) \div ChunkLength(length)

\* A level is worth posting to the workers.
IsParallel(lvl) == lvl.length > MinParallel

\* The level a pass begins with, whether it has another one, and which.
FirstLevel_OffByOne(p) ==
  IF Directions[p] = "topDown" THEN 1 ELSE Len(levels) - 1
FirstLevel(p) == IF Directions[p] = "topDown" THEN 1 ELSE Len(levels)
More_SkipsRoot(p, l) ==
  IF Directions[p] = "topDown" THEN l + 1 <= Len(levels) ELSE l - 1 > 1
More(p, l) ==
  IF Directions[p] = "topDown" THEN l + 1 <= Len(levels) ELSE l - 1 >= 1
NextLevel(p, l) == IF Directions[p] = "topDown" THEN l + 1 ELSE l - 1

\* The fields' buffers a worker is sent: a copy of the rows if the pass reads the
\* field there, and zeros if it only writes it.
Buffer_BothRows(p, l) ==
  [c \in {p} \X Kinds \X (Visited(levels[l]) \cup Below(levels, l)) |->
     IF <<p, c[2]>> \in ReadBack THEN value[c] ELSE 0]
Buffer(p, l) ==
  [c \in Written(p, levels, l) |-> IF <<p, c[2]>> \in ReadBack THEN value[c] ELSE 0]

\* The memory with these fields of an answer copied over it.
Overwritten(writes, kinds) ==
  [c \in DOMAIN value |->
     IF c \in DOMAIN writes /\ c[2] \in kinds THEN writes[c] ELSE value[c]]

Throw(why) == thrown' = thrown \cup {why} /\ turn' = "idle"

-----------------------------------------------------------------------------
(***************************************************************************)
(* The page: it loads trees and asks for renders.                          *)
(***************************************************************************)

\* loadData: new arrays, all zero, and new levels, whatever is going on.
LoadData ==
  /\ turn = "idle"
  /\ loads < MaxLoads
  /\ "reload" \in habits \/ ~outstandingRender
  /\ loads' = loads + 1
  /\ \E tree \in Trees :
       /\ levels' = tree
       /\ value' = [c \in Cells(tree) |-> 0]
  /\ UNCHANGED <<ignoreCL, habits, calls, outstandingRender, waiting, render, ended,
                 loopVars, poolVars, thrown>>

\* The part of layoutAndRenderAsync that begins a render.
Begin ==
  /\ outstandingRender' = TRUE
  /\ render' = render + 1
  /\ IF ignoreCL
       THEN turn' = "pass" /\ pass' = 1 /\ UNCHANGED thrown
       ELSE /\ UNCHANGED pass
            /\ IF levels = <<>>
                 THEN UNCHANGED <<turn, thrown>>   \* layoutAsync just returns
                 ELSE Throw("runTraversalsAsync")  \* which nothing defines

\* A call: it begins a render, or sets a timer while one is outstanding.
Waits_Never == FALSE
Waits == outstandingRender
LayoutAndRenderAsync ==
  /\ turn = "idle"
  /\ calls < MaxCalls
  /\ "early" \in habits \/ levels # <<>>
  /\ calls' = calls + 1
  /\ \/ /\ Waits
        /\ waiting' = waiting + 1
        /\ UNCHANGED <<outstandingRender, render, turn, pass, thrown>>
     \/ /\ ~Waits
        /\ Begin
        /\ UNCHANGED waiting
  /\ UNCHANGED <<ignoreCL, habits, loads, ended, treeVars, level, chunks, chunksReady,
                 poolVars>>

\* The timer of a waiting caller fires.  While a render is outstanding the
\* call only sets it again.
TimerFires_Interval ==
  /\ turn = "idle"
  /\ waiting > 0
  /\ ~Waits
  /\ render < MaxCalls
  /\ Begin
  /\ UNCHANGED <<pageVars, waiting, ended, treeVars, level, chunks, chunksReady,
                 poolVars>>
TimerFires ==
  /\ turn = "idle"
  /\ waiting > 0
  /\ ~Waits
  /\ waiting' = waiting - 1
  /\ Begin
  /\ UNCHANGED <<pageVars, ended, treeVars, level, chunks, chunksReady,
                 poolVars>>

-----------------------------------------------------------------------------
(***************************************************************************)
(* The traversals.                                                         *)
(***************************************************************************)

\* _gen_runTraversalsAsync calls traverseAsync for the pass.
StartPass ==
  /\ turn = "pass"
  /\ \/ /\ levels = <<>>
        /\ Throw("levels")                    \* levels.length of undefined
        /\ UNCHANGED level
     \/ /\ levels # <<>>
        /\ level' = FirstLevel(pass)
        /\ turn' = "level"
        /\ UNCHANGED thrown
  /\ UNCHANGED <<pageVars, outstandingRender, waiting, render, ended, treeVars,
                 pass, chunks, chunksReady, poolVars>>

\* workerDone, for `ready` chunks out of `posted`.
Complete_OneShort(ready, posted) == ready + 1 >= posted
Complete(ready, posted) == ready = posted
WorkerDone(ready, posted) ==
  /\ chunks' = posted
  /\ IF Complete(ready, posted)
       THEN /\ chunksReady' = 0
            /\ \/ /\ More(pass, level)
                  /\ level' = NextLevel(pass, level)
                  /\ turn' = "level" /\ UNCHANGED pass
               \/ /\ ~More(pass, level) /\ pass < Len(Directions)
                  /\ pass' = pass + 1
                  /\ turn' = "pass" /\ UNCHANGED level
               \/ /\ ~More(pass, level) /\ pass = Len(Directions)
                  /\ turn' = "render" /\ UNCHANGED <<pass, level>>
       ELSE /\ chunksReady' = ready
            /\ turn' = "idle" /\ UNCHANGED <<pass, level>>

\* runLevel, of a level `levels` does not have.
RunMissingLevel ==
  /\ turn = "level"
  /\ level \notin DOMAIN levels
  /\ Throw("levels")
  /\ UNCHANGED <<pageVars, outstandingRender, waiting, render, ended, treeVars,
                 pass, level, chunks, chunksReady, poolVars>>

\* runLevel, of a level the page visits itself.
RunLevel ==
  /\ turn = "level"
  /\ level \in DOMAIN levels /\ ~IsParallel(levels[level])
  /\ value' = [c \in DOMAIN value |->
                 IF c \in Written(pass, levels, level) THEN render ELSE value[c]]
  /\ WorkerDone(1, 1)
  /\ UNCHANGED <<pageVars, outstandingRender, waiting, render, ended, levels,
                 poolVars, thrown>>

\* runLevel, of a level it posts: each chunk takes a worker off the stack, and
\* every one of them is sent the buffers of the whole level and the one below.
PostLevel ==
  /\ turn = "level"
  /\ level \in DOMAIN levels /\ IsParallel(levels[level])
  /\ LET n     == Chunks(levels[level].length)
         kept  == IF n <= Len(freeLayoutWorkers)
                    THEN Len(freeLayoutWorkers) - n ELSE 0
         taken == {freeLayoutWorkers[k] : k \in kept + 1..Len(freeLayoutWorkers)}
     IN
     /\ chunks' = n /\ chunksReady' = 0
     /\ freeLayoutWorkers' = SubSeq(freeLayoutWorkers, 1, kept)
     /\ busyLayoutWorkers' = busyLayoutWorkers \cup taken
     /\ request' = [w \in Workers |->
                      IF w \in taken
                        THEN [pass |-> pass, buffer |-> Buffer(pass, level)]
                        ELSE request[w]]
     /\ turn' = "idle"
     /\ thrown' = thrown \cup IF n <= Len(freeLayoutWorkers) THEN {}
                              ELSE {"no free worker"}
  /\ UNCHANGED reply
  /\ UNCHANGED <<pageVars, outstandingRender, waiting, render, ended, treeVars,
                 pass, level>>

\* A worker's onmessage.  The loop runs to m.data.span, which no message has:
\* no node is visited, and the buffer goes back as it came.
Visit_AllNodes(buffer) == [c \in DOMAIN buffer |-> render]
Visit(buffer) == buffer
WorkerRuns(w) ==
  /\ request[w] # None
  /\ request' = [request EXCEPT ![w] = None]
  /\ \E ok \in {TRUE} \cup IF "error" \in Faults THEN {FALSE} ELSE {} :
       reply' = [reply EXCEPT ![w] =
                   [pass |-> request[w].pass,
                    writes |-> IF ok THEN Visit(request[w].buffer) ELSE NoWrites]]
  /\ UNCHANGED <<pageVars, outstandingRender, waiting, render, ended, treeVars,
                 loopVars, freeLayoutWorkers, busyLayoutWorkers, thrown>>

\* The page's onmessage: the worker is free again, its answer is copied over
\* the level and the one below, and the chunk counts as done, with {err: ...} as
\* well.  The fields of the nodes come first.  Where the arrays are of a smaller
\* tree meanwhile, rows past the end of a column fall into columns behind it, or
\* past the last one, which throws.
Freed_Forgotten(w) == freeLayoutWorkers
Freed(w) == Append(freeLayoutWorkers, w)
WorkerAnswers(w) ==
  /\ turn = "idle"
  /\ reply[w] # None
  /\ reply' = [reply EXCEPT ![w] = None]
  /\ busyLayoutWorkers' = busyLayoutWorkers \ {w}
  /\ freeLayoutWorkers' = Freed(w)
  /\ LET writes  == reply[w].writes
         fits(k) == \A c \in DOMAIN writes : c[2] = k => c \in DOMAIN value
     IN
     \/ /\ value' = Overwritten(writes, Kinds)
        /\ WorkerDone(chunksReady + 1, chunks)
        /\ UNCHANGED thrown
     \/ /\ \/ ~fits("self") /\ value' = value
           \/ ~fits("child") /\ value' = Overwritten(writes, {"self"})
        /\ Throw("RangeError")
        /\ UNCHANGED <<pass, level, chunks, chunksReady>>
  /\ UNCHANGED <<pageVars, outstandingRender, waiting, render, ended, levels,
                 request>>

\* The render pass visits every level itself, and its callback ends the render.
Finished_StillOutstanding == TRUE
Finished == FALSE
RunRenderTraversalAsync ==
  /\ turn = "render"
  /\ outstandingRender' = Finished
  /\ ended' = ended + 1
  /\ turn' = "idle"
  /\ UNCHANGED <<pageVars, waiting, render, treeVars, pass, level, chunks,
                 chunksReady, poolVars, thrown>>

-----------------------------------------------------------------------------
Init ==
  /\ ignoreCL \in IgnoreCL /\ habits \in SUBSET Habits
  /\ outstandingRender = FALSE
  /\ waiting = 0 /\ calls = 0 /\ loads = 0 /\ render = 0 /\ ended = 0
  /\ levels = <<>>
  /\ value = <<>>
  /\ turn = "idle" /\ pass = 1 /\ level = 1 /\ chunks = 0 /\ chunksReady = 0
  /\ freeLayoutWorkers = SetToSeq(Workers)
  /\ busyLayoutWorkers = {}
  /\ request = [w \in Workers |-> None]
  /\ reply = [w \in Workers |-> None]
  /\ thrown = {}

Handler ==
  \/ StartPass \/ RunMissingLevel \/ RunLevel \/ PostLevel
  \/ RunRenderTraversalAsync
Next ==
  \/ LoadData \/ LayoutAndRenderAsync \/ TimerFires \/ Handler
  \/ \E w \in Workers : WorkerRuns(w) \/ WorkerAnswers(w)

Spec == Init /\ [][Next]_vars

\* A handler that has begun goes on, timers fire, and every worker runs and is
\* heard.  The page owes nobody a call.
Fairness ==
  /\ WF_vars(Handler)
  /\ WF_vars(TimerFires)
  /\ \A w \in Workers : WF_vars(WorkerRuns(w)) /\ WF_vars(WorkerAnswers(w))
FairSpec == Spec /\ Fairness

-----------------------------------------------------------------------------
(***************************************************************************)
(* Properties.                                                             *)
(***************************************************************************)

\* Every variable has its type; a level has a number the code's `levels` could
\* have.
TypeOK ==
  /\ ignoreCL \in BOOLEAN /\ habits \subseteq Habits
  /\ outstandingRender \in BOOLEAN
  /\ waiting \in 0..MaxCalls /\ calls \in 0..MaxCalls /\ loads \in 0..MaxLoads
  /\ render \in 0..MaxCalls /\ ended \in Nat
  /\ levels \in Trees \cup {<<>>}
  /\ value \in [Cells(levels) -> 0..MaxCalls]
  /\ turn \in {"idle", "pass", "level", "render"}
  /\ pass \in Passes /\ level \in Nat \ {0}
  /\ chunks \in Nat /\ chunksReady \in Nat
  /\ freeLayoutWorkers \in Seq(Workers) /\ busyLayoutWorkers \subseteq Workers
  /\ DOMAIN request = Workers /\ DOMAIN reply = Workers
  /\ thrown \subseteq
       {"runTraversalsAsync", "levels", "no free worker", "RangeError"}

\* runKernelRange finds a worker for each chunk traverseAsync cuts a level
\* into: `throw 'no free worker'` is never reached, whatever the length of the
\* level and however the page loads and renders.
NoFreeWorkerIsNeverThrown == "no free worker" \notin thrown

\* freeLayoutWorkers and busyLayoutWorkers share the workers out, none twice,
\* and a worker is busy exactly while a message of its is under way.
WorkersAccounted ==
  /\ Cardinality(ToSet(freeLayoutWorkers)) = Len(freeLayoutWorkers)
  /\ ToSet(freeLayoutWorkers) = Workers \ busyLayoutWorkers
  /\ \A w \in Workers :
       (w \in busyLayoutWorkers) <=> (request[w] # None \/ reply[w] # None)

\* A traversal waits for its workers: as long as no handler failed, every message
\* under way is of the pass that runs, no handler goes on to another level while
\* there is one, and the counter counts the chunks not yet answered.
LevelBarrier ==
  thrown = {} =>
    /\ \A w \in busyLayoutWorkers :
         LET m == IF request[w] # None THEN request[w] ELSE reply[w]
         IN m.pass = pass /\ turn = "idle"
    /\ busyLayoutWorkers # {} =>
         chunks - chunksReady = Cardinality(busyLayoutWorkers)

\* outstandingRender lets one render run at a time: the callback of every
\* render begun has run, but for the one that is outstanding.
RendersAreSerial == render - ended = IF outstandingRender THEN 1 ELSE 0

\* Seen from the callers, the passes, levels, workers and timers amount to the
\* abstract service: a render begins only for a call not yet answered, while none
\* runs, and its end answers exactly one call.
Service == INSTANCE RenderService
             WITH asked <- calls, busy <- outstandingRender, done <- ended
ImplementsService == Service!Spec

\* When the render pass runs, everything the page's own visits write is there as
\* they left it, in the nodes of a short level and in their children, in a page
\* that does not load a tree meanwhile: the answers that are copied over whole
\* levels, and over those below, with whatever was in the workers' buffers, leave
\* it alone.  What a long level writes in the level below is never computed,
\* whether that one is long or short.
OwnVisitsAreCurrent ==
  turn = "render" /\ "reload" \notin habits =>
    \A p \in Passes, l \in DOMAIN levels :
      ~IsParallel(levels[l]) =>
        \A c \in Written(p, levels, l) : value[c] = render

\* A render of a page that loads first, and never during a render, ends: a
\* worker that answers {err: ...} does not hold it up.
RenderEnds ==
  (outstandingRender /\ ignoreCL /\ habits = {}) ~> ~outstandingRender

\* Such a page's waiting callers get their render.
CallersAreServed ==
  (waiting > 0 /\ ignoreCL /\ habits = {}) ~> (waiting = 0)

\* "Calculates the layout of the data and renders it" (main.js): when the
\* render pass runs, every layout pass has computed its fields at every node.
RenderIsComplete ==
  turn = "render" =>
    \A p \in Passes, l \in DOMAIN levels :
      \A c \in Written(p, levels, l) : value[c] = render
=============================================================================
