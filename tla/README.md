# A TLA+ development for Chromium-WebCL

The repository is a fork of Chromium that adds OpenCL to the browser (WebCL, the
GPU-process side of it and its proxies in the renderer), a VP9 decoder that runs on
the GPU, and *superconductor*, a JavaScript visualization engine that lays out trees
with WebCL or with web workers.  Only the changed Chromium files are there, next to
thousands of generated Visual Studio projects and to vendored libraries (libvpx,
ANGLE, ICU); the fork has no tests of its own code.

Below, `cc/` stands for `src/src/content/common/gpu/`, `sc/` for
`src/superconductor/superconductorjs/` and `ex/` for `src/superconductor/examples/`.

## 1. Inventory

| Component | State it keeps | Operations | Status |
|---|---|---|---|
| VPX hardware decoder, `cc/media/vpx_video_decode_accelerator.{cc,h}` | decoder state, the one decode surface, a queue of inputs, a queue of decoded samples, the picture buffers, pictures held back at start | Initialize, Decode, AssignPictureBuffers, ReusePictureBuffer, Flush, Reset, Destroy, posted tasks | modelled |
| Decoder client and its stub, `media/filters/gpu_video_decoder.cc`, `cc/media/gpu_video_decode_accelerator.cc` | decodes in flight, pending decode and reset callbacks, drain state, picture buffers given out, init reply | Decode, Reset, Stop and the notifications; message handlers of the stub | partly: the protocol it obeys |
| GPU channel, `cc/gpu_channel.{cc,h}`, `cc/gpu_command_buffer_stub.cc` | deferred messages, stubs, preemption state and its timer, sync points, OpenCL handlers | OnMessageReceived, HandleMessage, RequeueMessage, InsertSyncPoint, stub scheduling | partly: one message per HandleMessage task |
| Parallel layout, `sc/src/CLRunner.js`, `sc/src/main.js` | levels of the tree, one array per field, free and busy workers, the outstanding render | loadData, layoutAndRenderAsync, traverseAsync, runKernelRange, the workers | modelled |
| Generated layout engine of the treemap, `ex/treemap/kernels.visualization.js`, and the synchronous render of `sc/src/{main,CLRunner,GLRunner}.js` | the fields of every node, the vertex buffer, its WebCL twin | layoutAndRender, five passes over the levels, reallocateVBO, setVBO, renderFrame | modelled |
| Sparse arrays and loading, `sc/src/jzlib.js`, `sc/src/CLRunner.js` | chunk files and digests, a queue of chunks to fetch, one worker per chunk, the memory of the engine | compress, deflate, deflateMT, loadDataFlat, loadDataFlatMt, inflateMt | partly: not the single-file and binary modes of the compressor |
| Tree flattening and bindings, `sc/src/CLRunner.js`, `ex/*/kbindings.js` | four buffers of columns, edges as relative offsets, levels, the list of id tokens | loadData, flatten, flattenNode, flattenEdges, tokenize, the column tables | modelled |
| Style sheets, `sc/selectors.js`, `sc/selectorsGPU.js`, `selectorEngine` of `sc/src/CLRunner.js` | the compiled sheet: three tables of selectors sorted by specificity, the id tokens of the moment | parse, tokenize, hash, flattenSelectors, match, apply | modelled |
| WebGL rendering, `sc/src/GLRunner.js` | camera, vertex buffer | resetCanvas, renderFrame, movePosition | partly: the vertex buffer |
| Demo page, animation, matrices; OMeta and Prototype; the bundled `superconductor.js` | - | - | not modelled (section 8) |
| GPU channel host, `cc/client/gpu_channel_host.{cc,h}` | routes, mailbox names, the OpenCL proxies | Send, AddRoute, GenerateMailboxNames, Callcl* | not modelled (section 8) |
| WebCL objects, `third_party/WebKit/Source/modules/webcl/` | object lists, the OpenCL handle | create, release, enqueue, getInfo | not modelled (section 8) |
| Sandbox broker, `sandbox/win/src/{broker_services,target_process}.cc` | job trackers, process ids, the no-targets event | SpawnTarget, the events thread, WaitForAllTargets | not modelled (section 8) |
| Software VPX decoders, GPU process start-up, GLES2 decoder | - | - | not modelled (section 8) |

How they interact.  JavaScript calls WebCL objects; these call proxies of the channel
host, each a synchronous IPC message that the GPU channel handles on the main thread
of the GPU process.  The same channel carries command buffers and the messages of the
video decoder, one `HandleMessage` task per message; the decoder answers through tasks
it posts to the same loop.  superconductor uses WebCL as a page would: a tree comes from
JSON (flattened on the page) or from chunk files (flattened, compressed and written by a
script, fetched and inflated by workers), a style sheet may write some of its fields, the
generated engine lays it out pass by pass, with WebCL, with web workers or on the page, and
writes vertices into a buffer that WebGL draws.

What is hard.  The decoder interleaves its posted tasks with incoming calls, has a
single surface to decode into, and must survive a failure of any platform call.  The
workers of the layout, the workers of a load and the callbacks of file writes reply in any
order, and may not reply.  The layout passes share one memory with the render before.
The flattener and the selectors do arithmetic on indices whose mistakes stay silent: a
wrong offset reads another node.  `PROJECT.json` lists the hazards at their lines, with
the properties that watch them.

What makes each component correct.  Decoder: no frame is overwritten, reordered, lost or
shown in a buffer the client did not give back; every request is answered and nothing
crosses a reset.  Layout: every node computed once per pass, levels in order, a frame
request always ends.  Engine: the frame shows the current inputs, children tile their
parents, every vertex is written once.  Loading: a load that says it is finished has put
every value in its place.  Flattening: edges and values are those of the document.
Selectors: a rule applies to exactly the nodes it describes, and the most specific one
wins.

The modules, and what they build on:

| Modules | Run(s) | Proofs |
|---|---|---|
| `VPXVideoDecodeAccelerator`, `MCVPX` | `vpx_*` | `VPXVideoDecodeAcceleratorProofs`, `VPXPipelineProofs` on top of it |
| `LayoutWorkers`, which implements `RenderService`; `MCLayout` | `layout*` | `LayoutWorkersProofs` |
| `TreemapEngine`, `MCTreemap` | `treemap` | `TreemapEngineProofs`, `TreemapGeometryProofs` on top of it |
| `SparseLoader` over the functions of `SparseArrays`; `MCSparse` | `sparse_load` | `SparseLoaderProofs` |
| `Selectors` over `FlatTree` over `Bindings`; `MCSelectors` with the trees of `ExampleData` | `selectors*` | `FlatTreeProofs`, `SelectorsProofs` on top of it |

`X_Y` beside a definition `X` is `X` with a plausible mistake `Y` in it.  No action uses
it; put in place of `X` it must break the property it is listed with.

## 2. The decoder: `VPXVideoDecodeAccelerator`

`VPXVideoDecodeAccelerator.tla` models the AMD_ACCELERATED build of the decoder together
with what surrounds it on both sides.

* **State.**  One variable per member of the class, with the member's name where the
  member is one: `state_`, `client_`, `restart_`, `buffering_`,
  `pending_output_samples_`, `pending_input_buffers_`, `output_picture_buffers_`,
  `buffered_picture_buffers_`.  `stream_size` is `width_`/`height_`, `surface` is the
  number of the frame in `temp_surface_rgba_`, `available` the picture buffers whose
  `available()` holds, `texture` the frame each one shows, and `texture_dimensions_` the
  size `GpuVideoDecodeAccelerator` asked them for.  `inputs_copy` is the local list of
  `DecodePendingInputBuffers`.
* **Loop and channels.**  `loop` is the FIFO of tasks of the main thread, `calls` and
  `notes` are the two FIFO channels.  A bitstream buffer is its number and stands for the
  frame it decodes to.
* **Actions.**  One per handler: `Initialize`, `Decode`, `AssignPictureBuffers`,
  `ReusePictureBuffer`, `Flush`, `Reset`, `Destroy`, the posted notifications
  (`RunNotification`), `DecodePendingInputBuffers`, and `MessageReceived` for the channel.
  A handler includes all it calls: `ProcessPendingSamples`, `FlushInternal`,
  `StopOnError` and `Invalidate` are operators used by the actions.  The one handler that
  decodes several inputs is cut into a step per input (`DecodeNextOfCopy`); it keeps the
  thread meanwhile (`Idle`), and the client can act in between as it can in reality.
* **Client.**  `ClientDecode`, `ClientFlush`, `ClientReset`, `ClientReuse`, `ClientStop`
  and the `Receive...` actions are the calls `GpuVideoDecoder` may make given what it was
  told: decodes stop at `kMaxInFlightDecodes` unless a picture is in hand, an error
  destroys the decoder, and a reset is put off during a drain, unless the factories were
  aborted (`FactoriesAbort`; gpu_video_decoder.cc:75).  Then it is sent behind the Flush
  and the client waits for both (phase `"aborting"`): if the Flush is done by the time the
  Reset is handled both are answered, if not the Reset is refused and the client destroys
  the decoder.  A deferred reset posts itself again until the drain is over, which is the
  same as not calling it yet.
* **Failures.**  `Faults` names the platform calls that may fail in a behaviour:
  `init`, `context` (MakeContextCurrent), `create` (a picture buffer), `surface` (the
  decode surface), `copy` (the copy to a picture buffer), `decode` (libvpx), `textures`
  (the client's) and `abort` (of its factories).  Each may fail whenever it is called.  A
  failing surface is reported at some of its calls and makes the function return without a
  word at others (lines 1430, 1449 and 1489), as a packet libvpx rejects does.

Two simplifications.  `GetSurfaceLevel` of the direct-output path, compiled out by
default, is not modelled.  `HandleResolutionChanged` and `DismissStaleBuffers` have no
action: `ResolutionBranchIsDead` is the condition under which they are never called, it
is checked and proved.

### Runs

All runs use three picture buffers with one left free by buffering, so that two pictures
are held back, the pool runs dry and a picture buffer is reused within the bound on
inputs.  `CHECK_DEADLOCK` is off because the system really stops: after `Destroy`, and
when the client has sent all of its inputs and asks for nothing more.

* `vpx_safety` (`VPXSafety.cfg`): five inputs, four in flight, a size change after the
  first input, all faults, about 5.1 million states.  Five inputs are more than the
  picture buffers and fill the input queue behind a waiting sample twice.  Properties:
  `TypeOK`; `SurfaceHoldsPendingSample` (nothing is decoded over a frame that waits);
  `NoProtocolError` (nothing is refused but a Reset sent during a drain by a client whose
  factories were aborted);
  `PictureShowsItsFrame` (a picture buffer keeps its frame until it is given back);
  `InDecodeOrder` (all buffers in the pipeline, from the client's end, are in increasing
  order, whatever queue they are in); `ResetDoneIsLast`; `NoLostWakeUp`;
  `ResolutionBranchIsDead`.
* `vpx_liveness` (`VPXLiveness.cfg`): four inputs, three in flight, no faults but
  that the factories may be aborted: `RequestsAreAnswered` and `DecodesAreAcknowledged`.
* `vpx_flush`, `vpx_resolution`, `vpx_leak`, `vpx_bad_decode`: one property each that a
  comment of the code states and the code does not keep (section 7).

Fairness (`Fairness`): weak fairness of the main thread, of the hand-off of a message to
the channel, of the client's receipt of messages, and of frames being given back.  The
first three are the message loops of Chromium, which run every task that is posted;
the last is the video renderer, which releases a frame once it is shown or skipped.
Whether the client decodes, flushes, resets or stops is not assumed.  Weak fairness of
the whole main thread is enough because it takes its tasks in order.

### Proofs

`VPXVideoDecodeAcceleratorProofs.tla` proves, for every value of the constants allowed by
`ConstantsAssumption`:

* `TypeCorrect`: `TypeOK` is inductive.  The lemmas `StopOnErrorType`, `PresentType`,
  `ProcessPendingSamplesType` and `DecodeInternalType` type the helpers once; each
  handler then follows from the helper it ends in.
* `SurfaceSafe`: `SurfaceHoldsPendingSample` is inductive given `TypeOK`.  The surface
  changes only in `DecodeInternal`, past the test that no sample waits.
* `WakeUpsAreKept`: `NoLostWakeUp` is inductive given `TypeOK`.  A task leaves the
  loop only by running; the one that runs either empties the input queue or meets a
  waiting sample, and whatever presents the last sample posts the next task.
* `ResolutionBranchUnreachable`: `ResolutionBranchIsDead` is not inductive.  A request
  for picture buffers could be in the loop while the stream's size is still unknown.
  The strengthening is `InitializeComesFirst` (until Initialize runs nothing else
  exists, so it cannot set `restart_` again later) and `SizeIsSettled` (from the request
  for picture buffers on, `restart_` is false and the size asked for is the stream's).

`VPXPipelineProofs.tla` proves the other four invariants of `vpx_safety`.  None of them is
inductive: a `Reset` may be answered only because the client waits for it and sent nothing
behind it; a picture may be announced because its buffer was free when the frame was copied,
many steps ago.  They follow from one invariant, `PipelineInv` (`PipelineSafe`), that reads
everything between the client and the decoder as one queue, `Pipeline`:

* `Ordered`: any two messages of the pipeline may follow each other (`MayPrecede`).  This one
  relation between two messages says that frames keep their order, that a picture buffer is
  named once, that there is one exchange (Initialize, Flush or Reset, or its answer) at a
  time but for a reset behind a drain, and one request for picture buffers ever, that
  nothing of an input crosses a reset, and that nothing follows Destroy.
* `Numbered`, `Owned`, `Apart`: numbers in flight were sent; a picture buffer in flight or
  held is not free and shows the frame of its picture; what the client holds is not also in
  flight.
* `Exchanging`, `Blame`: the exchanges under way are those the client waits for; none but a
  Reset reaches a decoder that is flushing, and that only if the factories were aborted; a
  decoder that reported such a Reset as `IllegalState` has stopped.
* `Asking`, `Lifecycle`: when picture buffers can be asked for, assigned and used, and which
  states of the decoder go with which calls.

A step takes a message at the head of one part of the pipeline and adds messages at the end
of others.  The lemmas on queues (`ElemsConcat`, `ChainConcat`, `OrderedParts`) reduce the
order of the whole to pairs of parts, and those on single moves (`TakeTask`, `TakeCall`,
`PostTask`, `SendNote`, `HoldBack`, `SendCall`, `Release`, `Notify`, `QueueInput`) say which
moves keep it; `PresentsPipeline` and `StopKeeps` do the same for presenting a sample and for
the error path, which several handlers share.  Each action then has its lemma, from
`InitializeKeeps` to `ReceiveKeeps`.  The proof rests on `TypeOK`, on
`SurfaceHoldsPendingSample` (at most one sample is presented by a step) and on
`InitializeComesFirst`.  From the invariant:

* `ProtocolKept` (`NoProtocolError`), `PicturesAreKept` (`PictureShowsItsFrame`, from
  `Owned`), `DecodeOrderKept` (`InDecodeOrder`, from the first clause of `MayPrecede`) and
  `ResetsAreComplete` (`ResetDoneIsLast`: no picture, input or sample may stand behind a
  `ResetDone`, so the parts that hold only such are empty).

Only model-checked: both liveness properties, which are out of the prover's reach.

## 3. The layout: `LayoutWorkers`

`LayoutWorkers.tla` models one page: `layoutAndRenderAsync` of `sc/src/main.js` and the
traversals, the pool and the workers of `sc/src/CLRunner.js`.

* **State.**  `outstandingRender` and the callers whose timers run (`waiting`); the loaded
  tree (`levels`, with `start_idx` and `length` as in the code) and its arrays (`value`);
  where the traversals are (`pass`, `level`, `chunks`, `chunksReady`); the pool
  (`freeLayoutWorkers`, a stack, and `busyLayoutWorkers`) with one message per busy
  worker, not yet read (`request`) or not yet handled (`reply`); `thrown`, the exceptions.
* **One handler at a time.**  A JavaScript handler runs to completion, and here one handler
  may visit many levels: the handler of the last answer of a level continues with the
  next level, and with the next pass.  `turn` cuts it at every level; page events and
  answers wait until it is `"idle"`.  Workers run at any time.
* **Actions.**  `LoadData`, `LayoutAndRenderAsync` and `TimerFires` are the page.
  `StartPass`, `RunLevel` (a level the page visits itself), `PostLevel` (one it cuts into
  chunks), `RunMissingLevel` and `RunRenderTraversalAsync` are the traversal.
  `WorkerRuns` and `WorkerAnswers` are the two `onmessage` handlers.
* **Data.**  A layout pass writes a field in the nodes it visits and one in their children
  (`computeReadWriteSets` tells the two apart), and a field holds the number of the render
  that computed it; `value` has a cell for each pass, kind of field and node.  A worker is
  sent the rows of both, those of the level and those of the level below, as a copy where
  the pass reads the field there (`ReadBack`) and as zeros where it only writes it, and its
  whole answer is copied back (`Overwritten`).  In the engines there are many fields of each
  kind; those that two passes write, each for nodes of other classes, are two fields here.
  An answer for a larger tree than the one loaded meanwhile either throws (`RangeError`,
  after the fields that still fitted) or spills into columns behind its own, which are left
  out: no guard reads a field, and nothing is claimed about fields on such pages.
* **External.**  The engine's `_gen_runTraversalsAsync` and its passes are generated by a
  compiler that is not in the repository; `traverseAsync` is called once per pass, the last
  of them being the render pass, which the page always visits itself.
* **Habits.**  A page may render before it has loaded a tree (`"early"`) or load one during
  a render (`"reload"`); the code prevents neither.  `habits` is chosen initially.

The `layout` run has three workers, trees with levels of 1 to 7 nodes of which those longer
than two are posted (in two or three chunks), one pass upwards and one downwards, three
loads and three calls, worker errors and all habits.  Seven nodes are the shortest level
that uses all three workers, and four the shortest for which a chunk without its `+ 1`
would need a fourth.  `CHECK_DEADLOCK` is off because the page stops when it has made its
calls.  The run shows that a careless page can end a render with an exception or leave it
outstanding, and still never finds the pool short of a worker (`NoFreeWorkerIsNeverThrown`,
`WorkersAccounted`), never has two renders at once (`RendersAreSerial`), and never goes on
to a level before the last one is answered (`LevelBarrier`, until an exception); and that
in pages that load no tree during a render the answers copied over whole levels spare what
the page computed itself (`OwnVisitsAreCurrent`), and for careful pages without WebCL every
render ends and every waiting caller gets its own (`RenderEnds`, `CallersAreServed`).

Fairness: a handler that has begun goes on, timers fire, workers run and their messages are
delivered, as browsers do.  Weak fairness of the timer suffices because calls are bounded;
in an unbounded run a caller could lose the race for the flag each time it polls.

`LayoutWorkersProofs.tla` proves for any number of workers, any trees, passes and habits:

* `ChunksFit`: `Chunks(length)` is in `1..NumWorkers`.  `Math.round` may round down, but
  by less than one, so that chunks of `Math.round(length / numWorkers) + 1` nodes, one per
  worker, cover more than the level (`ChunksCover`).
* `NoFreeWorker` and `WorkersShared`, from the inductive invariant `PoolInv`: the stack has
  no duplicates and is the complement of the busy workers (`Shared`), a busy worker has
  exactly one message (`Messages`), and at least as many answers are awaited as workers are
  busy (`Awaited`), so that a level completes only when all are free again.  `Awaited` says
  "at least" and not "exactly" because an answer whose handler throws is never counted.
* `RendersSerial`: from `PoolInv`, which says that a handler only visits levels while a
  render is outstanding.

* `ServiceImplemented`: `RenderService` is what a caller may rely on, without trees, levels
  or workers: a call begins a render or waits, one render runs at a time, and a render that
  ends answers one call, never more than were made.  `ImplementsService` is that
  specification with `asked`, `busy` and `done` replaced by the calls made, the flag
  `outstandingRender` and the callbacks run.  The mapping needs `CallsInv`: the calls are
  those that ended, those that wait and the one that runs, so that a timer that fires finds
  a call not yet answered.  The `layout` run checks the refinement on the instance.

Its second part proves what the traversals compute, from `PoolInv`, `CallsInv` and:

* `LayoutTypes` (`TypeOK`), from `LayoutInv`: while a handler visits levels, `pass` and
  `level` are within the engine and the tree (`LoopType`), and memory and messages hold
  numbers of renders even when another tree was loaded since (`ValueType`).
* `BarrierHolds` (`LevelBarrier`): `chunksReady` is short of `chunks` by exactly the answers
  still under way, until an exception.
* `OwnVisitsCurrent` (`OwnVisitsAreCurrent`), from `Progress`: in a page that loads no tree
  during a render, what the page's visits wrote in the earlier passes, and in the running
  one behind the current level, holds the number of this render, and what a worker carries
  belongs to a level the page does not visit.  Two levels write different cells
  (`WrittenApart`), because levels are disjoint, and so are those below them.  `IsTree` says
  so of every pair of levels, and not only of neighbours, because the induction over levels
  that leads from one to the other is out of the prover's reach.  It says nothing of what a
  long level writes, in its own nodes or in a short level below it: that is never computed
  (`layout_values`), and a value computed from it is computed from what was there.

Only model-checked: the two liveness properties.

## 4. The treemap engine: `TreemapEngine`

The engine of the election treemap is generated code, the same for WebCL and for a canvas.
`layoutAndRender` runs pass 0 down (inputs to every node, votes of the polling places), 1 up
(totals), 2 down (sizes and places), 3 up (vertices per subtree), then makes the vertex
buffer large enough and links it to WebCL, runs 4 down (the vertices), and draws.

* **State.**  The fields of all nodes, grouped by the pass that writes them (`inh`, `tot`,
  `geo`, `self`, `rsize`, `right`); the vertex buffer and what WebCL takes for it (`vbo`,
  `clVBO`); the running pass and level.  Fields are not cleared between two renders, as in
  the code: a node that is read before it is written shows the render before.
* **Actions.**  `SetInput`, `LoadTree` and `BeginLayout` are the page.  `Visit` is one
  node, and the nodes of a level go in any order, as work items do; `NextLevel` and
  `NextPass` are the loops.  `reallocateVBO`, `setVBO` and `renderFrame` follow the code
  of the same names, `KernelFails` is a WebCL call that fails.
* **Numbers** are exact integers, with `NaN` for 0 / 0; 144 by 144 pixels and four votes for
  the country make every division of the instance exact.  Colours and the camera are left
  out.

The `treemap` run has three trees with all classes of nodes (a country of five levels, rows
and columns with an empty district, a single place), three settings of the inputs that
count all, some or none of the votes, and two renders: the second is the one that could see
what the first left.  It shows that every node sees the inputs of this render
(`NodesSeeTheInputs`), the root's total is the sum over the selected places
(`TotalsReachTheRoot`), children fill their parent without gaps (`ChildrenTileTheirParent`),
a place's area is its share of the votes (`AreaIsVotes`), every vertex is written by exactly
one node, inside the buffer both sides share (`VerticesArePartitioned`), and the frame is
this layout, containers first (`FrameShowsTheLayout`).  `CHECK_DEADLOCK` is off because the
page stops after its last render.

### Proofs

The three proof modules hold for any set of trees and inputs.  They assume of the constants
that a tree is flat (`IsTree`: levels increase by one from parent to child, no level is empty,
the root has one child, siblings stand side by side in the order of their parents, places
have no children, votes are naturals), that sizes and counts are naturals, that the votes of
the country are not zero, and that `NaN` is no integer.

`TreemapEngineProofs.tla` proves `InputsReachEveryNode` (`NodesSeeTheInputs`) and
`FrameIsTheLayout` (`FrameShowsTheLayout`).  The invariant has `Control` (which levels are left
in which phase), `Pushed` (in pass 0, the children of every visited node see the inputs) and
`Painted` (in pass 4, exactly the visited nodes are drawn, as they are laid out, after their
parents).

It goes on with a small theory of `SumFunctionOnSet`.  The community
module defines it as a fold in an order nobody knows, and the induction theorems of the library
take an operator, so `FiniteInduction` states induction over the subsets of a finite set for a
set of subsets, from the least number of elements of a counterexample; from it come existence
and uniqueness of the sum, independence of the order (`SumRemove`) and sums of unions, parts
and singletons.  Then:

* `MemoryKeepsItsShape` (`TypeOK`), from `TypeInv`.  Widths may be `NaN`, vertex counts and
  offsets may not; that is true because sums of naturals are naturals and no offset is divided.
* `VotesReachTheRoot` (`TotalsReachTheRoot`), from `CarriedUp`: in pass 0 each visited place
  has its votes under the inputs of this render; in pass 1 the votes are in the `Tops`, the
  places and visited nodes whose parents are not visited yet.  Visiting a node puts it in the
  place of its children (`TopsMove`) and the sum over the tops stays (`FoldKeepsTheSum`); before
  the pass the tops are the places, after it the root alone.

The first half of `TreemapGeometryProofs.tla` proves `BufferIsShared` (`VerticesArePartitioned`), from
`BufferInv`: pass 2 counts the vertices of each node (`Sized`), pass 3 adds them up (`Summed`),
the buffer holds the root's sum and is the one WebCL writes (`Held`, `Enough`), and in pass 4
every vertex has one owner (`Parted`).  A node owns all of its part until it is visited, then
the vertices it draws itself, and its children own the rest (`VisitSplits`, which rests on
`SiblingsPartition`: intervals laid side by side by the fold of `Roll` cover the whole, each
point once).  At the start the root's child owns the buffer (`WholeIsOwned`), at the end only
what is drawn is left (`DrawsAreOwned`).  `Enough` holds in every state, because a buffer is
replaced by one a quarter larger than the request.

Its second half proves `ContainersAreTiled` (`ChildrenTileTheirParent`) and
`AreasAreVotes` (`AreaIsVotes`), from `GeometryInv`: after pass 1 a container's total is the
sum of its children's (`Added`), the root has given its child two edges and two sides
(`Cornered`), and a node visited by pass 2 knows all its edges and has put its children in a
row or a column, one against the next (`Laid`).  That children abut needs nothing more,
because siblings are numbered one after the other (`Tiling`); that the last one ends where
the parent ends, and that areas are votes, needs the division of a side among siblings to
leave no remainder.  The model divides integers where the code divides floats, so both
theorems have that as an explicit hypothesis, `SharesAreWhole`; it says nothing of the sides
or areas themselves, and on the instance it holds in every completed render.  A size is `NaN`
only below a container without votes: `AllProper` takes the least level of a node with votes
and an improper size.

## 5. Loading: `SparseArrays` and `SparseLoader`

`SparseArrays.tla` has the format: runs of at least `MinBlockSize` zeros are left out
(`deflate`), blocks are gathered into files of about `MinFileSize` values and split where
they are longer (`deflateMT`), and `inflateChunk` writes them back.  A dense part, an object
with numbers as keys in the code, is the sequence of its blocks in the order of their indices,
which is the order JavaScript lists such keys in; where an empty rest of a split block has the
key of the next block, that block takes its place.  `SparseLoader.tla` has the processes: `Compress`, `WriteEnds`, `WriteDigest` for the script that writes the files,
their callbacks in any order; `StartLoad` and the answers of the network for the page;
`ChunkArrives`, `ChunkRejected`, `ChunkLost` for the messages of the workers.  What a
callback does on the page is one step.

Faults: a write fails; a digest or a chunk is never answered or does not parse (the worker's
answer then has no `nfo`, and reading it throws: that worker never gets another file); a
device write throws because another load has changed the size of the buffer, or because the
driver refuses a write of no bytes.  `mixed` is a history variable: another load wrote in
between.

The `sparse_load` run compresses and loads every array of five zeros and ones (all cases of
runs at the start, at the end, shorter or longer than a block, with blocks of two and files
of three values), and two data sets of different sizes by loads that overlap, with two
workers.  `DigestIsComplete`: a digest is written only when all files are, although a failed
write and a successful one share a counter.  `FilesAreAccountedFor`: each file is queued,
with one worker, applied or lost.  `LoadIsFaithful`: when the callback runs and no other load
interfered, memory is the data set (cells of a device that hold zeros in the data set may
stay as `createBuffer` left them; the code never clears them).  `LoadSettles`: a load comes
to its end unless a worker is lost, and then the others still empty the queue.  Fairness:
for each load, one of its outstanding requests is answered or fails, as a network does;
writes and new loads are not assumed.  `CHECK_DEADLOCK` is off: there may be nothing left
to do.

### Proofs

The proofs hold for any data sets, labels, number of workers and loads, block and file size.
They assume that labels are finitely many and at least one (`LabelsAreFinite`), that what a
data set has under a label is an array (`DataSetsAreArrays`: its indices are `0 .. len - 1`;
values are not restricted), that workers are numbered from one, and that the two sizes are
positive.

The first half of `SparseLoaderProofs.tla` proves what the format is for:

* `InflateUndoesDeflate`: `inflate` of what `deflate` makes of an array is the array.  The
  recursive function in `deflate` exists and is unique (`DeflationExists`), and by induction
  from the end of the array its value from index `i` on is a list of blocks that lie behind
  one another, agree with the array and cover every value from `i` on that is not zero
  (`DeflatedFrom`).
* `ChunksHoldTheArray`: what a worker inflates from a chunk of `deflateMT` is the array
  between the chunk's `Start` and `End`, and every value that is not zero is in a chunk's
  range.  The invariant of the loop is `Splitting`: the blocks of the finished chunks and
  those of the queue agree with the array, a cell between two blocks of a chunk that none of
  them holds is zero, the queue lies behind the chunks, and together they cover what is not
  zero.  A block that ends where the file is full leaves an empty rest, which may
  begin where the next block does; that is why blocks are only in front of one another and not
  apart.  The loop ends because `Left` falls with every turn: two turns for each cell the
  queue still has to place are enough (`DeflateMTHolds`), which is also the bound the
  definition of `deflateMT` in the model counts to.

The induction theorems of the library take the property as an operator; the lemma
`CountingUp` states induction over the naturals for the set of those that have the property,
from the least counterexample.

Its second half proves four properties of the processes:

* `DigestsAreComplete` (`DigestIsComplete`) from `CompressInv`: `done` counts the callbacks,
  and once one failed it stays at least two behind, so that it never reaches their number.
* `LoadsAccountForFiles` (`FilesAreAccountedFor`) from `LoadInv`: of the `next - 1` files
  handed out, each is applied, with one worker, or lost with one.
* `MemoryFitsTheTree` (`TypeOK`) and `LoadsAreFaithful` (`LoadIsFaithful`) from `FullInv`,
  which adds `MemInv`.  `FileFacts` says that the files of a data set are the chunks of its
  labels, all of them, and at least one.  Two loads under way are both marked `mixed`; as long
  as one is not, the tree is its data set and memory is `Placed`: each cell has the value of
  the data set, or is still as `Fresh` left it and lies in no file that was applied.  A message
  keeps that, because what it writes is the array between its ends, zeros included
  (`WrittenCells`, `FileIsPlaced`); after the last file a cell no file wrote is a zero of the
  data set (`AllPlaced`).  A load marked `mixed` may leave anything in memory, even values of
  the wrong tree, and the theorem does not speak of it; a chunk of such a load that does not
  fit the buffer is `ChunkRejected`, so the shape is kept by all loads.

That a load comes to its end (`LoadSettles`) is a matter of fairness and is model-checked.

## 6. Trees and style sheets: `Bindings`, `FlatTree`, `Selectors`

`Bindings.tla` has the tables the grammar compiler generates for the five engines of the
examples: the columns of each class and interface, edges, buffer sizes, tokens, proxies.
`FlatTree.tla` is `loadData`: objects get indices level by level, and `flattenEdges` writes
offsets with counters that run ahead of the nodes.  `Selectors.tla` adds style sheets:
parsing in phases (`+`, then `>`, then white space), tokens for ids and classes, three
tables sorted by specificity, and the three engines: `selectors.js` on objects,
`selectorsGPU.js` on packed arrays, and the WebCL kernel `selectorEngine` generates, which
merges three lists by comparing unsigned integers.  The copies of the parser and of the
tables in the three files are the same text; the definitions are mapped to one copy each.

Loads, sheets and runs come in any order and repeat: `tokens` outlives a load by `loadData`
and not one by `loadDataFlat`, and a compiled sheet keeps the tokens of its moment.

The `selectors` run has nine scenes: the documents of four examples (two of them made by the
repository's own generators, `ExampleData.tla`), loaded with every field their grammar
declares; two trees of boxes, one wide and one deep, with ids in two spellings, nodes
without ids and empty lists; a tree the grammar does not allow; 300 sheets of one rule, over
a few words and all spellings of the combinators, and five of competing rules.  Ids weigh
64, tags 8, and integers wrap at 256, for 2^30, 2^12 and 2^32: four ids overflow as they do
in the code.  `CHECK_DEADLOCK` is off: a page may stop.

* `TreeIsKept`, `ValuesAreKept`: the flat tree is the document, also when read with other
  bindings than it was flattened with.
* `ParsesAsWritten`: splitting at one separator after another reads a selector from left to
  right as it is written.
* `MatchIsSound`, `MatchIsComplete`: matching by climbing indices agrees with the meaning of
  selectors on the document (`Selected`, which reads classes, ids and children of the
  document and knows nothing of tokens or columns).  Completeness is claimed for selectors
  without `>` or `+` left of a descendant combinator, since the matcher does not go back to
  try another ancestor.  Soundness is claimed within the limit of the id column (`TellsIds`):
  a node without an id keeps a zero there, and zero is the token of the first id there was,
  so that a selector with this id also matches nodes that have none.  No id has that token
  when a sheet was compiled before the first load.  Within the limit are the sheets of the
  run with any other id and, on both trees, those compiled first.
* `MergeVisitsAll`: the merge of a node's lists tries each of its rules once.
* `CascadeIsKept`: after a run each field has the value of the rule of highest rank that
  selects its node.  Claimed for sheets without rules for every node and without overflow,
  of selectors `MatchIsSound` and `MatchIsComplete` speak of; `InOrder` states the limits.
* `TokensOnlyGrow`: a token, once given, keeps its id until the tokens are replaced.

`selectors_star` checks `LowestFirst` on the same instance: the kernel tries the rules of a
node from the lowest specificity to the highest.  The list of the rules for every node is
not sorted, and `hbox *` at line 1 of a sheet comes before `*` at line 2 (section 7).

### Proofs

The theorems hold for every set of documents, scenes and sheets and any order of loads, sheets
and runs.  They assume that a document is a tree whose objects are numbered from the root down
and that no two attributes of an object name one field (`DocumentsAreTrees`, which says what an
object of a parsed file can look like), that a sheet is a sequence of rules with texts of
lexemes (`SheetsAreRules`), that a scene's sheets set fields its bindings have
(`ScenesAreSheetsAndDocuments`) and name classes its bindings have a token for
(`SheetsNameClasses`: `classToToken` throws for any other).  The bindings are no assumption:
their tables are definitions, and the lemmas `TablesFit`, `BindingsFit` and `TokensFit` are
about all five of them.

`FlatTreeProofs.tla` is about the order of `flatten` and its counters.  The library's
`FlattenSeq` recurses, so it starts with induction over the naturals from a least
counterexample, the existence of recursive functions (`Recursion`) and where each element of
a concatenation lies (`LaidFind`, `LaidOnce`).  Then:

* `QueueIsKept`: the nodes so far followed by the level at hand are the root followed by the
  children of the nodes so far.  So the order is a queue (`OrderIsQueued`): the children of a
  node lie end to end, behind those of the nodes before it.
* `FlattenRunsAhead`: every object has exactly one index (`OrderIsOnce`, `OrderIsOnto`,
  `OrderIsWhole`), and `leftmostChildIdx` is where the children will be put (`CounterIsFirst`).
* `ListsLaid`, `SlotsAreAll`, `SlotsDiffer`: the lists of a node divide its children, and
  every index but the root's is one place of one list of one node.
* `ListsFollow`, `ChildrenFollow`, `LevelsFollow`: a memory that holds the edges of a document
  (`EdgesHold`) gives back its lists, parents, neighbours and levels.

`SelectorsProofs.tla` is about the memory and the tokens:

* `TreeStays` (`TreeIsKept`).  A load writes the edges of each list and nothing else into their
  columns (`ListWritesOf` up to `AllWritesOf`); the columns differ in the tables of all five
  engines (`TablesFit`), a cell has one column and one index (`OneCell`), and so no two writes
  of a load contradict each other (`EdgesSettled`) and the memory holds the edges (`LoadHolds`).
  The inductive invariant `TreeInv` adds what the property does not say: the compiled sheet is
  one of the scene's, so that a run writes attributes only.
* `ValuesStay` (`ValuesAreKept`), from the same invariant.  A load that did not throw reached
  every node (`LoadGoes`).  A class and its interface have no column in common and share none
  with another field of either (`FieldsApart` in the tables), so that two attributes stored in
  one cell are the same (`AttrsDiffer`), and the last write to it is its value (`LoadAttrs`).
  The tables of the flattener and of the reader are equal where it matters (`SameFields`).
* `TokensStay` (`TokensOnlyGrow`), from `TokensInv`: tokens are a sequence without repetition.
  `tokenize` appends to such a list what is not in it (`TokensGrow`), for any ids.  That a
  sheet has ids to give it is the lemma `SheetsParsed`: `parsePredicates` reads every text, also
  one with empty words or two combinators side by side, as selectors with one predicate
  more than combinators (`ParseTyped`), because `Split` has one part more than separators
  (`SplitTyped`) and `Joined` puts one between two parts (`JoinedTyped`).
* `TypesStay` (`TypeOK`), inductive together with `TokensInv`.  A load makes buffers of exactly
  the size of the bindings because no write is out of range (`NodeInRange`, `LoadFills`); what
  a run writes are columns of the buffers, so that they stay as large (`RunFits`).
* `MatchesAreSound`, `MatchesAreComplete` (`MatchIsSound`, `MatchIsComplete`).  The inductive
  invariant `MatchInv` says of every cell the matcher reads what document it stands for: the
  class column has the tokens of the classes and the id column those of the ids
  (`MemoryNamed`, after a load by `LoadClasses` and `LoadIdCells`, after another sheet because
  tokens stay, after a run because it leaves these columns alone), and the compiled sheet is
  the written one with tokens for names, all of which are in its list (`KernelNamed`).
  Tokens tell names apart (`TokenTells`, `TokensFit`), so that a compiled predicate matches
  every node the written one fits, and no other when it tells ids (`AlikeIs`): the zero of a
  node without an id stands for the first id there was (`IdTells`).  `MatchesAreComplete`
  needs the first half only and so has no limit on ids.  The edges are those of the
  document (`FamilyIsSeen`): parents have smaller indices, so that `Ancestors` is what lies
  above a node (`AncestorsSeen`), and a left neighbour stands one index before
  (`NeighboursSeen`).  `WalkIsSound`: every position of
  a match that succeeds is at a node its predicate fits, related by the combinator to the
  next one (`StepIsSound`), which is a choice `Selected` asks for.  `WalkIsComplete` keeps,
  from right to left, that the matcher is at a node `Selected` can choose or, left of a ` `,
  below one (`OnTheWay`): `>` and `+` lead to one node at most, and of the ancestors that
  fit the nearest is at or below the one chosen, whose own ancestors it has too
  (`AncestorsPass`).  With a `>` or `+` further left the second case would not do.

## 7. Where the code departs from its comments

| Run | Comment | What the code does |
|---|---|---|
| `vpx_flush` | `vpx_video_decode_accelerator.cc:1247`, `.h:173`: a flush retrieves the buffered frames and then tells the client | ends when no sample waits: queued inputs are not decoded and held-back pictures stay held back |
| `vpx_resolution` | `gpu_video_decoder.cc:175`: the decoder detects a change of size by itself | reads the size from the first packet only, so that `HandleResolutionChanged` is dead code |
| `vpx_leak` | `vpx_video_decode_accelerator.cc:95`: picture buffers are reused | `Reset` drops held-back pictures without freeing their picture buffers |
| `vpx_bad_decode` | `vpx_video_decode_accelerator.h:166`: the client is told of every input buffer processed | a packet libvpx rejects is only logged |
| `layout_values` | `main.js:175`: "Calculates the layout of the data and renders it" | the loop of a worker is bounded by `m.data.span`, which no message has: long levels are not laid out |
| `selectors_star` | `CLRunner.js:1513`: the list of rules for every node is "implicitly already lowest-to-highest" | it is in the order of the sheet: `hbox *` weighs more than a later `*`, is tried before it and overwritten by it |

`layout_values` is a run of a careful page without worker errors.

Met while modelling and kept out of the runs, because no comment promises otherwise or
because the modules already show it as the limit of a property:

* With WebCL `layoutAsync` calls `runTraversalsAsync` (`CLRunner.js:401`), which does not
  exist: the render stays outstanding for ever.  `RenderEnds` is about pages with `ignoreCL`.
* A node without an id has a zero in its id column (`flattenNode` writes it for an `id` only,
  `CLRunner.js:515-517`), the token of the first id ever seen, so that a rule for that id
  matches it (`TellsIds`, the limit of `MatchIsSound` and `CascadeIsKept`).
* The descendant combinator takes the nearest ancestor that fits and never another one.
* Rules for every node are ignored by the two script engines.
* Four ids overflow the unsigned specificity of the kernel.
* `loadDataFlat` replaces the tokens, after which a sheet compiled before is stale;
  `selectors_buffer` is allocated for the first tree only and does not grow.
* An empty child list leaves `leftmost_child` pointing at a node of another parent.
* A load that throws leaves the new `tree_size` with the old levels.
* The bindings of `kernels.visualization.js` allocate no host buffers, so that only
  `loadDataFlatMt` works with them.
* A lost chunk is never retried, and its load never calls back.

## 8. Not modelled

* **GPU channel and channel host**: the preemption filter, GetStateFast, descheduled stubs,
  sync points, routes and mailbox names are upstream Chromium code; what the fork adds are
  synchronous OpenCL messages, each a call and its reply.
* **Decoder client and stub**: beyond the protocol of section 2, the shared-memory pool, the
  frames ready for the pipeline and the teardown of the stub.
* **WebCL objects**: wrappers that check arguments, make one synchronous call and map its
  error; lists of objects, no concurrency of their own.
* **Sandbox broker, software decoders, start-up**: upstream code with small edits, sequential
  or a matter of platform calls.
* **GLES2 decoder**: a translator of GL calls, far beyond enumeration.
* **WebGL rendering**: shaders, camera matrices and the canvas' primitives have no protocol.
* **Compressor**: its single-file and binary modes, and `computeReadWriteSets`.
* **Demo page and animation**: controls that set an input and ask for a render (which the
  modules allow at any time), and floating-point tweens.
* **Other examples' engines**: generated from other grammars; the passes differ in what a
  visit computes.
* **Vendored or generated**: OMeta, Prototype, J3DIMath, and `superconductor.js`, which the
  Makefile concatenates from the sources modelled here.

Out of the prover's reach and left to model checking: liveness under fairness (`vpx_liveness`,
`layout`, `sparse_load`), and of section 6 the order of a selector's words, the merge of the
rules of a node and the cascade (`ParsesAsWritten`, `MergeVisitsAll`, `CascadeIsKept`): they
are built with `SelectSeq` and `SortSeq`, which the prover knows by name only (it neither
expands them nor has a fact about them).
