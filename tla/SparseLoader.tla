---------------------------- MODULE SparseLoader ----------------------------
(***************************************************************************)
(* From a flattened tree to the memory of the layout engine: compress      *)
(* (jzlib.js) writes one file per chunk and then a digest; the page loads  *)
(* the digest and lets a pool of workers fetch, parse and inflate the      *)
(* chunks (loadDataFlatMt of main.js and CLRunner.js, inflateMt), or loads *)
(* one sparse file (loadDataFlat).                                         *)
(*                                                                         *)
(* Concurrent parts: the callbacks of writeFile, the answers of the        *)
(* network, the workers' messages, and loads that overlap.  Everything a   *)
(* callback does on the page is one step.                                  *)
(*                                                                         *)
(* Abstractions.  Files hold what was stringified into them.  tree_size,   *)
(* levels and tokens of a data set are the data set.  The host and device  *)
(* buffers are one memory per label; a device buffer is not cleared by     *)
(* createBuffer, so its cells begin as Garbage.                            *)
(***************************************************************************)
EXTENDS SparseArrays, FiniteSets

CONSTANTS
  Labels,         \* int_buffer_1, float_buffer_1, ...
  Data,           \* the data sets: Data[d] maps each label to its array
  Shelves,        \* the sets of data sets to choose from
  MaxLoads,       \* bound on the loads the page starts
  Workers,        \* the workers of a load; their number is maxNumWorkers
  Garbage, None

VARIABLES
  shelf,          \* the data sets there are
  disk,           \* chunk files and digests written
  job,            \* the running compress
  ignoreCL,       \* buffers on the host, or on the device
  rejectsEmpty,   \* the device's driver refuses a write of no bytes
  load,           \* the loads
  tree,           \* tree_size and levels: the data set they belong to
  mem             \* this[label], or its device buffer

vars == <<shelf, disk, job, ignoreCL, rejectsEmpty, load, tree, mem>>

Loads == 1 .. MaxLoads

\* The summaries of the data sets: their chunks in the order of the labels
LabelSeq == CHOOSE s \in [1 .. Cardinality(Labels) -> Labels] : \A l \in Labels : \E i \in DOMAIN s : s[i] = l
Summary(data) ==
  LET upTo[i \in 0 .. Cardinality(Labels)] ==
        IF i = 0 THEN <<>>
        ELSE LET l == LabelSeq[i]
                 parts == deflateMT(data[l])
             IN  upTo[i - 1] \o [k \in 1 .. Len(parts) |-> [label |-> l, dense |-> parts[k]]]
  IN  upTo[Cardinality(Labels)]
Files == [d \in DOMAIN Data |-> Summary(Data[d])]
NumFiles(d) == Len(Files[d])

ASSUME LabelsAreFinite == IsFiniteSet(Labels) /\ Labels # {}
ASSUME DataSetsAreArrays ==
  \A d \in UNION Shelves : /\ d # None /\ d \in DOMAIN Data
                           /\ \A b \in Labels : IsArray(Data[d][b])
ASSUME WorkersAreNumbered ==
  IsFiniteSet(Workers) /\ Workers # {} /\ Workers = 1 .. Cardinality(Workers)

-----------------------------------------------------------------------------
(* compress, in the mode 'sparseMT'.                                       *)

NoJob == [data |-> None]
NoLoad == [state |-> "none"]

\* Every chunk is handed to writeFile at once.  The tool has run before the page
\* is opened; a run that failed, with cont(err), is not repeated
Compress(d) ==
  /\ job = NoJob
  /\ \A l \in Loads : load[l] = NoLoad
  /\ d \notin disk.digests
  /\ job' = [data |-> d, pending |-> 1 .. NumFiles(d), done |-> 0, failed |-> FALSE]
  /\ UNCHANGED <<shelf, disk, ignoreCL, rejectsEmpty, load, tree, mem>>

\* Mutant: a failed write counts as one that is done
Count_Failures(err, done) == IF err THEN done + 1 ELSE done + 1

\* done after a callback: the first error sets it to -1, successes count up
Count(err, done) ==
  IF err THEN -1 ELSE done + 1

\* The callback of one writeFile
WriteEnds(i, err) ==
  /\ job # NoJob /\ i \in job.pending
  /\ disk' = IF err THEN disk ELSE [disk EXCEPT !.files = @ \cup {<<job.data, i>>}]
  /\ job' = [job EXCEPT !.pending = @ \ {i}, !.done = Count(err, @), !.failed = @ \/ err]
  /\ UNCHANGED <<shelf, ignoreCL, rejectsEmpty, load, tree, mem>>

\* cont() of the last callback: the digest is written, and may fail as well
WriteDigest(err) ==
  /\ job # NoJob /\ job.done = NumFiles(job.data)
  /\ disk' = IF err THEN disk ELSE [disk EXCEPT !.digests = @ \cup {job.data}]
  /\ job' = NoJob
  /\ UNCHANGED <<shelf, ignoreCL, rejectsEmpty, load, tree, mem>>

-----------------------------------------------------------------------------
(* Loading.  A worker is off, holds the number of the file it fetches, or  *)
(* is stuck: it got no answer or its answer raised an exception.           *)

Off == 0
Stuck == -1

\* loadDataFlatMt or loadDataFlat of the page: the digest is requested
StartLoad(l, d, kind) ==
  /\ load[l] = NoLoad
  /\ l <= Cardinality(shelf)          \* bound: a load per data set there is
  /\ \A k \in Loads : k < l => load[k] # NoLoad
  /\ d \in disk.digests
  /\ load' = [load EXCEPT ![l] = [state |-> "digest", data |-> d, kind |-> kind]]
  /\ UNCHANGED <<shelf, disk, job, ignoreCL, rejectsEmpty, tree, mem>>

\* loadWithAjax calls back with null, loadScript returns: nobody is told
DigestLost(l) ==
  /\ load[l].state = "digest"
  /\ load' = [load EXCEPT ![l] = [state |-> "lost"]]
  /\ UNCHANGED <<shelf, disk, job, ignoreCL, rejectsEmpty, tree, mem>>

\* History: other loads that are under way see their memory touched
Touched(l, f) ==
  [k \in Loads |-> IF k # l /\ f[k].state = "chunks" THEN [f[k] EXCEPT !.mixed = TRUE]
                   ELSE f[k]]

\* allocArray for every label, or _gen_allocateClBuffers
Fresh(d) == [b \in Labels |-> [i \in DOMAIN Data[d][b] |-> IF ignoreCL THEN 0 ELSE Garbage]]

\* The first min(maxNumWorkers, |q|) workers get a file each
Launched(d) ==
  LET n == Min({Cardinality(Workers), NumFiles(d)})
  IN  [w \in Workers |-> IF w <= n THEN w ELSE Off]

\* inflateMt: sizes, fresh memory and workers; the queue is next .. NumFiles
DigestArrivesMt(l) ==
  LET d == load[l].data IN
  /\ load[l].state = "digest" /\ load[l].kind = "mt"
  /\ tree' = d
  /\ mem' = Fresh(d)
  /\ load' = [Touched(l, load) EXCEPT ![l] =
                [state |-> "chunks", data |-> d, ready |-> 0, applied |-> {},
                 next |-> Min({Cardinality(Workers), NumFiles(d)}) + 1,
                 worker |-> Launched(d),
                 mixed |-> \E k \in Loads \ {l} : load[k].state = "chunks"]]
  /\ UNCHANGED <<shelf, disk, job, ignoreCL, rejectsEmpty>>

\* loadDataFlat: everything from one file, then _gen_transferTree
DigestArrivesFlat(l) ==
  LET d == load[l].data IN
  /\ load[l].state = "digest" /\ load[l].kind = "flat"
  /\ IF ignoreCL           \* throws
     THEN load' = [load EXCEPT ![l] = [state |-> "lost"]] /\ UNCHANGED <<tree, mem>>
     ELSE /\ tree' = d
          /\ mem' = [b \in Labels |-> inflate(deflate(Data[d][b]), Len0(Data[d][b]))]
          /\ load' = [Touched(l, load) EXCEPT ![l] =
                       [state |-> "done", data |-> d, applied |-> 1 .. NumFiles(d), mixed |-> FALSE]]
  /\ UNCHANGED <<shelf, disk, job, ignoreCL, rejectsEmpty>>

\* The chunk of file i as the worker posts it
Message(d, i) ==
  LET f == Files[d][i]
  IN  [label |-> f.label, start |-> Start(f.dense), end |-> End(f.dense), dense |-> f.dense]

\* dense.set or enqueueWriteBuffer throws: past the end of the buffer there is
\* now, or nothing to write on a device that refuses that
Rejected(m) ==
  \/ m.end > Len0(mem[m.label])
  \/ ~ignoreCL /\ rejectsEmpty /\ m.start = m.end

Written(m) ==
  LET part == inflateChunk(m.dense, m.start, m.end)
  IN  [mem EXCEPT ![m.label] = [i \in DOMAIN @ |-> IF i \in DOMAIN part THEN part[i] ELSE @[i]]]

\* Mutants: a worker does not go on after its message; the callback runs when the
\* queue is empty; the queue is shifted when it is empty
NextFile_Stops(l) == Off
Complete_QueueEmpty(l, ready) == load[l].next > NumFiles(load[l].data)
After_Beyond(l) == load[l].next + 1

\* The file a worker gets from q.shift(), or none
NextFile(l) == IF load[l].next <= NumFiles(load[l].data) THEN load[l].next ELSE Off
After(l) == IF load[l].next <= NumFiles(load[l].data) THEN load[l].next + 1 ELSE load[l].next
Complete(l, ready) == ready = NumFiles(load[l].data)

\* A worker's message: the chunk is written, counted, and the worker goes on;
\* the last one runs loadDataFlatFinish and the callback
ChunkArrives(l, w) ==
  /\ load[l].state = "chunks" /\ load[l].worker[w] > Off
  /\ LET i == load[l].worker[w]
         m == Message(load[l].data, i)
         ready == load[l].ready + 1
     IN  /\ ~Rejected(m)
         /\ mem' = Written(m)
         /\ load' = [Touched(l, load) EXCEPT ![l] =
                       [load[l] EXCEPT
                          !.state = IF Complete(l, ready) THEN "done" ELSE "chunks",
                          !.ready = ready,
                          !.applied = load[l].applied \cup {i},
                          !.worker = [load[l].worker EXCEPT ![w] = NextFile(l)],
                          !.next = After(l)]]
  /\ UNCHANGED <<shelf, disk, job, ignoreCL, rejectsEmpty, tree>>

\* The write throws inside onmessage
ChunkRejected(l, w) ==
  /\ load[l].state = "chunks" /\ load[l].worker[w] > Off
  /\ Rejected(Message(load[l].data, load[l].worker[w]))
  /\ load' = [load EXCEPT ![l].worker[w] = Stuck]
  /\ UNCHANGED <<shelf, disk, job, ignoreCL, rejectsEmpty, tree, mem>>

\* No answer from the network, or an answer that cannot be parsed: its error
\* message has no nfo, and reading nfo.bufferLabel throws
ChunkLost(l, w) ==
  /\ load[l].state = "chunks" /\ load[l].worker[w] > Off
  /\ load' = [load EXCEPT ![l].worker[w] = Stuck]
  /\ UNCHANGED <<shelf, disk, job, ignoreCL, rejectsEmpty, tree, mem>>

Init ==
  /\ shelf \in Shelves
  /\ disk = [files |-> {}, digests |-> {}]
  /\ job = NoJob
  /\ ignoreCL \in BOOLEAN
  /\ rejectsEmpty \in BOOLEAN /\ (ignoreCL => ~rejectsEmpty)
  /\ load = [l \in Loads |-> NoLoad]
  /\ tree = None
  /\ mem = [b \in Labels |-> <<>>]

Answer(l) ==
  \/ DigestLost(l) \/ DigestArrivesMt(l) \/ DigestArrivesFlat(l)
  \/ \E w \in Workers : ChunkLost(l, w) \/ ChunkRejected(l, w) \/ ChunkArrives(l, w)

Next ==
  \/ \E d \in shelf : Compress(d)
  \/ \E i \in (IF job = NoJob THEN {} ELSE job.pending), err \in BOOLEAN : WriteEnds(i, err)
  \/ \E err \in BOOLEAN : WriteDigest(err)
  \/ \E l \in Loads :
       \/ \E d \in shelf, kind \in {"mt", "flat"} : StartLoad(l, d, kind)
       \/ Answer(l)

\* As long as a load has requests outstanding, one of them is answered or fails
Fairness == \A l \in Loads : WF_vars(Answer(l))

Spec == Init /\ [][Next]_vars /\ Fairness

-----------------------------------------------------------------------------
(* Properties.                                                             *)

\* Type invariant: memory has the shape of the tree it belongs to, and a load
\* that is under way has a queue and workers of its own data set
TypeOK ==
  /\ shelf \in Shelves /\ ignoreCL \in BOOLEAN /\ rejectsEmpty \in BOOLEAN
  /\ tree \in shelf \cup {None}
  /\ disk.digests \subseteq shelf
  /\ \A l \in Loads : load[l].state \in {"none", "digest", "lost", "chunks", "done"}
  /\ \A l \in Loads : load[l].state = "chunks" =>
       /\ load[l].next \in 1 .. NumFiles(load[l].data) + 1
       /\ load[l].worker \in [Workers -> Stuck .. NumFiles(load[l].data)]
  /\ tree # None => \A b \in Labels : DOMAIN mem[b] = DOMAIN Data[tree][b]

\* A digest on the disk names only files that are there: whichever writes fail
\* and in whatever order their callbacks come, the error is never counted away
\* (done and outgoing in compress)
DigestIsComplete ==
  \A d \in disk.digests : \A i \in 1 .. NumFiles(d) : <<d, i>> \in disk.files

\* Cell i of label b is what the data set holds; a device buffer may keep
\* garbage where the data set has a zero
Holds(m, d, b, i) ==
  m[b][i] = Data[d][b][i] \/ (~ignoreCL /\ m[b][i] = Garbage /\ Data[d][b][i] = 0)

\* When the callback of a load runs, and no other load wrote in between, memory
\* holds the data set: the blocks left out, the splits within a block, chunks
\* without values and the order of the workers' messages make no difference
\* (deflate, deflateMT, inflateChunk, inflateMt)
LoadIsFaithful ==
  [][\A l \in Loads :
       load[l].state # "done" /\ load'[l].state = "done" /\ ~load'[l].mixed =>
         LET d == load[l].data IN
         /\ tree' = d
         /\ \A b \in Labels : /\ DOMAIN mem'[b] = DOMAIN Data[d][b]
                             /\ \A i \in DOMAIN mem'[b] : Holds(mem', d, b, i)]_vars

Under(l) == load[l].state = "chunks"
Busy(l) == {w \in Workers : Under(l) /\ load[l].worker[w] > Off}
StuckWorkers(l) == {w \in Workers : Under(l) /\ load[l].worker[w] = Stuck}

\* Every file of the summary is queued, with one worker, applied, or lost with a
\* worker that is stuck, never in two of these places; the callback has run only
\* if all were applied (q, ready and worker.onmessage in inflateMt)
FilesAreAccountedFor ==
  \A l \in Loads :
    /\ Under(l) =>
         /\ \A v, w \in Busy(l) : v # w => load[l].worker[v] # load[l].worker[w]
         /\ \A w \in Busy(l) : load[l].worker[w] \notin load[l].applied
         /\ load[l].ready = Cardinality(load[l].applied)
         /\ load[l].next - 1 = load[l].ready + Cardinality(Busy(l)) + Cardinality(StuckWorkers(l))
    /\ load[l].state = "done" => load[l].applied = 1 .. NumFiles(load[l].data)

\* A load that began to fetch chunks comes to its callback, or a worker was lost
\* and the others have emptied the queue as far as there are any left: one bad
\* file does not keep the rest of the tree from being loaded
LoadSettles ==
  \A l \in Loads :
    Under(l) ~>
      \/ load[l].state = "done"
      \/ /\ Busy(l) = {} /\ StuckWorkers(l) # {}
         /\ load[l].next > NumFiles(load[l].data) \/ \A w \in Workers : load[l].worker[w] = Stuck

=============================================================================
