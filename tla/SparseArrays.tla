---------------------------- MODULE SparseArrays ----------------------------
(***************************************************************************)
(* The sparse format of the flattened buffers: deflate, deflateMT and      *)
(* inflateChunk of CLRunner.js, as functions of the array.                 *)
(*                                                                         *)
(* An array is a function on 0 .. len - 1.  A dense part is the sequence of *)
(* its blocks in the order of their indices, in which JavaScript lists the *)
(* integer keys of res.dense and chunk.dense.                              *)
(***************************************************************************)
EXTENDS Integers, Sequences, FiniteSetsExt

CONSTANTS MinBlockSize,      \* shortest run of zeros that is left out
          MinFileSize        \* values per chunk

ASSUME SizesArePositive == MinBlockSize \in Nat \ {0} /\ MinFileSize \in Nat \ {0}

Len0(arr) == Cardinality(DOMAIN arr)
IsArray(arr) == IsFiniteSet(DOMAIN arr) /\ DOMAIN arr = 0 .. Len0(arr) - 1

\* zeroCount: how many zeros follow from i
ZeroRun(arr, i) ==
  LET others == {j \in DOMAIN arr : j >= i /\ arr[j] # 0}
  IN  (IF others = {} THEN Len0(arr) ELSE Min(others)) - i

Slice(arr, i, len) == [k \in 1 .. len |-> arr[i + k - 1]]

\* Mutant: the run of zeros swallows the value behind it
SkipZeros_OneMore(i, run) == i + run + 1

SkipZeros(i, run) == i + run

\* dense[at] = vals
Block(at, vals) == [at |-> at, vals |-> vals]

\* The dense blocks of arr; the rest are zeros
deflate(arr) ==
  LET n == Len0(arr)
      from[i \in Nat] ==
        IF i >= n THEN <<>>
        ELSE IF ZeroRun(arr, i) >= MinBlockSize
             THEN from[SkipZeros(i, ZeroRun(arr, i))]
             ELSE LET len == Min({n - i, MinBlockSize})
                  IN  <<Block(i, Slice(arr, i, len))>> \o from[i + len]
  IN  from[0]

\* One turn of deflateMT's loop, on the queue of blocks, the room used in the last
\* chunk and the chunks.  A block that fills the chunk is split; the rest of it,
\* perhaps empty, is the first item of the queue and goes to the next chunk.  (An
\* empty rest may begin where the next block does; that block takes its key.)
Split(s) ==
  IF s.q = <<>> THEN s ELSE
  LET item == s.q[1]
      size == Len(item.vals)
      cut == MinFileSize - s.counter
      put(vals) == [s.chunks EXCEPT ![Len(s.chunks)] = Append(@, Block(item.at, vals))]
  IN  IF s.counter + size < MinFileSize
      THEN [q |-> Tail(s.q), counter |-> s.counter + size, chunks |-> put(item.vals)]
      ELSE [q |-> [s.q EXCEPT ![1] = Block(item.at + cut, SubSeq(item.vals, cut + 1, size))],
            counter |-> 0,
            chunks |-> Append(put(SubSeq(item.vals, 1, cut)), <<>>)]

\* The chunk files of an array: at least one, the last one perhaps without values
deflateMT(arr) ==
  LET last == 2 * Len0(arr)       \* enough to empty the queue
      turns[k \in 0 .. last] ==
        IF k = 0 THEN [q |-> deflate(arr), counter |-> 0, chunks |-> <<<<>>>>]
        ELSE Split(turns[k - 1])
  IN  turns[last].chunks

\* The range of the array a worker covers
Start(dense) == IF dense = <<>> THEN 0 ELSE Min({dense[k].at : k \in DOMAIN dense})
End(dense) ==
  IF dense = <<>> THEN 0 ELSE Max({dense[k].at + Len(dense[k].vals) : k \in DOMAIN dense})

\* inflateChunk into a zeroed array that covers lo .. hi - 1: the last block that
\* holds a cell writes it
inflateChunk(dense, lo, hi) ==
  [i \in lo .. hi - 1 |->
     LET holders == {k \in DOMAIN dense : dense[k].at <= i /\ i < dense[k].at + Len(dense[k].vals)}
     IN  IF holders = {} THEN 0
         ELSE LET block == dense[Max(holders)] IN block.vals[i - block.at + 1]]

\* inflate: the whole array from one sparse array
inflate(dense, len) == inflateChunk(dense, 0, len)

=============================================================================
