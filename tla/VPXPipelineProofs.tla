-------------------------- MODULE VPXPipelineProofs --------------------------
(***************************************************************************)
(* The order of the decoder's pipeline, for every number of picture        *)
(* buffers, inputs in flight and stream, and whichever failures occur.     *)
(*                                                                         *)
(* None of the four invariants proved here is inductive.  They are         *)
(* consequences of one: any two messages of the Pipeline may follow each   *)
(* other (MayPrecede), and what is in the pipeline agrees with the state   *)
(* of the decoder and of the client (PipelineInv).                         *)
(***************************************************************************)
EXTENDS VPXVideoDecodeAcceleratorProofs, SequenceTheorems

-----------------------------------------------------------------------------
(***************************************************************************)
(* The inductive invariant.                                                *)
(***************************************************************************)

\* The messages of a queue.
Elems(queue) == {queue[k] : k \in 1..Len(queue)}

\* A request that has an answer, and the answer; asking for picture buffers.
Exchanges == {"Initialize", "InitializeDone", "Flush", "FlushDone",
              "Reset", "ResetDone"}
Drains == {"Flush", "FlushDone"}
Resets == {"Reset", "ResetDone"}
Askings == {"ProvidePictureBuffers", "AssignPictureBuffers"}
Carriers == {"PictureReady", "Decode"}
Messages == Message(Tasks \cup Calls \cup Errors)

\* May a be nearer to the client than b?  Frames keep their order, a picture
\* buffer is named once, there is one exchange at a time, but for a reset that
\* follows a drain, and one request for picture buffers ever, nothing crosses
\* a reset, nothing follows Destroy.
MayPrecede(a, b) ==
  /\ a.type \in Carriers /\ b.type \in Carriers => a.id < b.id
  /\ a.buf # 0 => a.buf # b.buf
  /\ a.type \in Exchanges /\ b.type \in Exchanges \cup {"IllegalState"}
       => a.type \in Drains /\ b.type \in Resets
  /\ ~(a.type \in Askings /\ b.type \in Askings)
  /\ a.type = "Reset" => b.type # "Decode"
  /\ a.type = "ResetDone" =>
       b.type \notin {"PictureReady", "EndOfBitstreamBuffer", "Decode"}
  /\ a.type # "Destroy"

Chain(queue) ==
  \A j, k \in 1..Len(queue) : j < k => MayPrecede(queue[j], queue[k])

\* The five parts of the pipeline in order, and all their messages.
Ordered(n, l, h, w, c) == Chain(n \o l \o h \o Frames(w) \o c)
Flight(n, l, h, w, c) ==
  Elems(n) \cup Elems(l) \cup Elems(h) \cup Elems(Frames(w)) \cup Elems(c)

\* No number of the future is in flight.
Numbered(M, last) == \A m \in M : m.id <= last

\* A picture buffer in use is not free, and shows the frame of its picture.
Owned(M, free, shows) ==
  \A m \in M : /\ m.buf # 0 => m.buf \notin free
               /\ m.type = "PictureReady" => shows[m.buf] = m.id

\* The client has each picture buffer once, and no other is on its way.
Apart(M, kept) ==
  \A p \in kept : /\ \A q \in kept : p.buf = q.buf => p = q
                  /\ \A m \in M : p.buf # m.buf

\* The exchanges that go on are those the client waits for, ...
Ongoing(p, t) ==
  \/ p = "connecting" /\ t \in {"Initialize", "InitializeDone"}
  \/ p \in {"draining", "aborting"} /\ t \in Drains
  \/ p \in {"aborting", "resetting"} /\ t \in Resets
  \/ p = "destroyed"

\* ... only a reset can reach a decoder that is flushing, and only if the
\* factories are aborted.
Exchanging(M) ==
  /\ \A m \in M : m.type \in Exchanges => Ongoing(phase, m.type)
  /\ state_ = "kFlushing" => \A m \in M : m.type \in Exchanges => m.type = "Reset"
  /\ ~aborted /\ (state_ = "kFlushing" \/ \E a \in M : a.type \in Drains)
       => \A m \in M : m.type # "Reset"

\* Before picture buffers are assigned none is in use; they are asked for once.
Asking(M) ==
  /\ client_ /\ output_picture_buffers_ = {}
       => held = {} /\ \A m \in M : m.buf = 0
  /\ ~pictures_requested_
       => output_picture_buffers_ = {} /\ \A m \in M : m.type \notin Askings
  /\ client_ /\ output_picture_buffers_ # {}
       => \A m \in M : m.type \notin Askings
  /\ output_picture_buffers_ \in {{}, PictureIds}

\* The life of the decoder.
Lifecycle ==
  /\ ~client_ => state_ \in {"kUninitialized", "deleted"}
  /\ state_ = "deleted" => ~client_ /\ calls = <<>> /\ phase = "destroyed"
  /\ phase # "destroyed" => ~Has(calls, "Destroy")
  /\ client_ /\ state_ = "kUninitialized" <=> Has(calls, "Initialize")
  /\ state_ = "kFlushing" =>
       /\ phase \in {"draining", "aborting", "destroyed"}
       /\ pending_output_samples_ # <<>>
  /\ ~buffering_ => buffered_picture_buffers_ = <<>>

\* A decoder that blamed its client has stopped.
Blame ==
  /\ NoProtocolError
  /\ client_ => \A k \in 1..Len(notes) : notes[k].type # "IllegalState"

InFlight == Flight(notes, loop, buffered_picture_buffers_, Waiting, calls)

PipelineInv ==
  /\ Ordered(notes, loop, buffered_picture_buffers_, Waiting, calls)
  /\ Numbered(InFlight, sent)
  /\ Owned(InFlight \cup held, available, texture)
  /\ Apart(InFlight, held)
  /\ Exchanging(InFlight)
  /\ Asking(InFlight)
  /\ Lifecycle
  /\ Blame

-----------------------------------------------------------------------------
(***************************************************************************)
(* Queues.                                                                 *)
(***************************************************************************)

\* The messages of a queue that is put together or taken apart.
LEMMA ElemsConcat ==
  ASSUME NEW S, NEW s \in Seq(S), NEW t \in Seq(S)
  PROVE  Elems(s \o t) = Elems(s) \cup Elems(t)
<1>1. /\ Len(s) \in Nat /\ Len(t) \in Nat /\ Len(s \o t) = Len(s) + Len(t)
      /\ \A k \in 1..Len(s) : (s \o t)[k] = s[k]
      /\ \A k \in 1..Len(t) : (s \o t)[Len(s) + k] = t[k]
  OBVIOUS
<1>2. ASSUME NEW m \in Elems(s \o t) PROVE m \in Elems(s) \cup Elems(t)
  <2>1. PICK k \in 1..(Len(s) + Len(t)) : m = (s \o t)[k]
    BY <1>1 DEF Elems
  <2>2. CASE k \in 1..Len(s)
    BY <1>1, <2>1, <2>2 DEF Elems
  <2>3. CASE k \notin 1..Len(s)
    <3>1. k - Len(s) \in 1..Len(t) /\ k = Len(s) + (k - Len(s))
      BY <1>1, <2>1, <2>3
    <3>2. m = t[k - Len(s)]
      BY <1>1, <2>1, <3>1
    <3>3. QED
      BY <3>1, <3>2 DEF Elems
  <2>4. QED
    BY <2>2, <2>3
<1>3. ASSUME NEW m \in Elems(s) PROVE m \in Elems(s \o t)
  BY <1>1 DEF Elems
<1>4. ASSUME NEW m \in Elems(t) PROVE m \in Elems(s \o t)
  <2>1. PICK k \in 1..Len(t) : m = t[k]
    BY DEF Elems
  <2>2. Len(s) + k \in 1..Len(s \o t) /\ m = (s \o t)[Len(s) + k]
    BY <1>1, <2>1
  <2>3. QED
    BY <2>2 DEF Elems
<1>5. QED
  BY <1>2, <1>3, <1>4

\* The queues of the pipeline, and its inputs, are put together so.
LEMMA MessageConcat ==
  \A s, t \in Seq(Messages) : Elems(s \o t) = Elems(s) \cup Elems(t)
BY ElemsConcat

LEMMA InputConcat ==
  \A s, t, u \in Seq(Inputs) : (s \o t) \o u = s \o (t \o u)
BY ConcatAssociative

\* The same for queues of no message and of one, and for their ends.
LEMMA ElemsRules ==
  ASSUME NEW S
  PROVE  /\ Elems(<<>>) = {}
         /\ \A m : Elems(<<m>>) = {m}
         /\ \A s \in Seq(S) : Elems(s) \subseteq S
         /\ \A s \in Seq(S), m \in S : Elems(Append(s, m)) = Elems(s) \cup {m}
         /\ \A s \in Seq(S) :
              s # <<>> => Elems(s) = {Head(s)} \cup Elems(Tail(s))
<1>1. Elems(<<>>) = {} /\ \A m : Elems(<<m>>) = {m}
  BY DEF Elems
<1>2. \A s \in Seq(S) : Elems(s) \subseteq S
  BY DEF Elems
<1>3. ASSUME NEW s \in Seq(S), NEW m \in S
      PROVE  Elems(Append(s, m)) = Elems(s) \cup {m}
  <2>1. Append(s, m) = s \o <<m>> /\ <<m>> \in Seq(S)
    OBVIOUS
  <2>2. Elems(s \o <<m>>) = Elems(s) \cup Elems(<<m>>)
    <3> DEFINE e == <<m>>
    <3>1. e \in Seq(S)
      BY <2>1
    <3> HIDE DEF e
    <3>2. Elems(s \o e) = Elems(s) \cup Elems(e)
      BY <3>1, ElemsConcat
    <3>3. QED
      BY <3>2 DEF e
  <2>3. QED
    BY <1>1, <2>1, <2>2
<1>4. ASSUME NEW s \in Seq(S), s # <<>>
      PROVE  Elems(s) = {Head(s)} \cup Elems(Tail(s))
  <2>1. /\ s = <<Head(s)>> \o Tail(s)
        /\ <<Head(s)>> \in Seq(S) /\ Tail(s) \in Seq(S)
    BY <1>4
  <2>2. Elems(<<Head(s)>> \o Tail(s)) = Elems(<<Head(s)>>) \cup Elems(Tail(s))
    <3> DEFINE a == <<Head(s)>>
               b == Tail(s)
    <3>1. a \in Seq(S) /\ b \in Seq(S)
      BY <2>1
    <3> HIDE DEF a, b
    <3>2. Elems(a \o b) = Elems(a) \cup Elems(b)
      BY <3>1, ElemsConcat
    <3>3. QED
      BY <3>2 DEF a, b
  <2>3. QED
    BY <1>1, <2>1, <2>2
<1>5. QED
  BY <1>1, <1>2, <1>3, <1>4

\* A concatenation is in order if its parts are, and each message of the first
\* may precede each of the second.
LEMMA ChainConcat ==
  ASSUME NEW S, NEW s \in Seq(S), NEW t \in Seq(S)
  PROVE  Chain(s \o t) <=>
           /\ Chain(s) /\ Chain(t)
           /\ \A a \in Elems(s), b \in Elems(t) : MayPrecede(a, b)
<1>1. /\ Len(s) \in Nat /\ Len(t) \in Nat /\ Len(s \o t) = Len(s) + Len(t)
      /\ \A k \in 1..Len(s) : (s \o t)[k] = s[k]
      /\ \A k \in 1..Len(t) : (s \o t)[Len(s) + k] = t[k]
  OBVIOUS
<1>2. ASSUME Chain(s \o t) PROVE Chain(s)
  BY <1>1, <1>2 DEF Chain
<1>3. ASSUME Chain(s \o t) PROVE Chain(t)
  <2>1. SUFFICES ASSUME NEW j \in 1..Len(t), NEW k \in 1..Len(t), j < k
                 PROVE  MayPrecede(t[j], t[k])
    BY DEF Chain
  <2>2. /\ Len(s) + j \in 1..Len(s \o t) /\ Len(s) + k \in 1..Len(s \o t)
        /\ Len(s) + j < Len(s) + k
    BY <1>1, <2>1
  <2>3. QED
    BY <1>1, <1>3, <2>2 DEF Chain
<1>4. ASSUME Chain(s \o t), NEW a \in Elems(s), NEW b \in Elems(t)
      PROVE  MayPrecede(a, b)
  <2>1. PICK j \in 1..Len(s), k \in 1..Len(t) : a = s[j] /\ b = t[k]
    BY DEF Elems
  <2>2. /\ j \in 1..Len(s \o t) /\ Len(s) + k \in 1..Len(s \o t)
        /\ j < Len(s) + k
    BY <1>1, <2>1
  <2>3. QED
    BY <1>1, <1>4, <2>1, <2>2 DEF Chain
<1>5. ASSUME Chain(s), Chain(t),
             \A a \in Elems(s), b \in Elems(t) : MayPrecede(a, b)
      PROVE  Chain(s \o t)
  <2>1. SUFFICES ASSUME NEW j \in 1..(Len(s) + Len(t)),
                        NEW k \in 1..(Len(s) + Len(t)), j < k
                 PROVE  MayPrecede((s \o t)[j], (s \o t)[k])
    BY <1>1 DEF Chain
  <2>2. CASE k \in 1..Len(s)
    <3>1. j \in 1..Len(s)
      BY <1>1, <2>1, <2>2
    <3>2. QED
      BY <1>1, <1>5, <2>1, <2>2, <3>1 DEF Chain
  <2>3. CASE k \notin 1..Len(s)
    <3>1. k - Len(s) \in 1..Len(t) /\ k = Len(s) + (k - Len(s))
      BY <1>1, <2>1, <2>3
    <3>2. (s \o t)[k] = t[k - Len(s)]
      BY <1>1, <3>1
    <3>3. CASE j \in 1..Len(s)
      BY <1>1, <1>5, <3>1, <3>2, <3>3 DEF Elems
    <3>4. CASE j \notin 1..Len(s)
      <4>1. j - Len(s) \in 1..Len(t) /\ j = Len(s) + (j - Len(s))
            /\ j - Len(s) < k - Len(s)
        BY <1>1, <2>1, <3>1, <3>4
      <4>2. (s \o t)[j] = t[j - Len(s)]
        BY <1>1, <4>1
      <4>3. QED
        BY <1>5, <3>1, <3>2, <4>1, <4>2 DEF Chain
    <3>5. QED
      BY <3>3, <3>4
  <2>4. QED
    BY <2>2, <2>3
<1>6. QED
  BY <1>2, <1>3, <1>4, <1>5

\* The same for queues of no message and of one, and for their ends.
LEMMA ChainRules ==
  ASSUME NEW S
  PROVE  /\ Chain(<<>>)
         /\ \A m : Chain(<<m>>)
         /\ \A s \in Seq(S), m \in S :
              Chain(Append(s, m)) <=>
                Chain(s) /\ \A a \in Elems(s) : MayPrecede(a, m)
         /\ \A s \in Seq(S) : s # <<>> =>
              (Chain(s) <=> /\ Chain(Tail(s))
                           /\ \A b \in Elems(Tail(s)) : MayPrecede(Head(s), b))
<1>1. Chain(<<>>) /\ \A m : Chain(<<m>>)
  BY DEF Chain
<1>2. ASSUME NEW s \in Seq(S), NEW m \in S
      PROVE  Chain(Append(s, m)) <=>
               Chain(s) /\ \A a \in Elems(s) : MayPrecede(a, m)
  <2>1. Append(s, m) = s \o <<m>> /\ <<m>> \in Seq(S)
    OBVIOUS
  <2>2. Elems(<<m>>) = {m}
    BY ElemsRules
  <2>3. Chain(s \o <<m>>) <=> Chain(s) /\ Chain(<<m>>)
          /\ \A a \in Elems(s), b \in Elems(<<m>>) : MayPrecede(a, b)
    BY <2>1, ChainConcat
  <2>4. QED
    BY <1>1, <2>1, <2>2, <2>3
<1>3. ASSUME NEW s \in Seq(S), s # <<>>
      PROVE  Chain(s) <=> /\ Chain(Tail(s))
                          /\ \A b \in Elems(Tail(s)) : MayPrecede(Head(s), b)
  <2>1. /\ s = <<Head(s)>> \o Tail(s)
        /\ <<Head(s)>> \in Seq(S) /\ Tail(s) \in Seq(S)
    BY <1>3
  <2>2. Elems(<<Head(s)>>) = {Head(s)}
    BY ElemsRules
  <2>3. Chain(<<Head(s)>> \o Tail(s)) <=> Chain(<<Head(s)>>) /\ Chain(Tail(s))
          /\ \A a \in Elems(<<Head(s)>>), b \in Elems(Tail(s)) : MayPrecede(a, b)
    BY <2>1, ChainConcat
  <2>4. QED
    BY <1>1, <2>1, <2>2, <2>3
<1>4. QED
  BY <1>1, <1>2, <1>3

-----------------------------------------------------------------------------
(***************************************************************************)
(* The five parts of the pipeline.                                         *)
(***************************************************************************)

\* The messages that stand for inputs which wait to be decoded.
LEMMA FrameTypes ==
  /\ \A w \in Seq(Inputs) : Frames(w) \in Seq(Messages)
  /\ Frames(<<>>) = <<>>
  /\ \A i : Frames(<<i>>) = <<[type |-> "Decode", buf |-> 0, id |-> i]>>
  /\ \A v, w \in Seq(Inputs) : Frames(v \o w) = Frames(v) \o Frames(w)
<1>1. ASSUME NEW w \in Seq(Inputs) PROVE Frames(w) \in Seq(Messages)
  <2>1. \A k \in 1..Len(w) :
          [type |-> "Decode", buf |-> 0, id |-> w[k]] \in Messages
    <3>1. \A i \in Inputs :
            [type |-> "Decode", buf |-> 0, id |-> i] \in Messages
      BY ConstantsAssumption DEF Messages, Message, Calls, OfBuffer, OfInput, Inputs
    <3>2. QED
      BY <3>1
  <2>2. QED
    BY <2>1 DEF Frames
<1>2. Frames(<<>>) = <<>>
  BY DEF Frames
<1>3. ASSUME NEW i
      PROVE  Frames(<<i>>) = <<[type |-> "Decode", buf |-> 0, id |-> i]>>
  BY DEF Frames
<1>4. ASSUME NEW v \in Seq(Inputs), NEW w \in Seq(Inputs)
      PROVE  Frames(v \o w) = Frames(v) \o Frames(w)
  BY DEF Frames
<1>5. QED
  BY <1>1, <1>2, <1>3, <1>4

\* Each part of the pipeline is in order, and so are any two of them.
PartsOrdered(n, l, h, w, c) ==
  /\ Chain(n) /\ Chain(l) /\ Chain(h) /\ Chain(Frames(w)) /\ Chain(c)
  /\ \A a \in Elems(n),
        b \in Elems(l) \cup Elems(h) \cup Elems(Frames(w)) \cup Elems(c) :
       MayPrecede(a, b)
  /\ \A a \in Elems(l), b \in Elems(h) \cup Elems(Frames(w)) \cup Elems(c) :
       MayPrecede(a, b)
  /\ \A a \in Elems(h), b \in Elems(Frames(w)) \cup Elems(c) : MayPrecede(a, b)
  /\ \A a \in Elems(Frames(w)), b \in Elems(c) : MayPrecede(a, b)

\* The pipeline is in order if each message of a part may
\* precede each of the parts behind it.
LEMMA OrderedParts ==
  ASSUME NEW n \in Seq(Messages), NEW l \in Seq(Messages),
         NEW h \in Seq(Messages), NEW w \in Seq(Inputs),
         NEW c \in Seq(Messages)
  PROVE  Ordered(n, l, h, w, c) <=> PartsOrdered(n, l, h, w, c)
<1> DEFINE f == Frames(w)
<1>1. f \in Seq(Messages)
  BY FrameTypes
<1> HIDE DEF f
<1> DEFINE nl == n \o l
           nlh == nl \o h
           nlhf == nlh \o f
<1>2. /\ nl \in Seq(Messages) /\ Elems(nl) = Elems(n) \cup Elems(l)
      /\ Chain(nl) <=> /\ Chain(n) /\ Chain(l)
                       /\ \A a \in Elems(n), b \in Elems(l) : MayPrecede(a, b)
  BY ElemsConcat, ChainConcat, SeqTypes
<1> HIDE DEF nl
<1>3. /\ nlh \in Seq(Messages) /\ Elems(nlh) = Elems(nl) \cup Elems(h)
      /\ Chain(nlh) <=> /\ Chain(nl) /\ Chain(h)
                        /\ \A a \in Elems(nl), b \in Elems(h) : MayPrecede(a, b)
  <2>1. nl \in Seq(Messages) /\ h \in Seq(Messages)
    BY <1>2
  <2>2. nl \o h \in Seq(Messages)
    BY <2>1, SeqTypes
  <2>3. Elems(nl \o h) = Elems(nl) \cup Elems(h)
    BY <2>1, ElemsConcat
  <2>4. Chain(nl \o h) <=>
          /\ Chain(nl) /\ Chain(h)
          /\ \A a \in Elems(nl), b \in Elems(h) : MayPrecede(a, b)
    BY <2>1, ChainConcat
  <2>5. QED
    BY <2>2, <2>3, <2>4
<1> HIDE DEF nlh
<1>4. /\ nlhf \in Seq(Messages) /\ Elems(nlhf) = Elems(nlh) \cup Elems(f)
      /\ Chain(nlhf) <=>
           /\ Chain(nlh) /\ Chain(f)
           /\ \A a \in Elems(nlh), b \in Elems(f) : MayPrecede(a, b)
  <2>1. nlh \in Seq(Messages) /\ f \in Seq(Messages)
    BY <1>1, <1>3
  <2>2. nlh \o f \in Seq(Messages)
    BY <2>1, SeqTypes
  <2>3. Elems(nlh \o f) = Elems(nlh) \cup Elems(f)
    BY <2>1, ElemsConcat
  <2>4. Chain(nlh \o f) <=>
          /\ Chain(nlh) /\ Chain(f)
          /\ \A a \in Elems(nlh), b \in Elems(f) : MayPrecede(a, b)
    BY <2>1, ChainConcat
  <2>5. QED
    BY <2>2, <2>3, <2>4
<1> HIDE DEF nlhf
<1>5. Chain(nlhf \o c) <=>
        /\ Chain(nlhf) /\ Chain(c)
        /\ \A a \in Elems(nlhf), b \in Elems(c) : MayPrecede(a, b)
  BY <1>4, ChainConcat
<1>6. Ordered(n, l, h, w, c) <=> Chain(nlhf \o c)
  BY DEF Ordered, nlhf, nlh, nl, f
<1>7. Elems(nlhf) = Elems(n) \cup Elems(l) \cup Elems(h) \cup Elems(f)
      /\ Elems(nlh) = Elems(n) \cup Elems(l) \cup Elems(h)
  BY <1>2, <1>3, <1>4
<1> DEFINE Parts ==
             /\ Chain(n) /\ Chain(l) /\ Chain(h) /\ Chain(f) /\ Chain(c)
             /\ \A a \in Elems(n), b \in Elems(l) \cup Elems(h)
                                       \cup Elems(f) \cup Elems(c) :
                  MayPrecede(a, b)
             /\ \A a \in Elems(l), b \in Elems(h) \cup Elems(f)
                                       \cup Elems(c) : MayPrecede(a, b)
             /\ \A a \in Elems(h), b \in Elems(f) \cup Elems(c) :
                  MayPrecede(a, b)
             /\ \A a \in Elems(f), b \in Elems(c) : MayPrecede(a, b)
<1>8. ASSUME Chain(nlhf \o c) PROVE Parts
  <2>1. Chain(nlhf) /\ Chain(nlh) /\ Chain(nl)
    BY <1>3, <1>4, <1>5, <1>8
  <2>2. QED
    BY <1>2, <1>3, <1>4, <1>5, <1>7, <1>8, <2>1
<1>9. ASSUME Parts PROVE Chain(nlhf \o c)
  <2>1. Chain(nl)
    BY <1>2, <1>9
  <2>2. Chain(nlh)
    BY <1>2, <1>3, <1>9, <2>1
  <2>3. Chain(nlhf)
    BY <1>4, <1>7, <1>9, <2>2
  <2>4. QED
    BY <1>5, <1>7, <1>9, <2>3
<1>10. QED
  <2>1. Ordered(n, l, h, w, c) <=> Parts
    <3> HIDE DEF Parts
    <3>1. QED
      BY <1>6, <1>8, <1>9
  <2>2. QED
    BY <2>1 DEF f, PartsOrdered

-----------------------------------------------------------------------------
(***************************************************************************)
(* Moves along the pipeline.                                               *)
(***************************************************************************)

\* What is taken out of the pipeline leaves the rest in order.
LEMMA Drop ==
  ASSUME NEW n \in Seq(Messages), NEW l \in Seq(Messages),
         NEW h \in Seq(Messages), NEW w \in Seq(Inputs),
         NEW c \in Seq(Messages),
         NEW l2 \in Seq(Messages), NEW h2 \in Seq(Messages),
         NEW w2 \in Seq(Inputs), NEW c2 \in Seq(Messages),
         Ordered(n, l, h, w, c),
         Chain(l2), Elems(l2) \subseteq Elems(l),
         Chain(h2), Elems(h2) \subseteq Elems(h),
         Chain(Frames(w2)), Elems(Frames(w2)) \subseteq Elems(Frames(w)),
         Chain(c2), Elems(c2) \subseteq Elems(c)
  PROVE  /\ Ordered(n, l2, h2, w2, c2)
         /\ Flight(n, l2, h2, w2, c2) \subseteq Flight(n, l, h, w, c)
<1>a. PartsOrdered(n, l, h, w, c)
  BY OrderedParts
<1>1. Ordered(n, l2, h2, w2, c2)
  <2>1. PartsOrdered(n, l2, h2, w2, c2)
    BY <1>a DEF PartsOrdered
  <2>2. QED
    BY <2>1, OrderedParts
<1>2. QED
  BY <1>1 DEF Flight

\* The next task leaves the loop.
LEMMA TakeTask ==
  ASSUME NEW n \in Seq(Messages), NEW l \in Seq(Messages),
         NEW h \in Seq(Messages), NEW w \in Seq(Inputs),
         NEW c \in Seq(Messages),
         Ordered(n, l, h, w, c), l # <<>>
  PROVE  /\ Tail(l) \in Seq(Messages)
         /\ Ordered(n, Tail(l), h, w, c)
         /\ Flight(n, l, h, w, c) = {Head(l)} \cup Flight(n, Tail(l), h, w, c)
<1>a. PartsOrdered(n, l, h, w, c)
  BY OrderedParts
<1>1. Tail(l) \in Seq(Messages)
  BY SeqTypes
<1>2. Chain(Tail(l)) /\ Elems(l) = {Head(l)} \cup Elems(Tail(l))
  <2>1. Chain(l)
    BY <1>a DEF PartsOrdered
  <2>2. QED
    BY <2>1, ChainRules, ElemsRules
<1>3. Chain(h) /\ Chain(Frames(w)) /\ Chain(c)
  BY <1>a DEF PartsOrdered
<1>4. Ordered(n, Tail(l), h, w, c)
  BY <1>1, <1>2, <1>3, Drop
<1>5. QED
  BY <1>1, <1>2, <1>4 DEF Flight

\* The next call leaves its channel.
LEMMA TakeCall ==
  ASSUME NEW n \in Seq(Messages), NEW l \in Seq(Messages),
         NEW h \in Seq(Messages), NEW w \in Seq(Inputs),
         NEW c \in Seq(Messages),
         Ordered(n, l, h, w, c), c # <<>>
  PROVE  /\ Tail(c) \in Seq(Messages)
         /\ Ordered(n, l, h, w, Tail(c))
         /\ Flight(n, l, h, w, c) = {Head(c)} \cup Flight(n, l, h, w, Tail(c))
         /\ \A a \in Flight(n, l, h, w, <<>>) : MayPrecede(a, Head(c))
         /\ \A b \in Elems(Tail(c)) : MayPrecede(Head(c), b)
<1>a. PartsOrdered(n, l, h, w, c)
  BY OrderedParts
<1>1. Tail(c) \in Seq(Messages)
  BY SeqTypes
<1>2. /\ Chain(Tail(c)) /\ Elems(c) = {Head(c)} \cup Elems(Tail(c))
      /\ \A b \in Elems(Tail(c)) : MayPrecede(Head(c), b)
  <2>1. Chain(c)
    BY <1>a DEF PartsOrdered
  <2>2. QED
    BY <2>1, ChainRules, ElemsRules
<1>3. Chain(l) /\ Chain(h) /\ Chain(Frames(w))
  BY <1>a DEF PartsOrdered
<1>4. Ordered(n, l, h, w, Tail(c))
  BY <1>1, <1>2, <1>3, Drop
<1>5. ASSUME NEW a \in Flight(n, l, h, w, <<>>) PROVE MayPrecede(a, Head(c))
  <2>1. a \in Elems(n) \cup Elems(l) \cup Elems(h) \cup Elems(Frames(w))
    BY ElemsRules DEF Flight
  <2>2. Head(c) \in Elems(c)
    BY <1>2
  <2>3. QED
    BY <2>1, <2>2, <1>a DEF PartsOrdered
<1>6. QED
  BY <1>1, <1>2, <1>4, <1>5 DEF Flight

\* A task is posted.
LEMMA PostTask ==
  ASSUME NEW n \in Seq(Messages), NEW l \in Seq(Messages),
         NEW h \in Seq(Messages), NEW w \in Seq(Inputs),
         NEW c \in Seq(Messages), NEW m \in Messages,
         Ordered(n, l, h, w, c),
         \A a \in Elems(n) \cup Elems(l) : MayPrecede(a, m),
         \A b \in Elems(h) \cup Elems(Frames(w)) \cup Elems(c) : MayPrecede(m, b)
  PROVE  /\ Append(l, m) \in Seq(Messages)
         /\ Ordered(n, Append(l, m), h, w, c)
         /\ Flight(n, Append(l, m), h, w, c) = {m} \cup Flight(n, l, h, w, c)
<1>a. PartsOrdered(n, l, h, w, c)
  BY OrderedParts
<1>1. Append(l, m) \in Seq(Messages)
  BY SeqTypes
<1>2. Elems(Append(l, m)) = Elems(l) \cup {m}
  BY ElemsRules
<1>3. Chain(Append(l, m))
  <2>1. Chain(l)
    BY <1>a DEF PartsOrdered
  <2>2. QED
    BY <2>1, ChainRules
<1>4. Ordered(n, Append(l, m), h, w, c)
  <2>1. PartsOrdered(n, Append(l, m), h, w, c)
    BY <1>a, <1>1, <1>2, <1>3 DEF PartsOrdered
  <2>2. QED
    BY <1>1, <1>2, <1>3, <2>1, OrderedParts
<1>5. QED
  BY <1>1, <1>2, <1>4 DEF Flight

\* A notification is sent.
LEMMA SendNote ==
  ASSUME NEW n \in Seq(Messages), NEW l \in Seq(Messages),
         NEW h \in Seq(Messages), NEW w \in Seq(Inputs),
         NEW c \in Seq(Messages), NEW m \in Messages,
         Ordered(n, l, h, w, c),
         \A a \in Elems(n) : MayPrecede(a, m),
         \A b \in Elems(l) \cup Elems(h) \cup Elems(Frames(w)) \cup Elems(c) :
           MayPrecede(m, b)
  PROVE  /\ Append(n, m) \in Seq(Messages)
         /\ Ordered(Append(n, m), l, h, w, c)
         /\ Flight(Append(n, m), l, h, w, c) = {m} \cup Flight(n, l, h, w, c)
<1>a. PartsOrdered(n, l, h, w, c)
  BY OrderedParts
<1>1. Append(n, m) \in Seq(Messages)
  BY SeqTypes
<1>2. Elems(Append(n, m)) = Elems(n) \cup {m}
  BY ElemsRules
<1>3. Chain(Append(n, m))
  <2>1. Chain(n)
    BY <1>a DEF PartsOrdered
  <2>2. QED
    BY <2>1, ChainRules
<1>4. Ordered(Append(n, m), l, h, w, c)
  <2>1. PartsOrdered(Append(n, m), l, h, w, c)
    BY <1>a, <1>1, <1>2, <1>3 DEF PartsOrdered
  <2>2. QED
    BY <1>1, <1>2, <1>3, <2>1, OrderedParts
<1>5. QED
  BY <1>1, <1>2, <1>4 DEF Flight

\* A picture is held back.
LEMMA HoldBack ==
  ASSUME NEW n \in Seq(Messages), NEW l \in Seq(Messages),
         NEW h \in Seq(Messages), NEW w \in Seq(Inputs),
         NEW c \in Seq(Messages), NEW m \in Messages,
         Ordered(n, l, h, w, c),
         \A a \in Elems(n) \cup Elems(l) \cup Elems(h) : MayPrecede(a, m),
         \A b \in Elems(Frames(w)) \cup Elems(c) : MayPrecede(m, b)
  PROVE  /\ Append(h, m) \in Seq(Messages)
         /\ Ordered(n, l, Append(h, m), w, c)
         /\ Flight(n, l, Append(h, m), w, c) = {m} \cup Flight(n, l, h, w, c)
<1>a. PartsOrdered(n, l, h, w, c)
  BY OrderedParts
<1>1. Append(h, m) \in Seq(Messages)
  BY SeqTypes
<1>2. Elems(Append(h, m)) = Elems(h) \cup {m}
  BY ElemsRules
<1>3. Chain(Append(h, m))
  <2>1. Chain(h)
    BY <1>a DEF PartsOrdered
  <2>2. QED
    BY <2>1, ChainRules
<1>4. Ordered(n, l, Append(h, m), w, c)
  <2>1. PartsOrdered(n, l, Append(h, m), w, c)
    BY <1>a, <1>1, <1>2, <1>3 DEF PartsOrdered
  <2>2. QED
    BY <1>1, <1>2, <1>3, <2>1, OrderedParts
<1>5. QED
  BY <1>1, <1>2, <1>4 DEF Flight

\* A message may enter the queue of notes, or the one of held pictures.
MaySend(n, l, h, w, c, m) ==
  /\ n \in Seq(Messages) /\ l \in Seq(Messages) /\ h \in Seq(Messages)
  /\ w \in Seq(Inputs) /\ c \in Seq(Messages) /\ m \in Messages
  /\ Ordered(n, l, h, w, c)
  /\ \A a \in Elems(n) : MayPrecede(a, m)
  /\ \A b \in Elems(l) \cup Elems(h) \cup Elems(Frames(w)) \cup Elems(c) :
       MayPrecede(m, b)
MayHold(n, l, h, w, c, m) ==
  /\ n \in Seq(Messages) /\ l \in Seq(Messages) /\ h \in Seq(Messages)
  /\ w \in Seq(Inputs) /\ c \in Seq(Messages) /\ m \in Messages
  /\ Ordered(n, l, h, w, c)
  /\ \A a \in Elems(n) \cup Elems(l) \cup Elems(h) : MayPrecede(a, m)
  /\ \A b \in Elems(Frames(w)) \cup Elems(c) : MayPrecede(m, b)

LEMMA Enters ==
  \A n, l, h, w, c, m :
    /\ MaySend(n, l, h, w, c, m) =>
         /\ Ordered(Append(n, m), l, h, w, c)
         /\ Flight(Append(n, m), l, h, w, c) = {m} \cup Flight(n, l, h, w, c)
    /\ MayHold(n, l, h, w, c, m) =>
         /\ Append(h, m) \in Seq(Messages)
         /\ Ordered(n, l, Append(h, m), w, c)
         /\ Flight(n, l, Append(h, m), w, c) = {m} \cup Flight(n, l, h, w, c)
<1>1. ASSUME NEW n, NEW l, NEW h, NEW w, NEW c, NEW m, MaySend(n, l, h, w, c, m)
      PROVE  /\ Ordered(Append(n, m), l, h, w, c)
             /\ Flight(Append(n, m), l, h, w, c) = {m} \cup Flight(n, l, h, w, c)
  <2>1. /\ n \in Seq(Messages) /\ l \in Seq(Messages) /\ h \in Seq(Messages)
        /\ w \in Seq(Inputs) /\ c \in Seq(Messages) /\ m \in Messages
        /\ Ordered(n, l, h, w, c)
        /\ \A a \in Elems(n) : MayPrecede(a, m)
        /\ \A b \in Elems(l) \cup Elems(h) \cup Elems(Frames(w)) \cup Elems(c) :
             MayPrecede(m, b)
    BY <1>1 DEF MaySend
  <2>2. QED
    BY <2>1, SendNote
<1>2. ASSUME NEW n, NEW l, NEW h, NEW w, NEW c, NEW m, MayHold(n, l, h, w, c, m)
      PROVE  /\ Append(h, m) \in Seq(Messages)
             /\ Ordered(n, l, Append(h, m), w, c)
             /\ Flight(n, l, Append(h, m), w, c) = {m} \cup Flight(n, l, h, w, c)
  <2>1. /\ n \in Seq(Messages) /\ l \in Seq(Messages) /\ h \in Seq(Messages)
        /\ w \in Seq(Inputs) /\ c \in Seq(Messages) /\ m \in Messages
        /\ Ordered(n, l, h, w, c)
        /\ \A a \in Elems(n) \cup Elems(l) \cup Elems(h) : MayPrecede(a, m)
        /\ \A b \in Elems(Frames(w)) \cup Elems(c) : MayPrecede(m, b)
    BY <1>2 DEF MayHold
  <2>2. QED
    BY <2>1, HoldBack
<1>3. QED
  BY <1>1, <1>2

\* The client calls.
LEMMA SendCall ==
  ASSUME NEW n \in Seq(Messages), NEW l \in Seq(Messages),
         NEW h \in Seq(Messages), NEW w \in Seq(Inputs),
         NEW c \in Seq(Messages), NEW m \in Messages,
         Ordered(n, l, h, w, c),
         \A a \in Flight(n, l, h, w, c) : MayPrecede(a, m)
  PROVE  /\ Append(c, m) \in Seq(Messages)
         /\ Ordered(n, l, h, w, Append(c, m))
         /\ Flight(n, l, h, w, Append(c, m)) = {m} \cup Flight(n, l, h, w, c)
<1>a. PartsOrdered(n, l, h, w, c)
  BY OrderedParts
<1>1. Append(c, m) \in Seq(Messages)
  BY SeqTypes
<1>2. Elems(Append(c, m)) = Elems(c) \cup {m}
  BY ElemsRules
<1>0. \A a \in Elems(n) \cup Elems(l) \cup Elems(h) \cup Elems(Frames(w))
               \cup Elems(c) : MayPrecede(a, m)
  BY DEF Flight
<1>3. Chain(Append(c, m))
  <2>1. Chain(c)
    BY <1>a DEF PartsOrdered
  <2>2. QED
    BY <1>0, <2>1, ChainRules
<1>4. Ordered(n, l, h, w, Append(c, m))
  <2>1. PartsOrdered(n, l, h, w, Append(c, m))
    BY <1>a, <1>0, <1>1, <1>2, <1>3 DEF PartsOrdered
  <2>2. QED
    BY <1>0, <1>1, <1>2, <1>3, <2>1, OrderedParts
<1>5. QED
  BY <1>1, <1>2, <1>4 DEF Flight

\* The pictures held back are released to the loop.
LEMMA Release ==
  ASSUME NEW n \in Seq(Messages), NEW l \in Seq(Messages),
         NEW h \in Seq(Messages), NEW w \in Seq(Inputs),
         NEW c \in Seq(Messages),
         Ordered(n, l, h, w, c)
  PROVE  /\ l \o h \in Seq(Messages)
         /\ Ordered(n, l \o h, <<>>, w, c)
         /\ Flight(n, l \o h, <<>>, w, c) = Flight(n, l, h, w, c)
<1>a. PartsOrdered(n, l, h, w, c)
  BY OrderedParts
<1>1. l \o h \in Seq(Messages) /\ <<>> \in Seq(Messages)
  BY SeqTypes
<1>2. Elems(l \o h) = Elems(l) \cup Elems(h) /\ Elems(<<>>) = {}
  BY ElemsConcat, ElemsRules
<1>3. Chain(l \o h) /\ Chain(<<>>)
  <2>1. /\ Chain(l) /\ Chain(h)
        /\ \A a \in Elems(l), b \in Elems(h) : MayPrecede(a, b)
    BY <1>a DEF PartsOrdered
  <2>2. QED
    BY <2>1, ChainConcat, ChainRules
<1>4. Ordered(n, l \o h, <<>>, w, c)
  <2>1. PartsOrdered(n, l \o h, <<>>, w, c)
    BY <1>a, <1>1, <1>2, <1>3 DEF PartsOrdered
  <2>2. QED
    BY <1>1, <1>2, <1>3, <2>1, OrderedParts
<1>5. QED
  BY <1>1, <1>2, <1>4 DEF Flight

\* A task that is a notification is sent.
LEMMA Notify ==
  ASSUME NEW n \in Seq(Messages), NEW l \in Seq(Messages),
         NEW h \in Seq(Messages), NEW w \in Seq(Inputs),
         NEW c \in Seq(Messages),
         Ordered(n, l, h, w, c), l # <<>>
  PROVE  /\ Ordered(Append(n, Head(l)), Tail(l), h, w, c)
         /\ Flight(Append(n, Head(l)), Tail(l), h, w, c) = Flight(n, l, h, w, c)
<1>a. PartsOrdered(n, l, h, w, c)
  BY OrderedParts
<1>1. /\ Tail(l) \in Seq(Messages) /\ Head(l) \in Messages
      /\ Ordered(n, Tail(l), h, w, c)
      /\ Flight(n, l, h, w, c) = {Head(l)} \cup Flight(n, Tail(l), h, w, c)
  BY TakeTask, SeqTypes
<1>2. /\ Elems(l) = {Head(l)} \cup Elems(Tail(l))
      /\ \A b \in Elems(Tail(l)) : MayPrecede(Head(l), b)
  <2>1. Chain(l)
    BY <1>a DEF PartsOrdered
  <2>2. QED
    BY <2>1, ElemsRules, ChainRules
<1>3. /\ \A a \in Elems(n) : MayPrecede(a, Head(l))
      /\ \A b \in Elems(Tail(l)) \cup Elems(h) \cup Elems(Frames(w)) \cup Elems(c) :
           MayPrecede(Head(l), b)
  BY <1>2, <1>a DEF PartsOrdered
<1>4. /\ Ordered(Append(n, Head(l)), Tail(l), h, w, c)
      /\ Flight(Append(n, Head(l)), Tail(l), h, w, c)
           = {Head(l)} \cup Flight(n, Tail(l), h, w, c)
  <2> DEFINE rest == Tail(l)
             m == Head(l)
  <2>1. /\ rest \in Seq(Messages) /\ m \in Messages /\ Ordered(n, rest, h, w, c)
        /\ \A a \in Elems(n) : MayPrecede(a, m)
        /\ \A b \in Elems(rest) \cup Elems(h) \cup Elems(Frames(w))
                   \cup Elems(c) : MayPrecede(m, b)
    BY <1>1, <1>3
  <2> HIDE DEF rest, m
  <2>2. MaySend(n, rest, h, w, c, m)
    BY <2>1 DEF MaySend
  <2>3. /\ Ordered(Append(n, m), rest, h, w, c)
        /\ Flight(Append(n, m), rest, h, w, c) = {m} \cup Flight(n, rest, h, w, c)
    BY <2>2, Enters
  <2>4. QED
    BY <2>3 DEF rest, m
<1>5. QED
  BY <1>1, <1>4

\* A Decode call becomes an input that waits.
LEMMA QueueInput ==
  ASSUME NEW n \in Seq(Messages), NEW l \in Seq(Messages),
         NEW h \in Seq(Messages), NEW w \in Seq(Inputs),
         NEW c \in Seq(Messages), NEW i \in Inputs,
         Ordered(n, l, h, w, c), c # <<>>,
         Head(c) = [type |-> "Decode", buf |-> 0, id |-> i]
  PROVE  /\ Ordered(n, l, h, w \o <<i>>, Tail(c))
         /\ Flight(n, l, h, w \o <<i>>, Tail(c)) = Flight(n, l, h, w, c)
<1>a. PartsOrdered(n, l, h, w, c)
  BY OrderedParts
<1>0. <<i>> \in Seq(Inputs) /\ w \o <<i>> \in Seq(Inputs)
  BY SeqTypes
<1>1. Frames(w \o <<i>>) = Frames(w) \o <<Head(c)>>
  BY <1>0, FrameTypes
<1>2. <<Head(c)>> \in Seq(Messages) /\ Tail(c) \in Seq(Messages)
  BY SeqTypes
<1>3. /\ Elems(Frames(w \o <<i>>)) = Elems(Frames(w)) \cup {Head(c)}
      /\ Elems(c) = {Head(c)} \cup Elems(Tail(c))
  <2>1. Frames(w) \in Seq(Messages)
    BY FrameTypes
  <2>2. Elems(Frames(w) \o <<Head(c)>>) = Elems(Frames(w)) \cup Elems(<<Head(c)>>)
    BY <1>2, <2>1, MessageConcat
  <2>3. QED
    BY <1>1, <2>2, ElemsRules
<1>4. /\ Chain(Frames(w)) /\ Chain(c)
      /\ \A a \in Elems(Frames(w)), b \in Elems(c) : MayPrecede(a, b)
  BY <1>a DEF PartsOrdered
<1>5. Chain(Tail(c)) /\ \A b \in Elems(Tail(c)) : MayPrecede(Head(c), b)
  BY <1>4, ChainRules
<1>6. Chain(Frames(w \o <<i>>))
  <2>1. Chain(Frames(w) \o <<Head(c)>>) <=>
          /\ Chain(Frames(w)) /\ Chain(<<Head(c)>>)
          /\ \A a \in Elems(Frames(w)), b \in Elems(<<Head(c)>>) : MayPrecede(a, b)
    BY <1>2, FrameTypes, ChainConcat
  <2>2. Elems(<<Head(c)>>) = {Head(c)} /\ Chain(<<Head(c)>>)
    BY ElemsRules, ChainRules
  <2>3. QED
    BY <1>1, <1>3, <1>4, <2>1, <2>2
<1>7. Ordered(n, l, h, w \o <<i>>, Tail(c))
  <2>1. PartsOrdered(n, l, h, w \o <<i>>, Tail(c))
    BY <1>a, <1>0, <1>2, <1>3, <1>4, <1>5, <1>6 DEF PartsOrdered
  <2>2. QED
    BY <1>0, <1>2, <1>3, <1>4, <1>5, <1>6, <2>1, OrderedParts
<1>8. QED
  BY <1>3, <1>7 DEF Flight

-----------------------------------------------------------------------------
(***************************************************************************)
(* Messages that may be added.                                             *)
(***************************************************************************)

\* What the parts of a message can be.
LEMMA MessageParts ==
  ASSUME NEW m \in Messages
  PROVE  /\ m.type \in Tasks \cup Calls \cup Errors
         /\ m.buf \in 0..kNumPictureBuffers /\ m.id \in 0..MaxInputs
         /\ m.buf \in Nat /\ m.id \in Nat
         /\ m.buf # 0 <=> m.type \in OfBuffer
         /\ m.id # 0 <=> m.type \in OfInput
BY ConstantsAssumption DEF Messages, Message

\* The parts of the pipeline hold messages of their kind.
LEMMA PartTypes ==
  /\ \A q \in Seq(Message(Tasks)) :
       q \in Seq(Messages) /\ \A m \in Elems(q) : m.type \in Tasks
  /\ \A q \in Seq(Message(Notes \cup Errors)) :
       q \in Seq(Messages) /\ \A m \in Elems(q) : m.type \in Notes \cup Errors
  /\ \A q \in Seq(Message({"PictureReady"})) :
       q \in Seq(Messages) /\ \A m \in Elems(q) : m.type = "PictureReady"
  /\ \A q \in Seq(Message(Calls)) :
       q \in Seq(Messages) /\ \A m \in Elems(q) : m.type \in Calls
<1>1. ASSUME NEW T, T \subseteq Tasks \cup Calls \cup Errors,
             NEW q \in Seq(Message(T))
      PROVE  q \in Seq(Messages) /\ \A m \in Elems(q) : m.type \in T
  <2>1. Message(T) \subseteq Messages
    BY <1>1, MessageTypes DEF Messages
  <2>2. q \in Seq(Messages)
    BY <2>1, SeqLarger
  <2>3. Elems(q) \subseteq Message(T)
    BY ElemsRules
  <2>4. QED
    BY <2>2, <2>3 DEF Message
<1>2. /\ Tasks \subseteq Tasks \cup Calls \cup Errors
      /\ Notes \cup Errors \subseteq Tasks \cup Calls \cup Errors
      /\ {"PictureReady"} \subseteq Tasks \cup Calls \cup Errors
      /\ Calls \subseteq Tasks \cup Calls \cup Errors
  BY DEF Tasks, Notes
<1>3. ASSUME NEW q \in Seq(Message({"PictureReady"})), NEW m \in Elems(q)
      PROVE  q \in Seq(Messages) /\ m.type = "PictureReady"
  <2>1. q \in Seq(Messages) /\ m.type \in {"PictureReady"}
    BY <1>1, <1>2
  <2>2. QED
    BY <2>1
<1>4. \A q \in Seq(Message({"PictureReady"})) : q \in Seq(Messages)
  BY <1>1, <1>2
<1>5. QED
  BY <1>1, <1>2, <1>3, <1>4

\* A message that carries nothing may be added anywhere before Destroy, if it
\* goes on with no second exchange, but for a Reset behind the end of a drain,
\* and does not cross a reset.
Harmless(m, M) ==
  /\ m.buf = 0
  /\ m.type \notin Carriers \cup {"Reset", "ResetDone", "Destroy"}
  /\ m.type \in Exchanges \cup {"IllegalState"} =>
       \A x \in M : x.type \in Exchanges =>
         x.type = "Reset" /\ m.type \in Drains \cup {"IllegalState"}
  /\ m.type \in Exchanges => \A x \in M : x.type # "IllegalState"
  /\ m.type \in Askings => \A x \in M : x.type \notin Askings
  /\ m.type = "EndOfBitstreamBuffer" => \A x \in M : x.type # "ResetDone"

\* Such a message and any other of the pipeline may follow each other, unless
\* the other is Destroy, or a Reset that would come first.
LEMMA HarmlessPrecedes ==
  ASSUME NEW M \in SUBSET Messages, NEW m \in Messages, Harmless(m, M)
  PROVE  \A x \in M : /\ MayPrecede(m, x)
                      /\ x.type \notin {"Destroy", "Reset"} => MayPrecede(x, m)
<1> SUFFICES ASSUME NEW x \in M
             PROVE  MayPrecede(m, x) /\ (x.type \notin {"Destroy", "Reset"} => MayPrecede(x, m))
  OBVIOUS
<1>1. m.type \notin {"PictureReady", "Decode", "Reset", "ResetDone", "Destroy"}
  BY DEF Harmless, Carriers
<1>2. MayPrecede(m, x)
  BY <1>1 DEF Harmless, MayPrecede, Carriers, Resets, Exchanges
<1>3. ASSUME x.type \notin {"Destroy", "Reset"} PROVE MayPrecede(x, m)
  BY <1>1, <1>3 DEF Harmless, MayPrecede, Carriers
<1>4. QED
  BY <1>2, <1>3

\* The tasks t are such a message, or none.
Posts(t, m, M) == t = <<>> \/ (t = <<m>> /\ Harmless(m, M))

\* Such messages are posted, or none.
LEMMA PostHarmless ==
  ASSUME NEW n \in Seq(Message(Notes \cup Errors)),
         NEW l \in Seq(Message(Tasks)),
         NEW h \in Seq(Messages), NEW w \in Seq(Inputs),
         NEW c \in Seq(Messages), NEW t, NEW m \in Message(Tasks),
         Ordered(n, l, h, w, c), Posts(t, m, Flight(n, l, h, w, c))
  PROVE  /\ l \o t \in Seq(Message(Tasks))
         /\ Ordered(n, l \o t, h, w, c)
         /\ \A x : x \in Flight(n, l \o t, h, w, c)
                    <=> x \in Flight(n, l, h, w, c) \/ x \in Elems(t)
<1>1. /\ n \in Seq(Messages) /\ l \in Seq(Messages) /\ m \in Messages
      /\ \A x \in Elems(n) \cup Elems(l) : x.type \notin {"Destroy", "Reset"}
  <2>1. {"Destroy", "Reset"} \cap (Tasks \cup Notes \cup Errors) = {}
    BY DEF Tasks, Notes, Errors
  <2>2. m \in Messages
    BY MessageTypes DEF Messages
  <2>3. QED
    BY <2>1, <2>2, PartTypes
<1>a. t = <<>> \/ (t = <<m>> /\ Harmless(m, Flight(n, l, h, w, c)))
  BY DEF Posts
<1>2. l \o t \in Seq(Message(Tasks))
  BY <1>a, SeqTypes
<1>3. CASE t = <<>>
  <2>1. l \o t = l /\ Elems(t) = {}
    BY <1>3, ElemsRules
  <2>2. QED
    BY <1>2, <2>1
<1>4. CASE t = <<m>> /\ Harmless(m, Flight(n, l, h, w, c))
  <2>1. l \o t = Append(l, m) /\ Elems(t) = {m}
    BY <1>4, ElemsRules
  <2>2. Flight(n, l, h, w, c) \in SUBSET Messages
    BY <1>1, ElemsRules, FrameTypes DEF Flight
  <2>3. Harmless(m, Flight(n, l, h, w, c))
    BY <1>4
  <2>4. \A x \in Flight(n, l, h, w, c) :
          MayPrecede(m, x) /\ (x.type \notin {"Destroy", "Reset"} => MayPrecede(x, m))
    BY <1>1, <2>2, <2>3, HarmlessPrecedes
  <2>5. /\ \A a \in Elems(n) \cup Elems(l) : MayPrecede(a, m)
        /\ \A b \in Elems(h) \cup Elems(Frames(w)) \cup Elems(c) :
             MayPrecede(m, b)
    BY <1>1, <2>4 DEF Flight
  <2>6. /\ Ordered(n, Append(l, m), h, w, c)
        /\ Flight(n, Append(l, m), h, w, c) = {m} \cup Flight(n, l, h, w, c)
    BY <1>1, <2>5, PostTask, SMTT(30)
  <2>7. QED
    BY <1>2, <2>1, <2>6
<1>5. QED
  BY <1>3, <1>4, <1>a

\* A picture takes the place of the input it was decoded from.
LEMMA PicturePrecedes ==
  ASSUME NEW b \in PictureIds, NEW i \in Inputs, NEW x \in Messages, x.buf # b
  PROVE  LET f == [type |-> "Decode", buf |-> 0, id |-> i]
             picture == PictureReady(b, i)
         IN  /\ MayPrecede(x, f) => MayPrecede(x, picture)
             /\ MayPrecede(f, x) => MayPrecede(picture, x)
BY DEF MayPrecede, PictureReady, Carriers, Exchanges, Askings

-----------------------------------------------------------------------------
(***************************************************************************)
(* Presenting a sample.                                                    *)
(***************************************************************************)

\* What Owned says of one message.
LEMMA OwnedOne ==
  ASSUME NEW M, NEW free, NEW shows, Owned(M, free, shows), NEW m \in M
  PROVE  /\ m.buf # 0 => m.buf \notin free
         /\ m.type = "PictureReady" => shows[m.buf] = m.id
BY DEF Owned

\* The sample `input` is copied to the picture buffer b, and the picture is
\* announced, held back, or announced together with those held back.
Presents(b, input, announce, buffering, free) ==
  LET picture == PictureReady(b, input) IN
  /\ available' = free \ {b}
  /\ texture' = [texture EXCEPT ![b] = surface']
  /\ \/ /\ announce = <<>> /\ buffering /\ buffering_'
        /\ buffered_picture_buffers_' = Append(buffered_picture_buffers_, picture)
     \/ /\ announce = Append(buffered_picture_buffers_, picture) /\ ~buffering_'
        /\ buffered_picture_buffers_' = <<>>
     \/ /\ announce = <<picture>> /\ ~buffering /\ ~buffering_'
        /\ UNCHANGED buffered_picture_buffers_

\* The state changes when FlushDone is posted, and a flush whose FlushDone is
\* not posted goes on because its sample still waits.
EndsFlush(flushed) ==
  /\ state_' = IF flushed = <<>> THEN state_ ELSE "kNormal"
  /\ flushed # <<>> => state_ = "kFlushing"
  /\ flushed = <<>> /\ state_ = "kFlushing" => pending_output_samples_' # <<>>

\* As many samples as there are picture buffers are presented.
Presented(rest, samples, buffering, buffers, free, ack) ==
  \E n \in 0..Len(samples) : \E ids \in [1..n -> free] :
    Present(rest, samples, buffering, buffers, free, ack, n, ids)

\* A queue of at most one input is empty or is that input.
LEMMA OneSample ==
  ASSUME NEW samples \in Seq(Inputs), Len(samples) <= 1, samples # <<>>
  PROVE  /\ Len(samples) = 1
         /\ samples[1] \in Inputs /\ samples = <<samples[1]>>
<1>1. Len(samples) = 1
  <2> DEFINE k == Len(samples)
  <2>1. k \in Nat /\ k # 0 /\ k <= 1
    OBVIOUS
  <2> HIDE DEF k
  <2>2. k = 1
    BY <2>1
  <2>3. QED
    BY <2>2 DEF k
<1>2. QED
  BY <1>1

\* At most one sample waits, so Present copies that one or none.
PresentsOne(rest, samples, buffering, free, ack) ==
  \E announce \in Seq(Message({"PictureReady"})),
     wakeUp \in {<<>>, <<Msg("DecodePendingInputBuffers")>>},
     flushed \in {<<>>, <<Msg("FlushDone")>>} :
    /\ loop' = rest \o announce \o wakeUp \o ack \o flushed
    /\ EndsFlush(flushed)
    /\ \/ /\ announce = <<>>
          /\ available' = free
          /\ pending_output_samples_' = samples
          /\ UNCHANGED <<texture, buffered_picture_buffers_>>
          /\ buffering_' = buffering
       \/ /\ samples # <<>>
          /\ pending_output_samples_' = <<>>
          /\ \E b \in free :
               Presents(b, samples[1], announce, buffering, free)

\* ProcessPendingSamples does one of those things when there is at most one
\* sample, as there always is.
LEMMA PresentOne ==
  ASSUME TypeOK,
         NEW rest, NEW samples \in Seq(Inputs), Len(samples) <= 1,
         NEW buffering \in BOOLEAN, NEW buffers,
         NEW free \in SUBSET PictureIds, NEW ack,
         Presented(rest, samples, buffering, buffers, free, ack)
  PROVE  PresentsOne(rest, samples, buffering, free, ack)
<1>0. PICK n \in 0..Len(samples) : \E ids_ \in [1..n -> free] :
        Present(rest, samples, buffering, buffers, free, ack, n, ids_)
  BY DEF Presented
<1>b. PICK ids \in [1..n -> free] :
        Present(rest, samples, buffering, buffers, free, ack, n, ids)
  BY <1>0
<1> DEFINE pictures == [k \in 1..n |-> PictureReady(ids[k], samples[k])]
           drained  == n = Len(samples)
           all      == HeldBack(pictures)
           hold     == buffering /\ Len(all) < BufferingThreshold
           announce == IF hold \/ n = 0 THEN <<>>
                       ELSE IF buffering THEN all ELSE pictures
           wakeUp   == IF WakesUp(drained)
                       THEN <<Msg("DecodePendingInputBuffers")>> ELSE <<>>
           flushed  == IF FlushCompletes(drained)
                       THEN <<Msg("FlushDone")>> ELSE <<>>
<1>1. /\ available' = StillAvailable(free, {ids[k] : k \in 1..n})
      /\ texture' = [b \in PictureIds |->
                       IF \E k \in 1..n : ids[k] = b THEN surface'
                                                     ELSE texture[b]]
      /\ pending_output_samples_' = SubSeq(samples, n + 1, Len(samples))
      /\ buffered_picture_buffers_' =
           IF n = 0 THEN buffered_picture_buffers_
           ELSE IF hold THEN all
           ELSE IF buffering THEN <<>> ELSE buffered_picture_buffers_
      /\ buffering_' = (buffering /\ (n = 0 \/ hold))
      /\ loop' = rest \o announce \o wakeUp \o ack \o flushed
  BY <1>b DEF Present
<1>a. /\ wakeUp \in {<<>>, <<Msg("DecodePendingInputBuffers")>>}
      /\ flushed \in {<<>>, <<Msg("FlushDone")>>}
      /\ EndsFlush(flushed)
  <2>1. /\ state_' = IF FlushCompletes(drained) THEN "kNormal" ELSE state_
        /\ FlushCompletes(drained) <=> state_ = "kFlushing" /\ drained
    BY <1>b DEF Present, FlushCompletes
  <2>2. ~drained => pending_output_samples_' # <<>>
    <3>1. CASE samples = <<>>
      BY <1>0, <3>1
    <3>2. CASE samples # <<>>
      <4>1. Len(samples) = 1
        BY <3>2, OneSample
      <4>2. CASE n = 0
        BY <1>1, <3>2, <4>2
      <4>3. QED
        BY <4>1, <4>2
    <3>3. QED
      BY <3>1, <3>2
  <2>3. QED
    BY <2>1, <2>2 DEF EndsFlush
<1>2. CASE n = 0
  <2>1. announce = <<>> /\ announce \in Seq(Message({"PictureReady"}))
    BY <1>2
  <2>2. available' = free
    BY <1>1, <1>2 DEF StillAvailable
  <2>3. texture' = texture
    BY <1>1, <1>2 DEF TypeOK
  <2>4. pending_output_samples_' = samples
    BY <1>1, <1>2
  <2>5. UNCHANGED buffered_picture_buffers_ /\ buffering_' = buffering
    BY <1>1, <1>2
  <2>6. QED
    <3> HIDE DEF announce, wakeUp, flushed
    <3>1. QED
      BY <1>1, <1>2, <1>a, <2>1, <2>2, <2>3, <2>4, <2>5 DEF PresentsOne
<1>3. CASE n = 1
  <2> DEFINE b == ids[1]
             picture == PictureReady(b, samples[1])
  <2>1. /\ b \in free /\ b \in PictureIds /\ samples[1] \in Inputs
        /\ samples # <<>> /\ Len(samples) = 1
    BY <1>3
  <2>2. pictures = <<picture>> /\ picture \in Message({"PictureReady"})
    BY <1>3, <2>1, MessageTypes
  <2>3. all = Append(buffered_picture_buffers_, picture)
        /\ all \in Seq(Message({"PictureReady"}))
    <3> HIDE DEF pictures, picture
    <3>1. all = buffered_picture_buffers_ \o <<picture>>
      BY <2>2 DEF HeldBack
    <3>2. buffered_picture_buffers_ \in Seq(Message({"PictureReady"}))
      BY DEF TypeOK
    <3>3. QED
      <4> HIDE DEF all
      <4>1. QED
        BY <2>2, <3>1, <3>2
  <2>4. available' = free \ {b}
    BY <1>1, <1>3 DEF StillAvailable
  <2>5. texture' = [texture EXCEPT ![b] = surface']
    <3>1. \A x : (\E k \in 1..n : ids[k] = x) <=> x = b
      BY <1>3
    <3>2. texture' = [x \in PictureIds |-> IF x = b THEN surface' ELSE texture[x]]
      BY <1>1, <3>1
    <3>3. texture \in [PictureIds -> 0..MaxInputs]
      BY DEF TypeOK
    <3>4. QED
      <4> HIDE DEF b
      <4>1. QED
        BY <3>2, <3>3
  <2>6. pending_output_samples_' = <<>>
    BY <1>1, <1>3, <2>1
  <2>7. /\ announce = IF hold THEN <<>> ELSE IF buffering THEN all ELSE pictures
        /\ buffered_picture_buffers_' =
             IF hold THEN all
             ELSE IF buffering THEN <<>> ELSE buffered_picture_buffers_
        /\ buffering_' = (buffering /\ hold)
        /\ hold => buffering
    BY <1>1, <1>3
  <2>8. /\ announce \in Seq(Message({"PictureReady"}))
        /\ Presents(b, samples[1], announce, buffering, free)
    <3> HIDE DEF hold, announce, all, pictures, b
    <3>1. CASE hold
      <4>1. announce = <<>> /\ <<>> \in Seq(Message({"PictureReady"}))
        BY <2>7, <3>1
      <4>2. buffering /\ buffering_' /\ buffered_picture_buffers_' = all
        BY <2>7, <3>1
      <4>3. QED
        BY <2>3, <2>4, <2>5, <4>1, <4>2 DEF Presents
    <3>2. CASE ~hold /\ buffering
      BY <2>3, <2>4, <2>5, <2>7, <3>2 DEF Presents
    <3>3. CASE ~buffering
      <4>1. announce = <<picture>> /\ <<picture>> \in Seq(Message({"PictureReady"}))
        BY <2>2, <2>7, <3>3
      <4>2. QED
        BY <2>4, <2>5, <2>7, <3>3, <4>1 DEF Presents
    <3>4. QED
      BY <3>1, <3>2, <3>3
  <2>9. QED
    <3> HIDE DEF announce, wakeUp, flushed, b
    <3>1. QED
      BY <1>1, <1>3, <1>a, <2>1, <2>6, <2>8 DEF PresentsOne
<1>4. n = 0 \/ n = 1
  OBVIOUS
<1>5. QED
  BY <1>2, <1>3, <1>4

\* The picture of the sample at the head of the waiting inputs moves on, and
\* with it those held back: nothing overtakes anything.
LEMMA PresentsPipeline ==
  ASSUME TypeOK,
         NEW rest \in Seq(Message(Tasks)), NEW i \in Inputs,
         NEW v \in Seq(Inputs), NEW c \in Seq(Message(Calls)),
         NEW announce \in Seq(Message({"PictureReady"})),
         NEW buffering \in BOOLEAN, NEW free \in SUBSET PictureIds, NEW b \in free,
         NEW M, M = Flight(notes, rest, buffered_picture_buffers_, <<i>> \o v, c),
         Ordered(notes, rest, buffered_picture_buffers_, <<i>> \o v, c),
         Owned(M \cup held, free, texture), Apart(M, held),
         buffering \/ buffered_picture_buffers_ = <<>>,
         surface' = i,
         Presents(b, i, announce, buffering, free)
  PROVE  LET M1 == Flight(notes, rest \o announce, buffered_picture_buffers_', v, c)
         IN  /\ rest \o announce \in Seq(Message(Tasks))
             /\ buffered_picture_buffers_' \in Seq(Message({"PictureReady"}))
             /\ Ordered(notes, rest \o announce, buffered_picture_buffers_', v, c)
             /\ M1 \subseteq M \cup {PictureReady(b, i)}
             /\ Owned(M1 \cup held, available', texture')
             /\ Apart(M1, held)
             /\ buffering_' \/ buffered_picture_buffers_' = <<>>
<1> DEFINE picture == PictureReady(b, i)
           frame == [type |-> "Decode", buf |-> 0, id |-> i]
           h == buffered_picture_buffers_
<1>1. /\ notes \in Seq(Messages) /\ rest \in Seq(Messages)
      /\ h \in Seq(Messages) /\ c \in Seq(Messages)
      /\ h \in Seq(Message({"PictureReady"}))
      /\ <<i>> \in Seq(Inputs) /\ <<i>> \o v \in Seq(Inputs)
      /\ Message({"PictureReady"}) \subseteq Message(Tasks)
  <2>1. Message({"PictureReady"}) \subseteq Message(Tasks)
    BY MessageTypes DEF Tasks, Notes
  <2>2. QED
    BY <2>1, PartTypes, SeqTypes DEF TypeOK
<1>2. /\ picture \in Messages /\ picture \in Message({"PictureReady"})
      /\ b \in PictureIds /\ b # 0 /\ b \in Nat
  <2>1. picture \in Message({"PictureReady"}) /\ picture \in Message(Tasks)
    BY MessageTypes
  <2>2. Message(Tasks) \subseteq Messages
    BY MessageTypes DEF Messages
  <2>3. QED
    BY <2>1, <2>2 DEF PictureIds
<1>3. /\ Frames(<<i>> \o v) = <<frame>> \o Frames(v)
      /\ frame \in Messages /\ Frames(v) \in Seq(Messages)
      /\ Frames(<<i>> \o v) \in Seq(Messages)
  <2>1. /\ Frames(<<i>> \o v) = <<frame>> \o Frames(v)
        /\ Frames(v) \in Seq(Messages) /\ Frames(<<i>> \o v) \in Seq(Messages)
    BY <1>1, FrameTypes
  <2>2. frame \in Messages
    BY ConstantsAssumption
       DEF Messages, Message, Calls, OfBuffer, OfInput, Inputs
  <2>3. QED
    BY <2>1, <2>2
<1>4. Elems(Frames(<<i>> \o v)) = {frame} \cup Elems(Frames(v))
  <2>1. <<frame>> \in Seq(Messages)
    BY <1>3
  <2>2. Elems(<<frame>> \o Frames(v)) = Elems(<<frame>>) \cup Elems(Frames(v))
    BY <1>3, <2>1, MessageConcat
  <2>3. QED
    BY <1>3, <2>2, ElemsRules
<1>5. /\ Chain(Frames(v))
      /\ \A x \in Elems(Frames(v)) : MayPrecede(frame, x)
  <2>1. <<frame>> \in Seq(Messages)
    BY <1>3
  <2>2. Chain(<<frame>> \o Frames(v)) <=>
          /\ Chain(<<frame>>) /\ Chain(Frames(v))
          /\ \A x \in Elems(<<frame>>), y \in Elems(Frames(v)) : MayPrecede(x, y)
    BY <1>3, <2>1, ChainConcat
  <2>3. Elems(<<frame>>) = {frame}
    BY ElemsRules
  <2>4. Chain(Frames(<<i>> \o v))
    BY <1>1, OrderedParts DEF PartsOrdered
  <2>5. QED
    BY <1>3, <2>2, <2>3, <2>4
<1>6. /\ Ordered(notes, rest, h, v, c)
      /\ Flight(notes, rest, h, v, c) \subseteq M
  <2>1. Chain(rest) /\ Chain(h) /\ Chain(c)
    BY <1>1, OrderedParts DEF PartsOrdered
  <2>2. QED
    BY <1>1, <1>4, <1>5, <2>1, Drop
<1>7. /\ \A x \in Elems(notes) \cup Elems(rest) \cup Elems(h) : MayPrecede(x, frame)
      /\ \A x \in Elems(Frames(v)) \cup Elems(c) : MayPrecede(frame, x)
  <2>1. PartsOrdered(notes, rest, h, <<i>> \o v, c)
    BY <1>1, OrderedParts
  <2>2. QED
    BY <1>4, <1>5, <2>1 DEF PartsOrdered
<1>8. M \in SUBSET Messages /\ \A x \in M \cup held : x.buf # b
  <2>1. M \in SUBSET Messages
    BY <1>1, <1>3, ElemsRules DEF Flight
  <2>2. \A x \in M \cup held : x.buf # 0 => x.buf \notin free
    BY OwnedOne
  <2>3. \A x \in M \cup held : x.buf # b
    BY <1>2, <2>2
  <2>4. QED
    BY <2>1, <2>3
<1>9. /\ \A x \in Elems(notes) \cup Elems(rest) \cup Elems(h) :
           MayPrecede(x, picture)
      /\ \A x \in Elems(Frames(v)) \cup Elems(c) : MayPrecede(picture, x)
  <2>1. ASSUME NEW x \in Elems(notes) \cup Elems(rest) \cup Elems(h)
        PROVE  MayPrecede(x, picture)
    <3>1. x \in M
      BY DEF Flight
    <3>2. QED
      BY <1>2, <1>7, <1>8, <2>1, <3>1, PicturePrecedes
  <2>2. ASSUME NEW x \in Elems(Frames(v)) \cup Elems(c)
        PROVE  MayPrecede(picture, x)
    <3>1. x \in M
      BY <1>4 DEF Flight
    <3>2. QED
      BY <1>2, <1>7, <1>8, <2>2, <3>1, PicturePrecedes
  <2>3. QED
    BY <2>1, <2>2
<1> HIDE DEF picture, frame
<1>10. /\ Append(h, picture) \in Seq(Messages)
       /\ Ordered(notes, rest, Append(h, picture), v, c)
       /\ Flight(notes, rest, Append(h, picture), v, c)
            = {picture} \cup Flight(notes, rest, h, v, c)
  <2>1. MayHold(notes, rest, h, v, c, picture)
    BY <1>1, <1>2, <1>6, <1>9 DEF MayHold
  <2>2. QED
    BY <2>1, Enters
<1> DEFINE M1 == Flight(notes, rest \o announce, buffered_picture_buffers_', v, c)
<1>11. /\ Ordered(notes, rest \o announce, buffered_picture_buffers_', v, c)
       /\ M1 \subseteq M \cup {picture}
       /\ buffering_' \/ buffered_picture_buffers_' = <<>>
       /\ buffered_picture_buffers_' \in Seq(Message({"PictureReady"}))
  <2>1. CASE /\ announce = <<>> /\ buffering_'
             /\ buffered_picture_buffers_' = Append(h, picture)
    <3>1. rest \o announce = rest
      BY <1>1, <2>1
    <3>2. Append(h, picture) \in Seq(Message({"PictureReady"}))
      BY <1>1, <1>2, SeqTypes
    <3>3. QED
      BY <1>6, <1>10, <2>1, <3>1, <3>2
  <2>2. CASE /\ announce = Append(h, picture)
             /\ buffered_picture_buffers_' = <<>>
    <3>1. /\ Ordered(notes, rest \o Append(h, picture), <<>>, v, c)
          /\ Flight(notes, rest \o Append(h, picture), <<>>, v, c)
               = Flight(notes, rest, Append(h, picture), v, c)
      <4> DEFINE g == Append(h, picture)
      <4>1. /\ g \in Seq(Messages) /\ Ordered(notes, rest, g, v, c)
            /\ notes \in Seq(Messages) /\ rest \in Seq(Messages)
            /\ c \in Seq(Messages)
        BY <1>1, <1>10
      <4> HIDE DEF g, h
      <4>2. /\ Ordered(notes, rest \o g, <<>>, v, c)
            /\ Flight(notes, rest \o g, <<>>, v, c) = Flight(notes, rest, g, v, c)
        BY <4>1, Release, SMTT(30)
      <4>3. QED
        BY <4>2 DEF g
    <3>2. QED
      BY <1>6, <1>10, <2>2, <3>1, SeqTypes
  <2>3. CASE /\ announce = <<picture>> /\ ~buffering
             /\ UNCHANGED buffered_picture_buffers_
    <3>1. h = <<>> /\ Elems(h) = {}
      BY <2>3, ElemsRules
    <3>2. /\ \A x \in Elems(notes) \cup Elems(rest) : MayPrecede(x, picture)
          /\ \A x \in Elems(h) \cup Elems(Frames(v)) \cup Elems(c) :
               MayPrecede(picture, x)
      BY <1>9, <3>1
    <3>3. /\ Ordered(notes, Append(rest, picture), h, v, c)
          /\ Flight(notes, Append(rest, picture), h, v, c)
               = {picture} \cup Flight(notes, rest, h, v, c)
      <4>1. /\ notes \in Seq(Messages) /\ rest \in Seq(Messages)
            /\ h \in Seq(Messages) /\ c \in Seq(Messages)
            /\ picture \in Messages /\ Ordered(notes, rest, h, v, c)
        BY <1>1, <1>2, <1>6
      <4> HIDE DEF h
      <4>2. QED
        BY <4>1, <3>2, PostTask, SMTT(30)
    <3>4. rest \o announce = Append(rest, picture)
      BY <1>1, <1>2, <2>3
    <3>5. QED
      BY <1>1, <1>6, <2>3, <3>1, <3>3, <3>4
  <2>4. QED
    BY <2>1, <2>2, <2>3 DEF Presents, picture
<1>12. rest \o announce \in Seq(Message(Tasks))
  <2>1. announce \in Seq(Message(Tasks))
    BY <1>1, SeqLarger
  <2>2. QED
    BY <2>1, SeqTypes
<1>13. /\ available' = free \ {b}
       /\ texture'[b] = i
       /\ \A x \in PictureIds : x # b => texture'[x] = texture[x]
  <2>1. texture' = [texture EXCEPT ![b] = i] /\ available' = free \ {b}
    BY DEF Presents
  <2>2. texture \in [PictureIds -> 0..MaxInputs]
    BY DEF TypeOK
  <2>3. texture'[b] = i
    BY <1>2, <2>1, <2>2
  <2>4. ASSUME NEW x \in PictureIds, x # b PROVE texture'[x] = texture[x]
    BY <1>2, <2>1, <2>2, <2>4
  <2>5. QED
    BY <2>1, <2>3, <2>4
<1>14. \A p \in held : p.buf # b
  BY <1>8
<1>15. picture.buf = b /\ picture.id = i
  BY DEF picture, PictureReady
<1>16. Owned(M1 \cup held, available', texture')
  <2>1. ASSUME NEW x \in M1 \cup held
        PROVE  /\ x.buf # 0 => x.buf \notin available'
               /\ x.type = "PictureReady" => texture'[x.buf] = x.id
    <3>1. CASE x \in M \cup held
      <4>1. /\ x.buf # 0 => x.buf \notin free
            /\ x.type = "PictureReady" => texture[x.buf] = x.id
        BY <3>1, OwnedOne
      <4>2. x \in Messages /\ x.buf # b
        <5>1. held \subseteq Messages
          BY MessageTypes DEF TypeOK, Messages, Tasks, Notes
        <5>2. QED
          BY <1>8, <3>1, <5>1
      <4>3. x.type = "PictureReady" => x.buf \in PictureIds
        BY <4>2, MessageParts, ConstantsAssumption DEF OfBuffer, PictureIds
      <4>4. QED
        BY <1>13, <4>1, <4>2, <4>3
    <3>2. CASE x = picture
      BY <1>13, <1>15, <3>2
    <3>3. QED
      BY <1>11, <3>1, <3>2
  <2>2. QED
    BY <2>1 DEF Owned
<1>17. Apart(M1, held)
  BY <1>11, <1>14, <1>15 DEF Apart
<1>18. QED
  BY <1>11, <1>12, <1>16, <1>17 DEF picture

-----------------------------------------------------------------------------
(***************************************************************************)
(* What a step has to show.                                                *)
(***************************************************************************)

\* The messages of the pipeline are messages.
LEMMA FlightTypes ==
  ASSUME NEW n \in Seq(Messages), NEW l \in Seq(Messages),
         NEW h \in Seq(Messages), NEW w \in Seq(Inputs),
         NEW c \in Seq(Messages)
  PROVE  Flight(n, l, h, w, c) \subseteq Messages
<1>1. Elems(Frames(w)) \subseteq Messages
  BY FrameTypes, ElemsRules
<1>2. QED
  BY <1>1, ElemsRules DEF Flight

\* Inputs put together wait in the order of their parts.
LEMMA FramesParts ==
  ASSUME NEW v \in Seq(Inputs), NEW w \in Seq(Inputs)
  PROVE  /\ Elems(Frames(v \o w)) = Elems(Frames(v)) \cup Elems(Frames(w))
         /\ Chain(Frames(v \o w)) => Chain(Frames(v)) /\ Chain(Frames(w))
<1>1. /\ Frames(v \o w) = Frames(v) \o Frames(w)
      /\ Frames(v) \in Seq(Messages) /\ Frames(w) \in Seq(Messages)
  BY FrameTypes
<1>2. QED
  BY <1>1, ElemsConcat, ChainConcat

\* An input that waits stands in the pipeline as its Decode call.
LEMMA FrameElems ==
  ASSUME NEW w \in Seq(Inputs), NEW m \in Elems(Frames(w))
  PROVE  m.type = "Decode" /\ m.buf = 0
<1>1. Len(Frames(w)) = Len(w) /\ Len(w) \in Nat
  BY DEF Frames
<1>2. PICK k \in 1..Len(w) : m = Frames(w)[k]
  BY <1>1 DEF Elems
<1>3. Frames(w)[k] = [type |-> "Decode", buf |-> 0, id |-> w[k]]
  BY DEF Frames
<1>4. QED
  BY <1>2, <1>3

\* A step that brings into the pipeline nothing but messages of no picture
\* buffer and of no input to come keeps the invariant if it keeps the last
\* four of its parts.
LEMMA MoveKeeps ==
  ASSUME PipelineInv,
         Ordered(notes, loop, buffered_picture_buffers_, Waiting, calls)',
         \A m \in InFlight' \ InFlight :
           m.buf = 0 /\ m.type # "PictureReady" /\ m.id <= sent,
         available' \subseteq available, UNCHANGED <<texture, held, sent>>,
         \A p \in held : p.buf # 0,
         Exchanging(InFlight)', Asking(InFlight)', Lifecycle', Blame'
  PROVE  PipelineInv'
<1>1. /\ Numbered(InFlight, sent) /\ Apart(InFlight, held)
      /\ Owned(InFlight \cup held, available, texture)
  BY DEF PipelineInv
<1>2. Numbered(InFlight', sent')
  BY <1>1 DEF Numbered
<1>3. Owned(InFlight' \cup held', available', texture')
  <2>1. ASSUME NEW m \in InFlight' \cup held'
        PROVE  /\ m.buf # 0 => m.buf \notin available'
               /\ m.type = "PictureReady" => texture'[m.buf] = m.id
    <3>1. CASE m \in InFlight \cup held
      BY <1>1, <3>1, OwnedOne
    <3>2. CASE m \in InFlight' \ InFlight
      BY <3>2
    <3>3. QED
      BY <3>1, <3>2
  <2>2. QED
    BY <2>1 DEF Owned
<1>4. Apart(InFlight', held')
  BY <1>1 DEF Apart
<1>5. QED
  BY <1>2, <1>3, <1>4 DEF PipelineInv

\* Who is told that the protocol is broken.
Blames(M) ==
  \A m \in M : /\ m.type # "InvalidArgument"
               /\ m.type = "IllegalState" =>
                    ~client_ /\ aborted /\ phase \in {"aborting", "destroyed"}

\* A queue has a type of message if one of its messages is of that type, and
\* the client is told of no broken protocol if no notification says so.
LEMMA HasElems ==
  /\ \A q, t : Has(q, t) <=> \E m \in Elems(q) : m.type = t
  /\ Blame <=> Blames(Elems(notes))
  /\ Blame' <=> Blames(Elems(notes))'
<1>1. \A q, t : Has(q, t) <=> \E m \in Elems(q) : m.type = t
  BY DEF Has, Elems
<1>2. Blame <=> Blames(Elems(notes))
  <2>1. ASSUME Blame, NEW m \in Elems(notes)
        PROVE  /\ m.type # "InvalidArgument"
               /\ m.type = "IllegalState" =>
                    ~client_ /\ aborted /\ phase \in {"aborting", "destroyed"}
    BY <2>1 DEF Elems, Blame, NoProtocolError
  <2>2. ASSUME Blames(Elems(notes)) PROVE Blame
    <3>1. ASSUME NEW k \in 1..Len(notes)
          PROVE  /\ notes[k].type # "InvalidArgument"
                 /\ notes[k].type = "IllegalState" => ~client_
                 /\ notes[k].type = "IllegalState" =>
                      aborted /\ phase \in {"aborting", "destroyed"}
      <4>1. notes[k] \in Elems(notes)
        BY DEF Elems
      <4>2. QED
        BY <2>2, <4>1, Zenon DEF Blames
    <3>2. NoProtocolError
      BY <3>1 DEF NoProtocolError
    <3>3. client_ => \A k \in 1..Len(notes) : notes[k].type # "IllegalState"
      BY <3>1, Zenon
    <3>4. QED
      BY <3>2, <3>3 DEF Blame
  <2>3. QED
    BY <2>1, <2>2 DEF Blames
<1>3. Blame' <=> Blames(Elems(notes))'
  <2>1. ASSUME Blame', NEW m \in Elems(notes')
        PROVE  /\ m.type # "InvalidArgument"
               /\ m.type = "IllegalState" =>
                    ~client_' /\ aborted' /\ phase' \in {"aborting", "destroyed"}
    BY <2>1 DEF Elems, Blame, NoProtocolError
  <2>2. ASSUME Blames(Elems(notes))' PROVE Blame'
    <3>1. ASSUME NEW k \in 1..Len(notes')
          PROVE  /\ notes'[k].type # "InvalidArgument"
                 /\ notes'[k].type = "IllegalState" => ~client_'
                 /\ notes'[k].type = "IllegalState" =>
                      aborted' /\ phase' \in {"aborting", "destroyed"}
      <4>1. notes'[k] \in Elems(notes')
        BY DEF Elems
      <4>2. QED
        BY <2>2, <4>1, Zenon DEF Blames
    <3>2. NoProtocolError'
      BY <3>1 DEF NoProtocolError
    <3>3. client_' => \A k \in 1..Len(notes') : notes'[k].type # "IllegalState"
      BY <3>1, Zenon
    <3>4. QED
      BY <3>2, <3>3 DEF Blame
  <2>3. QED
    BY <2>1, <2>2 DEF Blames
<1>4. QED
  BY <1>1, <1>2, <1>3

\* A decoder that lives has blamed nobody.
LEMMA NoBlame ==
  ASSUME TypeOK, Blame, client_
  PROVE  \A x \in InFlight : x.type # "IllegalState"
<1>1. \A x \in Elems(notes) : x.type # "IllegalState"
  BY DEF Blame, Elems
<1>2. "IllegalState" \notin Tasks \cup Calls
  BY DEF Tasks, Notes, Calls
<1>3. /\ \A x \in Elems(loop) : x.type \in Tasks
      /\ \A x \in Elems(calls) : x.type \in Calls
      /\ \A x \in Elems(buffered_picture_buffers_) : x.type = "PictureReady"
  BY PartTypes DEF TypeOK
<1>4. Waiting \in Seq(Inputs)
  BY SeqTypes DEF Waiting, TypeOK
<1>5. \A x \in Elems(Frames(Waiting)) : x.type = "Decode"
  <2> DEFINE w == Waiting
  <2>1. w \in Seq(Inputs)
    BY <1>4
  <2> HIDE DEF w
  <2>2. \A x \in Elems(Frames(w)) : x.type = "Decode"
    BY <2>1, FrameElems
  <2>3. QED
    BY <2>2 DEF w
<1>6. QED
  BY <1>1, <1>2, <1>3, <1>5 DEF InFlight, Flight

\* No blame comes of a step that tells the client nothing new.
LEMMA BlameKept ==
  ASSUME Blame, Elems(notes') \subseteq Elems(notes), client_' => client_,
         aborted => aborted',
         phase \in {"aborting", "destroyed"} => phase' \in {"aborting", "destroyed"}
  PROVE  Blame'
<1>1. Blames(Elems(notes))
  BY HasElems
<1>2. Blames(Elems(notes))'
  BY <1>1 DEF Blames
<1>3. QED
  BY <1>2, HasElems

\* The errors a live decoder reports: that of the platform, and the refusal of
\* a reset sent during a drain.
Reported(error, M) ==
  \/ error = "PlatformFailure"
  \/ /\ error = "IllegalState" /\ aborted /\ phase \in {"aborting", "destroyed"}
     /\ \A x \in M : x.type \in Exchanges => x.type = "Reset"

\* Such a report ends the decoder's life and leaves what is announced, held
\* back or already in the task's hands in order.
LEMMA StopKeeps ==
  ASSUME TypeOK, TypeOK', PipelineInv,
         NEW rest \in Seq(Message(Tasks)), NEW w \in Seq(Inputs),
         NEW error \in Errors, StopOnError(rest, error),
         client_ => Reported(error, InFlight),
         UNCHANGED clientVars,
         Ordered(notes, rest, buffered_picture_buffers_, w, calls'),
         Flight(notes, rest, buffered_picture_buffers_, w, calls')
           \subseteq InFlight,
         Elems(calls') \subseteq Elems(calls),
         Chain(Frames(inputs_copy')),
         Elems(Frames(inputs_copy')) \subseteq Elems(Frames(w)),
         ~Has(calls', "Initialize"),
         buffering_' \/ buffered_picture_buffers_ = <<>>
  PROVE  PipelineInv'
<1> DEFINE h == buffered_picture_buffers_
           c == calls'
           u == inputs_copy'
           m == Msg(error)
<1>1. /\ notes \in Seq(Messages) /\ rest \in Seq(Messages)
      /\ h \in Seq(Messages) /\ c \in Seq(Messages) /\ u \in Seq(Inputs)
      /\ notes \in Seq(Message(Notes \cup Errors))
  BY PartTypes DEF TypeOK
<1>2. Waiting' = u /\ loop' = rest /\ h' = h
  <2>1. pending_output_samples_' = <<>> /\ pending_input_buffers_' = <<>>
    BY DEF StopOnError
  <2>2. Waiting' = <<>> \o <<>> \o u
    BY <2>1 DEF Waiting
  <2>3. Waiting' = u
    <3> HIDE DEF u
    <3>1. QED
      BY <1>1, <2>2
  <2>4. QED
    BY <2>3 DEF StopOnError
<1>3. /\ m \in Messages /\ m.type = error /\ m.buf = 0 /\ m.id = 0
      /\ error \notin Exchanges \cup Askings \cup Carriers
                        \cup {"Reset", "ResetDone", "Destroy", "Decode",
                              "PictureReady", "EndOfBitstreamBuffer"}
  <2>1. error \in (Tasks \cup Calls \cup Errors) \ (OfBuffer \cup OfInput)
    BY DEF Errors, OfBuffer, OfInput
  <2>2. QED
    BY <2>1, MessageTypes
       DEF Messages, Msg, Errors, Exchanges, Askings, Carriers
<1>4. /\ Ordered(notes, rest, h, u, c)
      /\ Flight(notes, rest, h, u, c) \subseteq InFlight
  <2>1. Chain(rest) /\ Chain(h) /\ Chain(c)
    BY <1>1, OrderedParts DEF PartsOrdered
  <2>2. /\ Ordered(notes, rest, h, u, c)
        /\ Flight(notes, rest, h, u, c) \subseteq Flight(notes, rest, h, w, c)
    <3> HIDE DEF h, c, u
    <3>1. Ordered(notes, rest, h, w, c)
      BY DEF h, c
    <3>2. Chain(Frames(u)) /\ Elems(Frames(u)) \subseteq Elems(Frames(w))
      BY DEF u
    <3>3. QED
      BY <1>1, <2>1, <3>1, <3>2, Drop, ZenonT(40)
  <2>3. QED
    BY <2>2
<1>5. /\ Ordered(notes', rest, h, u, c)
      /\ Flight(notes', rest, h, u, c) \subseteq InFlight \cup {m}
      /\ Elems(notes') \subseteq Elems(notes) \cup IF client_ THEN {m} ELSE {}
  <2>1. CASE ~client_
    BY <1>4, <2>1 DEF StopOnError
  <2>2. CASE client_
    <3>1. notes' = Append(notes, m)
      BY <2>2 DEF StopOnError
    <3>2. Flight(notes, rest, h, u, c) \in SUBSET Messages
      BY <1>1, FlightTypes
    <3>3. Harmless(m, Flight(notes, rest, h, u, c))
      <4>1. m.type = "IllegalState" =>
              \A x \in InFlight : x.type \in Exchanges => x.type = "Reset"
        BY <1>3, <2>2 DEF Reported
      <4>2. QED
        BY <1>3, <1>4, <4>1 DEF Harmless
    <3>4. \A x \in Flight(notes, rest, h, u, c) :
            MayPrecede(m, x) /\ (x.type \notin {"Destroy", "Reset"} => MayPrecede(x, m))
      BY <1>3, <3>2, <3>3, HarmlessPrecedes
    <3>5. \A x \in Elems(notes) : x.type \notin {"Destroy", "Reset"}
      <4>1. {"Destroy", "Reset"} \cap (Notes \cup Errors) = {}
        BY DEF Notes, Errors
      <4>2. QED
        BY <1>1, <4>1, PartTypes
    <3>6. /\ \A x \in Elems(notes) : MayPrecede(x, m)
          /\ \A x \in Elems(rest) \cup Elems(h) \cup Elems(Frames(u)) \cup Elems(c) :
               MayPrecede(m, x)
      BY <3>4, <3>5 DEF Flight
    <3>7. /\ Ordered(Append(notes, m), rest, h, u, c)
          /\ Flight(Append(notes, m), rest, h, u, c)
               = {m} \cup Flight(notes, rest, h, u, c)
      <4> HIDE DEF h, c, u, m
      <4>1. QED
        BY <1>1, <1>3, <1>4, <3>6, SendNote, SMTT(30)
    <3>8. Elems(Append(notes, m)) = Elems(notes) \cup {m}
      BY <1>1, <1>3, ElemsRules
    <3>9. QED
      BY <1>4, <2>2, <3>1, <3>7, <3>8
  <2>3. QED
    BY <2>1, <2>2
<1>6. InFlight' = Flight(notes', rest, h, u, c)
  BY <1>2 DEF InFlight
<1>7. Ordered(notes, loop, buffered_picture_buffers_, Waiting, calls)'
  BY <1>2, <1>5
<1>8. Exchanging(InFlight)'
  <2>1. \A x \in InFlight' : x.type \in Exchanges => x \in InFlight
    BY <1>3, <1>5, <1>6
  <2>2. Exchanging(InFlight)
    BY DEF PipelineInv
  <2>3. phase' = phase /\ aborted' = aborted /\ state_' = "kUninitialized"
    BY DEF clientVars, StopOnError
  <2>4. \A x \in InFlight' : x.type \in Drains \cup {"Reset"} => x \in InFlight
    BY <2>1 DEF Drains, Exchanges
  <2>5. QED
    BY <2>1, <2>2, <2>3, <2>4 DEF Exchanging
<1>9. Asking(InFlight)'
  <2>1. \A x \in InFlight' : x.type \in Askings => x \in InFlight
    BY <1>3, <1>5, <1>6
  <2>2. Asking(InFlight)
    BY DEF PipelineInv
  <2>3. /\ ~client_' /\ output_picture_buffers_' = {}
        /\ pictures_requested_' = pictures_requested_
    BY DEF StopOnError
  <2>4. QED
    BY <2>1, <2>2, <2>3 DEF Asking
<1>10. Lifecycle'
  <2>1. Lifecycle
    BY DEF PipelineInv
  <2>2. ~client_' /\ state_' = "kUninitialized" /\ h' = h /\ phase' = phase
    BY DEF StopOnError, clientVars
  <2>3. phase # "destroyed" => ~Has(calls', "Destroy")
    BY <2>1, HasElems DEF Lifecycle
  <2>4. QED
    BY <2>2, <2>3 DEF Lifecycle
<1>11. Blame'
  <2>1. Blames(Elems(notes))
    BY HasElems DEF PipelineInv
  <2>2. /\ ~client_' /\ aborted' = aborted /\ phase' = phase
        /\ client_ => /\ m.type # "InvalidArgument"
                      /\ m.type = "IllegalState"
                           => aborted /\ phase \in {"aborting", "destroyed"}
    BY <1>3 DEF StopOnError, clientVars, Reported
  <2>3. Blames(Elems(notes))'
    BY <1>5, <2>1, <2>2 DEF Blames
  <2>4. QED
    BY <2>3, HasElems
<1>12. \A p \in held : p.buf # 0
  BY DEF TypeOK, Message, OfBuffer
<1>13. /\ available' \subseteq available /\ UNCHANGED <<texture, held, sent>>
       /\ m.id <= sent
  BY <1>3 DEF StopOnError, clientVars, TypeOK
<1>14. QED
  <2>1. \A x \in InFlight' \ InFlight :
          x.buf = 0 /\ x.type # "PictureReady" /\ x.id <= sent
    BY <1>3, <1>5, <1>6, <1>13
  <2>2. QED
    BY <1>7, <1>8, <1>9, <1>10, <1>11, <1>12, <1>13, <2>1, MoveKeeps

\* The pipeline of messages M, with v and c still to come, after samples were
\* presented and `ack` was posted.
Announced(ack, v, c, M) ==
  \E l \in Seq(Message(Tasks)),
     wakeUp \in {<<>>, <<Msg("DecodePendingInputBuffers")>>},
     flushed \in {<<>>, <<Msg("FlushDone")>>} :
    LET M1 == Flight(notes, l, buffered_picture_buffers_',
                     pending_output_samples_' \o v, c)
    IN  /\ loop' = l \o wakeUp \o ack \o flushed
        /\ EndsFlush(flushed)
        /\ Ordered(notes, l, buffered_picture_buffers_',
                   pending_output_samples_' \o v, c)
        /\ \A x \in M1 \ M : x.type = "PictureReady" /\ x.id <= sent
        /\ Owned(M1 \cup held, available', texture')
        /\ Apart(M1, held)
        /\ buffering_' \/ buffered_picture_buffers_' = <<>>
        /\ buffered_picture_buffers_' \in Seq(Message({"PictureReady"}))

\* What Present announces and what it holds back is the sample it was given,
\* if any, behind all that was announced or held back before.
LEMMA PresentAnnounces ==
  ASSUME TypeOK,
         NEW rest \in Seq(Message(Tasks)),
         NEW samples \in Seq(Inputs), Len(samples) <= 1,
         samples # <<>> => samples[1] = surface',
         NEW v \in Seq(Inputs), NEW c \in Seq(Message(Calls)),
         NEW buffering \in BOOLEAN, NEW buffers,
         NEW free \in SUBSET PictureIds, NEW ack,
         Presented(rest, samples, buffering, buffers, free, ack),
         NEW M,
         M = Flight(notes, rest, buffered_picture_buffers_, samples \o v, c),
         Ordered(notes, rest, buffered_picture_buffers_, samples \o v, c),
         Numbered(M, sent), Owned(M \cup held, free, texture), Apart(M, held),
         buffering \/ buffered_picture_buffers_ = <<>>
  PROVE  Announced(ack, v, c, M)
<1>0. PresentsOne(rest, samples, buffering, free, ack)
  BY PresentOne
<1>1. PICK announce \in Seq(Message({"PictureReady"})),
           wakeUp \in {<<>>, <<Msg("DecodePendingInputBuffers")>>},
           flushed \in {<<>>, <<Msg("FlushDone")>>} :
        /\ loop' = rest \o announce \o wakeUp \o ack \o flushed
        /\ EndsFlush(flushed)
        /\ \/ /\ announce = <<>>
              /\ available' = free
              /\ pending_output_samples_' = samples
              /\ UNCHANGED <<texture, buffered_picture_buffers_>>
              /\ buffering_' = buffering
           \/ /\ samples # <<>>
              /\ pending_output_samples_' = <<>>
              /\ \E b \in free :
                   Presents(b, samples[1], announce, buffering, free)
  BY <1>0 DEF PresentsOne
<1>2. CASE /\ announce = <<>>
           /\ available' = free
           /\ pending_output_samples_' = samples
           /\ UNCHANGED <<texture, buffered_picture_buffers_>>
           /\ buffering_' = buffering
  <2>1. rest \o announce = rest
    BY <1>2
  <2>3. buffered_picture_buffers_' \in Seq(Message({"PictureReady"}))
    BY <1>2 DEF TypeOK
  <2>4. loop' = rest \o wakeUp \o ack \o flushed
    BY <1>1, <2>1
  <2>5. QED
    BY <1>1, <1>2, <2>3, <2>4 DEF Announced
<1>3. ASSUME samples # <<>>, pending_output_samples_' = <<>>,
             NEW b \in free, Presents(b, samples[1], announce, buffering, free)
      PROVE  LET M1 == Flight(notes, rest \o announce, buffered_picture_buffers_',
                              pending_output_samples_' \o v, c)
             IN  /\ rest \o announce \in Seq(Message(Tasks))
                 /\ Ordered(notes, rest \o announce, buffered_picture_buffers_',
                            pending_output_samples_' \o v, c)
                 /\ \A x \in M1 \ M : x.type = "PictureReady" /\ x.id <= sent
                 /\ Owned(M1 \cup held, available', texture')
                 /\ Apart(M1, held)
                 /\ buffering_' \/ buffered_picture_buffers_' = <<>>
                 /\ buffered_picture_buffers_' \in Seq(Message({"PictureReady"}))
  <2> DEFINE i == samples[1]
  <2>1. /\ i \in Inputs /\ samples = <<i>> /\ surface' = i
        /\ Len(samples) = 1 /\ pending_output_samples_' \o v = v
    <3>1. /\ Len(samples) = 1
          /\ samples[1] \in Inputs /\ samples = <<samples[1]>>
      BY <1>3, OneSample
    <3>2. QED
      BY <1>3, <3>1
  <2>2. /\ M = Flight(notes, rest, buffered_picture_buffers_, <<i>> \o v, c)
        /\ Ordered(notes, rest, buffered_picture_buffers_, <<i>> \o v, c)
        /\ Presents(b, i, announce, buffering, free)
    BY <1>3, <2>1
  <2> HIDE DEF i
  <2> DEFINE M1 == Flight(notes, rest \o announce, buffered_picture_buffers_', v, c)
  <2>3. /\ rest \o announce \in Seq(Message(Tasks))
        /\ buffered_picture_buffers_' \in Seq(Message({"PictureReady"}))
        /\ Ordered(notes, rest \o announce, buffered_picture_buffers_', v, c)
        /\ M1 \subseteq M \cup {PictureReady(b, i)}
        /\ Owned(M1 \cup held, available', texture')
        /\ Apart(M1, held)
        /\ buffering_' \/ buffered_picture_buffers_' = <<>>
    BY <2>1, <2>2, PresentsPipeline, ZenonT(30)
  <2>4. i <= sent
    <3> DEFINE frame == [type |-> "Decode", buf |-> 0, id |-> i]
    <3>1. /\ <<i>> \in Seq(Inputs) /\ Frames(<<i>>) = <<frame>>
          /\ Elems(<<frame>>) = {frame}
      BY <2>1, FrameTypes, ElemsRules
    <3>2. frame \in Elems(Frames(<<i>> \o v))
      BY <3>1, FramesParts
    <3>3. frame \in M
      BY <2>2, <3>2 DEF Flight
    <3>4. QED
      BY <3>3 DEF Numbered
  <2>5. \A x \in M1 \ M : x.type = "PictureReady" /\ x.id <= sent
    BY <2>3, <2>4 DEF PictureReady
  <2>6. QED
    BY <1>3, <2>1, <2>3, <2>5
<1>4. QED
  <2>1. CASE samples # <<>> /\ pending_output_samples_' = <<>>
             /\ \E b \in free : Presents(b, samples[1], announce, buffering, free)
    <3>1. loop' = (rest \o announce) \o wakeUp \o ack \o flushed
      BY <1>1
    <3>2. QED
      BY <1>1, <1>3, <2>1, <3>1 DEF Announced
  <2>2. QED
    BY <1>1, <1>2, <2>1

\* Presenting the samples keeps the invariant, whether it succeeds or not.
LEMMA ProcessPendingSamplesKeeps ==
  ASSUME TypeOK, TypeOK', PipelineInv,
         NEW rest \in Seq(Message(Tasks)),
         NEW samples \in Seq(Inputs), Len(samples) <= 1,
         samples # <<>> => samples[1] = surface',
         NEW buffering \in BOOLEAN, NEW free \in SUBSET PictureIds,
         NEW i, NEW ack \in {<<>>, <<Decoded(i)>>},
         ProcessPendingSamples(rest, samples, buffering, PictureIds, free, ack),
         UNCHANGED clientVars,
         NEW v, v = pending_input_buffers_ \o inputs_copy',
         NEW M,
         M = Flight(notes, rest, buffered_picture_buffers_, samples \o v, calls'),
         Ordered(notes, rest, buffered_picture_buffers_, samples \o v, calls'),
         M \subseteq InFlight, Elems(calls') \subseteq Elems(calls),
         Owned(M \cup held, free, texture),
         ack # <<>> => /\ i \in Inputs /\ i <= sent
                       /\ \A x \in M : x.type # "ResetDone",
         state_ \in {"kNormal", "kFlushing"}, pictures_requested_,
         \A x \in M : x.type \notin Askings,
         buffering \/ buffered_picture_buffers_ = <<>>
  PROVE  PipelineInv'
<1> DEFINE c == calls'
<1>1. /\ Numbered(M, sent) /\ Apart(M, held)
      /\ Lifecycle /\ Exchanging(InFlight) /\ Blame
  <2>1. Numbered(InFlight, sent) /\ Apart(InFlight, held)
    BY DEF PipelineInv
  <2>2. Numbered(M, sent) /\ Apart(M, held)
    BY <2>1 DEF Numbered, Apart
  <2>3. QED
    BY <2>2 DEF PipelineInv
<1>2. /\ v \in Seq(Inputs) /\ c \in Seq(Message(Calls)) /\ c \in Seq(Messages)
      /\ inputs_copy' \in Seq(Inputs)
      /\ samples \o v \in Seq(Inputs)
  <2>1. inputs_copy' \in Seq(Inputs) /\ c \in Seq(Message(Calls))
    BY DEF TypeOK
  <2>2. v \in Seq(Inputs)
    BY <2>1, SeqTypes DEF TypeOK
  <2>3. QED
    BY <2>1, <2>2, SeqTypes, PartTypes
<1>3. /\ ~Has(c, "Initialize") /\ client_
      /\ phase # "destroyed" => ~Has(c, "Destroy")
  <2>1. /\ ~Has(calls, "Initialize") /\ client_
        /\ phase # "destroyed" => ~Has(calls, "Destroy")
    BY <1>1 DEF Lifecycle, TypeOK
  <2>2. QED
    BY <2>1, HasElems
<1>4. ASSUME StopOnError(rest, "PlatformFailure"), buffering_' = buffering
      PROVE  PipelineInv'
  <2>1. Chain(Frames(samples \o v))
    <3>1. PartsOrdered(notes, rest, buffered_picture_buffers_, samples \o v, c)
      BY <1>2, OrderedParts, PartTypes DEF TypeOK
    <3>2. QED
      BY <3>1 DEF PartsOrdered
  <2>2. /\ Chain(Frames(inputs_copy'))
        /\ Elems(Frames(inputs_copy')) \subseteq Elems(Frames(samples \o v))
    <3>1. /\ Chain(Frames(v))
          /\ Elems(Frames(v)) \subseteq Elems(Frames(samples \o v))
      BY <1>2, <2>1, FramesParts
    <3>2. /\ Chain(Frames(inputs_copy'))
          /\ Elems(Frames(inputs_copy')) \subseteq Elems(Frames(v))
      <4> DEFINE q == pending_input_buffers_
                 u == inputs_copy'
      <4>1. q \in Seq(Inputs) /\ u \in Seq(Inputs) /\ v = q \o u
        BY <1>2 DEF TypeOK
      <4> HIDE DEF q, u
      <4>2. /\ Elems(Frames(q \o u)) = Elems(Frames(q)) \cup Elems(Frames(u))
            /\ Chain(Frames(q \o u)) => Chain(Frames(q)) /\ Chain(Frames(u))
        BY <4>1, FramesParts
      <4>3. QED
        BY <3>1, <4>1, <4>2 DEF u
    <3>3. QED
      BY <3>1, <3>2
  <2>3. "PlatformFailure" \in Errors /\ samples \o v \in Seq(Inputs)
    BY <1>2 DEF Errors
  <2>4. buffering_' \/ buffered_picture_buffers_ = <<>>
    BY <1>4
  <2>5. Reported("PlatformFailure", InFlight)
    BY DEF Reported
  <2>6. QED
    BY <1>3, <1>4, <2>2, <2>3, <2>4, <2>5, StopKeeps, ZenonT(40)

<1>5. ASSUME Presented(rest, samples, buffering, PictureIds, free, ack)
      PROVE  PipelineInv'
  <2> DEFINE h2 == buffered_picture_buffers_'
             w2 == pending_output_samples_' \o v
  <2>1. PICK l \in Seq(Message(Tasks)),
             wakeUp \in {<<>>, <<Msg("DecodePendingInputBuffers")>>},
             flushed \in {<<>>, <<Msg("FlushDone")>>} :
          LET M1 == Flight(notes, l, h2, w2, c)
          IN  /\ loop' = l \o wakeUp \o ack \o flushed
              /\ EndsFlush(flushed)
              /\ Ordered(notes, l, h2, w2, c)
              /\ \A x \in M1 \ M : x.type = "PictureReady" /\ x.id <= sent
              /\ Owned(M1 \cup held, available', texture')
              /\ Apart(M1, held)
              /\ buffering_' \/ h2 = <<>>
              /\ h2 \in Seq(Message({"PictureReady"}))
    <3>1. Announced(ack, v, c, M)
      BY <1>1, <1>2, <1>5, PresentAnnounces, ZenonT(40)
    <3>2. QED
      BY <3>1 DEF Announced
  <2>2. Waiting' = w2
    <3>1. v = pending_input_buffers_' \o inputs_copy'
      BY <1>5 DEF Presented, Present
    <3> DEFINE p == pending_output_samples_'
               q == pending_input_buffers_'
               u == inputs_copy'
    <3>2. p \in Seq(Inputs) /\ q \in Seq(Inputs) /\ u \in Seq(Inputs)
      BY DEF TypeOK
    <3>3. v = q \o u /\ Waiting' = (p \o q) \o u
      BY <3>1 DEF Waiting
    <3> HIDE DEF p, q, u
    <3>4. (p \o q) \o u = p \o (q \o u)
      BY <3>2, InputConcat
    <3>5. QED
      BY <3>3, <3>4 DEF p
  <2>3. /\ output_picture_buffers_' = PictureIds
        /\ UNCHANGED <<client_, pictures_requested_, notes>>
    BY <1>5 DEF Presented, Present

  <2> HIDE DEF h2, w2, c
  <2> DEFINE M1 == Flight(notes, l, h2, w2, c)
             l2 == l \o wakeUp
             M2 == Flight(notes, l2, h2, w2, c)
             l3 == l2 \o ack
             M3 == Flight(notes, l3, h2, w2, c)
             l4 == l3 \o flushed
             M4 == Flight(notes, l4, h2, w2, c)
             wake == Msg("DecodePendingInputBuffers")
             done == Msg("FlushDone")
  <2>4. /\ notes \in Seq(Message(Notes \cup Errors)) /\ h2 \in Seq(Messages)
        /\ w2 \in Seq(Inputs) /\ c \in Seq(Messages)
    <3>1. h2 \in Seq(Messages)
      BY <2>1, PartTypes
    <3>2. pending_output_samples_' \in Seq(Inputs)
      BY DEF TypeOK
    <3>3. QED
      BY <1>2, <3>1, <3>2, SeqTypes DEF TypeOK, c, w2
  <2>5. /\ wake \in Message(Tasks) /\ done \in Message(Tasks)
        /\ wake.buf = 0 /\ wake.type = "DecodePendingInputBuffers" /\ wake.id = 0
        /\ done.buf = 0 /\ done.type = "FlushDone" /\ done.id = 0
    BY MessageTypes DEF Tasks, Notes, OfBuffer, OfInput, Msg
  <2> HIDE DEF wake, done
  <2>6. /\ l2 \in Seq(Message(Tasks)) /\ Ordered(notes, l2, h2, w2, c)
        /\ M2 = M1 \cup Elems(wakeUp)
    <3>1. Harmless(wake, M1)
      BY <2>5 DEF Harmless, Carriers, Exchanges, Askings
    <3>2. Ordered(notes, l, h2, w2, c) /\ Posts(wakeUp, wake, M1)
      BY <2>1, <3>1 DEF wake, Posts
    <3>3. QED
      BY <2>1, <2>4, <2>5, <3>2, PostHarmless, ZenonT(30)
  <2>7. Elems(wakeUp) \subseteq {wake} /\ Elems(ack) \subseteq {Decoded(i)}
        /\ Elems(flushed) \subseteq {done}
    BY <2>1, ElemsRules DEF wake, done
  <2>8. /\ l3 \in Seq(Message(Tasks)) /\ Ordered(notes, l3, h2, w2, c)
        /\ M3 = M2 \cup Elems(ack)
    <3>1. CASE ack = <<>>
      <4>1. l3 = l2
        BY <2>6, <3>1
      <4>2. QED
        BY <2>6, <3>1, <4>1, ElemsRules
    <3>2. CASE ack # <<>>
      <4>1. /\ Decoded(i) \in Message(Tasks)
            /\ Decoded(i).buf = 0 /\ Decoded(i).type = "EndOfBitstreamBuffer"
        BY <3>2, MessageTypes DEF Decoded
      <4>2. Harmless(Decoded(i), M2)
        <5>1. \A x \in M2 : x.type # "ResetDone"
          BY <2>1, <2>5, <2>6, <2>7, <3>2
        <5>2. QED
          BY <4>1, <5>1 DEF Harmless, Carriers, Exchanges, Askings
      <4>3. QED
        <5>1. Posts(ack, Decoded(i), Flight(notes, l2, h2, w2, c))
          BY <3>2, <4>2 DEF Posts
        <5> HIDE DEF l2
        <5>2. QED
          BY <2>4, <2>6, <4>1, <5>1, PostHarmless, ZenonT(30)
    <3>3. QED
      BY <3>1, <3>2

  <2>9. \A x \in M3 \ M : \/ x.type = "PictureReady" /\ x.id <= sent
                          \/ /\ x.type \in {"DecodePendingInputBuffers",
                                            "EndOfBitstreamBuffer"}
                             /\ x.buf = 0 /\ x.id <= sent
    <3>1. wake.id <= sent
      BY <2>5 DEF TypeOK
    <3>2. ack # <<>> => /\ Decoded(i).id <= sent /\ Decoded(i).buf = 0
                        /\ Decoded(i).type = "EndOfBitstreamBuffer"
      BY DEF Decoded
    <3>3. ack = <<>> => Elems(ack) = {}
      BY ElemsRules
    <3>4. ASSUME NEW x \in M3 \ M
          PROVE  \/ x \in M1 \ M \/ x = wake
                 \/ ack # <<>> /\ x = Decoded(i)
      BY <2>6, <2>7, <2>8, <3>3
    <3>5. QED
      BY <2>1, <2>5, <3>1, <3>2, <3>4
  <2>10. state_ = "kFlushing" => \A x \in M3 : /\ x.type \in Exchanges => x.type = "Reset"
                                              /\ x.type # "IllegalState"
    <3>1. SUFFICES ASSUME state_ = "kFlushing", NEW x \in M3
                   PROVE  /\ x.type \in Exchanges => x.type = "Reset"
                          /\ x.type # "IllegalState"
      OBVIOUS
    <3>2. CASE x \in M
      <4>1. x.type # "IllegalState"
        <5>1. \A y \in InFlight : y.type # "IllegalState"
          BY <1>1, <1>3, NoBlame
        <5>2. QED
          BY <3>2, <5>1
      <4>2. QED
        BY <1>1, <3>1, <3>2, <4>1 DEF Exchanging
    <3>3. CASE x \notin M
      BY <2>9, <3>3 DEF Exchanges
    <3>4. QED
      BY <3>2, <3>3
  <2>11. /\ Ordered(notes, l4, h2, w2, c) /\ M4 = M3 \cup Elems(flushed)
         /\ flushed # <<>> => state_ = "kFlushing" /\ state_' = "kNormal"
         /\ flushed = <<>> => state_' = state_
    <3>1. /\ flushed # <<>> => state_ = "kFlushing" /\ state_' = "kNormal"
          /\ flushed = <<>> => state_' = state_
      BY <2>1 DEF EndsFlush
    <3>2. flushed # <<>> => Harmless(done, M3)
      BY <2>5, <2>10, <3>1 DEF Harmless, Carriers, Askings, Drains
    <3>3. flushed \in {<<>>, <<done>>}
      BY <2>1 DEF done
    <3>4. Posts(flushed, done, M3)
      BY <3>2, <3>3, ZenonT(30) DEF Posts
    <3> HIDE DEF l3
    <3>5. QED
      BY <2>4, <2>5, <2>8, <3>1, <3>4, PostHarmless
  <2>12. /\ loop' = l4 /\ InFlight' = M4
         /\ Ordered(notes, loop, buffered_picture_buffers_, Waiting, calls)'
    <3>1. loop' = l4
      BY <2>1
    <3>2. QED
      BY <2>2, <2>3, <2>11, <3>1 DEF InFlight, h2, w2, c

  <2>13. \A x \in M4 \ M1 :
           /\ x.buf = 0 /\ x.type # "PictureReady" /\ x.id <= sent
           /\ x.type \notin Askings
           /\ x.type \in Exchanges => flushed # <<>>
    <3>1. sent \in Nat /\ 0 <= sent
      BY ConstantsAssumption DEF TypeOK
    <3>2. ack # <<>> => /\ Decoded(i).id <= sent /\ Decoded(i).buf = 0
                        /\ Decoded(i).type = "EndOfBitstreamBuffer"
      BY DEF Decoded
    <3>3. ack = <<>> => Elems(ack) = {}
      BY ElemsRules
    <3>4. flushed = <<>> => Elems(flushed) = {}
      BY ElemsRules
    <3>5. ASSUME NEW x \in M4 \ M1
          PROVE  \/ x = wake
                 \/ ack # <<>> /\ x = Decoded(i)
                 \/ flushed # <<>> /\ x = done
      BY <2>6, <2>7, <2>8, <2>11, <3>3, <3>4
    <3>6. QED
      BY <2>5, <3>1, <3>2, <3>5 DEF Exchanges, Askings
  <2>14. Numbered(InFlight', sent')
    <3>1. \A x \in M4 : x.id <= sent
      BY <1>1, <2>1, <2>13 DEF Numbered
    <3>2. QED
      BY <2>12, <3>1 DEF Numbered, clientVars
  <2>15. Owned(InFlight' \cup held', available', texture')
    <3>1. Owned(M1 \cup held, available', texture')
      BY <2>1
    <3>2. ASSUME NEW x \in M4 \cup held
          PROVE  /\ x.buf # 0 => x.buf \notin available'
                 /\ x.type = "PictureReady" => texture'[x.buf] = x.id
      <4>1. CASE x \in M1 \cup held
        BY <3>1, <4>1, OwnedOne
      <4>2. CASE x \in M4 \ M1
        BY <2>13, <4>2
      <4>3. QED
        BY <3>2, <4>1, <4>2
    <3>3. Owned(M4 \cup held, available', texture')
      BY <3>2 DEF Owned
    <3>4. QED
      BY <2>12, <3>3 DEF clientVars
  <2>16. Apart(InFlight', held')
    <3>1. \A p \in held : p.buf # 0
      BY DEF TypeOK, Message, OfBuffer
    <3>2. Apart(M4, held)
      BY <2>1, <2>13, <3>1 DEF Apart
    <3>3. QED
      BY <2>12, <3>2 DEF clientVars
  <2>17. Exchanging(InFlight)'
    <3>1. /\ phase' = phase /\ aborted' = aborted
          /\ state_' = "kFlushing" => state_ = "kFlushing" /\ flushed = <<>>
          /\ flushed # <<>> => state_ = "kFlushing"
      BY <2>11 DEF clientVars
    <3>2. ASSUME NEW x \in M4, x.type \in Exchanges
          PROVE  x \in M \/ (flushed # <<>> /\ x = done)
      <4>1. CASE x \in M3
        BY <2>9, <3>2, <4>1 DEF Exchanges
      <4>2. CASE x \notin M3
        <5>1. flushed = <<>> => Elems(flushed) = {}
          BY ElemsRules
        <5>2. QED
          BY <2>7, <2>11, <3>2, <4>2, <5>1
      <4>3. QED
        BY <4>1, <4>2
    <3>3. /\ \A x \in M : x.type \in Exchanges => Ongoing(phase, x.type)
          /\ state_ = "kFlushing" =>
               /\ \A x \in M : x.type \in Exchanges => x.type = "Reset"
               /\ phase \in {"draining", "aborting", "destroyed"}
          /\ ~aborted /\ (state_ = "kFlushing" \/ \E a \in M : a.type \in Drains)
               => \A x \in M : x.type # "Reset"
      BY <1>1 DEF Exchanging, Lifecycle
    <3>4. done.type \in Drains /\ (state_ = "kFlushing" => Ongoing(phase, done.type))
      BY <2>5, <3>3 DEF Drains, Ongoing
    <3>5. \A x \in M4 : x.type \in Exchanges => Ongoing(phase, x.type)
      BY <3>1, <3>2, <3>3, <3>4
    <3>6. \A x \in M4 : x.type = "Reset" => x \in M
      BY <2>5, <3>2 DEF Exchanges
    <3>7. \A x \in M4 : x.type \in Drains => x \in M \/ state_ = "kFlushing"
      BY <3>1, <3>2 DEF Exchanges, Drains
    <3>8. QED
      BY <2>12, <3>1, <3>2, <3>3, <3>5, <3>6, <3>7 DEF Exchanging
  <2>18. Asking(InFlight)'
    <3>1. \A x \in M4 : x.type \notin Askings
      <4>1. \A x \in M1 \ M : x.type \notin Askings
        BY <2>1 DEF Askings
      <4>2. QED
        BY <2>13, <4>1
    <3>2. 1 \in PictureIds
      BY ConstantsAssumption DEF PictureIds
    <3>3. QED
      BY <2>3, <2>12, <3>1, <3>2 DEF Asking
  <2>19. Lifecycle'
    <3>1. /\ client_' /\ state_' \in {"kNormal", "kFlushing"}
          /\ state_' = "kFlushing" =>
               state_ = "kFlushing" /\ pending_output_samples_' # <<>>
      BY <1>3, <2>1, <2>3 DEF EndsFlush
    <3>2. ~buffering_' => buffered_picture_buffers_' = <<>>
      BY <2>1 DEF h2
    <3>3. phase' = phase
      BY DEF clientVars
    <3>4. state_ = "kFlushing" => phase \in {"draining", "aborting", "destroyed"}
      BY <1>1 DEF Lifecycle
    <3>5. QED
      BY <1>3, <3>1, <3>2, <3>3, <3>4 DEF Lifecycle, c
  <2>20. Blame'
    BY <1>1, <2>3, BlameKept DEF clientVars
  <2>21. QED
    BY <2>12, <2>14, <2>15, <2>16, <2>17, <2>18, <2>19, <2>20 DEF PipelineInv
<1>6. QED
  BY <1>4, <1>5 DEF ProcessPendingSamples, Presented

\* So does a step that changes neither the state of the decoder nor that of its
\* client, and starts no exchange and asks for nothing.
LEMMA QuietKeeps ==
  ASSUME TypeOK, PipelineInv,
         Ordered(notes, loop, buffered_picture_buffers_, Waiting, calls)',
         \A m \in InFlight' \ InFlight :
           /\ m.buf = 0 /\ m.id <= sent
           /\ m.type \notin Exchanges \cup Askings \cup {"PictureReady"},
         UNCHANGED <<state_, client_, output_picture_buffers_, available,
                     texture, pictures_requested_, phase, aborted, held, sent>>,
         Has(calls', "Initialize") <=> Has(calls, "Initialize"),
         Has(calls', "Destroy") => Has(calls, "Destroy"),
         state_ = "deleted" => calls' = <<>>,
         state_ = "kFlushing" => pending_output_samples_' # <<>>,
         ~buffering_' => buffered_picture_buffers_' = <<>>,
         Blame'
  PROVE  PipelineInv'
<1>1. Exchanging(InFlight) /\ Asking(InFlight) /\ Lifecycle
  BY DEF PipelineInv
<1>2. Exchanging(InFlight)'
  <2>1. \A m \in InFlight' : m.type \in Exchanges => m \in InFlight
    OBVIOUS
  <2>2. \A m \in InFlight' : m.type \in Drains \cup {"Reset"} => m \in InFlight
    BY <2>1 DEF Drains, Exchanges
  <2>3. QED
    BY <1>1, <2>1, <2>2 DEF Exchanging
<1>3. Asking(InFlight)'
  BY <1>1 DEF Asking
<1>4. Lifecycle'
  BY <1>1 DEF Lifecycle
<1>5. \A p \in held : p.buf # 0
  BY DEF TypeOK, Message, OfBuffer
<1>6. QED
  BY <1>2, <1>3, <1>4, <1>5, MoveKeeps

\* A call leaves its channel.
LEMMA CallTaken ==
  ASSUME TypeOK, NEW call, Handles(call)
  PROVE  /\ calls # <<>> /\ loop # <<>> /\ calls' = Tail(calls)
         /\ Head(calls).type = call /\ Head(calls) \in Message(Calls)
         /\ Tail(loop) \in Seq(Message(Tasks))
         /\ calls' \in Seq(Message(Calls))
         /\ Elems(calls) = {Head(calls)} \cup Elems(calls')
         /\ inputs_copy = <<>> /\ inputs_copy' = <<>>
         /\ UNCHANGED clientVars
<1>1. /\ calls # <<>> /\ loop # <<>> /\ calls' = Tail(calls)
      /\ Head(calls).type = call
      /\ inputs_copy = <<>> /\ inputs_copy' = <<>> /\ UNCHANGED clientVars
  BY DEF Handles, Runs, Idle
<1>2. calls \in Seq(Message(Calls)) /\ loop \in Seq(Message(Tasks))
  BY DEF TypeOK
<1>3. QED
  BY <1>1, <1>2, SeqTypes, ElemsRules

-----------------------------------------------------------------------------
(***************************************************************************)
(* Decoding an input.                                                      *)
(***************************************************************************)

\* The input i is one of those that wait, and without it the others wait in
\* the same order.
LEMMA FramesDrop ==
  ASSUME NEW v \in Seq(Inputs), NEW u \in Seq(Inputs), NEW i \in Inputs
  PROVE  LET frame == [type |-> "Decode", buf |-> 0, id |-> i]
             w     == v \o (<<i>> \o u)
         IN  /\ w \in Seq(Inputs) /\ v \o u \in Seq(Inputs)
             /\ frame \in Elems(Frames(w))
             /\ Elems(Frames(v \o u)) \subseteq Elems(Frames(w))
             /\ Elems(Frames(u)) \subseteq Elems(Frames(w))
             /\ Chain(Frames(w)) =>
                  Chain(Frames(v \o u)) /\ Chain(Frames(u))
<1> DEFINE frame == [type |-> "Decode", buf |-> 0, id |-> i]
           t == <<i>> \o u
           w == v \o t
<1>1. <<i>> \in Seq(Inputs) /\ t \in Seq(Inputs)
      /\ w \in Seq(Inputs) /\ v \o u \in Seq(Inputs)
  BY SeqTypes
<1>2. Frames(<<i>>) = <<frame>> /\ Elems(<<frame>>) = {frame}
  BY FrameTypes, ElemsRules
<1>3. /\ Elems(Frames(t)) = Elems(Frames(<<i>>)) \cup Elems(Frames(u))
      /\ Chain(Frames(t)) => Chain(Frames(u))
  BY <1>1, FramesParts
<1> HIDE DEF t
<1>4. /\ Elems(Frames(w)) = Elems(Frames(v)) \cup Elems(Frames(t))
      /\ Chain(Frames(w)) => Chain(Frames(v)) /\ Chain(Frames(t))
      /\ Chain(Frames(w)) =>
           \A a \in Elems(Frames(v)), b \in Elems(Frames(t)) : MayPrecede(a, b)
  <2>1. /\ Frames(v) \in Seq(Messages) /\ Frames(t) \in Seq(Messages)
        /\ Frames(v \o t) = Frames(v) \o Frames(t)
    BY <1>1, FrameTypes
  <2>2. Chain(Frames(v) \o Frames(t)) =>
          \A a \in Elems(Frames(v)), b \in Elems(Frames(t)) : MayPrecede(a, b)
    BY <2>1, ChainConcat
  <2>3. /\ Elems(Frames(v \o t)) = Elems(Frames(v)) \cup Elems(Frames(t))
        /\ Chain(Frames(v \o t)) => Chain(Frames(v)) /\ Chain(Frames(t))
    BY <1>1, FramesParts
  <2>4. QED
    BY <2>1, <2>2, <2>3
<1>5. Elems(Frames(v \o u)) = Elems(Frames(v)) \cup Elems(Frames(u))
  BY FramesParts
<1>6. ASSUME Chain(Frames(w)) PROVE Chain(Frames(v \o u)) /\ Chain(Frames(u))
  <2>1. /\ Chain(Frames(v)) /\ Chain(Frames(u))
        /\ \A a \in Elems(Frames(v)), b \in Elems(Frames(u)) : MayPrecede(a, b)
    BY <1>3, <1>4, <1>6
  <2>2. /\ Frames(v) \in Seq(Messages) /\ Frames(u) \in Seq(Messages)
        /\ Frames(v \o u) = Frames(v) \o Frames(u)
    BY FrameTypes
  <2>3. Chain(Frames(v) \o Frames(u))
    BY <2>1, <2>2, ChainConcat
  <2>4. QED
    BY <2>1, <2>2, <2>3
<1>7. QED
  <2>1. frame \in Elems(Frames(w))
    BY <1>2, <1>3, <1>4
  <2> HIDE DEF frame
  <2>2. QED
    BY <1>1, <1>3, <1>4, <1>5, <1>6, <2>1 DEF t, frame

\* The input i is taken out of the call or of the copy that brought it, and
\* stands in the pipeline behind the inputs that were there before it.
TakesInput(rest, i) ==
  LET w == (pending_output_samples_ \o pending_input_buffers_)
             \o (<<i>> \o inputs_copy')
  IN  /\ Ordered(notes, rest, buffered_picture_buffers_, w, calls')
      /\ Flight(notes, rest, buffered_picture_buffers_, w, calls')
           \subseteq InFlight
      /\ Elems(calls') \subseteq Elems(calls)
      /\ Has(calls', "Initialize") <=> Has(calls, "Initialize")
      /\ state_ = "deleted" => calls' = <<>>
      /\ UNCHANGED clientVars

\* What DecodeInternal leaves alone when it presents nothing.
PresentsNothing(rest) ==
  /\ loop' = rest
  /\ buffering_' = (restart_ \/ buffering_)
  /\ UNCHANGED <<client_, state_, output_picture_buffers_, available, texture,
                 texture_dimensions_, buffered_picture_buffers_, notes,
                 pending_output_samples_, pictures_requested_>>

\* Where the inputs wait while one of them is decoded.
LEMMA TakenTypes ==
  ASSUME TypeOK, TypeOK', NEW i \in Inputs
  PROVE  /\ pending_output_samples_ \in Seq(Inputs)
         /\ pending_input_buffers_ \in Seq(Inputs)
         /\ inputs_copy' \in Seq(Inputs)
         /\ pending_output_samples_ \o pending_input_buffers_ \in Seq(Inputs)
         /\ (pending_output_samples_ \o pending_input_buffers_)
              \o (<<i>> \o inputs_copy') \in Seq(Inputs)
         /\ notes \in Seq(Messages) /\ buffered_picture_buffers_ \in Seq(Messages)
         /\ calls' \in Seq(Messages)
<1>1. /\ pending_output_samples_ \in Seq(Inputs)
      /\ pending_input_buffers_ \in Seq(Inputs)
      /\ inputs_copy' \in Seq(Inputs)
      /\ notes \in Seq(Messages) /\ buffered_picture_buffers_ \in Seq(Messages)
      /\ calls' \in Seq(Messages)
  BY PartTypes DEF TypeOK
<1>2. /\ pending_output_samples_ \o pending_input_buffers_ \in Seq(Inputs)
      /\ <<i>> \o inputs_copy' \in Seq(Inputs)
  BY <1>1, SeqTypes
<1>3. QED
  BY <1>1, <1>2, SeqTypes

\* The messages of a part of the pipeline, and the order within it.
LEMMA PartInFlight ==
  ASSUME NEW n \in Seq(Messages), NEW l \in Seq(Messages),
         NEW h \in Seq(Messages), NEW w \in Seq(Inputs),
         NEW c \in Seq(Messages), Ordered(n, l, h, w, c)
  PROVE  /\ Chain(l) /\ Chain(h) /\ Chain(Frames(w)) /\ Chain(c)
         /\ \A a \in Elems(n) \cup Elems(l) \cup Elems(h),
               b \in Elems(Frames(w)) : MayPrecede(a, b)
BY OrderedParts DEF PartsOrdered

\* An input that arrives too late, or cannot be decoded, is dropped.
LEMMA DecodeDrops ==
  ASSUME TypeOK, TypeOK', PipelineInv,
         NEW rest \in Seq(Message(Tasks)), NEW i \in Inputs,
         TakesInput(rest, i), PresentsNothing(rest),
         UNCHANGED pending_input_buffers_
  PROVE  PipelineInv'
<1> DEFINE h == buffered_picture_buffers_
           v == pending_output_samples_ \o pending_input_buffers_
           u == inputs_copy'
           w == v \o (<<i>> \o u)
           c == calls'
<1>1. /\ v \in Seq(Inputs) /\ u \in Seq(Inputs) /\ w \in Seq(Inputs)
      /\ notes \in Seq(Messages) /\ rest \in Seq(Messages)
      /\ h \in Seq(Messages) /\ c \in Seq(Messages)
  BY TakenTypes, PartTypes
<1>2. /\ Ordered(notes, rest, h, w, c)
      /\ Flight(notes, rest, h, w, c) \subseteq InFlight
  BY DEF TakesInput
<1>3. Waiting' = v \o u
  BY DEF Waiting, PresentsNothing
<1>4. loop' = rest /\ h' = h /\ notes' = notes
  BY DEF PresentsNothing
<1> HIDE DEF v, u, h, c
<1>5. Chain(rest) /\ Chain(h) /\ Chain(Frames(w)) /\ Chain(c)
  BY <1>1, <1>2, PartInFlight
<1>6. /\ v \o u \in Seq(Inputs)
      /\ Elems(Frames(v \o u)) \subseteq Elems(Frames(w))
      /\ Chain(Frames(v \o u))
  BY <1>1, <1>5, FramesDrop
<1>7. /\ Ordered(notes, rest, h, v \o u, c)
      /\ Flight(notes, rest, h, v \o u, c) \subseteq Flight(notes, rest, h, w, c)
  <2> DEFINE x == v \o u
             y == w
  <2>1. /\ x \in Seq(Inputs) /\ Chain(Frames(x)) /\ y \in Seq(Inputs)
        /\ Elems(Frames(x)) \subseteq Elems(Frames(y))
        /\ Ordered(notes, rest, h, y, c)
    BY <1>1, <1>2, <1>6
  <2> HIDE DEF x, y
  <2>2. /\ Ordered(notes, rest, h, x, c)
        /\ Flight(notes, rest, h, x, c) \subseteq Flight(notes, rest, h, y, c)
    BY <1>1, <1>5, <2>1, Drop, ZenonT(40)
  <2>3. QED
    BY <2>2 DEF x, y
<1>8. InFlight' = Flight(notes, rest, h, v \o u, c)
  BY <1>3, <1>4 DEF InFlight, c, h
<1>9. Ordered(notes, loop, buffered_picture_buffers_, Waiting, calls)'
  BY <1>3, <1>4, <1>7 DEF c, h
<1>10. InFlight' \subseteq InFlight
  BY <1>2, <1>7, <1>8
<1>11. Lifecycle /\ Blame
  BY DEF PipelineInv
<1>12. QED
  <2>1. \A m \in InFlight' \ InFlight :
          /\ m.buf = 0 /\ m.id <= sent
          /\ m.type \notin Exchanges \cup Askings \cup {"PictureReady"}
    BY <1>10
  <2>2. UNCHANGED <<state_, client_, output_picture_buffers_, available,
                    texture, pictures_requested_, phase, aborted, held, sent>>
    BY DEF PresentsNothing, TakesInput, clientVars
  <2>3. /\ Has(calls', "Initialize") <=> Has(calls, "Initialize")
        /\ Has(calls', "Destroy") => Has(calls, "Destroy")
        /\ state_ = "deleted" => calls' = <<>>
    BY HasElems DEF TakesInput
  <2>4. /\ state_ = "kFlushing" => pending_output_samples_' # <<>>
        /\ ~buffering_' => buffered_picture_buffers_' = <<>>
    BY <1>11 DEF PresentsNothing, Lifecycle
  <2>5. Blame'
    BY <1>4, <1>11, <2>2, BlameKept
  <2>6. QED
    BY <1>9, <2>1, <2>2, <2>3, <2>4, <2>5, QuietKeeps, ZenonT(40)

\* An input that must wait is the last of those that do.
LEMMA DecodeQueues ==
  ASSUME TypeOK, TypeOK', PipelineInv,
         NEW rest \in Seq(Message(Tasks)), NEW i \in Inputs,
         TakesInput(rest, i), PresentsNothing(rest),
         pending_input_buffers_' = Append(pending_input_buffers_, i)
  PROVE  PipelineInv'
<1> DEFINE p == pending_output_samples_
           q == pending_input_buffers_
           u == inputs_copy'
           w == (p \o q) \o (<<i>> \o u)
<1>1. p \in Seq(Inputs) /\ q \in Seq(Inputs) /\ u \in Seq(Inputs)
  BY TakenTypes
<1>2. Waiting' = w
  <2>1. Waiting' = (p \o Append(q, i)) \o u
    BY DEF Waiting, PresentsNothing
  <2> HIDE DEF p, q, u
  <2>2. (p \o Append(q, i)) \o u = (p \o q) \o (<<i>> \o u)
    <3> DEFINE e == <<i>>
    <3>1. e \in Seq(Inputs) /\ Append(q, i) = q \o e
      BY <1>1
    <3> HIDE DEF e
    <3>2. p \o (q \o e) = (p \o q) \o e
      BY <1>1, <3>1, InputConcat
    <3>3. ((p \o q) \o e) \o u = (p \o q) \o (e \o u)
      <4>1. p \o q \in Seq(Inputs)
        BY <1>1
      <4>2. QED
        BY <1>1, <3>1, <4>1, InputConcat
    <3>4. QED
      BY <3>1, <3>2, <3>3 DEF e
  <2>3. QED
    BY <2>1, <2>2
<1> HIDE DEF w
<1>3. /\ Ordered(notes, loop, buffered_picture_buffers_, Waiting, calls)'
      /\ InFlight' \subseteq InFlight
  BY <1>2 DEF TakesInput, PresentsNothing, InFlight, w
<1>4. Lifecycle /\ Blame
  BY DEF PipelineInv
<1>5. \A m \in InFlight' \ InFlight :
        /\ m.buf = 0 /\ m.id <= sent
        /\ m.type \notin Exchanges \cup Askings \cup {"PictureReady"}
  BY <1>3
<1>6. UNCHANGED <<state_, client_, output_picture_buffers_, available,
                  texture, pictures_requested_, phase, aborted, held, sent>>
  BY DEF PresentsNothing, TakesInput, clientVars
<1>7. /\ Has(calls', "Initialize") <=> Has(calls, "Initialize")
      /\ Has(calls', "Destroy") => Has(calls, "Destroy")
      /\ state_ = "deleted" => calls' = <<>>
  BY HasElems DEF TakesInput
<1>8. /\ state_ = "kFlushing" => pending_output_samples_' # <<>>
      /\ ~buffering_' => buffered_picture_buffers_' = <<>>
  BY <1>4 DEF PresentsNothing, Lifecycle
<1>9. Blame'
  BY <1>4, <1>6, BlameKept DEF PresentsNothing
<1>10. QED
  BY <1>3, <1>5, <1>6, <1>7, <1>8, <1>9, QuietKeeps, ZenonT(40)

\* If the surface for an input cannot be made, the decoder stops.
LEMMA DecodeStops ==
  ASSUME TypeOK, TypeOK', PipelineInv, state_ # "kUninitialized",
         NEW rest \in Seq(Message(Tasks)), NEW i \in Inputs,
         TakesInput(rest, i), StopOnError(rest, "PlatformFailure"),
         buffering_' = (restart_ \/ buffering_)
  PROVE  PipelineInv'
<1> DEFINE v == pending_output_samples_ \o pending_input_buffers_
           u == inputs_copy'
           w == v \o (<<i>> \o u)
<1>1. /\ v \in Seq(Inputs) /\ u \in Seq(Inputs) /\ w \in Seq(Inputs)
      /\ notes \in Seq(Messages) /\ rest \in Seq(Messages)
      /\ buffered_picture_buffers_ \in Seq(Messages)
      /\ calls' \in Seq(Messages)
  BY TakenTypes, PartTypes
<1>2. /\ Ordered(notes, rest, buffered_picture_buffers_, w, calls')
      /\ Flight(notes, rest, buffered_picture_buffers_, w, calls')
           \subseteq InFlight
      /\ Elems(calls') \subseteq Elems(calls)
      /\ Has(calls', "Initialize") <=> Has(calls, "Initialize")
      /\ UNCHANGED clientVars
  BY DEF TakesInput
<1> HIDE DEF v
<1>3. /\ Chain(Frames(inputs_copy'))
      /\ Elems(Frames(inputs_copy')) \subseteq Elems(Frames(w))
  <2>1. Chain(Frames(w))
    <3> HIDE DEF w
    <3>1. QED
      BY <1>1, <1>2, PartInFlight
  <2> HIDE DEF u
  <2>2. /\ Chain(Frames(u)) /\ Elems(Frames(u)) \subseteq Elems(Frames(w))
    BY <1>1, <2>1, FramesDrop
  <2>3. QED
    BY <2>2 DEF u
<1>4. Lifecycle
  BY DEF PipelineInv
<1>5. ~Has(calls', "Initialize")
  BY <1>2, <1>4 DEF Lifecycle
<1>6. buffering_' \/ buffered_picture_buffers_ = <<>>
  BY <1>4 DEF Lifecycle
<1>7. "PlatformFailure" \in Errors /\ Reported("PlatformFailure", InFlight)
  BY DEF Errors, Reported
<1> HIDE DEF w
<1>8. QED
  BY <1>1, <1>2, <1>3, <1>5, <1>6, <1>7, StopKeeps, ZenonT(40)

\* An input that is decoded was sent, and no ResetDone is ahead of it.
LEMMA InputTaken ==
  ASSUME TypeOK, TypeOK', PipelineInv,
         NEW rest \in Seq(Message(Tasks)), NEW i \in Inputs,
         TakesInput(rest, i), ~MustQueue
  PROVE  /\ pending_output_samples_ = <<>> /\ pending_input_buffers_ = <<>>
         /\ Ordered(notes, rest, buffered_picture_buffers_,
                    <<i>> \o inputs_copy', calls')
         /\ Flight(notes, rest, buffered_picture_buffers_,
                   <<i>> \o inputs_copy', calls') \subseteq InFlight
         /\ i <= sent
         /\ \A x \in Flight(notes, rest, buffered_picture_buffers_,
                            <<i>> \o inputs_copy', calls') :
              x.type # "ResetDone"
<1> DEFINE u == inputs_copy'
           w == <<i>> \o u
           frame == [type |-> "Decode", buf |-> 0, id |-> i]
           M == Flight(notes, rest, buffered_picture_buffers_, w, calls')
<1>1. pending_output_samples_ = <<>> /\ pending_input_buffers_ = <<>>
  BY DEF MustQueue
<1>2. /\ u \in Seq(Inputs) /\ <<i>> \in Seq(Inputs) /\ w \in Seq(Inputs)
      /\ <<>> \in Seq(Inputs)
      /\ notes \in Seq(Messages) /\ rest \in Seq(Messages)
      /\ buffered_picture_buffers_ \in Seq(Messages)
      /\ calls' \in Seq(Messages) /\ calls' \in Seq(Message(Calls))
  BY TakenTypes, PartTypes, SeqTypes DEF TypeOK
<1>3. (pending_output_samples_ \o pending_input_buffers_) \o w = w
  <2> HIDE DEF w
  <2>1. QED
    BY <1>1, <1>2
<1>4. /\ Ordered(notes, rest, buffered_picture_buffers_, w, calls')
      /\ M \subseteq InFlight
  BY <1>3 DEF TakesInput
<1>5. frame \in Elems(Frames(w))
  <2>1. Frames(<<i>>) = <<frame>> /\ Elems(<<frame>>) = {frame}
    BY FrameTypes, ElemsRules
  <2>2. QED
    BY <1>2, <2>1, FramesParts
<1>6. i <= sent
  <2>1. frame \in InFlight
    BY <1>4, <1>5 DEF Flight
  <2>2. QED
    BY <2>1 DEF PipelineInv, Numbered
<1>7. ASSUME NEW x \in M PROVE x.type # "ResetDone"
  <2> HIDE DEF w
  <2>1. CASE x \in Elems(notes) \cup Elems(rest)
                     \cup Elems(buffered_picture_buffers_)
    <3>1. MayPrecede(x, frame)
      BY <1>2, <1>4, <1>5, <2>1, PartInFlight
    <3>2. QED
      BY <3>1 DEF MayPrecede
  <2>2. CASE x \in Elems(Frames(w))
    BY <1>2, <2>2, FrameElems
  <2>3. CASE x \in Elems(calls')
    <3>1. x.type \in Calls
      BY <1>2, <2>3, PartTypes
    <3>2. QED
      BY <3>1 DEF Calls
  <2>4. QED
    BY <1>7, <2>1, <2>2, <2>3 DEF Flight
<1>8. QED
  BY <1>1, <1>4, <1>6, <1>7

\* An input is decoded and its picture presented.
LEMMA DecodePresents ==
  ASSUME TypeOK, TypeOK', PipelineInv,
         NEW rest \in Seq(Message(Tasks)), NEW i \in Inputs,
         TakesInput(rest, i), ~MustQueue,
         state_ = "kNormal", output_picture_buffers_ # {}, surface' = i,
         ProcessPendingSamples(rest, Append(pending_output_samples_, i),
                               restart_ \/ buffering_, output_picture_buffers_,
                               available, <<Decoded(i)>>)
  PROVE  PipelineInv'
<1> DEFINE samples == <<i>>
           buffering == restart_ \/ buffering_
           u == inputs_copy'
           M == Flight(notes, rest, buffered_picture_buffers_,
                       samples \o u, calls')
           ack == <<Decoded(i)>>
<1>1. /\ pending_output_samples_ = <<>> /\ pending_input_buffers_ = <<>>
      /\ Ordered(notes, rest, buffered_picture_buffers_, samples \o u, calls')
      /\ M \subseteq InFlight /\ i <= sent
      /\ \A x \in M : x.type # "ResetDone"
  BY InputTaken, ZenonT(30)
<1>2. /\ Asking(InFlight) /\ Lifecycle /\ Owned(InFlight \cup held, available, texture)
  BY DEF PipelineInv
<1>3. client_ /\ output_picture_buffers_ = PictureIds
  BY <1>2 DEF Lifecycle, Asking
<1>4. pictures_requested_ /\ \A x \in InFlight : x.type \notin Askings
  BY <1>2, <1>3 DEF Asking, TypeOK
<1>5. /\ samples \in Seq(Inputs) /\ Len(samples) <= 1
      /\ samples # <<>> => samples[1] = surface'
      /\ Append(pending_output_samples_, i) = samples
  BY <1>1
<1>6. u \in Seq(Inputs) /\ pending_input_buffers_ \o u = u
  <2>1. u \in Seq(Inputs)
    BY DEF TypeOK
  <2> HIDE DEF u
  <2>2. QED
    BY <1>1, <2>1
<1>7. buffering \in BOOLEAN /\ available \in SUBSET PictureIds
  BY DEF TypeOK
<1>8. ack \in {<<>>, <<Decoded(i)>>}
  OBVIOUS
<1>9. ProcessPendingSamples(rest, samples, buffering, PictureIds, available, ack)
  BY <1>3, <1>5
<1>10. UNCHANGED clientVars /\ Elems(calls') \subseteq Elems(calls)
  BY DEF TakesInput
<1>11. Owned(M \cup held, available, texture)
  <2> HIDE DEF M
  <2>1. QED
    BY <1>1, <1>2 DEF Owned
<1>12. ack # <<>> => /\ i \in Inputs /\ i <= sent
                     /\ \A x \in M : x.type # "ResetDone"
  BY <1>1
<1>13. \A x \in M : x.type \notin Askings
  BY <1>1, <1>4
<1>14. buffering \/ buffered_picture_buffers_ = <<>>
  BY <1>2 DEF Lifecycle
<1>15. state_ \in {"kNormal", "kFlushing"}
  OBVIOUS
<1>16. M = Flight(notes, rest, buffered_picture_buffers_, samples \o u, calls')
  OBVIOUS
<1> HIDE DEF M, ack, samples, buffering
<1>17. u = pending_input_buffers_ \o inputs_copy'
  BY <1>6
<1> HIDE DEF u
<1>18. QED
  BY <1>1, <1>4, <1>5, <1>7, <1>8, <1>9, <1>10, <1>11, <1>12, <1>13, <1>14,
     <1>15, <1>16, <1>17, ProcessPendingSamplesKeeps, ZenonT(60)

\* An input is decoded before there are picture buffers: its sample waits, and
\* picture buffers are asked for unless they already were.
LEMMA DecodeRequests ==
  ASSUME TypeOK, TypeOK', PipelineInv,
         NEW rest \in Seq(Message(Tasks)), NEW i \in Inputs,
         TakesInput(rest, i), ~MustQueue,
         state_ = "kNormal", output_picture_buffers_ = {},
         pending_output_samples_' = Append(pending_output_samples_, i),
         pictures_requested_' = TRUE,
         loop' = rest \o (IF pictures_requested_ THEN <<>>
                          ELSE <<Msg("ProvidePictureBuffers")>>)
                      \o <<Decoded(i)>>,
         buffering_' = (restart_ \/ buffering_),
         UNCHANGED <<client_, state_, output_picture_buffers_, available,
                     texture, buffered_picture_buffers_, notes,
                     pending_input_buffers_>>
  PROVE  PipelineInv'
<1> DEFINE h == buffered_picture_buffers_
           w == <<i>> \o inputs_copy'
           c == calls'
           M == Flight(notes, rest, h, w, c)
           want == Msg("ProvidePictureBuffers")
           ask == IF pictures_requested_ THEN <<>> ELSE <<want>>
           l1 == rest \o ask
           M1 == Flight(notes, l1, h, w, c)
           done == Decoded(i)
           ack == <<done>>
           l2 == l1 \o ack
           M2 == Flight(notes, l2, h, w, c)
<1>1. /\ pending_output_samples_ = <<>> /\ pending_input_buffers_ = <<>>
      /\ Ordered(notes, rest, h, w, c)
      /\ M \subseteq InFlight /\ i <= sent
      /\ \A x \in M : x.type # "ResetDone"
  BY InputTaken, ZenonT(30)
<1>2. /\ notes \in Seq(Message(Notes \cup Errors)) /\ h \in Seq(Messages)
      /\ w \in Seq(Inputs) /\ c \in Seq(Messages)
  BY TakenTypes, PartTypes, SeqTypes DEF TypeOK
<1>3. /\ want \in Message(Tasks) /\ done \in Message(Tasks)
      /\ want.buf = 0 /\ want.type = "ProvidePictureBuffers" /\ want.id = 0
      /\ done.buf = 0 /\ done.type = "EndOfBitstreamBuffer" /\ done.id = i
  BY MessageTypes DEF Tasks, Notes, OfBuffer, OfInput, Msg, Decoded
<1>4. Asking(InFlight) /\ Exchanging(InFlight) /\ Lifecycle /\ Blame
  BY DEF PipelineInv
<1>5. Waiting' = w
  <2>1. Waiting' = (<<i>> \o <<>>) \o inputs_copy'
    BY <1>1 DEF Waiting
  <2>2. <<i>> \o <<>> = <<i>>
    OBVIOUS
  <2>3. QED
    BY <2>1, <2>2
<1>6. loop' = l2
  OBVIOUS
<1> HIDE DEF h, w, c, want, done
<1>7. /\ l1 \in Seq(Message(Tasks)) /\ Ordered(notes, l1, h, w, c)
      /\ \A x : x \in M1 <=> x \in M \/ x \in Elems(ask)
  <2>1. ~pictures_requested_ => Harmless(want, M)
    BY <1>1, <1>3, <1>4 DEF Harmless, Carriers, Exchanges, Asking
  <2>2. Posts(ask, want, M)
    BY <2>1 DEF Posts
  <2>3. QED
    <3> HIDE DEF ask
    <3>1. QED
      BY <1>1, <1>2, <1>3, <2>2, PostHarmless, ZenonT(30)
<1>8. Elems(ask) \subseteq {want} /\ Elems(ack) = {done}
  BY ElemsRules
<1>9. /\ l2 \in Seq(Message(Tasks)) /\ Ordered(notes, l2, h, w, c)
      /\ \A x : x \in M2 <=> x \in M1 \/ x \in Elems(ack)
  <2>1. \A x \in M1 : x.type # "ResetDone"
    BY <1>1, <1>3, <1>7, <1>8
  <2>2. Harmless(done, M1)
    BY <1>3, <2>1 DEF Harmless, Carriers, Exchanges, Askings
  <2>3. Posts(ack, done, M1)
    BY <2>2 DEF Posts
  <2>4. QED
    <3> HIDE DEF ack, l1
    <3>1. QED
      BY <1>2, <1>3, <1>7, <2>3, PostHarmless, ZenonT(30)
<1>10. InFlight' = M2 /\ Ordered(notes, loop, h, Waiting, calls)'
  BY <1>5, <1>6, <1>9 DEF InFlight, h, c
<1>11. \A x \in InFlight' \ InFlight : x = want \/ x = done
  BY <1>1, <1>7, <1>8, <1>9, <1>10
<1>12. \A x \in InFlight' \ InFlight :
         /\ x.buf = 0 /\ x.type # "PictureReady" /\ x.id <= sent
         /\ x.type \notin Exchanges
  <2>1. 0 <= sent
    BY ConstantsAssumption DEF TypeOK
  <2>2. want.type \notin Exchanges /\ done.type \notin Exchanges
    BY <1>3 DEF Exchanges
  <2>3. want.id <= sent /\ done.id <= sent
    BY <1>1, <1>3, <2>1
  <2>4. ASSUME NEW x, x = want \/ x = done
        PROVE  /\ x.buf = 0 /\ x.type # "PictureReady" /\ x.id <= sent
               /\ x.type \notin Exchanges
    BY <1>3, <2>2, <2>3, <2>4
  <2>5. QED
    BY <1>11, <2>4
<1>13. Exchanging(InFlight)'
  <2>1. \A x \in InFlight' : x.type \in Exchanges => x \in InFlight
    BY <1>12
  <2>2. \A x \in InFlight' : x.type \in Drains \cup {"Reset"} => x \in InFlight
    BY <2>1 DEF Drains, Exchanges
  <2>3. phase' = phase /\ aborted' = aborted /\ state_' = state_
    BY <1>4 DEF TakesInput, clientVars
  <2>4. QED
    BY <1>4, <2>1, <2>2, <2>3 DEF Exchanging
<1>14. Asking(InFlight)'
  BY <1>4, <1>12 DEF Asking, TakesInput, clientVars
<1>15. Lifecycle'
  <2>1. /\ Has(calls', "Initialize") <=> Has(calls, "Initialize")
        /\ Has(calls', "Destroy") => Has(calls, "Destroy")
    BY HasElems DEF TakesInput
  <2>2. phase' = phase
    BY DEF TakesInput, clientVars
  <2>3. QED
    BY <1>4, <2>1, <2>2 DEF Lifecycle
<1>16. Blame'
  BY <1>4, BlameKept DEF TakesInput, clientVars
<1>17. \A p \in held : p.buf # 0
  BY DEF TypeOK, Message, OfBuffer
<1>18. available' \subseteq available /\ UNCHANGED <<texture, held, sent>>
  BY DEF TakesInput, clientVars
<1>19. QED
  BY <1>10, <1>12, <1>13, <1>14, <1>15, <1>16, <1>17, <1>18, MoveKeeps DEF h

\* Decoding an input keeps the invariant.
LEMMA DecodeInternalKeeps ==
  ASSUME TypeOK, TypeOK', PipelineInv,
         NEW rest \in Seq(Message(Tasks)), NEW i \in Inputs,
         TakesInput(rest, i), DecodeInternal(rest, i)
  PROVE  PipelineInv'
<1>2. ASSUME PresentsNothing(rest), UNCHANGED pending_input_buffers_
      PROVE  PipelineInv'
  BY <1>2, DecodeDrops
<1>3. ASSUME PresentsNothing(rest),
             pending_input_buffers_' = Append(pending_input_buffers_, i)
      PROVE  PipelineInv'
  BY <1>3, DecodeQueues
<1>4. ASSUME StopOnError(rest, "PlatformFailure"), state_ # "kUninitialized",
             buffering_' = (restart_ \/ buffering_)
      PROVE  PipelineInv'
  BY <1>4, DecodeStops
<1>5. ~(state_ = "kFlushing" /\ ~MustQueue)
  BY DEF PipelineInv, Lifecycle, MustQueue
<1>6. ASSUME state_ = "kNormal", output_picture_buffers_ # {}, ~MustQueue,
             surface' = i,
             ProcessPendingSamples(rest, Append(pending_output_samples_, i),
                                   restart_ \/ buffering_,
                                   output_picture_buffers_, available,
                                   <<Decoded(i)>>)
      PROVE  PipelineInv'
  BY <1>6, DecodePresents
<1>7. ASSUME state_ = "kNormal", output_picture_buffers_ = {}, ~MustQueue,
             pending_output_samples_' = Append(pending_output_samples_, i),
             pictures_requested_' = TRUE,
             loop' = rest \o (IF pictures_requested_ THEN <<>>
                              ELSE <<Msg("ProvidePictureBuffers")>>)
                          \o <<Decoded(i)>>,
             buffering_' = (restart_ \/ buffering_),
             UNCHANGED <<client_, state_, output_picture_buffers_, available,
                         texture, buffered_picture_buffers_, notes,
                         pending_input_buffers_>>
      PROVE  PipelineInv'
  BY <1>7, DecodeRequests
<1>8. CASE state_ = "kUninitialized"
  BY <1>2, <1>8 DEF DecodeInternal, PresentsNothing
<1>9. CASE state_ # "kUninitialized" /\ MustQueue
  BY <1>3, <1>9 DEF DecodeInternal, PresentsNothing
<1>10. CASE state_ # "kUninitialized" /\ ~MustQueue
  <2>1. \/ PresentsNothing(rest) /\ UNCHANGED pending_input_buffers_
        \/ /\ StopOnError(rest, "PlatformFailure")
           /\ buffering_' = (restart_ \/ buffering_)
        \/ /\ state_ = "kNormal" /\ output_picture_buffers_ # {}
           /\ surface' = i
           /\ ProcessPendingSamples(rest, Append(pending_output_samples_, i),
                                    restart_ \/ buffering_,
                                    output_picture_buffers_, available,
                                    <<Decoded(i)>>)
        \/ /\ state_ = "kNormal" /\ output_picture_buffers_ = {}
           /\ pending_output_samples_' = Append(pending_output_samples_, i)
           /\ pictures_requested_' = TRUE
           /\ loop' = rest \o (IF pictures_requested_ THEN <<>>
                                ELSE <<Msg("ProvidePictureBuffers")>>)
                           \o <<Decoded(i)>>
           /\ buffering_' = (restart_ \/ buffering_)
           /\ UNCHANGED <<client_, state_, output_picture_buffers_, available,
                          texture, buffered_picture_buffers_, notes,
                          pending_input_buffers_>>
    BY <1>5, <1>10 DEF DecodeInternal, PresentsNothing
  <2>2. QED
    BY <1>2, <1>4, <1>6, <1>7, <1>10, <2>1
<1>11. QED
  BY <1>8, <1>9, <1>10

-----------------------------------------------------------------------------
(***************************************************************************)
(* The calls of the client.                                                *)
(***************************************************************************)

\* The pipeline without the task that runs and the call it handles.
Left == Flight(notes, Tail(loop), buffered_picture_buffers_, Waiting, calls')

\* The rest of the pipeline is in order, and the call was in its place.
LEMMA CallLeaves ==
  ASSUME TypeOK, PipelineInv, InitializeComesFirst, NEW call, Handles(call)
  PROVE  /\ Ordered(notes, Tail(loop), buffered_picture_buffers_, Waiting, calls')
         /\ Left \subseteq InFlight /\ Head(calls) \in InFlight
         /\ \A a \in Flight(notes, Tail(loop), buffered_picture_buffers_,
                            Waiting, <<>>) : MayPrecede(a, Head(calls))
         /\ \A b \in Elems(calls') : MayPrecede(Head(calls), b)
         /\ Elems(calls') \subseteq Elems(calls)
         /\ ~Has(calls', "Initialize")
         /\ call # "Initialize" => ~Has(calls, "Initialize")
<1> DEFINE h == buffered_picture_buffers_
           w == Waiting
           rest == Tail(loop)
<1>1. /\ notes \in Seq(Messages) /\ loop \in Seq(Messages)
      /\ h \in Seq(Messages) /\ calls \in Seq(Messages) /\ w \in Seq(Inputs)
  BY PartTypes, SeqTypes DEF TypeOK, Waiting
<1>2. /\ calls # <<>> /\ loop # <<>> /\ calls' = Tail(calls)
      /\ Head(calls).type = call
      /\ Elems(calls) = {Head(calls)} \cup Elems(calls')
  BY CallTaken
<1>3. Ordered(notes, loop, h, w, calls)
  BY DEF PipelineInv
<1> HIDE DEF h, w
<1>4. /\ rest \in Seq(Messages)
      /\ Ordered(notes, rest, h, w, calls)
      /\ Flight(notes, loop, h, w, calls)
           = {Head(loop)} \cup Flight(notes, rest, h, w, calls)
  BY <1>1, <1>2, <1>3, TakeTask, SMTT(30)
<1> HIDE DEF rest
<1>5. /\ Ordered(notes, rest, h, w, Tail(calls))
      /\ Flight(notes, rest, h, w, calls)
           = {Head(calls)} \cup Flight(notes, rest, h, w, Tail(calls))
      /\ \A a \in Flight(notes, rest, h, w, <<>>) : MayPrecede(a, Head(calls))
      /\ \A b \in Elems(Tail(calls)) : MayPrecede(Head(calls), b)
  BY <1>1, <1>2, <1>4, TakeCall, SMTT(30)
<1>6. Left \subseteq InFlight /\ Head(calls) \in InFlight
  BY <1>2, <1>4, <1>5 DEF Left, InFlight, h, w, rest
<1>7. ~Has(calls', "Initialize") /\ (call # "Initialize" => ~Has(calls, "Initialize"))
  <2>1. CASE ~Has(calls, "Initialize")
    BY <1>2, <2>1, HasElems
  <2>2. CASE Has(calls, "Initialize")
    <3>1. Len(calls) = 1
      BY <2>2 DEF InitializeComesFirst
    <3>2. calls' = <<>>
      BY <1>1, <1>2, <3>1
    <3>3. calls[1].type = "Initialize" /\ Head(calls) = calls[1]
      BY <2>2, <3>1 DEF Has
    <3>4. ~Has(calls', "Initialize")
      BY <3>2, HasSingle
    <3>5. QED
      BY <1>2, <3>3, <3>4
  <2>3. QED
    BY <2>1, <2>2
<1>8. QED
  BY <1>2, <1>5, <1>6, <1>7 DEF h, w, rest

\* A call that is refused, or fails for the platform.
LEMMA RefuseKeeps ==
  ASSUME TypeOK, TypeOK', PipelineInv, InitializeComesFirst,
         NEW call, Handles(call),
         NEW error \in Errors, StopOnError(Tail(loop), error),
         client_ => Reported(error, InFlight),
         buffering_' \/ buffered_picture_buffers_ = <<>>
  PROVE  PipelineInv'
<1> DEFINE rest == Tail(loop)
<1>1. rest \in Seq(Message(Tasks)) /\ inputs_copy' = <<>> /\ UNCHANGED clientVars
  BY CallTaken
<1>2. /\ Ordered(notes, rest, buffered_picture_buffers_, Waiting, calls')
      /\ Flight(notes, rest, buffered_picture_buffers_, Waiting, calls')
           \subseteq InFlight
      /\ Elems(calls') \subseteq Elems(calls)
      /\ ~Has(calls', "Initialize")
  BY CallLeaves DEF Left
<1>3. Waiting \in Seq(Inputs)
  BY SeqTypes DEF TypeOK, Waiting
<1>4. Frames(inputs_copy') = <<>>
  BY <1>1, FrameTypes
<1>5. /\ Chain(Frames(inputs_copy'))
      /\ Elems(Frames(inputs_copy')) \subseteq Elems(Frames(Waiting))
  BY <1>4, ElemsRules, ChainRules
<1>6. StopOnError(rest, error)
  OBVIOUS
<1> HIDE DEF rest
<1>7. QED
  BY <1>1, <1>2, <1>3, <1>5, <1>6, StopKeeps, ZenonT(40)

\* A decoder that was not initialized does not tell its client.
LEMMA Unheard ==
  ASSUME TypeOK, PipelineInv, InitializeComesFirst,
         NEW call, Handles(call), call # "Initialize"
  PROVE  client_ => state_ \in {"kNormal", "kFlushing"}
<1>1. ~Has(calls, "Initialize")
  BY CallLeaves
<1>2. QED
  BY <1>1 DEF PipelineInv, Lifecycle, TypeOK

\* Decode.
LEMMA DecodeKeeps ==
  ASSUME TypeOK, TypeOK', PipelineInv, InitializeComesFirst, Decode
  PROVE  PipelineInv'
<1> DEFINE i == Head(calls).id
           h == buffered_picture_buffers_
           rest == Tail(loop)
           c == calls'
<1>0. Handles("Decode") /\ Lifecycle
  BY DEF Decode, PipelineInv
<1>1. CASE state_ = "kUninitialized" /\ Refuse("IllegalState")
  <2>1. ~client_ /\ "IllegalState" \in Errors
    BY <1>0, <1>1, Unheard DEF Errors
  <2>2. buffering_' \/ buffered_picture_buffers_ = <<>>
    BY <1>0, <1>1 DEF Refuse, Lifecycle
  <2>3. QED
    BY <1>0, <1>1, <2>1, <2>2, RefuseKeeps DEF Refuse
<1>2. CASE state_ # "kUninitialized" /\ DecodeInternal(rest, i)
  <2>1. /\ calls # <<>> /\ loop # <<>> /\ calls' = Tail(calls)
        /\ Head(calls) \in Message(Calls) /\ Head(calls).type = "Decode"
        /\ rest \in Seq(Message(Tasks)) /\ inputs_copy' = <<>>
        /\ inputs_copy = <<>> /\ UNCHANGED clientVars
        /\ Elems(calls) = {Head(calls)} \cup Elems(calls')
    BY <1>0, CallTaken
  <2>2. i \in Inputs /\ Head(calls) = [type |-> "Decode", buf |-> 0, id |-> i]
    BY <2>1, ConstantsAssumption DEF Message, OfBuffer, OfInput, Inputs
  <2>3. /\ notes \in Seq(Messages) /\ loop \in Seq(Messages)
        /\ h \in Seq(Messages) /\ calls \in Seq(Messages)
        /\ Waiting \in Seq(Inputs)
        /\ pending_output_samples_ \o pending_input_buffers_ \in Seq(Inputs)
    BY PartTypes, SeqTypes DEF TypeOK, Waiting
  <2>4. Ordered(notes, loop, h, Waiting, calls)
    BY DEF PipelineInv
  <2> HIDE DEF h, i
  <2>5. /\ rest \in Seq(Messages)
        /\ Ordered(notes, rest, h, Waiting, calls)
        /\ Flight(notes, loop, h, Waiting, calls)
             = {Head(loop)} \cup Flight(notes, rest, h, Waiting, calls)
    BY <2>1, <2>3, <2>4, TakeTask, SMTT(30)
  <2> HIDE DEF rest
  <2>6. /\ Ordered(notes, rest, h, Waiting \o <<i>>, Tail(calls))
        /\ Flight(notes, rest, h, Waiting \o <<i>>, Tail(calls))
             = Flight(notes, rest, h, Waiting, calls)
    BY <2>1, <2>2, <2>3, <2>5, QueueInput, SMTT(30)
  <2>7. (pending_output_samples_ \o pending_input_buffers_)
          \o (<<i>> \o inputs_copy') = Waiting \o <<i>>
    <3>1. Waiting = pending_output_samples_ \o pending_input_buffers_
      BY <2>1, <2>3 DEF Waiting
    <3>2. <<i>> \o inputs_copy' = <<i>>
      BY <2>1
    <3>3. QED
      BY <3>1, <3>2
  <2>8. /\ Ordered(notes, rest, h, (pending_output_samples_
             \o pending_input_buffers_) \o (<<i>> \o inputs_copy'), calls')
        /\ Flight(notes, rest, h, (pending_output_samples_
             \o pending_input_buffers_) \o (<<i>> \o inputs_copy'), calls')
             \subseteq InFlight
    BY <2>1, <2>5, <2>6, <2>7 DEF InFlight, h
  <2>9. Has(calls', "Initialize") <=> Has(calls, "Initialize")
    BY <1>0, CallLeaves
  <2>10. state_ = "deleted" => calls' = <<>>
    BY <1>0, <2>1 DEF Lifecycle
  <2>11. TakesInput(rest, i)
    BY <2>1, <2>8, <2>9, <2>10 DEF TakesInput, h
  <2>12. rest \in Seq(Message(Tasks)) /\ i \in Inputs /\ DecodeInternal(rest, i)
    BY <1>2, <2>1, <2>2
  <2>13. QED
    BY <2>11, <2>12, DecodeInternalKeeps
<1>3. QED
  BY <1>1, <1>2 DEF Decode

\* The next buffer of the copy is decoded.
LEMMA DecodeNextOfCopyKeeps ==
  ASSUME TypeOK, TypeOK', PipelineInv, DecodeNextOfCopy
  PROVE  PipelineInv'
<1> DEFINE i == Head(inputs_copy)
           u == inputs_copy'
           v == pending_output_samples_ \o pending_input_buffers_
<1>1. /\ inputs_copy # <<>> /\ u = Tail(inputs_copy)
      /\ DecodeInternal(loop, i) /\ calls' = calls /\ UNCHANGED clientVars
  BY DEF DecodeNextOfCopy
<1>2. /\ i \in Inputs /\ loop \in Seq(Message(Tasks))
      /\ inputs_copy = <<i>> \o u
  <2>1. i \in Inputs /\ inputs_copy \in Seq(Inputs) /\ loop \in Seq(Message(Tasks))
    BY <1>1, SeqTypes DEF TypeOK
  <2>2. QED
    BY <1>1, <2>1
<1>3. Waiting = v \o (<<i>> \o u)
  BY <1>2 DEF Waiting
<1>4. Lifecycle /\ Ordered(notes, loop, buffered_picture_buffers_, Waiting, calls)
  BY DEF PipelineInv
<1>5. TakesInput(loop, i)
  BY <1>1, <1>3, <1>4 DEF TakesInput, InFlight, Lifecycle
<1>6. QED
  BY <1>1, <1>2, <1>5, DecodeInternalKeeps

\* While a request is handled no other exchange goes on, but for a Flush and
\* the Reset sent behind it, and no other request for picture buffers.
LEMMA CallAlone ==
  ASSUME TypeOK, PipelineInv, InitializeComesFirst, NEW call, Handles(call)
  PROVE  /\ Left \subseteq Messages
         /\ call \in Exchanges =>
              /\ Ongoing(phase, call)
              /\ \A x \in Left : x.type \in Exchanges =>
                   \/ call = "Reset" /\ x.type = "FlushDone"
                   \/ call = "Flush" /\ x.type = "Reset"
              /\ state_ = "kFlushing" => call = "Reset"
         /\ call \in Askings => \A x \in Left : x.type \notin Askings
         /\ Head(calls).buf # 0 => \A x \in Left : x.buf # Head(calls).buf
<1>1. /\ \A a \in Flight(notes, Tail(loop), buffered_picture_buffers_,
                         Waiting, <<>>) : MayPrecede(a, Head(calls))
      /\ \A b \in Elems(calls') : MayPrecede(Head(calls), b)
      /\ Head(calls) \in InFlight
  BY CallLeaves
<1>2. Head(calls).type = call
  BY CallTaken
<1>3. ASSUME NEW x \in Left
      PROVE  MayPrecede(x, Head(calls)) \/ MayPrecede(Head(calls), x)
  BY <1>1, <1>3 DEF Left, Flight
<1>4. Left \subseteq Messages
  <2>1. /\ notes \in Seq(Messages) /\ Tail(loop) \in Seq(Messages)
        /\ buffered_picture_buffers_ \in Seq(Messages)
        /\ calls' \in Seq(Messages) /\ Waiting \in Seq(Inputs)
    BY CallTaken, PartTypes, SeqTypes DEF TypeOK, Waiting
  <2>2. QED
    BY <2>1, FlightTypes DEF Left
<1>5. Exchanging(InFlight)
  BY DEF PipelineInv
<1>6. ASSUME call \in Exchanges
      PROVE  /\ Ongoing(phase, call)
             /\ \A x \in Left : x.type \in Exchanges =>
                  \/ call = "Reset" /\ x.type = "FlushDone"
                  \/ call = "Flush" /\ x.type = "Reset"
             /\ state_ = "kFlushing" => call = "Reset"
  <2>1. Ongoing(phase, call) /\ (state_ = "kFlushing" => call = "Reset")
    BY <1>1, <1>2, <1>5, <1>6 DEF Exchanging
  <2>2. call \in Calls /\ Waiting \in Seq(Inputs)
    BY <1>2, CallTaken, SeqTypes DEF Message, Waiting, TypeOK
  <2>3. /\ \A x \in Elems(notes) \cup Elems(Tail(loop)) : x.type \notin Calls
        /\ \A x \in Elems(buffered_picture_buffers_) : x.type = "PictureReady"
        /\ \A x \in Elems(calls') : x.type \in Calls
    <3>1. /\ notes \in Seq(Message(Notes \cup Errors))
          /\ Tail(loop) \in Seq(Message(Tasks))
          /\ buffered_picture_buffers_ \in Seq(Message({"PictureReady"}))
          /\ calls' \in Seq(Message(Calls))
      BY CallTaken DEF TypeOK
    <3>2. Calls \cap (Notes \cup Errors \cup Tasks) = {}
      BY DEF Calls, Notes, Errors, Tasks
    <3>3. QED
      BY <3>1, <3>2, PartTypes
  <2>4. \A x \in Elems(Frames(Waiting)) : x.type = "Decode"
    <3> DEFINE w == Waiting
    <3>1. w \in Seq(Inputs)
      BY <2>2
    <3> HIDE DEF w
    <3>2. \A x \in Elems(Frames(w)) : x.type = "Decode"
      BY <3>1, FrameElems
    <3>3. QED
      BY <3>2 DEF w
  <2>5. ASSUME NEW x \in Left, x.type \in Exchanges
        PROVE  \/ call = "Reset" /\ x.type = "FlushDone"
               \/ call = "Flush" /\ x.type = "Reset"
    <3>1. CASE x \in Elems(calls')
      <4>1. MayPrecede(Head(calls), x) /\ x.type \in Calls
        BY <1>1, <2>3, <3>1
      <4>2. call \in Drains /\ x.type \in Resets
        BY <1>2, <1>6, <2>5, <4>1 DEF MayPrecede
      <4>3. QED
        BY <2>2, <4>1, <4>2 DEF Drains, Resets, Calls
    <3>2. CASE x \in Elems(notes) \cup Elems(Tail(loop))
      <4>1. MayPrecede(x, Head(calls)) /\ x.type \notin Calls
        BY <1>1, <2>3, <3>2 DEF Flight
      <4>2. x.type \in Drains /\ call \in Resets
        BY <1>2, <1>6, <2>5, <4>1 DEF MayPrecede
      <4>3. QED
        BY <2>2, <4>1, <4>2 DEF Drains, Resets, Calls
    <3>3. CASE x \in Elems(buffered_picture_buffers_) \cup Elems(Frames(Waiting))
      BY <2>3, <2>4, <2>5, <3>3 DEF Exchanges
    <3>4. QED
      BY <2>5, <3>1, <3>2, <3>3 DEF Left, Flight
  <2>6. QED
    BY <2>1, <2>5
<1>7. ASSUME call \in Askings PROVE \A x \in Left : x.type \notin Askings
  BY <1>2, <1>3, <1>7 DEF MayPrecede
<1>8. ASSUME Head(calls).buf # 0 PROVE \A x \in Left : x.buf # Head(calls).buf
  <2>1. ASSUME NEW x \in Left PROVE x.buf # Head(calls).buf
    BY <1>3, <1>8 DEF MayPrecede
  <2>2. QED
    BY <2>1
<1>9. QED
  BY <1>4, <1>6, <1>7, <1>8

\* A call that makes picture buffers available presents the sample that waits.
LEMMA HandlerPresents ==
  ASSUME TypeOK, TypeOK', SurfaceHoldsPendingSample, PipelineInv,
         InitializeComesFirst,
         NEW call, Handles(call), call # "Initialize",
         state_ # "kUninitialized", UNCHANGED surface,
         NEW free \in SUBSET PictureIds, Owned(Left \cup held, free, texture),
         pictures_requested_, \A x \in Left : x.type \notin Askings,
         ProcessPendingSamples(Tail(loop), pending_output_samples_, buffering_,
                               PictureIds, free, <<>>)
  PROVE  PipelineInv'
<1> DEFINE rest == Tail(loop)
           samples == pending_output_samples_
           v == pending_input_buffers_ \o inputs_copy'
<1>1. /\ rest \in Seq(Message(Tasks)) /\ UNCHANGED clientVars
      /\ inputs_copy = <<>> /\ inputs_copy' = <<>> /\ calls # <<>>
  BY CallTaken
<1>2. /\ Ordered(notes, rest, buffered_picture_buffers_, Waiting, calls')
      /\ Left = Flight(notes, rest, buffered_picture_buffers_, Waiting, calls')
      /\ Left \subseteq InFlight
      /\ Elems(calls') \subseteq Elems(calls)
  BY CallLeaves DEF Left
<1>3. samples \in Seq(Inputs) /\ pending_input_buffers_ \in Seq(Inputs)
  BY DEF TypeOK
<1>4. Waiting = samples \o v
  <2>1. Waiting = samples \o pending_input_buffers_
    <3>1. Waiting = (samples \o pending_input_buffers_) \o <<>>
      BY <1>1 DEF Waiting
    <3>2. samples \o pending_input_buffers_ \in Seq(Inputs)
      BY <1>3, SeqTypes
    <3> HIDE DEF samples
    <3>3. QED
      BY <3>1, <3>2
  <2>2. v = pending_input_buffers_
    BY <1>1, <1>3
  <2>3. QED
    BY <2>1, <2>2
<1>5. Len(samples) <= 1 /\ (samples # <<>> => samples[1] = surface')
  BY DEF SurfaceHoldsPendingSample
<1>6. buffering_ \in BOOLEAN
  BY DEF TypeOK
<1>7. Lifecycle
  BY DEF PipelineInv
<1>8. state_ \in {"kNormal", "kFlushing"}
  BY <1>1, <1>7 DEF Lifecycle, TypeOK
<1>9. buffering_ \/ buffered_picture_buffers_ = <<>>
  BY <1>7 DEF Lifecycle
<1>10. /\ Ordered(notes, rest, buffered_picture_buffers_, samples \o v, calls')
       /\ Left = Flight(notes, rest, buffered_picture_buffers_,
                        samples \o v, calls')
  BY <1>2, <1>4
<1>11. /\ ProcessPendingSamples(rest, samples, buffering_, PictureIds, free, <<>>)
       /\ v = pending_input_buffers_ \o inputs_copy'
  OBVIOUS
<1> DEFINE ack == <<>>
           i == 1
<1>12. /\ ack \in {<<>>, <<Decoded(i)>>}
       /\ ProcessPendingSamples(rest, samples, buffering_, PictureIds, free, ack)
       /\ ack # <<>> => /\ i \in Inputs /\ i <= sent
                        /\ \A x \in Left : x.type # "ResetDone"
  BY <1>11
<1> HIDE DEF rest, samples, v, ack, i
<1>13. QED
  BY <1>1, <1>2, <1>3, <1>5, <1>6, <1>8, <1>9, <1>10, <1>11, <1>12,
     ProcessPendingSamplesKeeps, ZenonT(60) DEF samples

\* AssignPictureBuffers.
LEMMA AssignPictureBuffersKeeps ==
  ASSUME TypeOK, TypeOK', SurfaceHoldsPendingSample, PipelineInv,
         InitializeComesFirst, AssignPictureBuffers
  PROVE  PipelineInv'
<1> DEFINE call == "AssignPictureBuffers"
<1>1. Handles(call) /\ call # "Initialize" /\ call \in Askings
  BY DEF AssignPictureBuffers, Askings
<1>2. /\ Lifecycle /\ Asking(InFlight)
      /\ "IllegalState" \in Errors /\ "PlatformFailure" \in Errors
  BY DEF PipelineInv, Errors
<1> HIDE DEF call
<1>3. CASE state_ = "kUninitialized" /\ Refuse("IllegalState")
  <2>1. ~client_
    BY <1>1, <1>3, Unheard
  <2>2. buffering_' \/ buffered_picture_buffers_ = <<>>
    BY <1>2, <1>3 DEF Refuse, Lifecycle
  <2>3. QED
    BY <1>1, <1>2, <1>3, <2>1, <2>2, RefuseKeeps DEF Refuse
<1>4. CASE Refuse("PlatformFailure")
  <2>1. buffering_' \/ buffered_picture_buffers_ = <<>>
    BY <1>2, <1>4 DEF Refuse, Lifecycle
  <2>2. Reported("PlatformFailure", InFlight)
    BY DEF Reported
  <2>3. QED
    BY <1>1, <1>2, <1>4, <2>1, <2>2, RefuseKeeps DEF Refuse
<1>5. CASE /\ state_ # "kUninitialized"
           /\ UNCHANGED <<restart_, stream_size, surface>>
           /\ ProcessPendingSamples(Tail(loop), pending_output_samples_,
                                    buffering_, PictureIds, PictureIds, <<>>)
  <2>1. calls # <<>> /\ Head(calls).type = call /\ Head(calls) \in InFlight
    BY <1>1, CallTaken, CallLeaves
  <2>2. client_
    BY <1>2, <1>5, <2>1 DEF Lifecycle, TypeOK
  <2>3. pictures_requested_ /\ output_picture_buffers_ = {}
    BY <1>1, <1>2, <2>1, <2>2 DEF Asking
  <2>4. held = {} /\ \A x \in InFlight : x.buf = 0
    BY <1>2, <2>2, <2>3 DEF Asking
  <2>5. \A x \in Left : x.type \notin Askings
    BY <1>1, CallAlone
  <2>6. \A x \in Left : x \in Messages /\ x.buf = 0
    BY <1>1, <2>4, CallAlone, CallLeaves
  <2>7. Owned(Left \cup held, PictureIds, texture)
    <3>1. \A x \in Left : x.buf = 0 /\ x.type # "PictureReady"
      BY <2>6, MessageParts DEF OfBuffer
    <3>2. QED
      BY <2>4, <3>1 DEF Owned
  <2>8. UNCHANGED surface /\ PictureIds \in SUBSET PictureIds
    BY <1>5
  <2>9. QED
    BY <1>1, <1>5, <2>3, <2>5, <2>7, <2>8, HandlerPresents
<1>6. QED
  BY <1>3, <1>4, <1>5 DEF AssignPictureBuffers

\* ReusePictureBuffer: the picture buffer returned is one the client was told of,
\* and nothing else in flight names it.
LEMMA ReusePictureBufferKeeps ==
  ASSUME TypeOK, TypeOK', SurfaceHoldsPendingSample, PipelineInv,
         InitializeComesFirst, ReusePictureBuffer
  PROVE  PipelineInv'
<1> DEFINE call == "ReusePictureBuffer"
           b == Head(calls).buf
<1>1. Handles(call) /\ call # "Initialize"
  BY DEF ReusePictureBuffer
<1>2. /\ Lifecycle /\ Asking(InFlight) /\ Blame
      /\ "IllegalState" \in Errors /\ "InvalidArgument" \in Errors
  BY DEF PipelineInv, Errors
<1>3. /\ calls # <<>> /\ loop # <<>> /\ Head(calls).type = call
      /\ Head(calls) \in Message(Calls) /\ Head(calls) \in InFlight
      /\ inputs_copy' = inputs_copy /\ UNCHANGED clientVars
  BY <1>1, CallTaken, CallLeaves
<1>4. b # 0 /\ b \in PictureIds
  BY <1>3, ConstantsAssumption DEF Message, OfBuffer, PictureIds
<1>5. /\ Left \subseteq InFlight /\ Elems(calls') \subseteq Elems(calls)
      /\ ~Has(calls', "Initialize") /\ ~Has(calls, "Initialize")
      /\ Ordered(notes, Tail(loop), buffered_picture_buffers_, Waiting, calls')
  BY <1>1, CallLeaves
<1>6. client_ => output_picture_buffers_ = PictureIds
  BY <1>2, <1>3, <1>4 DEF Asking
<1>7. state_ # "kUninitialized" => client_
  BY <1>2, <1>3 DEF Lifecycle, TypeOK
<1> HIDE DEF call
<1>8. CASE state_ = "kUninitialized" /\ Refuse("IllegalState")
  <2>1. ~client_
    BY <1>1, <1>8, Unheard
  <2>2. buffering_' \/ buffered_picture_buffers_ = <<>>
    BY <1>2, <1>8 DEF Refuse, Lifecycle
  <2>3. QED
    BY <1>1, <1>2, <1>8, <2>1, <2>2, RefuseKeeps DEF Refuse
<1>9. CASE /\ state_ # "kUninitialized" /\ output_picture_buffers_ = {}
           /\ loop' = Tail(loop)
           /\ UNCHANGED <<decoderVars, notes>>
  BY <1>4, <1>6, <1>7, <1>9
<1>10. CASE /\ state_ # "kUninitialized"
            /\ b \notin output_picture_buffers_
  BY <1>4, <1>6, <1>7, <1>10
<1>11. CASE /\ state_ # "kUninitialized" /\ b \in output_picture_buffers_
            /\ UNCHANGED <<restart_, stream_size, surface>>
            /\ ProcessPendingSamples(Tail(loop), pending_output_samples_,
                                     buffering_, output_picture_buffers_,
                                     available \cup {b}, <<>>)
  <2> DEFINE free == available \cup {b}
  <2>1. client_ /\ output_picture_buffers_ = PictureIds
    BY <1>6, <1>7, <1>11
  <2>2. pictures_requested_ /\ \A x \in InFlight : x.type \notin Askings
    BY <1>2, <1>11, <2>1 DEF Asking, TypeOK
  <2>3. \A x \in Left \cup held : x.buf # b
    <3>1. \A x \in Left : x.buf # b
      BY <1>1, <1>4, CallAlone
    <3>2. Apart(InFlight, held)
      BY DEF PipelineInv
    <3>3. \A p \in held : p.buf # b
      BY <1>3, <3>2 DEF Apart
    <3>4. QED
      BY <3>1, <3>3
  <2>4. Owned(Left \cup held, free, texture)
    <3>1. Owned(InFlight \cup held, available, texture)
      BY DEF PipelineInv
    <3>2. ASSUME NEW x \in Left \cup held
          PROVE  /\ x.buf # 0 => x.buf \notin free
                 /\ x.type = "PictureReady" => texture[x.buf] = x.id
      <4>1. x \in InFlight \cup held
        BY <1>5
      <4>2. /\ x.buf # 0 => x.buf \notin available
            /\ x.type = "PictureReady" => texture[x.buf] = x.id
        BY <3>1, <4>1, OwnedOne
      <4>3. QED
        BY <2>3, <4>2
    <3>3. QED
      <4> HIDE DEF free
      <4>1. QED
        BY <3>2 DEF Owned
  <2>5. \A x \in Left : x.type \notin Askings
    BY <1>5, <2>2
  <2>6. /\ UNCHANGED surface /\ free \in SUBSET PictureIds
        /\ ProcessPendingSamples(Tail(loop), pending_output_samples_,
                                 buffering_, PictureIds, free, <<>>)
    BY <1>4, <1>11, <2>1 DEF TypeOK
  <2> HIDE DEF free
  <2>7. QED
    BY <1>1, <1>11, <2>2, <2>4, <2>5, <2>6, HandlerPresents
<1>12. QED
  BY <1>8, <1>9, <1>10, <1>11 DEF ReusePictureBuffer

\* A request that meets a decoder in the wrong state comes too late, or is a
\* Reset that was sent during a drain because the factories were aborted.
LEMMA RequestRefused ==
  ASSUME TypeOK, TypeOK', PipelineInv, InitializeComesFirst,
         NEW call \in Exchanges, Handles(call), call # "Initialize",
         state_ # "kNormal", Refuse("IllegalState")
  PROVE  PipelineInv'
<1>1. Lifecycle /\ Exchanging(InFlight) /\ "IllegalState" \in Errors
  BY DEF PipelineInv, Errors
<1>2. Head(calls) \in InFlight /\ Head(calls).type = call
  BY CallLeaves, CallTaken
<1>3. client_ => Reported("IllegalState", InFlight)
  <2>1. SUFFICES ASSUME client_ PROVE Reported("IllegalState", InFlight)
    OBVIOUS
  <2>2. state_ = "kFlushing"
    BY <2>1, Unheard
  <2>3. /\ call = "Reset" /\ Ongoing(phase, call)
        /\ phase \in {"draining", "aborting", "destroyed"}
    BY <1>1, <2>2, CallAlone DEF Lifecycle
  <2>4. phase \in {"aborting", "destroyed"}
    BY <2>3 DEF Ongoing, Drains
  <2>5. /\ aborted \in BOOLEAN
        /\ ~aborted => \A x \in InFlight : x.type # "Reset"
        /\ \A x \in InFlight : x.type \in Exchanges => x.type = "Reset"
    BY <1>1, <2>2 DEF Exchanging, TypeOK
  <2>6. aborted
    BY <1>2, <2>3, <2>5
  <2>7. QED
    BY <2>4, <2>5, <2>6 DEF Reported
<1>4. buffering_' \/ buffered_picture_buffers_ = <<>>
  BY <1>1 DEF Refuse, Lifecycle
<1>5. QED
  BY <1>1, <1>3, <1>4, RefuseKeeps DEF Refuse

\* A handler posts its answer to itself.
LEMMA HandlerPosts ==
  ASSUME TypeOK, PipelineInv, InitializeComesFirst, NEW call, Handles(call),
         NEW m \in Message(Tasks), Harmless(m, Left),
         loop' = Append(Tail(loop), m),
         UNCHANGED <<notes, buffered_picture_buffers_, pending_output_samples_,
                     pending_input_buffers_>>
  PROVE  /\ Ordered(notes, loop, buffered_picture_buffers_, Waiting, calls)'
         /\ \A x \in InFlight' : x \in Left \/ x = m
<1> DEFINE rest == Tail(loop)
           t == <<m>>
           h == buffered_picture_buffers_
           w == Waiting
           c == calls'
<1>1. /\ rest \in Seq(Message(Tasks)) /\ inputs_copy = <<>> /\ inputs_copy' = <<>>
      /\ c \in Seq(Messages) /\ h \in Seq(Messages) /\ w \in Seq(Inputs)
      /\ notes \in Seq(Message(Notes \cup Errors))
  BY CallTaken, PartTypes, SeqTypes DEF TypeOK, Waiting
<1>2. Waiting' = w /\ h' = h
  BY <1>1 DEF Waiting
<1>3. Ordered(notes, rest, h, w, c) /\ Left = Flight(notes, rest, h, w, c)
  BY CallLeaves DEF Left
<1>4. loop' = rest \o t
  BY <1>1
<1>5. Posts(t, m, Left)
  BY DEF Posts
<1> HIDE DEF rest, h, w, c, t
<1>6. /\ Ordered(notes, rest \o t, h, w, c)
      /\ \A x : x \in Flight(notes, rest \o t, h, w, c)
                 <=> x \in Flight(notes, rest, h, w, c) \/ x \in Elems(t)
  BY <1>1, <1>3, <1>5, PostHarmless, ZenonT(30)
<1>7. InFlight' = Flight(notes, rest \o t, h, w, c)
  BY <1>2, <1>4 DEF InFlight, h, c
<1>8. Elems(t) = {m}
  BY ElemsRules DEF t
<1>9. QED
  BY <1>2, <1>3, <1>4, <1>6, <1>7, <1>8 DEF h, c

\* Flush.
LEMMA FlushKeeps ==
  ASSUME TypeOK, TypeOK', PipelineInv, InitializeComesFirst, Flush
  PROVE  PipelineInv'
<1> DEFINE call == "Flush"
           done == Msg("FlushDone")
<1>1. Handles(call) /\ call # "Initialize" /\ call \in Exchanges
  BY DEF Flush, Exchanges
<1>2. /\ Lifecycle /\ Asking(InFlight) /\ Blame
      /\ \A p \in held : p.buf # 0
  BY DEF PipelineInv, TypeOK, Message, OfBuffer
<1> HIDE DEF call
<1>3. /\ calls # <<>> /\ loop # <<>>
      /\ inputs_copy' = inputs_copy /\ UNCHANGED clientVars
  <2>1. inputs_copy' = <<>> /\ inputs_copy = <<>>
    BY <1>1, CallTaken
  <2>2. QED
    BY <1>1, <2>1, CallTaken
<1>4. /\ \A x \in Left : x.type \in Exchanges => x.type = "Reset"
      /\ Ongoing(phase, call)
  BY <1>1, CallAlone DEF call
<1>5. /\ Left \subseteq InFlight /\ Elems(calls') \subseteq Elems(calls)
      /\ ~Has(calls', "Initialize")
      /\ Ordered(notes, Tail(loop), buffered_picture_buffers_, Waiting, calls')
      /\ Head(calls) \in InFlight /\ Head(calls).type = "Flush"
  BY <1>1, CallLeaves, CallTaken DEF call
<1>6. Has(calls', "Destroy") => Has(calls, "Destroy")
  BY <1>5, HasElems
<1>7. CASE state_ # "kNormal" /\ Refuse("IllegalState")
  BY <1>1, <1>7, RequestRefused
<1>8. CASE /\ state_ = "kNormal"
           /\ IF pending_output_samples_ # <<>>
              THEN state_' = "kFlushing" /\ loop' = Tail(loop)
              ELSE loop' = Append(Tail(loop), done) /\ UNCHANGED state_
           /\ UNCHANGED <<client_, buffering_, pictures_requested_,
                          pending_output_samples_, pending_input_buffers_,
                          output_picture_buffers_, available, texture,
                          buffered_picture_buffers_, notes>>
  <2>1. done \in Message(Tasks) /\ done.buf = 0 /\ done.type = "FlushDone"
        /\ done.id = 0
    BY MessageTypes DEF Tasks, Notes, OfBuffer, OfInput, Msg
  <2> HIDE DEF done
  <2>2. /\ Ordered(notes, loop, buffered_picture_buffers_, Waiting, calls)'
        /\ \A x \in InFlight' : x \in Left \/ (state_' = "kNormal" /\ x = done)
    <3>1. CASE pending_output_samples_ # <<>>
      <4>1. Waiting' = Waiting
        BY <1>3, <1>8 DEF Waiting
      <4>2. QED
        BY <1>5, <1>8, <3>1, <4>1 DEF Left, InFlight
    <3>2. CASE pending_output_samples_ = <<>>
      <4>1. Harmless(done, Left)
        <5>1. client_
          BY <1>2, <1>8 DEF Lifecycle
        <5>2. \A x \in Left : x.type # "IllegalState"
          BY <1>2, <1>5, <5>1, NoBlame
        <5>3. QED
          BY <1>4, <2>1, <5>2 DEF Harmless, Carriers, Askings, Drains
      <4>2. /\ loop' = Append(Tail(loop), done) /\ state_' = "kNormal"
            /\ UNCHANGED <<notes, buffered_picture_buffers_,
                           pending_output_samples_, pending_input_buffers_>>
        BY <1>8, <3>2
      <4>3. /\ Ordered(notes, loop, buffered_picture_buffers_, Waiting, calls)'
            /\ \A x \in InFlight' : x \in Left \/ x = done
        BY <1>1, <2>1, <4>1, <4>2, HandlerPosts
      <4>4. QED
        BY <4>2, <4>3
    <3>3. QED
      BY <3>1, <3>2
  <2>3. \A m \in InFlight' \ InFlight :
          m.buf = 0 /\ m.type # "PictureReady" /\ m.id <= sent
    <3>1. 0 <= sent
      BY ConstantsAssumption DEF TypeOK
    <3>2. QED
      BY <1>5, <2>1, <2>2, <3>1
  <2>4. Exchanging(InFlight)'
    <3>1. phase' = phase /\ aborted' = aborted
      BY <1>3 DEF clientVars
    <3>2. Ongoing(phase, "FlushDone")
      <4>1. Ongoing(phase, "Flush")
        BY <1>4 DEF call
      <4>2. QED
        BY <4>1 DEF Ongoing, Drains, Resets
    <3>3. ~aborted => \A x \in InFlight : x.type # "Reset"
      BY <1>2, <1>5 DEF PipelineInv, Exchanging, Drains
    <3>4. \A x \in InFlight' : x.type \in Exchanges =>
            Ongoing(phase, x.type) /\ (state_' = "kFlushing" => x.type = "Reset")
      BY <1>4, <1>5, <2>1, <2>2, <3>2 DEF PipelineInv, Exchanging
    <3>5. ~aborted => \A x \in InFlight' : x.type # "Reset"
      BY <1>5, <2>1, <2>2, <3>3
    <3>6. QED
      BY <3>1, <3>4, <3>5 DEF Exchanging
  <2>5. Asking(InFlight)'
    <3>1. \A x \in InFlight' : x \in InFlight \/ (x.buf = 0 /\ x.type \notin Askings)
      BY <1>5, <2>1, <2>2 DEF Askings
    <3>2. QED
      BY <1>2, <1>3, <1>8, <3>1 DEF Asking, clientVars
  <2>6. Lifecycle'
    <3>1. client_ /\ phase' = phase
      BY <1>2, <1>3, <1>8 DEF Lifecycle, clientVars
    <3>2. state_' = "kNormal" \/ (state_' = "kFlushing" /\ pending_output_samples_' # <<>>)
      BY <1>8
    <3>3. phase \in {"draining", "aborting", "destroyed"}
      BY <1>4 DEF call, Ongoing, Drains, Resets
    <3>4. QED
      BY <1>2, <1>5, <1>6, <1>8, <3>1, <3>2, <3>3 DEF Lifecycle
  <2>7. Blame'
    BY <1>2, <1>3, <1>8, BlameKept DEF clientVars
  <2>8. available' \subseteq available /\ UNCHANGED <<texture, held, sent>>
    BY <1>3, <1>8 DEF clientVars
  <2>9. QED
    BY <1>2, <2>2, <2>3, <2>4, <2>5, <2>6, <2>7, <2>8, MoveKeeps
<1>9. QED
  BY <1>7, <1>8 DEF Flush

\* Initialize.
LEMMA InitializeKeeps ==
  ASSUME TypeOK, TypeOK', PipelineInv, InitializeComesFirst, Initialize
  PROVE  PipelineInv'
<1> DEFINE call == "Initialize"
           done == Msg("InitializeDone")
<1>1. Handles(call) /\ call \in Exchanges
  BY DEF Initialize, Exchanges
<1>2. /\ Lifecycle /\ Asking(InFlight) /\ Blame
      /\ \A p \in held : p.buf # 0
  BY DEF PipelineInv, TypeOK, Message, OfBuffer
<1>3. /\ calls # <<>> /\ loop # <<>> /\ Head(calls).type = call
      /\ inputs_copy' = <<>> /\ UNCHANGED clientVars
      /\ Elems(calls) = {Head(calls)} \cup Elems(calls')
  BY <1>1, CallTaken
<1>4. client_ /\ output_picture_buffers_ = {} /\ held = {}
  <2>1. Has(calls, "Initialize")
    BY <1>3, HasElems
  <2>2. QED
    BY <1>2, <2>1 DEF Lifecycle, InitializeComesFirst
<1>5. /\ \A x \in Left : x.type \notin Exchanges
      /\ Ongoing(phase, "Initialize")
  <2> HIDE DEF call
  <2>1. /\ Ongoing(phase, call)
        /\ \A x \in Left : x.type \in Exchanges => call \in {"Reset", "Flush"}
    BY <1>1, CallAlone
  <2>2. QED
    BY <2>1 DEF call
<1> HIDE DEF call
<1>6. /\ Left \subseteq InFlight /\ Elems(calls') \subseteq Elems(calls)
      /\ ~Has(calls', "Initialize")
      /\ Ordered(notes, Tail(loop), buffered_picture_buffers_, Waiting, calls')
  BY <1>1, CallLeaves
<1>7. Has(calls', "Destroy") => Has(calls, "Destroy")
  BY <1>6, HasElems
<1>8. buffered_picture_buffers_ = <<>>
  <2>1. SUFFICES ASSUME buffered_picture_buffers_ # <<>> PROVE FALSE
    OBVIOUS
  <2> DEFINE p == Head(buffered_picture_buffers_)
  <2>2. /\ buffered_picture_buffers_ \in Seq(Message({"PictureReady"}))
        /\ p \in Message({"PictureReady"})
        /\ p \in Elems(buffered_picture_buffers_)
    <3>1. buffered_picture_buffers_ \in Seq(Message({"PictureReady"}))
      BY DEF TypeOK
    <3>2. QED
      BY <2>1, <3>1, ElemsRules, SeqTypes
  <2> HIDE DEF p
  <2>3. p.buf # 0 /\ p \in InFlight
    BY <2>2 DEF Message, OfBuffer, InFlight, Flight
  <2>4. QED
    BY <1>2, <1>4, <2>3 DEF Asking
<1>9. CASE StopOnError(Tail(loop), "PlatformFailure")
  <2>1. "PlatformFailure" \in Errors /\ Reported("PlatformFailure", InFlight)
    BY DEF Errors, Reported
  <2>2. QED
    BY <1>1, <1>8, <1>9, <2>1, RefuseKeeps
<1>10. CASE /\ state_' = "kNormal"
            /\ loop' = Append(Tail(loop), done)
            /\ UNCHANGED <<client_, pictures_requested_,
                           pending_output_samples_, pending_input_buffers_,
                           output_picture_buffers_, available, texture,
                           buffered_picture_buffers_, notes>>
  <2>1. done \in Message(Tasks) /\ done.buf = 0 /\ done.type = "InitializeDone"
        /\ done.id = 0
    BY MessageTypes DEF Tasks, Notes, OfBuffer, OfInput, Msg
  <2> HIDE DEF done
  <2>2. /\ Ordered(notes, loop, buffered_picture_buffers_, Waiting, calls)'
        /\ \A x \in InFlight' : x \in Left \/ x = done
    <3>1. Harmless(done, Left)
      <4>1. \A x \in Left : x.type # "IllegalState"
        BY <1>2, <1>4, <1>6, NoBlame
      <4>2. QED
        BY <1>5, <2>1, <4>1 DEF Harmless, Carriers, Askings
    <3>2. /\ loop' = Append(Tail(loop), done)
          /\ UNCHANGED <<notes, buffered_picture_buffers_,
                         pending_output_samples_, pending_input_buffers_>>
      BY <1>10
    <3>3. QED
      BY <1>1, <2>1, <3>1, <3>2, HandlerPosts
  <2>3. \A m \in InFlight' \ InFlight :
          m.buf = 0 /\ m.type # "PictureReady" /\ m.id <= sent
    <3>1. 0 <= sent
      BY ConstantsAssumption DEF TypeOK
    <3>2. QED
      BY <1>6, <2>1, <2>2, <3>1
  <2>4. Exchanging(InFlight)'
    <3>1. phase' = phase /\ aborted' = aborted
      BY <1>3 DEF clientVars
    <3>2. Ongoing(phase, "InitializeDone")
      BY <1>5 DEF Ongoing, Drains, Resets
    <3>3. \A x \in InFlight' : /\ x.type \in Exchanges => x = done
                               /\ x.type \notin Drains
      BY <1>5, <2>1, <2>2 DEF Drains, Exchanges
    <3>4. QED
      BY <1>10, <2>1, <3>1, <3>2, <3>3 DEF Exchanging
  <2>5. Asking(InFlight)'
    <3>1. \A x \in InFlight' : x \in InFlight \/ (x.buf = 0 /\ x.type \notin Askings)
      BY <1>6, <2>1, <2>2 DEF Askings
    <3>2. QED
      BY <1>2, <1>3, <1>10, <3>1 DEF Asking, clientVars
  <2>6. Lifecycle'
    <3>1. phase' = phase
      BY <1>3 DEF clientVars
    <3>2. QED
      BY <1>2, <1>4, <1>6, <1>7, <1>8, <1>10, <3>1 DEF Lifecycle
  <2>7. Blame'
    BY <1>2, <1>3, <1>10, BlameKept DEF clientVars
  <2>8. available' \subseteq available /\ UNCHANGED <<texture, held, sent>>
    BY <1>3, <1>10 DEF clientVars
  <2>9. QED
    BY <1>2, <2>2, <2>3, <2>4, <2>5, <2>6, <2>7, <2>8, MoveKeeps
<1>11. QED
  BY <1>9, <1>10 DEF Initialize

\* Reset acknowledges the inputs it drops ahead of all that is still to come.
LEMMA SendDropped ==
  ASSUME NEW n \in Seq(Messages), NEW l \in Seq(Messages),
         NEW h \in Seq(Messages), NEW w \in Seq(Inputs),
         NEW c \in Seq(Messages), NEW d \in Seq(Messages),
         Ordered(n, l, h, w, c),
         \A m \in Elems(d) : m.type = "EndOfBitstreamBuffer" /\ m.buf = 0,
         \A a \in Elems(n) : a.type \notin {"ResetDone", "Destroy"}
  PROVE  Ordered(n \o d, l, h, w, c)
<1>1. PartsOrdered(n, l, h, w, c)
  BY OrderedParts
<1>2. n \o d \in Seq(Messages) /\ Elems(n \o d) = Elems(n) \cup Elems(d)
  BY SeqTypes, ElemsConcat
<1>3. \A x : \A m \in Elems(d) : MayPrecede(m, x)
  BY DEF MayPrecede, Carriers, Exchanges, Askings
<1>4. \A a \in Elems(n), m \in Elems(d) : MayPrecede(a, m)
  BY DEF MayPrecede, Carriers, Exchanges, Askings
<1>5. Chain(n \o d)
  <2>1. Chain(d)
    <3>1. ASSUME NEW j \in 1..Len(d), NEW k \in 1..Len(d)
          PROVE  MayPrecede(d[j], d[k])
      BY <1>3 DEF Elems
    <3>2. QED
      BY <3>1 DEF Chain
  <2>2. Chain(n)
    BY <1>1 DEF PartsOrdered
  <2>3. QED
    BY <1>4, <2>1, <2>2, ChainConcat
<1>6. PartsOrdered(n \o d, l, h, w, c)
  BY <1>1, <1>2, <1>3, <1>5 DEF PartsOrdered
<1>7. QED
  BY <1>2, <1>6, OrderedParts

\* Reset.
LEMMA ResetKeeps ==
  ASSUME TypeOK, TypeOK', PipelineInv, InitializeComesFirst, Reset
  PROVE  PipelineInv'
<1> DEFINE call == "Reset"
           done == Msg("ResetDone")
           rest == Tail(loop)
           d == NotifyInputBuffersDropped
           c == calls'
<1>1. Handles(call) /\ call # "Initialize" /\ call \in Exchanges
  BY DEF Reset, Exchanges
<1>2. /\ Lifecycle /\ Asking(InFlight) /\ Blame
      /\ \A p \in held : p.buf # 0
  BY DEF PipelineInv, TypeOK, Message, OfBuffer
<1>3. /\ calls # <<>> /\ loop # <<>> /\ Head(calls).type = "Reset"
      /\ inputs_copy' = <<>> /\ UNCHANGED clientVars
      /\ rest \in Seq(Message(Tasks)) /\ c \in Seq(Message(Calls))
  BY <1>1, CallTaken
<1>4. /\ \A x \in Left : x.type \in Exchanges => x.type = "FlushDone"
      /\ Ongoing(phase, "Reset") /\ Left \subseteq Messages
  <2> HIDE DEF call
  <2>1. /\ Ongoing(phase, call) /\ Left \subseteq Messages
        /\ \A x \in Left : x.type \in Exchanges =>
             \/ call = "Reset" /\ x.type = "FlushDone"
             \/ call = "Flush" /\ x.type = "Reset"
    BY <1>1, CallAlone
  <2>2. QED
    BY <2>1 DEF call
<1> HIDE DEF call, c
<1>5. /\ Left \subseteq InFlight /\ Elems(c) \subseteq Elems(calls)
      /\ ~Has(c, "Initialize")
      /\ Ordered(notes, rest, buffered_picture_buffers_, Waiting, c)
      /\ \A b \in Elems(c) : MayPrecede(Head(calls), b)
  BY <1>1, CallLeaves DEF c
<1>6. Has(c, "Destroy") => Has(calls, "Destroy")
  BY <1>5, HasElems
<1>7. CASE state_ # "kNormal" /\ Refuse("IllegalState")
  BY <1>1, <1>7, RequestRefused
<1>8. CASE /\ state_ = "kNormal"
           /\ pending_output_samples_' = <<>>
           /\ buffered_picture_buffers_' = <<>> /\ buffering_' = FALSE
           /\ notes' = notes \o d
           /\ pending_input_buffers_' = <<>>
           /\ loop' = Append(rest, done)
           /\ UNCHANGED <<state_, client_, pictures_requested_,
                          output_picture_buffers_, available, texture>>
  <2>1. /\ done \in Message(Tasks) /\ done \in Messages
        /\ done.buf = 0 /\ done.type = "ResetDone" /\ done.id = 0
    BY MessageTypes DEF Tasks, Notes, OfBuffer, OfInput, Msg, Messages
  <2> HIDE DEF done
  <2>2. /\ notes \in Seq(Messages) /\ rest \in Seq(Messages)
        /\ buffered_picture_buffers_ \in Seq(Messages)
        /\ c \in Seq(Messages) /\ Waiting \in Seq(Inputs)
        /\ <<>> \in Seq(Messages) /\ <<>> \in Seq(Inputs)
    BY <1>3, PartTypes, SeqTypes DEF TypeOK, Waiting
  <2>3. Waiting' = <<>>
    BY <1>3, <1>8 DEF Waiting
  <2>4. Frames(<<>>) = <<>> /\ Elems(<<>>) = {} /\ Chain(<<>>)
    BY FrameTypes, ElemsRules, ChainRules
  <2> HIDE DEF rest
  <2>5. Ordered(notes, rest, <<>>, <<>>, c)
    <3> DEFINE e == <<>>
               h == buffered_picture_buffers_
               w == Waiting
    <3>1. Chain(rest) /\ Chain(c)
      BY <1>5, <2>2, PartInFlight
    <3>2. /\ e \in Seq(Messages) /\ e \in Seq(Inputs)
          /\ Chain(e) /\ Chain(Frames(e))
          /\ Elems(e) \subseteq Elems(h)
          /\ Elems(Frames(e)) \subseteq Elems(Frames(w))
          /\ h \in Seq(Messages) /\ w \in Seq(Inputs)
          /\ Ordered(notes, rest, h, w, c)
      BY <1>5, <2>2, <2>4
    <3> HIDE DEF e, h, w
    <3>3. Ordered(notes, rest, e, e, c)
      BY <2>2, <3>1, <3>2, Drop, ZenonT(40)
    <3>4. QED
      BY <3>3 DEF e
  <2>6. /\ \A x \in Elems(notes) \cup Elems(rest) \cup Elems(c) : x \in Left
        /\ \A x \in Elems(notes) \cup Elems(rest) : x.type # "Destroy"
        /\ \A x \in Elems(c) : x.type \in Calls \ {"Decode"}
    <3>1. "Destroy" \notin Tasks /\ "Destroy" \notin Notes \cup Errors
      BY DEF Tasks, Notes, Errors
    <3>2. \A x \in Elems(c) : x.type \in Calls
      BY <1>3, PartTypes
    <3>3. \A x \in Elems(c) : x.type # "Decode"
      BY <1>3, <1>5 DEF MayPrecede
    <3>4. \A x \in Elems(rest) : x.type # "Destroy"
      BY <1>3, <3>1, PartTypes
    <3>5. \A x \in Elems(notes) : x.type # "Destroy"
      BY <3>1, PartTypes DEF TypeOK
    <3>6. QED
      BY <3>2, <3>3, <3>4, <3>5 DEF Left, Flight, c, rest
  <2>7. /\ Append(rest, done) \in Seq(Messages)
        /\ Ordered(notes, Append(rest, done), <<>>, <<>>, c)
        /\ Elems(Append(rest, done)) = Elems(rest) \cup {done}
    <3>1. \A a \in Elems(notes) \cup Elems(rest) : MayPrecede(a, done)
      BY <1>4, <2>1, <2>6 DEF MayPrecede, Carriers, Askings, Exchanges, Drains, Resets
    <3>2. \A b \in Elems(<<>>) \cup Elems(Frames(<<>>)) \cup Elems(c) :
            MayPrecede(done, b)
      <4>1. \A b \in Elems(c) : /\ b.type \notin Exchanges \cup {"IllegalState"}
                                /\ b.type \notin {"PictureReady", "Decode",
                                                  "EndOfBitstreamBuffer"}
        BY <1>4, <2>6 DEF Calls
      <4>2. \A b \in Elems(c) : MayPrecede(done, b)
        BY <2>1, <4>1 DEF MayPrecede, Carriers, Askings
      <4>3. QED
        BY <2>4, <4>2
    <3> DEFINE e == <<>>
    <3>3. /\ e \in Seq(Messages) /\ e \in Seq(Inputs)
          /\ Ordered(notes, rest, e, e, c)
          /\ \A b \in Elems(e) \cup Elems(Frames(e)) \cup Elems(c) :
               MayPrecede(done, b)
      BY <2>2, <2>5, <3>2
    <3> HIDE DEF e
    <3>4. Append(rest, done) \in Seq(Messages)
          /\ Ordered(notes, Append(rest, done), e, e, c)
      BY <2>1, <2>2, <3>1, <3>3, PostTask, ZenonT(40)
    <3>5. Elems(Append(rest, done)) = Elems(rest) \cup {done}
      BY <2>1, <2>2, ElemsRules
    <3>6. QED
      BY <3>4, <3>5 DEF e
  <2>8. /\ d \in Seq(Messages)
        /\ \A m \in Elems(d) : /\ m.type = "EndOfBitstreamBuffer" /\ m.buf = 0
                               /\ m.id <= sent
    <3> DEFINE q == pending_input_buffers_
    <3>1. d \in Seq(Message(Notes \cup Errors))
      BY DroppedType
    <3>2. q \in Seq(Inputs) /\ Len(d) = Len(q)
      BY DEF TypeOK, NotifyInputBuffersDropped
    <3>3. ASSUME NEW m \in Elems(d)
          PROVE  /\ m.type = "EndOfBitstreamBuffer" /\ m.buf = 0
                 /\ m.id <= sent
      <4>1. PICK k \in 1..Len(q) : m = Decoded(q[k])
        BY <3>2, <3>3 DEF Elems, NotifyInputBuffersDropped
      <4>2. m.type = "EndOfBitstreamBuffer" /\ m.buf = 0 /\ m.id = q[k]
        BY <4>1 DEF Decoded
      <4> DEFINE frame == [type |-> "Decode", buf |-> 0, id |-> q[k]]
      <4>3. frame \in Elems(Frames(q))
        <5>1. Frames(q)[k] = frame /\ Len(Frames(q)) = Len(q)
          BY DEF Frames
        <5>2. QED
          BY <5>1 DEF Elems
      <4>4. Elems(Frames(q)) \subseteq Elems(Frames(Waiting))
        <5> DEFINE p == pending_output_samples_
                   u == inputs_copy
        <5>1. p \in Seq(Inputs) /\ u \in Seq(Inputs) /\ p \o q \in Seq(Inputs)
          BY <3>2, SeqTypes DEF TypeOK
        <5>2. Waiting = (p \o q) \o u
          BY DEF Waiting
        <5> HIDE DEF p, q, u
        <5>3. Elems(Frames(p \o q)) = Elems(Frames(p)) \cup Elems(Frames(q))
          BY <3>2, <5>1, FramesParts
        <5> DEFINE v == p \o q
        <5>4. v \in Seq(Inputs) /\ Waiting = v \o u
          BY <5>1, <5>2
        <5> HIDE DEF v
        <5>5. Elems(Frames(v \o u)) = Elems(Frames(v)) \cup Elems(Frames(u))
          BY <5>1, <5>4, FramesParts
        <5>6. QED
          BY <5>3, <5>4, <5>5 DEF v
      <4>5. frame \in InFlight
        BY <4>3, <4>4 DEF InFlight, Flight
      <4>6. q[k] <= sent
        BY <4>5 DEF PipelineInv, Numbered
      <4>7. QED
        BY <4>2, <4>6
    <3>4. QED
      BY <3>1, <3>3, PartTypes
  <2> HIDE DEF d
  <2> DEFINE l2 == Append(rest, done)
  <2>9. /\ Ordered(notes \o d, l2, <<>>, <<>>, c)
        /\ Elems(notes \o d) = Elems(notes) \cup Elems(d)
    <3>1. \A a \in Elems(notes) : a.type \notin {"ResetDone", "Destroy"}
      BY <1>4, <2>6 DEF Exchanges
    <3>2. l2 \in Seq(Messages) /\ Ordered(notes, l2, <<>>, <<>>, c)
      BY <2>7
    <3> DEFINE e == <<>>
    <3>3. /\ e \in Seq(Messages) /\ e \in Seq(Inputs)
          /\ Ordered(notes, l2, e, e, c)
      BY <2>2, <3>2
    <3> HIDE DEF l2, e
    <3>4. /\ Ordered(notes \o d, l2, e, e, c)
          /\ Elems(notes \o d) = Elems(notes) \cup Elems(d)
      <4>1. \A m \in Elems(d) : m.type = "EndOfBitstreamBuffer" /\ m.buf = 0
        BY <2>8
      <4>2. /\ d \in Seq(Messages) /\ l2 \in Seq(Messages)
            /\ notes \in Seq(Messages) /\ c \in Seq(Messages)
        BY <2>2, <2>8, <3>2
      <4>3. Ordered(notes \o d, l2, e, e, c)
        BY <3>1, <3>3, <4>1, <4>2, SendDropped, SMTT(30)
      <4>4. Elems(notes \o d) = Elems(notes) \cup Elems(d)
        BY <4>2, ElemsConcat
      <4>5. QED
        BY <4>3, <4>4
    <3>5. QED
      BY <3>4 DEF e
  <2>10. /\ Ordered(notes, loop, buffered_picture_buffers_, Waiting, calls)'
         /\ \A x \in InFlight' : x \in Left \/ x = done \/ x \in Elems(d)
    <3>1. InFlight' = Flight(notes \o d, l2, <<>>, <<>>, c)
      BY <1>8, <2>3 DEF InFlight, c
    <3>2. Ordered(notes, loop, buffered_picture_buffers_, Waiting, calls)'
      BY <1>8, <2>3, <2>9 DEF c
    <3>3. ASSUME NEW x \in InFlight'
          PROVE  x \in Left \/ x = done \/ x \in Elems(d)
      <4>1. x \in Elems(notes \o d) \cup Elems(l2) \cup Elems(c)
        BY <2>4, <3>1, <3>3 DEF Flight
      <4>2. QED
        BY <2>6, <2>7, <2>9, <4>1
    <3>4. QED
      BY <3>2, <3>3
  <2>11. \A m \in InFlight' \ InFlight :
           /\ m.buf = 0 /\ m.type # "PictureReady" /\ m.id <= sent
           /\ m.type \notin Askings
    <3>1. 0 <= sent
      BY ConstantsAssumption DEF TypeOK
    <3>2. QED
      BY <1>5, <2>1, <2>8, <2>10, <3>1 DEF Askings
  <2>12. Exchanging(InFlight)'
    <3>1. phase' = phase /\ aborted' = aborted /\ state_' = "kNormal"
      BY <1>3, <1>8 DEF clientVars
    <3>2. Ongoing(phase, "ResetDone")
      BY <1>4 DEF Ongoing, Drains, Resets
    <3>3. \A x \in InFlight : x.type \in Exchanges => Ongoing(phase, x.type)
      BY DEF PipelineInv, Exchanging
    <3>4. \A x \in InFlight' : x.type \in Exchanges => Ongoing(phase, x.type)
      BY <1>5, <2>1, <2>8, <2>10, <3>2, <3>3 DEF Exchanges
    <3>5. \A x \in InFlight' : x.type # "Reset"
      BY <1>4, <2>1, <2>8, <2>10 DEF Exchanges
    <3>6. QED
      BY <3>1, <3>4, <3>5 DEF Exchanging
  <2>13. Asking(InFlight)'
    BY <1>2, <1>3, <1>8, <2>11 DEF Asking, clientVars
  <2>14. Lifecycle'
    <3>1. phase' = phase
      BY <1>3 DEF clientVars
    <3>2. QED
      BY <1>2, <1>5, <1>6, <1>8, <3>1 DEF Lifecycle, c
  <2>15. Blame'
    <3>1. Blames(Elems(notes)) /\ client_' = client_
      BY <1>2, <1>8, HasElems
    <3>2. phase' = phase /\ aborted' = aborted
      BY <1>3 DEF clientVars
    <3>3. Elems(notes') = Elems(notes) \cup Elems(d)
      BY <1>8, <2>9
    <3>4. Blames(Elems(notes))'
      BY <2>8, <3>1, <3>2, <3>3 DEF Blames
    <3>5. QED
      BY <3>4, HasElems
  <2>16. available' \subseteq available /\ UNCHANGED <<texture, held, sent>>
    BY <1>3, <1>8 DEF clientVars
  <2>17. QED
    BY <1>2, <2>10, <2>11, <2>12, <2>13, <2>14, <2>15, <2>16, MoveKeeps
<1>9. QED
  BY <1>7, <1>8 DEF Reset

\* Destroy: nothing was sent behind it, and no task survives.
LEMMA DestroyKeeps ==
  ASSUME TypeOK, TypeOK', PipelineInv, InitializeComesFirst, Destroy
  PROVE  PipelineInv'
<1> DEFINE call == "Destroy"
           h == buffered_picture_buffers_
           w == Waiting
           c == calls'
<1>1. Handles(call) /\ call # "Initialize"
  BY DEF Destroy
<1>2. /\ Lifecycle /\ Asking(InFlight) /\ Blame
      /\ \A p \in held : p.buf # 0
  BY DEF PipelineInv, TypeOK, Message, OfBuffer
<1>3. /\ calls # <<>> /\ loop # <<>> /\ Head(calls).type = "Destroy"
      /\ inputs_copy' = <<>> /\ UNCHANGED clientVars
      /\ Tail(loop) \in Seq(Message(Tasks)) /\ c \in Seq(Message(Calls))
      /\ Elems(calls) = {Head(calls)} \cup Elems(c)
  BY <1>1, CallTaken
<1> HIDE DEF call, c
<1>4. /\ Left \subseteq InFlight
      /\ Ordered(notes, Tail(loop), h, w, c)
      /\ \A b \in Elems(c) : MayPrecede(Head(calls), b)
  BY <1>1, CallLeaves DEF c
<1>5. c = <<>>
  <2>1. \A b \in Elems(c) : FALSE
    BY <1>3, <1>4 DEF MayPrecede
  <2>2. c # <<>> => Head(c) \in Elems(c)
    BY <1>3, ElemsRules
  <2>3. QED
    BY <2>1, <2>2
<1>6. phase = "destroyed"
  <2>1. Has(calls, "Destroy")
    BY <1>3, HasElems
  <2>2. QED
    BY <1>2, <2>1 DEF Lifecycle
<1>7. /\ state_' = "deleted" /\ client_' = FALSE
      /\ output_picture_buffers_' = {} /\ available' = {}
      /\ pending_output_samples_' = <<>> /\ pending_input_buffers_' = <<>>
      /\ loop' = <<>>
      /\ UNCHANGED <<buffering_, pictures_requested_, texture,
                     buffered_picture_buffers_, notes>>
  BY DEF Destroy
<1>8. /\ notes \in Seq(Messages) /\ Tail(loop) \in Seq(Messages)
      /\ h \in Seq(Messages) /\ c \in Seq(Messages) /\ w \in Seq(Inputs)
      /\ <<>> \in Seq(Messages) /\ <<>> \in Seq(Inputs)
  BY <1>3, PartTypes, SeqTypes DEF TypeOK, Waiting
<1>9. Waiting' = <<>>
  BY <1>3, <1>7 DEF Waiting
<1>10. /\ Ordered(notes, <<>>, h, <<>>, <<>>)
       /\ Flight(notes, <<>>, h, <<>>, <<>>) \subseteq InFlight
  <2> DEFINE e == <<>>
             l == Tail(loop)
  <2>1. Chain(h)
    BY <1>4, <1>8, PartInFlight
  <2>2. /\ e \in Seq(Messages) /\ e \in Seq(Inputs)
        /\ Chain(e) /\ Chain(Frames(e))
        /\ Elems(e) \subseteq Elems(l) /\ Elems(e) \subseteq Elems(c)
        /\ Elems(Frames(e)) \subseteq Elems(Frames(w))
        /\ l \in Seq(Messages) /\ Ordered(notes, l, h, w, c)
    BY <1>4, <1>8, FrameTypes, ElemsRules, ChainRules
  <2>3. Flight(notes, l, h, w, c) \subseteq InFlight
    BY <1>4 DEF Left, c
  <2> HIDE DEF e, l, h, w
  <2>4. /\ Ordered(notes, e, h, e, e)
        /\ Flight(notes, e, h, e, e) \subseteq Flight(notes, l, h, w, c)
    <3>1. /\ Elems(h) \subseteq Elems(h)
          /\ notes \in Seq(Messages) /\ h \in Seq(Messages)
          /\ c \in Seq(Messages) /\ w \in Seq(Inputs)
      BY <1>8
    <3>2. QED
      BY <2>1, <2>2, <3>1, Drop, ZenonT(60)
  <2>5. QED
    BY <2>3, <2>4 DEF e
<1>11. /\ InFlight' \subseteq InFlight
       /\ Ordered(notes, loop, buffered_picture_buffers_, Waiting, calls)'
  BY <1>5, <1>7, <1>9, <1>10 DEF InFlight, c
<1>12. Exchanging(InFlight)'
  <2>1. Exchanging(InFlight) /\ phase' = phase /\ aborted' = aborted
    BY <1>3 DEF PipelineInv, clientVars
  <2>2. state_' = "deleted"
    BY <1>7
  <2>3. QED
    BY <1>11, <2>1, <2>2 DEF Exchanging
<1>13. Asking(InFlight)'
  BY <1>2, <1>7, <1>11 DEF Asking
<1>14. Lifecycle'
  <2>1. ~Has(c, "Initialize") /\ ~Has(c, "Destroy")
    BY <1>5, HasSingle
  <2>2. QED
    BY <1>2, <1>3, <1>5, <1>6, <1>7, <2>1 DEF Lifecycle, c, clientVars
<1>15. Blame'
  BY <1>2, <1>3, <1>7, BlameKept DEF clientVars
<1>16. available' \subseteq available /\ UNCHANGED <<texture, held, sent>>
  BY <1>3, <1>7 DEF clientVars
<1>17. \A m \in InFlight' \ InFlight :
         m.buf = 0 /\ m.type # "PictureReady" /\ m.id <= sent
  BY <1>11
<1>18. QED
  BY <1>2, <1>11, <1>12, <1>13, <1>14, <1>15, <1>16, <1>17, MoveKeeps

-----------------------------------------------------------------------------
(***************************************************************************)
(* The other tasks of the main thread.                                     *)
(***************************************************************************)

\* The types of the five parts of the pipeline.
LEMMA PipelineTypes ==
  ASSUME TypeOK
  PROVE  /\ notes \in Seq(Messages) /\ loop \in Seq(Messages)
         /\ buffered_picture_buffers_ \in Seq(Messages)
         /\ Waiting \in Seq(Inputs) /\ calls \in Seq(Messages)
BY PartTypes, SeqTypes DEF TypeOK, Waiting

\* A posted notification reaches the client, if there still is one.
LEMMA RunNotificationKeeps ==
  ASSUME TypeOK, PipelineInv, RunNotification
  PROVE  PipelineInv'
<1> DEFINE h == buffered_picture_buffers_
           w == Waiting
           m == Head(loop)
<1>1. /\ notes \in Seq(Messages) /\ loop \in Seq(Messages)
      /\ h \in Seq(Messages) /\ w \in Seq(Inputs) /\ calls \in Seq(Messages)
      /\ loop # <<>> /\ loop' = Tail(loop) /\ m.type \in Notes
  BY PipelineTypes DEF RunNotification
<1>2. /\ UNCHANGED <<state_, client_, output_picture_buffers_, available,
                     texture, pictures_requested_, phase, aborted, held, sent>>
      /\ UNCHANGED <<buffering_, buffered_picture_buffers_, calls,
                     pending_output_samples_, pending_input_buffers_,
                     inputs_copy>>
      /\ notes' = IF client_ THEN Append(notes, m) ELSE notes
  BY DEF RunNotification, clientVars
<1>3. Ordered(notes, loop, h, w, calls) /\ Lifecycle /\ Blame
  BY DEF PipelineInv
<1>4. Waiting' = w
  BY <1>2 DEF Waiting
<1> HIDE DEF h, w
<1>5. /\ Ordered(notes', Tail(loop), h, w, calls)
      /\ Flight(notes', Tail(loop), h, w, calls)
           \subseteq Flight(notes, loop, h, w, calls)
  <2>1. CASE client_
    <3>1. /\ Ordered(Append(notes, Head(loop)), Tail(loop), h, w, calls)
          /\ Flight(Append(notes, Head(loop)), Tail(loop), h, w, calls)
               = Flight(notes, loop, h, w, calls)
      BY <1>1, <1>3, Notify, SMTT(30)
    <3>2. QED
      BY <1>2, <2>1, <3>1
  <2>2. CASE ~client_
    <3>1. /\ Ordered(notes, Tail(loop), h, w, calls)
          /\ Flight(notes, loop, h, w, calls)
               = {Head(loop)} \cup Flight(notes, Tail(loop), h, w, calls)
      BY <1>1, <1>3, TakeTask, SMTT(30)
    <3>2. QED
      BY <1>2, <2>2, <3>1
  <2>3. QED
    BY <2>1, <2>2
<1>6. /\ InFlight' \subseteq InFlight
      /\ Ordered(notes, loop, buffered_picture_buffers_, Waiting, calls)'
  BY <1>1, <1>2, <1>4, <1>5 DEF InFlight, h, w
<1>7. Blame'
  <2>1. Blames(Elems(notes))
    BY <1>3, HasElems
  <2>2. m.type \notin {"IllegalState", "InvalidArgument"}
    BY <1>1 DEF Notes
  <2>3. m \in Messages
    BY <1>1, SeqTypes
  <2>4. Elems(Append(notes, m)) = Elems(notes) \cup {m}
    BY <1>1, <2>3, ElemsRules
  <2>5. \A x \in Elems(notes') : x \in Elems(notes) \/ x = m
    BY <1>2, <2>4
  <2>6. client_' = client_ /\ phase' = phase /\ aborted' = aborted
    BY <1>2
  <2>7. Blames(Elems(notes))'
    BY <2>1, <2>2, <2>5, <2>6 DEF Blames
  <2>8. QED
    BY <2>7, HasElems
<1>8. /\ \A x \in InFlight' \ InFlight :
           /\ x.buf = 0 /\ x.id <= sent
           /\ x.type \notin Exchanges \cup Askings \cup {"PictureReady"}
      /\ Has(calls', "Initialize") <=> Has(calls, "Initialize")
      /\ Has(calls', "Destroy") => Has(calls, "Destroy")
      /\ state_ = "deleted" => calls' = <<>>
      /\ state_ = "kFlushing" => pending_output_samples_' # <<>>
      /\ ~buffering_' => buffered_picture_buffers_' = <<>>
  BY <1>2, <1>3, <1>6 DEF Lifecycle
<1>9. QED
  BY <1>2, <1>6, <1>7, <1>8, QuietKeeps

\* The queued inputs are swapped into the copy: nothing moves.
LEMMA DecodePendingInputBuffersKeeps ==
  ASSUME TypeOK, TypeOK', PipelineInv, InitializeComesFirst,
         DecodePendingInputBuffers
  PROVE  PipelineInv'
<1> DEFINE h == buffered_picture_buffers_
           w == Waiting
<1>1. /\ notes \in Seq(Messages) /\ loop \in Seq(Messages)
      /\ h \in Seq(Messages) /\ w \in Seq(Inputs) /\ calls \in Seq(Messages)
      /\ loop # <<>> /\ Head(loop).type = "DecodePendingInputBuffers"
      /\ inputs_copy = <<>> /\ calls' = calls /\ UNCHANGED clientVars
  BY PipelineTypes DEF DecodePendingInputBuffers, Runs, Idle
<1>2. Ordered(notes, loop, h, w, calls) /\ Lifecycle /\ Blame
  BY DEF PipelineInv
<1>3. ~Has(calls, "Initialize")
  <2>1. loop[1].type = "DecodePendingInputBuffers" /\ 1 \in 1..Len(loop)
    BY <1>1
  <2>2. QED
    BY <2>1 DEF InitializeComesFirst
<1> HIDE DEF h, w
<1>4. /\ Ordered(notes, Tail(loop), h, w, calls)
      /\ Flight(notes, loop, h, w, calls)
           = {Head(loop)} \cup Flight(notes, Tail(loop), h, w, calls)
  BY <1>1, <1>2, TakeTask, SMTT(30)
<1>5. CASE state_ = "kUninitialized" /\ Refuse("IllegalState") /\ UNCHANGED inputs_copy
  <2> DEFINE rest == Tail(loop)
  <2>1. ~client_
    BY <1>2, <1>3, <1>5 DEF Lifecycle
  <2>2. rest \in Seq(Message(Tasks)) /\ "IllegalState" \in Errors
    BY <1>1, SeqTypes DEF TypeOK, Errors
  <2>3. /\ Ordered(notes, rest, buffered_picture_buffers_, w, calls')
        /\ Flight(notes, rest, buffered_picture_buffers_, w, calls')
             \subseteq InFlight
        /\ Elems(calls') \subseteq Elems(calls)
    BY <1>1, <1>4 DEF h, InFlight, w
  <2>4. /\ Chain(Frames(inputs_copy'))
        /\ Elems(Frames(inputs_copy')) \subseteq Elems(Frames(w))
    <3>1. Frames(inputs_copy') = <<>>
      BY <1>1, <1>5, FrameTypes
    <3>2. QED
      BY <3>1, ElemsRules, ChainRules
  <2>5. StopOnError(rest, "IllegalState")
    BY <1>5 DEF Refuse
  <2>6. buffering_' \/ buffered_picture_buffers_ = <<>>
    BY <1>2, <1>5 DEF Refuse, Lifecycle
  <2> HIDE DEF rest
  <2>7. QED
    BY <1>1, <1>3, <2>1, <2>2, <2>3, <2>4, <2>5, <2>6, StopKeeps, ZenonT(40)
<1>6. CASE /\ state_ # "kUninitialized"
           /\ loop' = Tail(loop)
           /\ IF pending_output_samples_ = <<>>
              THEN /\ inputs_copy' = pending_input_buffers_
                   /\ pending_input_buffers_' = <<>>
              ELSE UNCHANGED <<inputs_copy, pending_input_buffers_>>
           /\ UNCHANGED <<state_, client_, buffering_, pictures_requested_,
                          pending_output_samples_, output_picture_buffers_,
                          available, texture, buffered_picture_buffers_, notes>>
  <2>1. Waiting' = w
    <3> DEFINE q == pending_input_buffers_
    <3>1. q \in Seq(Inputs)
      BY DEF TypeOK
    <3>2. CASE pending_output_samples_ = <<>>
      <4>1. w = (<<>> \o q) \o <<>> /\ Waiting' = (<<>> \o <<>>) \o q
        BY <1>1, <1>6, <3>2 DEF w, Waiting
      <4> HIDE DEF q
      <4>2. QED
        BY <3>1, <4>1
    <3>3. CASE pending_output_samples_ # <<>>
      BY <1>6, <3>3 DEF w, Waiting
    <3>4. QED
      BY <3>2, <3>3
  <2>2. /\ InFlight' \subseteq InFlight
        /\ Ordered(notes, loop, buffered_picture_buffers_, Waiting, calls)'
    BY <1>1, <1>4, <1>6, <2>1 DEF InFlight, h, w
  <2>3. Blame'
    BY <1>1, <1>2, <1>6, BlameKept DEF clientVars
  <2>4. /\ \A x \in InFlight' \ InFlight :
             /\ x.buf = 0 /\ x.id <= sent
             /\ x.type \notin Exchanges \cup Askings \cup {"PictureReady"}
        /\ Has(calls', "Initialize") <=> Has(calls, "Initialize")
        /\ Has(calls', "Destroy") => Has(calls, "Destroy")
        /\ state_ = "deleted" => calls' = <<>>
        /\ state_ = "kFlushing" => pending_output_samples_' # <<>>
        /\ ~buffering_' => buffered_picture_buffers_' = <<>>
    BY <1>1, <1>2, <1>6, <2>2 DEF Lifecycle
  <2>5. UNCHANGED <<state_, client_, output_picture_buffers_, available,
                    texture, pictures_requested_, phase, aborted, held, sent>>
    BY <1>1, <1>6 DEF clientVars
  <2>6. QED
    BY <2>2, <2>3, <2>4, <2>5, QuietKeeps
<1>7. QED
  BY <1>5, <1>6 DEF DecodePendingInputBuffers

\* The channel posts HandleMessage.
LEMMA MessageReceivedKeeps ==
  ASSUME TypeOK, PipelineInv, MessageReceived
  PROVE  PipelineInv'
<1> DEFINE h == buffered_picture_buffers_
           w == Waiting
           m == Msg("HandleMessage")
           t == <<m>>
<1>1. /\ loop' = Append(loop, m)
      /\ UNCHANGED <<decoderVars, calls, notes, clientVars>>
  BY DEF MessageReceived
<1>2. /\ notes \in Seq(Message(Notes \cup Errors)) /\ loop \in Seq(Message(Tasks))
      /\ h \in Seq(Messages) /\ w \in Seq(Inputs) /\ calls \in Seq(Messages)
  BY PipelineTypes DEF TypeOK
<1>3. /\ m \in Message(Tasks) /\ m.buf = 0 /\ m.type = "HandleMessage"
      /\ m.id = 0
  BY MessageTypes DEF Tasks, OfBuffer, OfInput, Msg
<1>4. Ordered(notes, loop, h, w, calls) /\ Lifecycle /\ Blame
  BY DEF PipelineInv
<1>5. Waiting' = w /\ h' = h /\ notes' = notes /\ calls' = calls
  BY <1>1 DEF Waiting, decoderVars
<1>6. loop' = loop \o t
  BY <1>1, <1>2
<1> HIDE DEF h, w, m
<1>7. Posts(t, m, Flight(notes, loop, h, w, calls))
  BY <1>3 DEF Posts, Harmless, Carriers, Exchanges, Askings
<1> HIDE DEF t
<1>8. /\ Ordered(notes, loop \o t, h, w, calls)
      /\ \A x : x \in Flight(notes, loop \o t, h, w, calls)
                 <=> x \in Flight(notes, loop, h, w, calls) \/ x \in Elems(t)
  BY <1>2, <1>3, <1>4, <1>7, PostHarmless, ZenonT(30)
<1>9. Elems(t) = {m}
  BY ElemsRules DEF t
<1>10. /\ \A x \in InFlight' : x \in InFlight \/ x = m
       /\ Ordered(notes, loop, buffered_picture_buffers_, Waiting, calls)'
  BY <1>5, <1>6, <1>8, <1>9 DEF InFlight, h, w
<1>11. \A x \in InFlight' \ InFlight :
         /\ x.buf = 0 /\ x.id <= sent
         /\ x.type \notin Exchanges \cup Askings \cup {"PictureReady"}
  <2>1. 0 <= sent
    BY ConstantsAssumption DEF TypeOK
  <2>2. QED
    BY <1>3, <1>10, <2>1 DEF Exchanges, Askings
<1>12. Blame'
  BY <1>1, <1>4, BlameKept DEF clientVars, decoderVars
<1>13. /\ Has(calls', "Initialize") <=> Has(calls, "Initialize")
       /\ Has(calls', "Destroy") => Has(calls, "Destroy")
       /\ state_ = "deleted" => calls' = <<>>
       /\ state_ = "kFlushing" => pending_output_samples_' # <<>>
       /\ ~buffering_' => buffered_picture_buffers_' = <<>>
  BY <1>1, <1>4 DEF Lifecycle, decoderVars
<1>14. UNCHANGED <<state_, client_, output_picture_buffers_, available,
                   texture, pictures_requested_, phase, aborted, held, sent>>
  BY <1>1 DEF decoderVars, clientVars
<1>15. QED
  BY <1>10, <1>11, <1>12, <1>13, <1>14, QuietKeeps

\* No step of the main thread breaks the invariant.
LEMMA MainThreadKeeps ==
  ASSUME TypeOK, TypeOK', SurfaceHoldsPendingSample, InitializeComesFirst,
         PipelineInv, MainThread
  PROVE  PipelineInv'
BY InitializeKeeps, DecodeKeeps, AssignPictureBuffersKeeps,
   ReusePictureBufferKeeps, FlushKeeps, ResetKeeps, DestroyKeeps,
   RunNotificationKeeps, DecodePendingInputBuffersKeeps, DecodeNextOfCopyKeeps
   DEF MainThread

-----------------------------------------------------------------------------
(***************************************************************************)
(* The client.                                                             *)
(***************************************************************************)

\* Destroy is the last call of the client, and is sent once.
LEMMA NotDestroyed ==
  ASSUME TypeOK, PipelineInv, phase # "destroyed"
  PROVE  \A x \in InFlight : x.type # "Destroy"
<1>1. ~Has(calls, "Destroy")
  BY DEF PipelineInv, Lifecycle
<1>2. \A x \in Elems(calls) : x.type # "Destroy"
  BY <1>1, HasElems
<1>3. "Destroy" \notin Tasks /\ "Destroy" \notin Notes \cup Errors
  BY DEF Tasks, Notes, Errors
<1>4. /\ \A x \in Elems(notes) : x.type # "Destroy"
      /\ \A x \in Elems(loop) : x.type # "Destroy"
      /\ \A x \in Elems(buffered_picture_buffers_) : x.type # "Destroy"
  BY <1>3, PartTypes DEF TypeOK
<1>5. \A x \in Elems(Frames(Waiting)) : x.type # "Destroy"
  BY PipelineTypes, FrameElems
<1>6. QED
  BY <1>2, <1>4, <1>5 DEF InFlight, Flight

\* The client calls, while the rest of the pipeline stays as it is.
LEMMA CallSent ==
  ASSUME TypeOK, UNCHANGED <<decoderVars, loop>>, notes' \in Seq(Messages),
         NEW m \in Message(Calls), calls' = Append(calls, m),
         Ordered(notes', loop, buffered_picture_buffers_, Waiting, calls),
         \A a \in Flight(notes', loop, buffered_picture_buffers_, Waiting, calls) :
           MayPrecede(a, m)
  PROVE  /\ Ordered(notes, loop, buffered_picture_buffers_, Waiting, calls)'
         /\ \A x \in InFlight' :
              x = m \/ x \in Flight(notes', loop, buffered_picture_buffers_,
                                    Waiting, calls)
         /\ \A t : Has(calls', t) <=> Has(calls, t) \/ m.type = t
<1> DEFINE h == buffered_picture_buffers_
           w == Waiting
           n == notes'
<1>1. /\ n \in Seq(Messages) /\ loop \in Seq(Messages)
      /\ h \in Seq(Messages) /\ w \in Seq(Inputs) /\ calls \in Seq(Messages)
      /\ m \in Messages /\ calls \in Seq(Message(Calls))
  <2>1. m \in Messages
    BY MessageTypes DEF Messages
  <2>2. QED
    BY <2>1, PipelineTypes DEF TypeOK
<1>2. Waiting' = w /\ h' = h /\ loop' = loop
  BY DEF Waiting, decoderVars
<1>3. /\ Ordered(n, loop, h, w, calls)
      /\ \A a \in Flight(n, loop, h, w, calls) : MayPrecede(a, m)
  OBVIOUS
<1> HIDE DEF h, w, n
<1>4. /\ Ordered(n, loop, h, w, Append(calls, m))
      /\ Flight(n, loop, h, w, Append(calls, m))
           = {m} \cup Flight(n, loop, h, w, calls)
  BY <1>1, <1>3, SendCall, SMTT(30)
<1>5. \A t : Has(Append(calls, m), t) <=> Has(calls, t) \/ m.type = t
  BY <1>1, HasAppend
<1>6. QED
  BY <1>2, <1>4, <1>5 DEF InFlight, h, w, n

\* The notification at the head leaves its channel.
LEMMA NoteLeaves ==
  ASSUME TypeOK, PipelineInv, UNCHANGED <<decoderVars, loop>>,
         notes # <<>>, notes' = Tail(notes)
  PROVE  LET M == Flight(notes', loop, buffered_picture_buffers_, Waiting, calls)
         IN  /\ notes' \in Seq(Messages)
             /\ Ordered(notes', loop, buffered_picture_buffers_, Waiting, calls)
             /\ M \subseteq InFlight
             /\ Head(notes) \in InFlight /\ Head(notes) \in Messages
             /\ \A x \in M : MayPrecede(Head(notes), x)
             /\ Elems(notes') \subseteq Elems(notes) /\ Elems(notes') \subseteq M
<1> DEFINE h == buffered_picture_buffers_
           w == Waiting
           n == notes'
           f == Frames(w)
<1>1. /\ notes \in Seq(Messages) /\ loop \in Seq(Messages)
      /\ h \in Seq(Messages) /\ w \in Seq(Inputs) /\ calls \in Seq(Messages)
      /\ n \in Seq(Messages) /\ Head(notes) \in Messages /\ n = Tail(notes)
  BY PipelineTypes, SeqTypes
<1>2. PartsOrdered(notes, loop, h, w, calls)
  BY <1>1, OrderedParts DEF PipelineInv
<1>3. Elems(notes) = {Head(notes)} \cup Elems(n)
  BY <1>1, ElemsRules
<1>4. Chain(n) /\ \A b \in Elems(n) : MayPrecede(Head(notes), b)
  <2>1. Chain(notes)
    BY <1>2 DEF PartsOrdered
  <2>2. QED
    BY <1>1, <2>1, ChainRules
<1> HIDE DEF h, w, n
<1>5. PartsOrdered(n, loop, h, w, calls)
  BY <1>2, <1>3, <1>4 DEF PartsOrdered
<1>6. Ordered(n, loop, h, w, calls)
  BY <1>1, <1>5, OrderedParts
<1>7. \A x \in Elems(loop) \cup Elems(h) \cup Elems(Frames(w)) \cup Elems(calls) :
        MayPrecede(Head(notes), x)
  BY <1>2, <1>3 DEF PartsOrdered
<1>8. /\ Flight(n, loop, h, w, calls) \subseteq InFlight
      /\ Head(notes) \in InFlight
  BY <1>3 DEF InFlight, Flight, h, w
<1>9. \A x \in Flight(n, loop, h, w, calls) : MayPrecede(Head(notes), x)
  BY <1>4, <1>7 DEF Flight
<1>10. /\ Elems(n) \subseteq Elems(notes)
       /\ Elems(n) \subseteq Flight(n, loop, h, w, calls)
  BY <1>3 DEF Flight
<1>11. QED
  BY <1>1, <1>6, <1>8, <1>9, <1>10 DEF h, w, n

\* The messages a client may send.
LEMMA ClientMessages ==
  /\ \A t \in {"Flush", "Reset", "Destroy", "AssignPictureBuffers"} :
       /\ Msg(t) \in Message(Calls) /\ Msg(t).type = t
       /\ Msg(t).buf = 0 /\ Msg(t).id = 0
  /\ \A i \in Inputs :
       [type |-> "Decode", buf |-> 0, id |-> i] \in Message(Calls)
  /\ \A b \in PictureIds :
       [type |-> "ReusePictureBuffer", buf |-> b, id |-> 0] \in Message(Calls)
<1>1. \A t \in {"Flush", "Reset", "Destroy", "AssignPictureBuffers"} :
        t \in Calls \ (OfBuffer \cup OfInput)
  BY DEF Calls, OfBuffer, OfInput
<1>2. \A t \in {"Flush", "Reset", "Destroy", "AssignPictureBuffers"} :
        /\ Msg(t) \in Message(Calls) /\ Msg(t).type = t
        /\ Msg(t).buf = 0 /\ Msg(t).id = 0
  BY <1>1, MessageTypes DEF Msg
<1>3. \A i \in Inputs : [type |-> "Decode", buf |-> 0, id |-> i] \in Message(Calls)
  BY ConstantsAssumption DEF Message, Calls, OfBuffer, OfInput, Inputs
<1>4. \A b \in PictureIds :
        [type |-> "ReusePictureBuffer", buf |-> b, id |-> 0] \in Message(Calls)
  BY ConstantsAssumption DEF Message, Calls, OfBuffer, OfInput, PictureIds
<1>5. QED
  BY <1>2, <1>3, <1>4

\* A step of the client leaves the decoder's part of the invariant alone.
LEMMA ClientLifecycle ==
  ASSUME PipelineInv, UNCHANGED <<decoderVars, loop>>,
         Has(calls', "Initialize") <=> Has(calls, "Initialize"),
         phase' # "destroyed" => ~Has(calls', "Destroy"),
         state_ = "deleted" => calls' = <<>> /\ phase' = "destroyed",
         state_ = "kFlushing" => phase' \in {"draining", "aborting", "destroyed"}
  PROVE  Lifecycle'
BY DEF PipelineInv, Lifecycle, decoderVars

\* The client sends a bitstream buffer, whose number is the next one.
LEMMA ClientDecodeKeeps ==
  ASSUME TypeOK, PipelineInv, ClientDecode
  PROVE  PipelineInv'
<1> DEFINE m == [type |-> "Decode", buf |-> 0, id |-> sent + 1]
<1>1. /\ phase = "normal" /\ sent < MaxInputs /\ sent' = sent + 1
      /\ calls' = Append(calls, m)
      /\ UNCHANGED <<decoderVars, loop>> /\ UNCHANGED <<notes, phase, aborted, held>>
  BY DEF ClientDecode, Call
<1>2. /\ Ordered(notes, loop, buffered_picture_buffers_, Waiting, calls)
      /\ Numbered(InFlight, sent) /\ Apart(InFlight, held)
      /\ Owned(InFlight \cup held, available, texture)
      /\ Exchanging(InFlight) /\ Asking(InFlight) /\ Lifecycle
      /\ Blame
  BY DEF PipelineInv
<1>3. sent \in Nat /\ sent + 1 \in Inputs
  BY <1>1, ConstantsAssumption DEF TypeOK, Inputs
<1>4. m \in Message(Calls) /\ m.type = "Decode" /\ m.buf = 0 /\ m.id = sent + 1
  BY <1>3, ClientMessages
<1> HIDE DEF m
<1>5. \A a \in InFlight : MayPrecede(a, m)
  <2>1. ASSUME NEW a \in InFlight PROVE MayPrecede(a, m)
    <3>1. a.id <= sent /\ a.type # "Destroy" /\ a.type \notin Exchanges
      BY <1>1, <1>2, NotDestroyed DEF Numbered, Exchanging, Ongoing
    <3>2. a \in Messages
      BY PipelineTypes, FlightTypes DEF InFlight
    <3>3. a.id \in Nat
      BY <3>2, MessageParts
    <3>4. a.id < m.id
      BY <1>3, <1>4, <3>1, <3>3
    <3>5. QED
      BY <1>4, <3>1, <3>4 DEF MayPrecede, Exchanges, Askings
  <2>2. QED
    BY <2>1
<1>6. /\ Ordered(notes, loop, buffered_picture_buffers_, Waiting, calls)'
      /\ \A x \in InFlight' : x = m \/ x \in InFlight
      /\ \A t : Has(calls', t) <=> Has(calls, t) \/ m.type = t
  <2>1. /\ notes' \in Seq(Messages)
        /\ Ordered(notes', loop, buffered_picture_buffers_, Waiting, calls)
        /\ InFlight = Flight(notes', loop, buffered_picture_buffers_, Waiting, calls)
    BY <1>1, <1>2, PipelineTypes DEF InFlight
  <2>2. QED
    BY <1>1, <1>4, <1>5, <2>1, CallSent
<1>7. \A p \in held : p.buf # 0
  BY DEF TypeOK, Message, OfBuffer
<1>8. Numbered(InFlight', sent')
  <2>1. ASSUME NEW x \in InFlight' PROVE x.id <= sent + 1
    <3>1. CASE x = m
      BY <1>3, <1>4, <3>1
    <3>2. CASE x \in InFlight
      <4>1. x.id <= sent /\ x \in Messages
        BY <1>2, <3>2, PipelineTypes, FlightTypes DEF InFlight, Numbered
      <4>2. QED
        BY <1>3, <4>1, MessageParts
    <3>3. QED
      BY <1>6, <3>1, <3>2
  <2>2. QED
    BY <1>1, <2>1 DEF Numbered
<1>9. Owned(InFlight' \cup held', available', texture')
  <2>1. UNCHANGED <<available, texture>>
    BY <1>1 DEF decoderVars
  <2>2. QED
    BY <1>1, <1>2, <1>4, <1>6, <2>1 DEF Owned
<1>10. Apart(InFlight', held')
  BY <1>1, <1>2, <1>4, <1>6, <1>7 DEF Apart
<1>11. Exchanging(InFlight)'
  <2>1. state_' = state_
    BY <1>1 DEF decoderVars
  <2>2. \A x \in InFlight' : x.type \in Exchanges => x \in InFlight
    BY <1>4, <1>6 DEF Exchanges
  <2>3. \A x \in InFlight' : x.type \in Drains \cup {"Reset"} => x \in InFlight
    BY <2>2 DEF Drains, Exchanges
  <2>4. QED
    BY <1>1, <1>2, <2>1, <2>2, <2>3 DEF Exchanging
<1>12. Asking(InFlight)'
  BY <1>1, <1>2, <1>4, <1>6 DEF Asking, Askings, decoderVars
<1>13. Lifecycle'
  <2>1. /\ Has(calls', "Initialize") <=> Has(calls, "Initialize")
        /\ Has(calls', "Destroy") <=> Has(calls, "Destroy")
    BY <1>4, <1>6
  <2>2. /\ phase # "destroyed" => ~Has(calls, "Destroy")
        /\ state_ # "deleted" /\ state_ # "kFlushing"
    BY <1>1, <1>2 DEF Lifecycle
  <2>3. QED
    BY <1>1, <2>1, <2>2, ClientLifecycle
<1>14. Blame'
  BY <1>1, <1>2, BlameKept DEF decoderVars
<1>15. QED
  BY <1>6, <1>8, <1>9, <1>10, <1>11, <1>12, <1>13, <1>14 DEF PipelineInv

\* The client returns a picture buffer, which nothing else names.
LEMMA ClientReuseKeeps ==
  ASSUME TypeOK, PipelineInv, NEW p \in held, ClientReuse(p)
  PROVE  PipelineInv'
<1> DEFINE m == [type |-> "ReusePictureBuffer", buf |-> p.buf, id |-> 0]
<1>1. /\ phase # "destroyed" /\ held' = held \ {p}
      /\ calls' = Append(calls, m)
      /\ UNCHANGED <<decoderVars, loop>> /\ UNCHANGED <<notes, phase, aborted, sent>>
  BY DEF ClientReuse, Call
<1>2. /\ Ordered(notes, loop, buffered_picture_buffers_, Waiting, calls)
      /\ Numbered(InFlight, sent) /\ Apart(InFlight, held)
      /\ Owned(InFlight \cup held, available, texture)
      /\ Exchanging(InFlight) /\ Asking(InFlight) /\ Lifecycle
      /\ Blame
  BY DEF PipelineInv
<1>3. p.buf \in PictureIds /\ p.buf # 0
  BY ConstantsAssumption DEF TypeOK, Message, OfBuffer, PictureIds
<1>4. /\ m \in Message(Calls) /\ m.type = "ReusePictureBuffer"
      /\ m.buf = p.buf /\ m.id = 0
  BY <1>3, ClientMessages
<1> HIDE DEF m
<1>5. \A a \in InFlight : MayPrecede(a, m)
  <2>1. \A a \in InFlight : a.buf # p.buf /\ a.type # "Destroy"
    BY <1>1, <1>2, NotDestroyed DEF Apart
  <2>2. QED
    BY <1>4, <2>1 DEF MayPrecede, Exchanges, Askings, Carriers
<1>6. /\ Ordered(notes, loop, buffered_picture_buffers_, Waiting, calls)'
      /\ \A x \in InFlight' : x = m \/ x \in InFlight
      /\ \A t : Has(calls', t) <=> Has(calls, t) \/ m.type = t
  <2>1. /\ notes' \in Seq(Messages)
        /\ Ordered(notes', loop, buffered_picture_buffers_, Waiting, calls)
        /\ InFlight = Flight(notes', loop, buffered_picture_buffers_, Waiting, calls)
    BY <1>1, <1>2, PipelineTypes DEF InFlight
  <2>2. QED
    BY <1>1, <1>4, <1>5, <2>1, CallSent
<1>7. Numbered(InFlight', sent')
  <2>1. 0 <= sent
    BY ConstantsAssumption DEF TypeOK
  <2>2. QED
    BY <1>1, <1>2, <1>4, <1>6, <2>1 DEF Numbered
<1>8. Owned(InFlight' \cup held', available', texture')
  <2>1. UNCHANGED <<available, texture>>
    BY <1>1 DEF decoderVars
  <2>2. p.buf \notin available
    BY <1>2, <1>3 DEF Owned
  <2>3. QED
    BY <1>1, <1>2, <1>4, <1>6, <2>1, <2>2 DEF Owned
<1>9. Apart(InFlight', held')
  BY <1>1, <1>2, <1>4, <1>6 DEF Apart
<1>10. Exchanging(InFlight)'
  <2>1. state_' = state_
    BY <1>1 DEF decoderVars
  <2>2. \A x \in InFlight' : x.type \in Exchanges => x \in InFlight
    BY <1>4, <1>6 DEF Exchanges
  <2>3. \A x \in InFlight' : x.type \in Drains \cup {"Reset"} => x \in InFlight
    BY <2>2 DEF Drains, Exchanges
  <2>4. QED
    BY <1>1, <1>2, <2>1, <2>2, <2>3 DEF Exchanging
<1>11. Asking(InFlight)'
  BY <1>1, <1>2, <1>4, <1>6 DEF Asking, Askings, decoderVars
<1>12. Lifecycle'
  <2>1. /\ Has(calls', "Initialize") <=> Has(calls, "Initialize")
        /\ Has(calls', "Destroy") <=> Has(calls, "Destroy")
    BY <1>4, <1>6
  <2>2. /\ phase # "destroyed" => ~Has(calls, "Destroy")
        /\ state_ # "deleted"
        /\ state_ = "kFlushing" => phase \in {"draining", "aborting", "destroyed"}
    BY <1>1, <1>2 DEF Lifecycle
  <2>3. QED
    BY <1>1, <2>1, <2>2, ClientLifecycle
<1>13. Blame'
  BY <1>1, <1>2, BlameKept DEF decoderVars
<1>14. QED
  BY <1>6, <1>7, <1>8, <1>9, <1>10, <1>11, <1>12, <1>13 DEF PipelineInv

\* When the client makes a call, and what it then waits for.
Goes(t) ==
  \/ t = "Flush" /\ phase = "normal" /\ phase' = "draining"
  \/ t = "Reset" /\ phase = "normal" /\ phase' = "resetting"
  \/ t = "Reset" /\ phase = "draining" /\ aborted /\ phase' = "aborting"
  \/ t = "Destroy" /\ phase' = "destroyed"
  \/ t = "AssignPictureBuffers" /\ phase' = phase

\* The client calls Flush, Reset or Destroy, of itself or as it receives an
\* error, or assigns the picture buffers it is asked for.
LEMMA ClientCallKeeps ==
  ASSUME TypeOK, PipelineInv, UNCHANGED <<decoderVars, loop>>,
         UNCHANGED <<sent, held, aborted>>, phase # "destroyed",
         notes' \in Seq(Messages), Blame',
         NEW M, M = Flight(notes', loop, buffered_picture_buffers_, Waiting, calls),
         Ordered(notes', loop, buffered_picture_buffers_, Waiting, calls),
         M \subseteq InFlight,
         NEW t \in {"Flush", "Reset", "Destroy", "AssignPictureBuffers"},
         calls' = Append(calls, Msg(t)),
         t = "AssignPictureBuffers" =>
           /\ pictures_requested_ /\ (client_ => output_picture_buffers_ = {})
           /\ \A x \in M : x.type \notin Askings,
         Goes(t)
  PROVE  PipelineInv'
<1> DEFINE m == Msg(t)
<1>1. /\ Exchanging(InFlight) /\ Asking(InFlight) /\ Lifecycle
      /\ \A p \in held : p.buf # 0
  BY DEF PipelineInv, TypeOK, Message, OfBuffer
<1>2. m \in Message(Calls) /\ m.type = t /\ m.buf = 0 /\ m.id = 0
  BY ClientMessages
<1>3. calls' = Append(calls, m)
  OBVIOUS
<1> HIDE DEF m
<1>4. \A a \in M : MayPrecede(a, m)
  <2>1. ASSUME NEW a \in M PROVE MayPrecede(a, m)
    <3>1. a.type # "Destroy"
      BY <2>1, NotDestroyed
    <3>2. /\ t = "Flush" => a.type \notin Exchanges
          /\ t = "Reset" /\ a.type \in Exchanges => a.type \in Drains
      <4>1. a.type \in Exchanges => Ongoing(phase, a.type)
        BY <1>1, <2>1 DEF Exchanging
      <4>2. QED
        BY <4>1 DEF Goes, Ongoing
    <3>3. t = "AssignPictureBuffers" => a.type \notin Askings
      BY <2>1
    <3>4. QED
      BY <1>2, <3>1, <3>2, <3>3 DEF MayPrecede, Carriers, Exchanges, Askings, Resets
  <2>2. QED
    BY <2>1
<1>5. /\ Ordered(notes, loop, buffered_picture_buffers_, Waiting, calls)'
      /\ \A x \in InFlight' : x = m \/ x \in M
      /\ \A s : Has(calls', s) <=> Has(calls, s) \/ m.type = s
  BY <1>2, <1>3, <1>4, CallSent
<1>6. \A x \in InFlight' \ InFlight :
        x.buf = 0 /\ x.type # "PictureReady" /\ x.id <= sent
  <2>1. 0 <= sent
    BY ConstantsAssumption DEF TypeOK
  <2>2. QED
    BY <1>2, <1>5, <2>1
<1>7. Exchanging(InFlight)'
  <2>1. state_' = state_ /\ aborted' = aborted
    BY DEF decoderVars
  <2>2. /\ \A x \in M : x.type \in Exchanges => Ongoing(phase, x.type)
        /\ state_ = "kFlushing" =>
             /\ \A x \in M : x.type \in Exchanges => x.type = "Reset"
             /\ phase \in {"draining", "aborting", "destroyed"}
        /\ ~aborted /\ (state_ = "kFlushing" \/ \E a \in M : a.type \in Drains)
             => \A x \in M : x.type # "Reset"
    BY <1>1 DEF Exchanging, Lifecycle
  <2>3. /\ phase = "normal" => \A x \in M : x.type \notin Exchanges
        /\ Drains \cup {"Reset"} \subseteq Exchanges
    BY <2>2 DEF Ongoing, Drains, Exchanges
  <2>4. CASE t = "Flush"
    <3>1. phase = "normal" /\ phase' = "draining" /\ state_ # "kFlushing"
      BY <2>2, <2>4 DEF Goes
    <3>2. \A x \in InFlight' : x.type \in Exchanges => x.type = "Flush"
      BY <1>2, <1>5, <2>3, <2>4, <3>1
    <3>3. QED
      BY <2>1, <2>3, <3>1, <3>2 DEF Exchanging, Ongoing, Drains
  <2>5. CASE t = "Reset"
    <3>1. CASE phase = "normal"
      <4>1. phase' = "resetting" /\ state_ # "kFlushing"
        BY <2>2, <2>5, <3>1 DEF Goes
      <4>2. \A x \in InFlight' : x.type \in Exchanges => x.type = "Reset"
        BY <1>2, <1>5, <2>3, <2>5, <3>1
      <4>3. \A x \in InFlight' : x.type \notin Drains
        BY <2>3, <4>2 DEF Drains
      <4>4. QED
        BY <2>1, <4>1, <4>2, <4>3 DEF Exchanging, Ongoing, Resets
    <3>2. CASE phase # "normal"
      <4>1. phase = "draining" /\ aborted /\ phase' = "aborting"
        BY <2>5, <3>2 DEF Goes
      <4>2. \A x \in M : x.type \in Exchanges => x.type \in Drains
        BY <2>2, <4>1 DEF Ongoing
      <4>3. \A x \in InFlight' : x.type \in Exchanges => Ongoing("aborting", x.type)
        BY <1>2, <1>5, <2>5, <4>2 DEF Ongoing, Resets
      <4>4. state_ = "kFlushing" =>
              \A x \in InFlight' : x.type \in Exchanges => x.type = "Reset"
        BY <1>2, <1>5, <2>2, <2>5
      <4>5. QED
        BY <2>1, <4>1, <4>3, <4>4 DEF Exchanging
    <3>3. QED
      BY <3>1, <3>2
  <2>6. CASE t \notin {"Flush", "Reset"}
    <3>1. phase' = phase \/ phase' = "destroyed"
      BY <2>6 DEF Goes
    <3>2. \A x \in InFlight' : x.type \in Exchanges => x \in M
      BY <1>2, <1>5, <2>6 DEF Exchanges
    <3>3. \A x \in InFlight' : x.type \in Drains \cup {"Reset"} => x \in M
      BY <2>3, <3>2
    <3>4. \A x \in InFlight' : x.type \in Exchanges => Ongoing(phase', x.type)
      BY <2>2, <3>1, <3>2 DEF Ongoing
    <3>5. QED
      BY <2>1, <2>2, <3>2, <3>3, <3>4 DEF Exchanging
  <2>7. QED
    BY <2>4, <2>5, <2>6
<1>8. Asking(InFlight)'
  <2>1. UNCHANGED <<client_, output_picture_buffers_, pictures_requested_>>
    BY DEF decoderVars
  <2>2. m.type \in Askings => t = "AssignPictureBuffers"
    BY <1>2 DEF Askings
  <2>3. QED
    BY <1>1, <1>2, <1>5, <2>1, <2>2 DEF Asking
<1>9. Lifecycle'
  <2>1. /\ Has(calls', "Initialize") <=> Has(calls, "Initialize")
        /\ Has(calls', "Destroy") <=> Has(calls, "Destroy") \/ t = "Destroy"
    BY <1>2, <1>5
  <2>2. /\ ~Has(calls, "Destroy") /\ state_ # "deleted"
        /\ state_ = "kFlushing" => phase \in {"draining", "aborting", "destroyed"}
    BY <1>1 DEF Lifecycle
  <2>3. phase' # "destroyed" => t # "Destroy"
    BY DEF Goes
  <2>4. state_ = "kFlushing" => phase' \in {"draining", "aborting", "destroyed"}
    BY <2>2 DEF Goes
  <2>5. QED
    BY <2>1, <2>2, <2>3, <2>4, ClientLifecycle
<1>10. available' \subseteq available /\ UNCHANGED <<texture, held, sent>>
  BY DEF decoderVars
<1>11. QED
  BY <1>1, <1>5, <1>6, <1>7, <1>8, <1>9, <1>10, MoveKeeps

\* The client flushes, resets or stops.
LEMMA ClientRequestKeeps ==
  ASSUME TypeOK, PipelineInv, ClientFlush \/ ClientReset \/ ClientStop
  PROVE  PipelineInv'
<1> DEFINE M == Flight(notes', loop, buffered_picture_buffers_, Waiting, calls)
<1>1. PICK t \in {"Flush", "Reset", "Destroy"} :
        /\ phase # "destroyed" /\ Goes(t)
        /\ calls' = Append(calls, Msg(t))
        /\ UNCHANGED <<decoderVars, loop>>
        /\ UNCHANGED <<notes, sent, held, aborted>>
  <2>1. CASE ClientFlush
    BY <2>1 DEF ClientFlush, Call, Goes
  <2>2. CASE ClientReset
    BY <2>2 DEF ClientReset, Call, Goes
  <2>3. CASE ClientStop
    BY <2>3 DEF ClientStop, Call, Goes
  <2>4. QED
    BY <2>1, <2>2, <2>3
<1>2. /\ notes' \in Seq(Messages)
      /\ Ordered(notes', loop, buffered_picture_buffers_, Waiting, calls)
      /\ M \subseteq InFlight
  BY <1>1, PipelineTypes DEF PipelineInv, InFlight
<1>3. /\ t \in {"Flush", "Reset", "Destroy", "AssignPictureBuffers"}
      /\ t # "AssignPictureBuffers"
  BY <1>1
<1>5. Blame'
  BY <1>1, BlameKept DEF PipelineInv, Goes, decoderVars
<1>4. M = Flight(notes', loop, buffered_picture_buffers_, Waiting, calls)
  OBVIOUS
<1> HIDE DEF M
<1>6. QED
  BY <1>1, <1>2, <1>3, <1>4, <1>5, ClientCallKeeps

\* A notification is received.
LEMMA ReceiveKeeps ==
  ASSUME TypeOK, PipelineInv, Receive
  PROVE  PipelineInv'
<1> DEFINE m == Head(notes)
           M == Flight(notes', loop, buffered_picture_buffers_, Waiting, calls)
<1>1. /\ notes # <<>> /\ notes' = Tail(notes)
      /\ UNCHANGED <<decoderVars, loop>> /\ UNCHANGED <<sent, aborted>>
  BY DEF Receive, ReceiveDone, ReceiveEndOfBitstreamBuffer,
         ReceivePictureReady, ReceiveProvidePictureBuffers, ReceiveError,
         ReceiveNothing, Receives
<1>2. /\ notes' \in Seq(Messages)
      /\ Ordered(notes', loop, buffered_picture_buffers_, Waiting, calls)
      /\ M \subseteq InFlight /\ m \in InFlight /\ m \in Messages
      /\ \A x \in M : MayPrecede(m, x)
      /\ Elems(notes') \subseteq Elems(notes) /\ Elems(notes') \subseteq M
  BY <1>1, NoteLeaves
<1>3. /\ Exchanging(InFlight) /\ Asking(InFlight) /\ Lifecycle
      /\ Numbered(InFlight, sent) /\ Apart(InFlight, held)
      /\ Owned(InFlight \cup held, available, texture)
      /\ \A p \in held : p.buf # 0
  BY DEF PipelineInv, TypeOK, Message, OfBuffer
<1>4. M = Flight(notes', loop, buffered_picture_buffers_, Waiting, calls)
  OBVIOUS
<1>5. ASSUME calls' = calls
      PROVE  /\ InFlight' = M
             /\ Ordered(notes, loop, buffered_picture_buffers_, Waiting, calls)'
  BY <1>1, <1>2, <1>5 DEF InFlight, Waiting, decoderVars
<1> HIDE DEF m, M
<1>a. ASSUME phase' = phase \/ phase' = "destroyed" PROVE Blame'
  <2>1. phase \in {"aborting", "destroyed"} => phase' \in {"aborting", "destroyed"}
    BY <1>a
  <2>2. (client_' => client_) /\ (aborted => aborted')
    BY <1>1 DEF decoderVars
  <2>3. QED
    BY <1>2, <2>1, <2>2, BlameKept DEF PipelineInv
<1>6. ASSUME UNCHANGED <<calls, phase, held>> PROVE PipelineInv'
  <2>1. \A x \in InFlight' \ InFlight :
          /\ x.buf = 0 /\ x.id <= sent
          /\ x.type \notin Exchanges \cup Askings \cup {"PictureReady"}
    BY <1>2, <1>5, <1>6
  <2>2. /\ Has(calls', "Initialize") <=> Has(calls, "Initialize")
        /\ Has(calls', "Destroy") => Has(calls, "Destroy")
        /\ state_ = "deleted" => calls' = <<>>
        /\ state_ = "kFlushing" => pending_output_samples_' # <<>>
        /\ ~buffering_' => buffered_picture_buffers_' = <<>>
    BY <1>1, <1>3, <1>6 DEF Lifecycle, decoderVars
  <2>3. UNCHANGED <<state_, client_, output_picture_buffers_, available,
                    texture, pictures_requested_, phase, aborted, held, sent>>
    BY <1>1, <1>6 DEF decoderVars
  <2>4. QED
    BY <1>5, <1>6, <1>a, <2>1, <2>2, <2>3, QuietKeeps
<1>7. CASE ReceiveDone
  <2>1. /\ phase # "destroyed" /\ m.type \in {"InitializeDone", "FlushDone", "ResetDone"}
        /\ phase' = IF phase = "aborting" THEN "resetting" ELSE "normal"
        /\ UNCHANGED <<calls, held>>
    BY <1>7 DEF ReceiveDone, Receives, m
  <2>2. m.type \in Exchanges /\ m.type # "Reset"
    BY <2>1 DEF Exchanges
  <2>3. Ongoing(phase, m.type) /\ state_ # "kFlushing" /\ state_ # "deleted"
    BY <1>2, <1>3, <2>1, <2>2 DEF Exchanging, Lifecycle
  <2>4. \A x \in M : /\ x.type \in Exchanges => m.type \in Drains /\ x.type \in Resets
                     /\ x.type # "IllegalState"
    <3>1. "IllegalState" \notin Resets
      BY DEF Resets
    <3>2. QED
      BY <1>2, <2>2, <3>1 DEF MayPrecede
  <2>5. \A x \in M : x.type \in Exchanges => Ongoing(phase', x.type)
    <3>1. ASSUME NEW x \in M, x.type \in Exchanges
          PROVE  Ongoing(phase', x.type)
      <4>1. /\ m.type \in Drains /\ x.type \in Resets /\ Ongoing(phase, x.type)
        BY <1>2, <1>3, <2>4, <3>1 DEF Exchanging
      <4>2. phase = "aborting"
        BY <2>1, <2>3, <4>1 DEF Ongoing, Drains, Resets
      <4>3. QED
        BY <2>1, <4>1, <4>2 DEF Ongoing
    <3>2. QED
      BY <3>1
  <2>6. Exchanging(InFlight)'
    <3>1. state_' = state_ /\ aborted' = aborted
      BY <1>1 DEF decoderVars
    <3>2. \A x \in M : x.type \notin Drains
      BY <2>4 DEF Drains, Resets, Exchanges
    <3>3. QED
      BY <1>5, <2>1, <2>3, <2>5, <3>1, <3>2 DEF Exchanging
  <2>7. Asking(InFlight)'
    BY <1>1, <1>2, <1>3, <1>5, <2>1 DEF Asking, decoderVars
  <2>8. Lifecycle'
    <3>1. ~Has(calls, "Destroy")
      BY <1>3, <2>1 DEF Lifecycle
    <3>2. QED
      BY <1>1, <2>1, <2>3, <3>1, ClientLifecycle
  <2>9. \A x \in InFlight' \ InFlight :
          x.buf = 0 /\ x.type # "PictureReady" /\ x.id <= sent
    BY <1>2, <1>5, <2>1
  <2>10. available' \subseteq available /\ UNCHANGED <<texture, held, sent>>
    BY <1>1, <2>1 DEF decoderVars
  <2>11. Blame'
    <3>1. Blames(Elems(notes))
      BY HasElems DEF PipelineInv
    <3>2. \A x \in Elems(notes') :
            x.type # "InvalidArgument" /\ x.type # "IllegalState"
      BY <1>2, <2>4, <3>1 DEF Blames
    <3>3. Blames(Elems(notes))'
      BY <3>2 DEF Blames
    <3>4. QED
      BY <3>3, HasElems
  <2>12. QED
    BY <1>3, <1>5, <2>1, <2>6, <2>7, <2>8, <2>9, <2>10, <2>11, MoveKeeps
<1>8. CASE ReceiveEndOfBitstreamBuffer \/ ReceiveNothing
  BY <1>6, <1>8 DEF ReceiveEndOfBitstreamBuffer, ReceiveNothing
<1>9. CASE ReceivePictureReady
  <2>1. /\ phase # "destroyed" /\ m.type = "PictureReady"
        /\ held' = held \cup {m} /\ UNCHANGED <<calls, phase>>
    BY <1>9 DEF ReceivePictureReady, Receives, m
  <2>2. m.buf # 0
    BY <1>2, <2>1, MessageParts DEF OfBuffer
  <2>3. \A x \in M : m.buf # x.buf
    BY <1>2, <2>2 DEF MayPrecede
  <2>4. InFlight' = M /\ Ordered(notes, loop, buffered_picture_buffers_, Waiting, calls)'
    BY <1>5, <2>1
  <2>5. Numbered(InFlight', sent')
    BY <1>1, <1>2, <1>3, <2>4 DEF Numbered
  <2>6. Owned(InFlight' \cup held', available', texture')
    <3>1. UNCHANGED <<available, texture>>
      BY <1>1 DEF decoderVars
    <3>2. \A x \in InFlight' \cup held' : x \in InFlight \cup held
      BY <1>2, <2>1, <2>4
    <3>3. QED
      BY <1>3, <3>1, <3>2 DEF Owned
  <2>7. Apart(InFlight', held')
    <3>1. \A q \in held : q.buf # m.buf
      BY <1>2, <1>3 DEF Apart
    <3>2. QED
      BY <1>2, <1>3, <2>1, <2>3, <2>4, <3>1 DEF Apart
  <2>8. Exchanging(InFlight)'
    <3>1. state_' = state_
      BY <1>1 DEF decoderVars
    <3>2. QED
      BY <1>1, <1>2, <1>3, <2>1, <2>4, <3>1 DEF Exchanging
  <2>9. Asking(InFlight)'
    <3>1. ~(client_ /\ output_picture_buffers_ = {})
      BY <1>2, <1>3, <2>2 DEF Asking
    <3>2. QED
      BY <1>1, <1>2, <1>3, <2>4, <3>1 DEF Asking, decoderVars
  <2>10. Lifecycle'
    <3>1. /\ ~Has(calls, "Destroy") /\ state_ # "deleted"
          /\ state_ = "kFlushing" => phase \in {"draining", "aborting", "destroyed"}
      BY <1>3, <2>1 DEF Lifecycle
    <3>2. QED
      BY <1>1, <2>1, <3>1, ClientLifecycle
  <2>11. QED
    BY <1>a, <2>1, <2>4, <2>5, <2>6, <2>7, <2>8, <2>9, <2>10 DEF PipelineInv
<1>10. ASSUME NEW t \in {"AssignPictureBuffers", "Destroy"},
              phase # "destroyed", Goes(t), UNCHANGED held,
              calls' = Append(calls, Msg(t)),
              t = "AssignPictureBuffers" => m.type = "ProvidePictureBuffers"
       PROVE  PipelineInv'
  <2>1. t = "AssignPictureBuffers" =>
          /\ pictures_requested_ /\ (client_ => output_picture_buffers_ = {})
          /\ \A x \in M : x.type \notin Askings
    <3>1. ASSUME t = "AssignPictureBuffers" PROVE m.type \in Askings
      BY <1>10, <3>1 DEF Askings
    <3>2. QED
      BY <1>2, <1>3, <3>1 DEF Asking, MayPrecede
  <2>2. t \in {"Flush", "Reset", "Destroy", "AssignPictureBuffers"} /\ Blame'
    BY <1>10, <1>a DEF Goes
  <2>3. UNCHANGED <<sent, held, aborted>>
    BY <1>1, <1>10
  <2>4. QED
    BY <1>1, <1>2, <1>4, <1>10, <2>1, <2>2, <2>3, ClientCallKeeps
<1>11. CASE ReceiveProvidePictureBuffers \/ ReceiveError
  <2>1. /\ phase # "destroyed" /\ UNCHANGED held
        /\ \/ /\ m.type = "ProvidePictureBuffers" /\ phase' = phase
              /\ calls' = Append(calls, Msg("AssignPictureBuffers"))
           \/ /\ phase' = "destroyed"
              /\ calls' = Append(calls, Msg("Destroy"))
    BY <1>11 DEF ReceiveProvidePictureBuffers, ReceiveError, Receives, m
  <2>2. CASE /\ m.type = "ProvidePictureBuffers" /\ phase' = phase
             /\ calls' = Append(calls, Msg("AssignPictureBuffers"))
    BY <1>10, <2>1, <2>2 DEF Goes
  <2>3. CASE /\ phase' = "destroyed"
             /\ calls' = Append(calls, Msg("Destroy"))
    BY <1>10, <2>1, <2>3 DEF Goes
  <2>4. QED
    BY <2>1, <2>2, <2>3
<1>12. QED
  BY <1>7, <1>8, <1>9, <1>11 DEF Receive

\* The factories are aborted: a Reset may now reach a decoder that is flushing.
LEMMA FactoriesAbortKeeps ==
  ASSUME TypeOK, PipelineInv, FactoriesAbort
  PROVE  PipelineInv'
<1>1. /\ aborted' = TRUE
      /\ UNCHANGED <<decoderVars, loop, calls, notes, phase, sent, held>>
  BY DEF FactoriesAbort
<1>2. InFlight' = InFlight
  BY <1>1 DEF InFlight, Waiting, decoderVars
<1>3. Ordered(notes, loop, buffered_picture_buffers_, Waiting, calls)'
  BY <1>1 DEF PipelineInv, Waiting, decoderVars
<1>4. Blame'
  BY <1>1, BlameKept DEF PipelineInv, decoderVars
<1>5. Exchanging(InFlight)'
  BY <1>1, <1>2 DEF PipelineInv, Exchanging, decoderVars
<1>6. Lifecycle'
  BY <1>1 DEF PipelineInv, Lifecycle, decoderVars
<1>7. Asking(InFlight)'
  BY <1>1, <1>2 DEF PipelineInv, Asking, decoderVars
<1>8. QED
  BY <1>1, <1>2, <1>3, <1>4, <1>5, <1>6, <1>7 DEF PipelineInv, decoderVars

\* No step of the client breaks the invariant.
LEMMA ClientKeeps ==
  ASSUME TypeOK, PipelineInv, Client
  PROVE  PipelineInv'
<1>1. CASE \E p \in held : ClientReuse(p)
  BY <1>1, ClientReuseKeeps
<1>2. QED
  BY <1>1, ClientDecodeKeeps, ClientRequestKeeps, FactoriesAbortKeeps,
     ReceiveKeeps DEF Client

-----------------------------------------------------------------------------
(***************************************************************************)
(* The invariant, and what follows from it.                                *)
(***************************************************************************)

\* At first the pipeline holds the Initialize call and nothing else.
LEMMA InitPipeline == Init => PipelineInv
<1> SUFFICES ASSUME Init PROVE PipelineInv
  OBVIOUS
<1> DEFINE m == Msg("Initialize")
<1>1. /\ notes = <<>> /\ loop = <<>> /\ buffered_picture_buffers_ = <<>>
      /\ pending_output_samples_ = <<>> /\ pending_input_buffers_ = <<>>
      /\ inputs_copy = <<>> /\ calls = <<m>>
  BY DEF Init
<1>2. Waiting = <<>>
  BY <1>1 DEF Waiting
<1>3. m = [type |-> "Initialize", buf |-> 0, id |-> 0]
  BY DEF Msg
<1> HIDE DEF m
<1>4. notes \o loop \o buffered_picture_buffers_ \o Frames(Waiting) \o calls
        = <<m>>
  <2>1. Frames(Waiting) = <<>>
    BY <1>2, FrameTypes
  <2>2. <<>> \o <<>> \o <<>> \o <<>> \o <<m>> = <<m>>
    OBVIOUS
  <2>3. QED
    BY <1>1, <2>1, <2>2
<1>5. Ordered(notes, loop, buffered_picture_buffers_, Waiting, calls)
  BY <1>4, ChainRules DEF Ordered
<1>6. /\ Elems(<<>>) = {} /\ Elems(<<m>>) = {m}
  BY ElemsRules
<1>7. InFlight = {m}
  BY <1>1, <1>2, <1>6, FrameTypes DEF InFlight, Flight
<1>8. /\ Has(calls, "Initialize") /\ ~Has(calls, "Destroy")
  BY <1>1, <1>3 DEF Has
<1>9. Numbered(InFlight, sent) /\ Apart(InFlight, held)
  BY <1>3, <1>7 DEF Init, Numbered, Apart
<1>10. Owned(InFlight \cup held, available, texture)
  BY <1>3, <1>7 DEF Init, Owned
<1>11. Exchanging(InFlight) /\ Asking(InFlight)
  <2>1. m.type = "Initialize" /\ m.buf = 0
    BY <1>3
  <2>2. Exchanging(InFlight)
    BY <1>7, <2>1 DEF Init, Exchanging, Ongoing, Drains
  <2>3. Asking(InFlight)
    BY <1>7, <2>1 DEF Init, Asking, Askings
  <2>4. QED
    BY <2>2, <2>3
<1>12. Lifecycle /\ Blame
  BY <1>1, <1>8 DEF Init, Lifecycle, Blame, NoProtocolError
<1>13. QED
  BY <1>5, <1>9, <1>10, <1>11, <1>12 DEF PipelineInv

\* No step at all breaks the invariant.
LEMMA NextPipeline ==
  (/\ TypeOK /\ TypeOK' /\ SurfaceHoldsPendingSample /\ InitializeComesFirst
   /\ PipelineInv /\ [Next]_vars)
    => PipelineInv'
<1> SUFFICES ASSUME TypeOK, TypeOK', SurfaceHoldsPendingSample,
                    InitializeComesFirst, PipelineInv, [Next]_vars
             PROVE  PipelineInv'
  OBVIOUS
<1>1. CASE UNCHANGED vars
  BY <1>1 DEF vars, decoderVars, clientVars, PipelineInv, InFlight, Waiting,
              Exchanging, Asking, Lifecycle, Blame, NoProtocolError
<1>2. QED
  BY <1>1, MainThreadKeeps, MessageReceivedKeeps, ClientKeeps DEF Next

\* The messages of the pipeline stay in order and agree with the state of the
\* decoder and of its client, whatever the stream and the failures.
THEOREM PipelineSafe == Spec => []PipelineInv
<1>1. Init => InitializeComesFirst
  BY DEF Init, InitializeComesFirst, Has, Msg
<1>2. QED
  BY <1>1, InitPipeline, NextPipeline, NextType, NextInitialize, TypeCorrect,
     SurfaceSafe, PTL DEF Spec

\* A client is told that it broke the protocol only if its factories were
\* aborted and it therefore sent a Reset during a drain: no handler of any other
\* call finds the decoder in a state it must refuse.
THEOREM ProtocolKept == Spec => []NoProtocolError
<1>1. PipelineInv => NoProtocolError
  BY DEF PipelineInv, Blame
<1>2. QED
  BY <1>1, PipelineSafe, PTL

\* A picture that is announced, held back or in the client's hands shows its
\* frame, and its picture buffer is not used for another one.
THEOREM PicturesAreKept == Spec => []PictureShowsItsFrame
<1>1. TypeOK /\ PipelineInv => PictureShowsItsFrame
  <2> SUFFICES ASSUME TypeOK, PipelineInv, NEW p \in PicturesOut
               PROVE  p.buf \notin available /\ texture[p.buf] = p.id
    BY DEF PictureShowsItsFrame
  <2>1. Owned(InFlight \cup held, available, texture)
    BY DEF PipelineInv
  <2>2. /\ notes \in Seq(Messages) /\ loop \in Seq(Messages)
        /\ \A m \in Elems(buffered_picture_buffers_) : m.type = "PictureReady"
        /\ buffered_picture_buffers_ \in Seq(Messages)
    BY PipelineTypes, PartTypes DEF TypeOK
  <2>3. Elems(Outgoing) = Elems(notes) \cup Elems(loop)
    BY <2>2, ElemsConcat DEF Outgoing
  <2>4. p \in InFlight \cup held /\ p.type = "PictureReady" /\ p \in Messages
    <3>1. CASE p \in held
      <4>1. p \in Message({"PictureReady"})
        BY <3>1 DEF TypeOK
      <4>2. p.type = "PictureReady"
        BY <4>1 DEF Message
      <4>3. p \in Messages
        BY <4>1, MessageTypes DEF Messages, Tasks, Notes
      <4>4. QED
        BY <3>1, <4>2, <4>3
    <3>2. CASE p \in Elems(buffered_picture_buffers_)
      BY <2>2, <3>2, ElemsRules DEF InFlight, Flight
    <3>3. CASE p \in Elems(Outgoing) /\ p.type = "PictureReady"
      BY <2>2, <2>3, <3>3, ElemsRules DEF InFlight, Flight
    <3>4. QED
      BY <3>1, <3>2, <3>3 DEF PicturesOut, Elems
  <2>5. p.buf # 0
    BY <2>4, MessageParts DEF OfBuffer
  <2>6. QED
    BY <2>1, <2>4, <2>5 DEF Owned
<1>2. QED
  BY <1>1, PipelineSafe, TypeCorrect, PTL

\* Pictures reach the client in the order of the bitstream buffers, though they
\* are held back, wait for picture buffers and are queued in three places.
THEOREM DecodeOrderKept == Spec => []InDecodeOrder
<1>1. PipelineInv => InDecodeOrder
  <2> SUFFICES ASSUME PipelineInv,
                      NEW j \in 1..Len(Pipeline), NEW k \in 1..Len(Pipeline),
                      j < k, Pipeline[j].type \in Carriers,
                      Pipeline[k].type \in Carriers
               PROVE  Pipeline[j].id < Pipeline[k].id
    BY DEF InDecodeOrder, Carriers
  <2>1. Chain(Pipeline)
    BY DEF PipelineInv, Ordered, Pipeline, Outgoing
  <2>2. MayPrecede(Pipeline[j], Pipeline[k])
    BY <2>1 DEF Chain
  <2>3. QED
    BY <2>2 DEF MayPrecede
<1>2. QED
  BY <1>1, PipelineSafe, PTL

\* Once a ResetDone is on its way nothing of an earlier bitstream buffer is
\* behind it: no picture, no acknowledgement, no input and no sample.
THEOREM ResetsAreComplete == Spec => []ResetDoneIsLast
<1>1. TypeOK /\ PipelineInv => ResetDoneIsLast
  <2> SUFFICES ASSUME TypeOK, PipelineInv, NEW k \in 1..Len(Outgoing),
                      Outgoing[k].type = "ResetDone"
               PROVE  /\ \A j \in k..Len(Outgoing) : Outgoing[j].type
                           \notin {"PictureReady", "EndOfBitstreamBuffer"}
                      /\ pending_output_samples_ = <<>>
                      /\ pending_input_buffers_ = <<>>
                      /\ buffered_picture_buffers_ = <<>>
                      /\ inputs_copy = <<>>
    BY DEF ResetDoneIsLast
  <2> DEFINE h == buffered_picture_buffers_
             f == Frames(Waiting)
  <2>1. /\ notes \in Seq(Messages) /\ loop \in Seq(Messages)
        /\ h \in Seq(Messages) /\ Waiting \in Seq(Inputs)
        /\ calls \in Seq(Messages) /\ f \in Seq(Messages)
        /\ \A m \in Elems(h) : m.type = "PictureReady"
    BY PipelineTypes, PartTypes, FrameTypes DEF TypeOK
  <2>2. PartsOrdered(notes, loop, h, Waiting, calls)
    BY <2>1, OrderedParts DEF PipelineInv
  <2>3. /\ Outgoing \in Seq(Messages)
        /\ Elems(Outgoing) = Elems(notes) \cup Elems(loop)
    BY <2>1, ElemsConcat DEF Outgoing
  <2>4. /\ Chain(Outgoing)
        /\ \A a \in Elems(Outgoing), b \in Elems(h) \cup Elems(f) :
             MayPrecede(a, b)
    BY <2>1, <2>2, <2>3, ChainConcat DEF PartsOrdered, Outgoing
  <2>5. ASSUME NEW j \in k..Len(Outgoing)
        PROVE  Outgoing[j].type \notin {"PictureReady", "EndOfBitstreamBuffer"}
    <3>1. j \in 1..Len(Outgoing) /\ (j = k \/ k < j)
      BY <2>3
    <3>2. CASE k < j
      BY <2>4, <3>1, <3>2 DEF Chain, MayPrecede
    <3>3. QED
      BY <3>1, <3>2
  <2>6. Outgoing[k] \in Elems(Outgoing)
    BY DEF Elems
  <2>7. \A b \in Elems(h) \cup Elems(f) :
          b.type \notin {"PictureReady", "Decode"}
    BY <2>4, <2>6 DEF MayPrecede
  <2>8. Elems(h) = {} /\ Elems(f) = {}
    BY <2>1, <2>7, FrameElems
  <2>9. ASSUME NEW S, NEW q \in Seq(S), Elems(q) = {}
        PROVE  q = <<>>
    <3>1. 1 \in 1..Len(q) => q[1] \in Elems(q)
      BY DEF Elems
    <3>2. Len(q) \in Nat /\ ~(1 \in 1..Len(q))
      BY <2>9, <3>1
    <3>3. QED
      BY <3>2
  <2>10. h = <<>> /\ f = <<>>
    BY <2>1, <2>8, <2>9
  <2>11. Len(Waiting) = 0
    <3>1. Len(f) = Len(Waiting)
      BY <2>1 DEF Frames
    <3>2. QED
      BY <2>10, <3>1
  <2>12. /\ pending_output_samples_ = <<>> /\ pending_input_buffers_ = <<>>
         /\ inputs_copy = <<>>
    BY <2>11 DEF Waiting, TypeOK
  <2>13. QED
    BY <2>5, <2>10, <2>12
<1>2. QED
  BY <1>1, PipelineSafe, TypeCorrect, PTL
=============================================================================
