------------------- MODULE VPXVideoDecodeAcceleratorProofs -------------------
(***************************************************************************)
(* What holds of the VP9 hardware decoder for every number of picture      *)
(* buffers, inputs in flight and stream, and whichever failures occur.     *)
(***************************************************************************)
EXTENDS VPXVideoDecodeAccelerator, TLAPS

-----------------------------------------------------------------------------
(***************************************************************************)
(* Messages and sequences.                                                 *)
(***************************************************************************)

\* Every message record the decoder or its client makes is well typed.
LEMMA MessageTypes ==
  /\ \A types : \A t \in types \ (OfBuffer \cup OfInput) :
       Msg(t) \in Message(types)
  /\ \A i \in Inputs :
       Decoded(i) \in Message(Tasks) /\ Decoded(i) \in Message(Notes \cup Errors)
  /\ \A b \in PictureIds, i \in Inputs :
       /\ PictureReady(b, i) \in Message({"PictureReady"})
       /\ PictureReady(b, i) \in Message(Tasks)
  /\ \A S, T : S \subseteq T => Message(S) \subseteq Message(T)
BY ConstantsAssumption
   DEF Msg, Decoded, PictureReady, Message, OfBuffer, OfInput,
       Inputs, PictureIds, Tasks, Notes

\* Growing, shrinking and splitting a sequence keeps the type of its elements.
LEMMA SeqTypes ==
  ASSUME NEW S
  PROVE  /\ <<>> \in Seq(S)
         /\ \A e \in S : <<e>> \in Seq(S)
         /\ \A s, t \in Seq(S) : s \o t \in Seq(S)
         /\ \A s \in Seq(S), e \in S : Append(s, e) \in Seq(S)
         /\ \A s \in Seq(S) : s # <<>> => Head(s) \in S /\ Tail(s) \in Seq(S)
         /\ \A s \in Seq(S), n \in Nat :
              n <= Len(s) => SubSeq(s, n + 1, Len(s)) \in Seq(S)
OBVIOUS

\* A sequence over a set is one over any larger set.
LEMMA SeqLarger ==
  ASSUME NEW S, NEW T, S \subseteq T
  PROVE  Seq(S) \subseteq Seq(T)
OBVIOUS

-----------------------------------------------------------------------------
(***************************************************************************)
(* What is in a queue.                                                     *)
(***************************************************************************)

\* An empty queue has nothing, and a queue of one message has that message.
LEMMA HasSingle ==
  /\ \A t : ~Has(<<>>, t)
  /\ \A m, t : Has(<<m>>, t) <=> m.type = t
BY DEF Has

\* A concatenation has what either part has.
LEMMA HasConcat ==
  ASSUME NEW S, NEW a \in Seq(S), NEW b \in Seq(S), NEW t
  PROVE  Has(a \o b, t) <=> Has(a, t) \/ Has(b, t)
<1>1. /\ Len(a) \in Nat /\ Len(b) \in Nat /\ Len(a \o b) = Len(a) + Len(b)
      /\ \A k \in 1..Len(a) : (a \o b)[k] = a[k]
      /\ \A k \in 1..Len(b) : (a \o b)[Len(a) + k] = b[k]
  OBVIOUS
<1>2. ASSUME Has(a, t) PROVE Has(a \o b, t)
  BY <1>1, <1>2 DEF Has
<1>3. ASSUME Has(b, t) PROVE Has(a \o b, t)
  <2>1. PICK k \in 1..Len(b) : b[k].type = t
    BY <1>3 DEF Has
  <2>2. Len(a) + k \in 1..Len(a \o b) /\ (a \o b)[Len(a) + k].type = t
    BY <1>1, <2>1
  <2>3. QED
    BY <2>2 DEF Has
<1>4. ASSUME Has(a \o b, t), ~Has(a, t) PROVE Has(b, t)
  <2>1. PICK k \in 1..Len(a \o b) : (a \o b)[k].type = t
    BY <1>4 DEF Has
  <2>2. k \notin 1..Len(a)
    BY <1>1, <1>4, <2>1 DEF Has
  <2>3. k - Len(a) \in 1..Len(b) /\ b[k - Len(a)].type = t
    BY <1>1, <2>1, <2>2
  <2>4. QED
    BY <2>3 DEF Has
<1>5. QED
  BY <1>2, <1>3, <1>4

\* Appending a message adds its type and no other.
LEMMA HasAppend ==
  ASSUME NEW S, NEW s \in Seq(S), NEW m \in S, NEW t
  PROVE  Has(Append(s, m), t) <=> Has(s, t) \/ m.type = t
<1>1. /\ Len(s) \in Nat /\ Len(Append(s, m)) = Len(s) + 1
      /\ \A k \in 1..Len(s) : Append(s, m)[k] = s[k]
      /\ Append(s, m)[Len(s) + 1] = m
  OBVIOUS
<1>2. ASSUME Has(s, t) \/ m.type = t PROVE Has(Append(s, m), t)
  BY <1>1, <1>2 DEF Has
<1>3. ASSUME Has(Append(s, m), t), m.type # t PROVE Has(s, t)
  <2>1. PICK k \in 1..(Len(s) + 1) : Append(s, m)[k].type = t
    BY <1>1, <1>3 DEF Has
  <2>2. k # Len(s) + 1
    BY <1>1, <1>3, <2>1
  <2>3. k \in 1..Len(s) /\ s[k].type = t
    BY <1>1, <2>1, <2>2
  <2>4. QED
    BY <2>3 DEF Has
<1>4. QED
  BY <1>2, <1>3

\* A queue has what its head and the rest of it have.
LEMMA HasTail ==
  ASSUME NEW S, NEW s \in Seq(S), s # <<>>, NEW t
  PROVE  Has(s, t) <=> Head(s).type = t \/ Has(Tail(s), t)
<1>1. /\ Len(s) \in Nat \ {0} /\ Len(Tail(s)) = Len(s) - 1
      /\ Head(s) = s[1]
      /\ \A k \in 1..(Len(s) - 1) : Tail(s)[k] = s[k + 1]
  OBVIOUS
<1>2. ASSUME Head(s).type = t PROVE Has(s, t)
  BY <1>1, <1>2 DEF Has
<1>3. ASSUME Has(Tail(s), t) PROVE Has(s, t)
  <2>1. PICK k \in 1..(Len(s) - 1) : Tail(s)[k].type = t
    BY <1>1, <1>3 DEF Has
  <2>2. k + 1 \in 1..Len(s) /\ s[k + 1].type = t
    BY <1>1, <2>1
  <2>3. QED
    BY <2>2 DEF Has
<1>4. ASSUME Has(s, t), Head(s).type # t PROVE Has(Tail(s), t)
  <2>1. PICK k \in 1..Len(s) : s[k].type = t
    BY <1>4 DEF Has
  <2>2. k # 1
    BY <1>1, <1>4, <2>1
  <2>3. k - 1 \in 1..Len(Tail(s)) /\ Tail(s)[k - 1].type = t
    BY <1>1, <2>1, <2>2
  <2>4. QED
    BY <2>3 DEF Has
<1>5. QED
  BY <1>2, <1>3, <1>4

-----------------------------------------------------------------------------
(***************************************************************************)
(* Type correctness.                                                       *)
(***************************************************************************)

\* The part of TypeOK that every handler of the decoder may change.
HandlerTypeOK ==
  /\ state_ \in {"kUninitialized", "kNormal", "kFlushing", "deleted"}
  /\ client_ \in BOOLEAN /\ buffering_ \in BOOLEAN
  /\ pictures_requested_ \in BOOLEAN
  /\ pending_output_samples_ \in Seq(Inputs)
  /\ pending_input_buffers_ \in Seq(Inputs)
  /\ output_picture_buffers_ \subseteq PictureIds
  /\ available \subseteq output_picture_buffers_
  /\ texture \in [PictureIds -> 0..MaxInputs] /\ texture_dimensions_ \in Nat
  /\ buffered_picture_buffers_ \in Seq(Message({"PictureReady"}))
  /\ loop \in Seq(Message(Tasks))
  /\ notes \in Seq(Message(Notes \cup Errors))

\* StopOnError leaves everything it touches well typed.
LEMMA StopOnErrorType ==
  ASSUME TypeOK, NEW rest \in Seq(Message(Tasks)), NEW error \in Errors,
         StopOnError(rest, error), buffering_' \in BOOLEAN
  PROVE  HandlerTypeOK'
<1>1. Msg(error) \in Message(Notes \cup Errors)
  BY MessageTypes DEF Errors, OfBuffer, OfInput
<1>2. notes' \in Seq(Message(Notes \cup Errors))
  BY <1>1, SeqTypes DEF TypeOK, StopOnError
<1>3. QED
  BY <1>2, SeqTypes DEF TypeOK, StopOnError, HandlerTypeOK

\* What Present adds to the loop: the wake-up it owes, and nothing but `ack`,
\* pictures, wake-ups and the end of a flush.
LEMMA PresentType ==
  ASSUME TypeOK,
         NEW rest \in Seq(Message(Tasks)), NEW samples \in Seq(Inputs),
         NEW buffering \in BOOLEAN,
         NEW buffers \in SUBSET PictureIds, NEW free \in SUBSET buffers,
         NEW ack \in Seq(Message(Tasks)),
         NEW n \in 0..Len(samples), NEW ids \in [1..n -> free],
         Present(rest, samples, buffering, buffers, free, ack, n, ids)
  PROVE  /\ buffered_picture_buffers_' \in Seq(Message({"PictureReady"}))
         /\ loop' \in Seq(Message(Tasks))
         /\ \A t : Has(rest, t) \/ Has(ack, t) => Has(loop', t)
         /\ \A t : Has(loop', t) =>
              \/ Has(rest, t) \/ Has(ack, t)
              \/ t \in {"PictureReady", "DecodePendingInputBuffers", "FlushDone"}
         /\ n = Len(samples) /\ pending_input_buffers_ # <<>> =>
              Has(loop', "DecodePendingInputBuffers")
<1> DEFINE pictures == [k \in 1..n |-> PictureReady(ids[k], samples[k])]
           drained  == n = Len(samples)
           all      == HeldBack(pictures)
           hold     == buffering /\ Len(all) < BufferingThreshold
           announce == IF hold \/ n = 0 THEN <<>>
                       ELSE IF buffering THEN all ELSE pictures
           wakeUp   == IF WakesUp(drained)
                       THEN <<Msg("DecodePendingInputBuffers")>> ELSE <<>>
           flushed  == IF FlushCompletes(drained)
                       THEN <<Msg("FlushDone")>> ELSE <<>>
<1>1. pictures \in Seq(Message({"PictureReady"}))
  <2>1. n \in Nat /\ n <= Len(samples)
    OBVIOUS
  <2>2. \A k \in 1..n : ids[k] \in PictureIds /\ samples[k] \in Inputs
    BY <2>1
  <2>3. QED
    BY <2>1, <2>2, MessageTypes
<1>2. all \in Seq(Message({"PictureReady"}))
  BY <1>1, SeqTypes DEF TypeOK, HeldBack
<1>3. buffered_picture_buffers_' \in Seq(Message({"PictureReady"}))
  BY <1>2, SeqTypes DEF Present, TypeOK
<1>4. announce \in Seq(Message({"PictureReady"}))
  BY <1>1, <1>2, SeqTypes
<1>5. announce \in Seq(Message(Tasks))
  <2>1. Message({"PictureReady"}) \subseteq Message(Tasks)
    BY MessageTypes DEF Tasks, Notes
  <2>2. QED
    BY <1>4, <2>1, SeqLarger
<1>6. \A t : Has(announce, t) => t = "PictureReady"
  <2> HIDE DEF announce
  <2>1. \A k \in 1..Len(announce) : announce[k].type = "PictureReady"
    BY <1>4 DEF Message
  <2>2. QED
    BY <2>1 DEF Has
<1>7. wakeUp \in Seq(Message(Tasks)) /\ flushed \in Seq(Message(Tasks))
  <2>1. /\ Msg("DecodePendingInputBuffers") \in Message(Tasks)
        /\ Msg("FlushDone") \in Message(Tasks)
    BY MessageTypes DEF Tasks, Notes, OfBuffer, OfInput
  <2>2. QED
    BY <2>1, SeqTypes
<1>8. /\ \A t : Has(wakeUp, t) => t = "DecodePendingInputBuffers"
      /\ WakesUp(drained) => Has(wakeUp, "DecodePendingInputBuffers")
      /\ \A t : Has(flushed, t) => t = "FlushDone"
  BY HasSingle DEF Msg
<1>9. loop' = rest \o announce \o wakeUp \o ack \o flushed
  BY DEF Present
<1>10. loop' \in Seq(Message(Tasks))
  <2> HIDE DEF announce, wakeUp, flushed
  <2>1. QED
    BY <1>5, <1>7, <1>9, SeqTypes
<1>11. \A t : Has(loop', t) <=> \/ Has(rest, t) \/ Has(announce, t)
                               \/ Has(wakeUp, t) \/ Has(ack, t)
                               \/ Has(flushed, t)
  <2> HIDE DEF announce, wakeUp, flushed
  <2> TAKE t
  <2> DEFINE a == rest \o announce
             b == a \o wakeUp
             c == b \o ack
  <2>1. a \in Seq(Message(Tasks)) /\ (Has(a, t) <=> Has(rest, t) \/ Has(announce, t))
    BY <1>5, HasConcat, SeqTypes
  <2>2. b \in Seq(Message(Tasks)) /\ (Has(b, t) <=> Has(a, t) \/ Has(wakeUp, t))
    <3> HIDE DEF a
    <3>1. QED
      BY <1>7, <2>1, HasConcat, SeqTypes
  <2>3. c \in Seq(Message(Tasks)) /\ (Has(c, t) <=> Has(b, t) \/ Has(ack, t))
    <3> HIDE DEF b
    <3>1. QED
      BY <2>2, HasConcat, SeqTypes
  <2>4. Has(c \o flushed, t) <=> Has(c, t) \/ Has(flushed, t)
    <3> HIDE DEF c
    <3>1. QED
      BY <1>7, <2>3, HasConcat
  <2>5. QED
    BY <1>9, <2>1, <2>2, <2>3, <2>4
<1>12. n = Len(samples) /\ pending_input_buffers_ # <<>> =>
         Has(wakeUp, "DecodePendingInputBuffers")
  BY <1>8 DEF WakesUp
<1>13. QED
  <2> HIDE DEF announce, wakeUp, flushed
  <2>1. QED
    BY <1>3, <1>6, <1>8, <1>10, <1>11, <1>12

\* ProcessPendingSamples leaves everything it touches well typed, wherever it
\* is called with a free set that belongs to the picture buffers.
LEMMA ProcessPendingSamplesType ==
  ASSUME TypeOK, surface' \in 0..MaxInputs,
         NEW rest \in Seq(Message(Tasks)), NEW samples \in Seq(Inputs),
         NEW buffering \in BOOLEAN,
         NEW buffers \in SUBSET PictureIds, NEW free \in SUBSET buffers,
         NEW ack \in Seq(Message(Tasks)),
         ProcessPendingSamples(rest, samples, buffering, buffers, free, ack)
  PROVE  HandlerTypeOK'
<1>1. CASE StopOnError(rest, "PlatformFailure") /\ buffering_' = buffering
  BY <1>1, StopOnErrorType DEF Errors
<1>2. ASSUME NEW n \in 0..Len(samples), NEW ids \in [1..n -> free],
             Present(rest, samples, buffering, buffers, free, ack, n, ids)
      PROVE  HandlerTypeOK'
  <2>1. /\ output_picture_buffers_' = buffers
        /\ available' \subseteq free
        /\ texture' \in [PictureIds -> 0..MaxInputs]
        /\ pending_output_samples_' \in Seq(Inputs)
        /\ buffering_' \in BOOLEAN
        /\ state_' \in {state_, "kNormal"}
    <3>1. texture' \in [PictureIds -> 0..MaxInputs]
      BY <1>2 DEF Present, TypeOK
    <3>2. pending_output_samples_' \in Seq(Inputs)
      BY <1>2, SeqTypes DEF Present
    <3>3. buffering_' \in BOOLEAN
      BY <1>2 DEF Present
    <3>4. available' \subseteq free
      BY <1>2 DEF Present, StillAvailable
    <3>5. state_' \in {state_, "kNormal"} /\ output_picture_buffers_' = buffers
      BY <1>2 DEF Present
    <3>6. QED
      BY <3>1, <3>2, <3>3, <3>4, <3>5
  <2>2. /\ buffered_picture_buffers_' \in Seq(Message({"PictureReady"}))
        /\ loop' \in Seq(Message(Tasks))
    BY <1>2, PresentType
  <2>3. UNCHANGED <<client_, pictures_requested_, pending_input_buffers_,
                    texture_dimensions_, notes>>
    BY <1>2 DEF Present
  <2>4. QED
    BY <2>1, <2>2, <2>3 DEF TypeOK, HandlerTypeOK
<1>3. QED
  BY <1>1, <1>2 DEF ProcessPendingSamples

\* DecodeInternal leaves everything it touches well typed.
LEMMA DecodeInternalType ==
  ASSUME TypeOK, NEW rest \in Seq(Message(Tasks)), NEW i \in Inputs,
         DecodeInternal(rest, i)
  PROVE  /\ HandlerTypeOK'
         /\ restart_' \in BOOLEAN /\ stream_size' \in Nat
         /\ surface' \in 0..MaxInputs
<1> DEFINE buffering == restart_ \/ buffering_
           samples == Append(pending_output_samples_, i)
           ack == <<Decoded(i)>>
<1>1. restart_' \in BOOLEAN /\ stream_size' \in Nat
  BY ConstantsAssumption DEF DecodeInternal, PeekSize, TypeOK, Inputs
<1>2. /\ buffering \in BOOLEAN
      /\ i \in 0..MaxInputs
      /\ ack \in Seq(Message(Tasks))
      /\ samples \in Seq(Inputs)
  BY MessageTypes, SeqTypes DEF Inputs, TypeOK
<1>3. CASE /\ buffering_' = buffering
           /\ loop' = rest
           /\ UNCHANGED <<client_, state_, output_picture_buffers_, available,
                          texture, texture_dimensions_,
                          buffered_picture_buffers_, notes, surface,
                          pending_output_samples_, pictures_requested_>>
           /\ pending_input_buffers_' \in {pending_input_buffers_,
                                           Append(pending_input_buffers_, i)}
  <2>1. pending_input_buffers_' \in Seq(Inputs)
    <3>1. pending_input_buffers_ \in Seq(Inputs)
      BY DEF TypeOK
    <3>2. Append(pending_input_buffers_, i) \in Seq(Inputs)
      BY <3>1
    <3>3. QED
      BY <1>3, <3>1, <3>2
  <2>2. buffering_' \in BOOLEAN
    BY <1>2, <1>3
  <2>3. QED
    BY <1>1, <1>3, <2>1, <2>2 DEF TypeOK, HandlerTypeOK
<1>4. CASE /\ StopOnError(rest, "PlatformFailure")
           /\ buffering_' = buffering /\ UNCHANGED surface
  BY <1>1, <1>2, <1>4, StopOnErrorType DEF TypeOK, Errors
<1>5. CASE /\ StopOnError(rest, "IllegalState")
           /\ buffering_' = buffering /\ surface' = i
  BY <1>1, <1>2, <1>5, StopOnErrorType DEF Errors
<1>6. CASE /\ surface' = i
           /\ ProcessPendingSamples(rest, samples, buffering,
                                    output_picture_buffers_, available, ack)
  BY <1>1, <1>2, <1>6, ProcessPendingSamplesType DEF TypeOK
<1>7. CASE /\ surface' = i
           /\ pending_output_samples_' = samples
           /\ pictures_requested_' = TRUE
           /\ loop' = rest \o (IF pictures_requested_ THEN <<>>
                               ELSE <<Msg("ProvidePictureBuffers")>>) \o ack
           /\ buffering_' = buffering
           /\ UNCHANGED <<client_, state_, output_picture_buffers_, available,
                          texture, texture_dimensions_,
                          buffered_picture_buffers_, notes,
                          pending_input_buffers_>>
  <2>1. loop' \in Seq(Message(Tasks))
    <3>1. Msg("ProvidePictureBuffers") \in Message(Tasks)
      BY MessageTypes DEF Tasks, Notes, OfBuffer, OfInput
    <3>2. QED
      BY <1>2, <1>7, <3>1, SeqTypes
  <2>2. pending_output_samples_' \in Seq(Inputs)
    BY <1>2, <1>7
  <2>3. QED
    BY <1>1, <1>2, <1>7, <2>1, <2>2 DEF TypeOK, HandlerTypeOK
<1>8. QED
  BY <1>3, <1>4, <1>5, <1>6, <1>7 DEF DecodeInternal

\* The initial state is well typed.
LEMMA InitType == Init => TypeOK
<1> SUFFICES ASSUME Init PROVE TypeOK
  OBVIOUS
<1>1. Msg("Initialize") \in Message(Calls)
  BY MessageTypes DEF Calls, OfBuffer, OfInput
<1>2. calls \in Seq(Message(Calls))
  BY <1>1, SeqTypes DEF Init
<1>3. /\ texture \in [PictureIds -> 0..MaxInputs]
      /\ surface \in 0..MaxInputs /\ sent \in 0..MaxInputs
  BY ConstantsAssumption DEF Init
<1>4. QED
  BY <1>2, <1>3, SeqTypes DEF Init, TypeOK

\* What a call leaves of the two queues it comes from.
LEMMA HandlesType ==
  ASSUME TypeOK, NEW call, Handles(call)
  PROVE  /\ calls' \in Seq(Message(Calls))
         /\ inputs_copy' \in Seq(Inputs)
         /\ Tail(loop) \in Seq(Message(Tasks))
         /\ Head(calls) \in Message(Calls) /\ Head(calls).type = call
         /\ UNCHANGED <<phase, aborted, sent, unacked, held>>
BY SeqTypes DEF TypeOK, Handles, Runs, clientVars

\* A handler of the decoder preserves the type invariant if it leaves what it
\* touches well typed.
LEMMA HandlerType ==
  ASSUME TypeOK, HandlerTypeOK',
         restart_' \in BOOLEAN, stream_size' \in Nat, surface' \in 0..MaxInputs,
         inputs_copy' \in Seq(Inputs), calls' \in Seq(Message(Calls)),
         UNCHANGED <<phase, aborted, sent, unacked, held>>
  PROVE  TypeOK'
BY DEF TypeOK, HandlerTypeOK

\* The acknowledgements of dropped inputs are notifications.
LEMMA DroppedType ==
  ASSUME TypeOK
  PROVE  NotifyInputBuffersDropped \in Seq(Message(Notes \cup Errors))
<1> DEFINE n == Len(pending_input_buffers_)
<1>1. n \in Nat /\ \A k \in 1..n : pending_input_buffers_[k] \in Inputs
  BY DEF TypeOK
<1>2. \A k \in 1..n : Decoded(pending_input_buffers_[k])
                        \in Message(Notes \cup Errors)
  BY <1>1, MessageTypes
<1>3. QED
  <2> HIDE DEF n
  <2>1. [k \in 1..n |-> Decoded(pending_input_buffers_[k])]
          \in Seq(Message(Notes \cup Errors))
    BY <1>1, <1>2
  <2>2. QED
    BY <2>1 DEF NotifyInputBuffersDropped, n

\* No step of the main thread breaks the type invariant.
LEMMA MainThreadType == TypeOK /\ MainThread => TypeOK'
<1> SUFFICES ASSUME TypeOK, MainThread PROVE TypeOK'
  OBVIOUS
<1>0. ASSUME NEW call, NEW error \in Errors, Handles(call), Refuse(error)
      PROVE  TypeOK'
  <2>1. HandlerTypeOK'
    BY <1>0, HandlesType, StopOnErrorType DEF Refuse, TypeOK
  <2>2. QED
    BY <1>0, <2>1, HandlesType, HandlerType DEF Refuse, TypeOK
<1>1. CASE Initialize
  <2>1. HandlerTypeOK'
    <3>1. CASE StopOnError(Tail(loop), "PlatformFailure")
      BY <1>1, <3>1, HandlesType, StopOnErrorType DEF Initialize, Errors
    <3>2. CASE /\ state_' = "kNormal"
               /\ loop' = Append(Tail(loop), Msg("InitializeDone"))
               /\ UNCHANGED <<client_, pictures_requested_,
                       pending_output_samples_,
                       pending_input_buffers_, output_picture_buffers_,
                       available, texture, texture_dimensions_,
                       buffered_picture_buffers_, notes>>
      <4>1. Msg("InitializeDone") \in Message(Tasks)
        BY MessageTypes DEF Tasks, Notes, OfBuffer, OfInput
      <4>2. loop' \in Seq(Message(Tasks))
        BY <1>1, <3>2, <4>1, HandlesType, SeqTypes DEF Initialize
      <4>3. QED
        BY <1>1, <3>2, <4>2 DEF Initialize, TypeOK, HandlerTypeOK
    <3>3. QED
      BY <1>1, <3>1, <3>2 DEF Initialize
  <2>2. QED
    BY <1>1, <2>1, HandlesType, HandlerType DEF Initialize, TypeOK
<1>2. CASE Decode
  <2>1. CASE Refuse("IllegalState")
    BY <1>0, <1>2, <2>1 DEF Decode, Errors
  <2>2. CASE DecodeInternal(Tail(loop), Head(calls).id)
    <3>1. Head(calls).id \in Inputs
      <4>1. Head(calls) \in Message(Calls) /\ Head(calls).type \in OfInput
        BY <1>2, HandlesType DEF Decode, OfInput
      <4>2. QED
        BY <4>1, ConstantsAssumption DEF Message, Inputs
    <3>2. QED
      BY <1>2, <2>2, <3>1, HandlesType, DecodeInternalType, HandlerType
         DEF Decode
  <2>3. QED
    BY <1>2, <2>1, <2>2 DEF Decode
<1>3. CASE AssignPictureBuffers
  <2>1. CASE Refuse("IllegalState") \/ Refuse("PlatformFailure")
    BY <1>0, <1>3, <2>1 DEF AssignPictureBuffers, Errors
  <2>2. CASE /\ UNCHANGED <<restart_, stream_size, surface>>
             /\ ProcessPendingSamples(Tail(loop), pending_output_samples_,
                                     buffering_, PictureIds, PictureIds, <<>>)
    <3>1. HandlerTypeOK'
      BY <1>3, <2>2, HandlesType, ProcessPendingSamplesType, SeqTypes
         DEF AssignPictureBuffers, TypeOK
    <3>2. QED
      BY <1>3, <2>2, <3>1, HandlesType, HandlerType
         DEF AssignPictureBuffers, TypeOK
  <2>3. QED
    BY <1>3, <2>1, <2>2 DEF AssignPictureBuffers
<1>4. CASE ReusePictureBuffer
  <2> DEFINE b == Head(calls).buf
  <2>1. CASE Refuse("IllegalState") \/ Refuse("InvalidArgument")
    BY <1>0, <1>4, <2>1 DEF ReusePictureBuffer, Errors
  <2>2. CASE loop' = Tail(loop) /\ UNCHANGED <<decoderVars, notes>>
    BY <1>4, <2>2, HandlesType
       DEF ReusePictureBuffer, Handles, TypeOK, decoderVars
  <2>3. CASE /\ b \in output_picture_buffers_
             /\ UNCHANGED <<restart_, stream_size, surface>>
             /\ ProcessPendingSamples(Tail(loop), pending_output_samples_,
                                     buffering_, output_picture_buffers_,
                                     available \cup {b}, <<>>)
    <3>1. HandlerTypeOK'
      BY <1>4, <2>3, HandlesType, ProcessPendingSamplesType, SeqTypes
         DEF ReusePictureBuffer, TypeOK
    <3>2. QED
      BY <1>4, <2>3, <3>1, HandlesType, HandlerType
         DEF ReusePictureBuffer, TypeOK
  <2>4. QED
    BY <1>4, <2>1, <2>2, <2>3 DEF ReusePictureBuffer
<1>5. CASE Flush
  <2>1. CASE Refuse("IllegalState")
    BY <1>0, <1>5, <2>1 DEF Flush, Errors
  <2>2. CASE state_ = "kNormal"
    <3>1. Msg("FlushDone") \in Message(Tasks)
      BY MessageTypes DEF Tasks, Notes, OfBuffer, OfInput
    <3>2. loop' \in Seq(Message(Tasks))
      BY <1>5, <2>2, <3>1, HandlesType, SeqTypes DEF Flush, Refuse
    <3>3. QED
      BY <1>5, <2>2, <3>2, HandlesType DEF Flush, TypeOK
  <2>3. QED
    BY <1>5, <2>1, <2>2 DEF Flush
<1>6. CASE Reset
  <2>1. CASE Refuse("IllegalState")
    BY <1>0, <1>6, <2>1 DEF Reset, Errors
  <2>2. CASE state_ = "kNormal"
    <3>1. Msg("ResetDone") \in Message(Tasks)
      BY MessageTypes DEF Tasks, Notes, OfBuffer, OfInput
    <3>2. loop' \in Seq(Message(Tasks))
      BY <1>6, <2>2, <3>1, HandlesType, SeqTypes DEF Reset
    <3>3. NotifyInputBuffersDropped \in Seq(Message(Notes \cup Errors))
      BY DroppedType
    <3>4. notes' \in Seq(Message(Notes \cup Errors))
      <4>1. notes' = notes \o NotifyInputBuffersDropped
        BY <1>6, <2>2 DEF Reset, Refuse
      <4>2. QED
        BY <3>3, <4>1, SeqTypes DEF TypeOK
    <3>5. /\ pending_output_samples_' = <<>> /\ pending_input_buffers_' = <<>>
          /\ buffered_picture_buffers_' = <<>> /\ buffering_' = FALSE
          /\ UNCHANGED <<state_, client_, restart_, pictures_requested_,
                         stream_size, surface, output_picture_buffers_,
                         available, texture, texture_dimensions_>>
      BY <1>6, <2>2 DEF Reset
    <3>6. HandlerTypeOK'
      BY <3>2, <3>4, <3>5, SeqTypes DEF HandlerTypeOK, TypeOK
    <3>7. QED
      BY <1>6, <3>5, <3>6, HandlesType, HandlerType DEF Reset, TypeOK
  <2>3. QED
    BY <1>6, <2>1, <2>2 DEF Reset
<1>7. CASE Destroy
  BY <1>7, HandlesType, SeqTypes DEF Destroy, TypeOK
<1>8. CASE RunNotification
  <2>1. /\ loop' \in Seq(Message(Tasks))
        /\ Head(loop) \in Message(Notes \cup Errors)
    <3>1. Head(loop) \in Message(Tasks) /\ Head(loop).type \in Notes
      BY <1>8, SeqTypes DEF RunNotification, TypeOK
    <3>2. Head(loop) \in Message(Notes \cup Errors)
      BY <3>1 DEF Message
    <3>3. QED
      BY <1>8, <3>2, SeqTypes DEF RunNotification, TypeOK
  <2>2. notes' \in Seq(Message(Notes \cup Errors))
    BY <1>8, <2>1, SeqTypes DEF RunNotification, TypeOK
  <2>3. QED
    BY <1>8, <2>1, <2>2 DEF RunNotification, TypeOK, clientVars
<1>9. CASE DecodePendingInputBuffers
  <2>0. Tail(loop) \in Seq(Message(Tasks))
    BY <1>9, SeqTypes DEF DecodePendingInputBuffers, Runs, TypeOK
  <2>1. CASE Refuse("IllegalState") /\ UNCHANGED inputs_copy
    <3>1. HandlerTypeOK'
      BY <2>0, <2>1, StopOnErrorType DEF Refuse, Errors, TypeOK
    <3>2. QED
      BY <1>9, <2>1, <3>1, HandlerType
         DEF Refuse, DecodePendingInputBuffers, clientVars, TypeOK
  <2>2. CASE /\ loop' = Tail(loop)
             /\ state_ # "kUninitialized"
    BY <1>9, <2>0, <2>2, SeqTypes
       DEF DecodePendingInputBuffers, TypeOK, clientVars
  <2>3. QED
    BY <1>9, <2>1, <2>2 DEF DecodePendingInputBuffers
<1>10. CASE DecodeNextOfCopy
  <2>1. Head(inputs_copy) \in Inputs /\ inputs_copy' \in Seq(Inputs)
    BY <1>10, SeqTypes DEF DecodeNextOfCopy, TypeOK
  <2>2. loop \in Seq(Message(Tasks)) /\ calls' \in Seq(Message(Calls))
    BY <1>10 DEF DecodeNextOfCopy, TypeOK
  <2>3. QED
    BY <1>10, <2>1, <2>2, DecodeInternalType, HandlerType
       DEF DecodeNextOfCopy, clientVars
<1>11. QED
  BY <1>1, <1>2, <1>3, <1>4, <1>5, <1>6, <1>7, <1>8, <1>9, <1>10 DEF MainThread

\* A step of the client preserves the type invariant if it leaves its own
\* variables and the channels well typed.
LEMMA ClientStepType ==
  ASSUME TypeOK, UNCHANGED <<decoderVars, loop>>,
         calls' \in Seq(Message(Calls)),
         notes' \in Seq(Message(Notes \cup Errors)),
         phase' \in {phase, "normal", "draining", "aborting", "resetting",
                     "destroyed"},
         aborted' \in BOOLEAN,
         sent' \in 0..MaxInputs, unacked' \subseteq 1..sent',
         held' \subseteq Message({"PictureReady"})
  PROVE  TypeOK'
BY DEF TypeOK, decoderVars

\* No step of the client breaks the type invariant.
LEMMA ClientType == TypeOK /\ Client => TypeOK'
<1> SUFFICES ASSUME TypeOK, Client PROVE TypeOK'
  OBVIOUS
<1>0. /\ \A t \in Calls \ {"Decode", "ReusePictureBuffer"} :
           Msg(t) \in Message(Calls)
      /\ MaxInputs \in Nat /\ kNumPictureBuffers \in Nat
  BY MessageTypes, ConstantsAssumption DEF Calls, OfBuffer, OfInput
<1>1. CASE ClientDecode
  <2>1. sent + 1 \in 1..MaxInputs /\ unacked' \subseteq 1..sent'
    <3>1. sent \in Nat /\ sent < MaxInputs /\ unacked \subseteq 1..sent
      BY <1>0, <1>1 DEF ClientDecode, TypeOK
    <3>2. sent' = sent + 1 /\ unacked' = unacked \cup {sent + 1}
      BY <1>1 DEF ClientDecode
    <3>3. QED
      BY <1>0, <3>1, <3>2
  <2>2. [type |-> "Decode", buf |-> 0, id |-> sent + 1] \in Message(Calls)
    BY <1>0, <2>1 DEF Message, Calls, OfBuffer, OfInput
  <2>3. calls' \in Seq(Message(Calls))
    BY <1>1, <2>2, SeqTypes DEF ClientDecode, Call, TypeOK
  <2>4. sent' \in 0..MaxInputs /\ UNCHANGED <<decoderVars, loop, notes, phase, aborted, held>>
    BY <1>0, <1>1, <2>1 DEF ClientDecode, Call
  <2>5. QED
    BY <2>1, <2>3, <2>4, ClientStepType DEF TypeOK
<1>6. CASE FactoriesAbort
  BY <1>6, ClientStepType DEF FactoriesAbort, TypeOK
<1>2. CASE ClientFlush \/ ClientReset \/ ClientStop
  <2>1. /\ Msg("Flush") \in Message(Calls) /\ Msg("Reset") \in Message(Calls)
        /\ Msg("Destroy") \in Message(Calls)
    BY <1>0 DEF Calls
  <2>2. calls' \in Seq(Message(Calls))
    <3>1. PICK m \in Message(Calls) : calls' = Append(calls, m)
      BY <1>2, <2>1 DEF ClientFlush, ClientReset, ClientStop, Call
    <3>2. QED
      BY <3>1, SeqTypes DEF TypeOK
  <2>3. QED
    BY <1>2, <2>2, ClientStepType
       DEF ClientFlush, ClientReset, ClientStop, Call, TypeOK
<1>3. ASSUME NEW p \in held, ClientReuse(p) PROVE TypeOK'
  <2>1. p.buf \in 0..kNumPictureBuffers /\ p.buf # 0
    BY <1>0 DEF TypeOK, Message, OfBuffer
  <2>2. [type |-> "ReusePictureBuffer", buf |-> p.buf, id |-> 0]
          \in Message(Calls)
    BY <1>0, <2>1 DEF Message, Calls, OfBuffer, OfInput
  <2>3. calls' \in Seq(Message(Calls))
    BY <1>3, <2>2, SeqTypes DEF ClientReuse, Call, TypeOK
  <2>4. QED
    BY <1>3, <2>3, ClientStepType DEF ClientReuse, Call, TypeOK
<1>4. CASE Receive
  <2>1. /\ notes' \in Seq(Message(Notes \cup Errors))
        /\ Head(notes) \in Message(Notes \cup Errors)
        /\ UNCHANGED <<decoderVars, loop, aborted, sent>>
    BY <1>4, SeqTypes
       DEF Receive, ReceiveDone, ReceiveEndOfBitstreamBuffer,
           ReceivePictureReady, ReceiveProvidePictureBuffers, ReceiveError,
           ReceiveNothing, Receives, TypeOK
  <2>2. CASE ReceiveDone \/ ReceiveEndOfBitstreamBuffer \/ ReceiveNothing
    BY <2>1, <2>2, ClientStepType
       DEF ReceiveDone, ReceiveEndOfBitstreamBuffer, ReceiveNothing, TypeOK
  <2>3. CASE ReceivePictureReady
    <3>1. Head(notes) \in Message({"PictureReady"})
      BY <2>1, <2>3 DEF ReceivePictureReady, Receives, Message
    <3>2. QED
      BY <2>1, <2>3, <3>1, ClientStepType DEF ReceivePictureReady, TypeOK
  <2>4. CASE ReceiveProvidePictureBuffers \/ ReceiveError
    <3>1. /\ Msg("AssignPictureBuffers") \in Message(Calls)
          /\ Msg("Destroy") \in Message(Calls)
      BY <1>0 DEF Calls
    <3>2. calls' \in Seq(Message(Calls))
      <4>1. PICK m \in Message(Calls) : calls' = Append(calls, m)
        BY <2>4, <3>1 DEF ReceiveProvidePictureBuffers, ReceiveError
      <4>2. QED
        BY <4>1, SeqTypes DEF TypeOK
    <3>3. /\ phase' \in {phase, "destroyed"}
          /\ UNCHANGED <<unacked, held>>
      BY <2>4 DEF ReceiveProvidePictureBuffers, ReceiveError
    <3>4. QED
      BY <2>1, <3>2, <3>3, ClientStepType DEF TypeOK
  <2>5. QED
    BY <1>4, <2>2, <2>3, <2>4 DEF Receive
<1>5. QED
  BY <1>1, <1>2, <1>3, <1>4, <1>6 DEF Client

\* No step at all breaks the type invariant.
LEMMA NextType == TypeOK /\ [Next]_vars => TypeOK'
<1> SUFFICES ASSUME TypeOK, [Next]_vars PROVE TypeOK'
  OBVIOUS
<1>1. CASE MessageReceived
  <2>1. Msg("HandleMessage") \in Message(Tasks)
    BY MessageTypes DEF Tasks, Notes, OfBuffer, OfInput
  <2>2. loop' \in Seq(Message(Tasks))
    BY <1>1, <2>1, SeqTypes DEF MessageReceived, TypeOK
  <2>3. QED
    BY <1>1, <2>2 DEF MessageReceived, TypeOK, decoderVars, clientVars
<1>2. CASE UNCHANGED vars
  BY <1>2 DEF vars, decoderVars, clientVars, TypeOK
<1>3. QED
  BY <1>1, <1>2, MainThreadType, ClientType DEF Next

\* Every variable of the decoder, the channels and the client keeps its type,
\* and only picture buffers that are assigned are ever available.
THEOREM TypeCorrect == Spec => []TypeOK
BY InitType, NextType, PTL DEF Spec

-----------------------------------------------------------------------------
(***************************************************************************)
(* The decode surface.  SurfaceHoldsPendingSample is inductive once the    *)
(* types are known: the only step that writes the surface, DecodeInternal, *)
(* first finds that no sample waits in it.                                 *)
(***************************************************************************)

\* Presenting at most one sample, which is in the surface, leaves at most one
\* sample, which is in the surface.
LEMMA ProcessPendingSamplesSurface ==
  ASSUME NEW rest, NEW samples \in Seq(Inputs), NEW buffering, NEW buffers,
         NEW free, NEW ack,
         Len(samples) <= 1, samples # <<>> => samples[1] = surface',
         ProcessPendingSamples(rest, samples, buffering, buffers, free, ack)
  PROVE  SurfaceHoldsPendingSample'
<1>1. CASE StopOnError(rest, "PlatformFailure")
  BY <1>1 DEF StopOnError, SurfaceHoldsPendingSample
<1>2. ASSUME NEW n \in 0..Len(samples), NEW ids \in [1..n -> free],
             Present(rest, samples, buffering, buffers, free, ack, n, ids)
      PROVE  SurfaceHoldsPendingSample'
  <2>1. pending_output_samples_' = SubSeq(samples, n + 1, Len(samples))
    BY <1>2 DEF Present
  <2>2. CASE n = 0
    <3>1. pending_output_samples_' = samples
      BY <2>1, <2>2
    <3>2. QED
      BY <3>1 DEF SurfaceHoldsPendingSample
  <2>3. CASE n # 0
    <3>1. pending_output_samples_' = <<>>
      BY <2>1, <2>3
    <3>2. QED
      BY <3>1 DEF SurfaceHoldsPendingSample
  <2>4. QED
    BY <2>2, <2>3
<1>3. QED
  BY <1>1, <1>2 DEF ProcessPendingSamples

\* DecodeInternal writes the surface only when no sample waits in it.
LEMMA DecodeInternalSurface ==
  ASSUME TypeOK, SurfaceHoldsPendingSample, NEW rest, NEW i \in Inputs,
         DecodeInternal(rest, i)
  PROVE  SurfaceHoldsPendingSample'
<1> DEFINE samples == Append(pending_output_samples_, i)
<1>0. ~MustQueue => samples = <<i>>
  <2>1. Append(<<>>, i) = <<i>>
    OBVIOUS
  <2>2. QED
    BY <2>1 DEF MustQueue
<1>1. CASE UNCHANGED <<pending_output_samples_, surface>>
  BY <1>1 DEF SurfaceHoldsPendingSample
<1>2. CASE pending_output_samples_' = <<>>
  BY <1>2 DEF SurfaceHoldsPendingSample
<1>3. CASE /\ ~MustQueue
           /\ pending_output_samples_' = samples /\ surface' = i
  <2>1. pending_output_samples_' = <<i>>
    BY <1>0, <1>3
  <2>2. QED
    BY <1>3, <2>1 DEF SurfaceHoldsPendingSample
<1>4. CASE /\ ~MustQueue
           /\ surface' = i
           /\ ProcessPendingSamples(rest, samples, restart_ \/ buffering_,
                                    output_picture_buffers_, available,
                                    <<Decoded(i)>>)
  <2>1. samples = <<i>>
    BY <1>0, <1>4
  <2>2. samples \in Seq(Inputs) /\ Len(samples) <= 1 /\ samples[1] = surface'
    BY <1>4, <2>1
  <2>3. QED
    BY <1>4, <2>2, ProcessPendingSamplesSurface
<1>5. QED
  BY <1>1, <1>2, <1>3, <1>4 DEF DecodeInternal, StopOnError

\* No step decodes over a sample that waits in the surface.
LEMMA NextSurface ==
  TypeOK /\ SurfaceHoldsPendingSample /\ [Next]_vars
    => SurfaceHoldsPendingSample'
<1> SUFFICES ASSUME TypeOK, SurfaceHoldsPendingSample, [Next]_vars
             PROVE  SurfaceHoldsPendingSample'
  OBVIOUS
<1>0. ASSUME \/ UNCHANGED <<pending_output_samples_, surface>>
             \/ pending_output_samples_' = <<>>
      PROVE  SurfaceHoldsPendingSample'
  BY <1>0 DEF SurfaceHoldsPendingSample
<1>1. ASSUME NEW buffers, NEW free, UNCHANGED surface,
             ProcessPendingSamples(Tail(loop), pending_output_samples_,
                                   buffering_, buffers, free, <<>>)
      PROVE  SurfaceHoldsPendingSample'
  BY <1>1, ProcessPendingSamplesSurface DEF SurfaceHoldsPendingSample, TypeOK
<1>2. CASE Initialize \/ Flush \/ Reset \/ Destroy \/ RunNotification
           \/ DecodePendingInputBuffers
  BY <1>0, <1>2 DEF Initialize, Flush, Reset, Destroy, RunNotification,
                    DecodePendingInputBuffers, Refuse, StopOnError
<1>3. CASE Decode
  <2>1. CASE Refuse("IllegalState")
    BY <1>0, <2>1 DEF Refuse, StopOnError
  <2>2. CASE DecodeInternal(Tail(loop), Head(calls).id)
    <3>1. Head(calls) \in Message(Calls) /\ Head(calls).type \in OfInput
      BY <1>3, HandlesType DEF Decode, OfInput
    <3>2. Head(calls).id \in Inputs
      BY <3>1, ConstantsAssumption DEF Message, Inputs
    <3>3. QED
      BY <2>2, <3>2, DecodeInternalSurface
  <2>3. QED
    BY <1>3, <2>1, <2>2 DEF Decode
<1>4. CASE AssignPictureBuffers
  BY <1>0, <1>1, <1>4 DEF AssignPictureBuffers, Refuse, StopOnError
<1>5. CASE ReusePictureBuffer
  BY <1>0, <1>1, <1>5
     DEF ReusePictureBuffer, Refuse, StopOnError, decoderVars
<1>6. CASE DecodeNextOfCopy
  <2>1. Head(inputs_copy) \in Inputs
    BY <1>6, SeqTypes DEF DecodeNextOfCopy, TypeOK
  <2>2. QED
    BY <1>6, <2>1, DecodeInternalSurface DEF DecodeNextOfCopy
<1>7. CASE MessageReceived \/ Client \/ UNCHANGED vars
  <2>1. UNCHANGED decoderVars
    BY <1>7 DEF MessageReceived, Client, ClientDecode, ClientFlush, ClientReset,
                FactoriesAbort,
                ClientStop, ClientReuse, Call, Receive, ReceiveDone,
                ReceiveEndOfBitstreamBuffer, ReceivePictureReady,
                ReceiveProvidePictureBuffers, ReceiveError, ReceiveNothing,
                Receives, vars
  <2>2. QED
    BY <1>0, <2>1 DEF decoderVars
<1>8. QED
  BY <1>2, <1>3, <1>4, <1>5, <1>6, <1>7 DEF Next, MainThread

\* A decoded frame stays in the one decode surface until it was copied to a
\* picture buffer: no later input is ever decoded over it.
THEOREM SurfaceSafe == Spec => []SurfaceHoldsPendingSample
<1>1. Init => SurfaceHoldsPendingSample
  BY DEF Init, SurfaceHoldsPendingSample
<1>2. QED
  BY <1>1, TypeCorrect, NextSurface, PTL DEF Spec

-----------------------------------------------------------------------------
(***************************************************************************)
(* Wake-ups.  NoLostWakeUp is inductive: an input is queued only behind a  *)
(* sample or another input, ProcessPendingSamples posts the task when it   *)
(* takes the sample away, and only DecodePendingInputBuffers takes it out  *)
(* of the loop, together with the inputs.                                  *)
(***************************************************************************)

\* Presenting samples leaves a sample, or no input, or a wake-up.
LEMMA ProcessPendingSamplesWakeUp ==
  ASSUME TypeOK,
         NEW rest \in Seq(Message(Tasks)), NEW samples \in Seq(Inputs),
         NEW buffering \in BOOLEAN,
         NEW buffers \in SUBSET PictureIds, NEW free \in SUBSET buffers,
         NEW ack \in Seq(Message(Tasks)),
         ProcessPendingSamples(rest, samples, buffering, buffers, free, ack)
  PROVE  NoLostWakeUp'
<1>1. CASE StopOnError(rest, "PlatformFailure")
  BY <1>1 DEF StopOnError, NoLostWakeUp
<1>2. ASSUME NEW n \in 0..Len(samples), NEW ids \in [1..n -> free],
             Present(rest, samples, buffering, buffers, free, ack, n, ids)
      PROVE  NoLostWakeUp'
  <2>1. /\ UNCHANGED pending_input_buffers_
        /\ pending_output_samples_' = SubSeq(samples, n + 1, Len(samples))
    BY <1>2 DEF Present
  <2>2. CASE n = Len(samples)
    <3>1. pending_input_buffers_ # <<>> => Has(loop, "DecodePendingInputBuffers")'
      <4>1. pending_input_buffers_ # <<>> => Has(loop', "DecodePendingInputBuffers")
        BY <1>2, <2>2, PresentType
      <4>2. QED
        BY <4>1 DEF Has
    <3>2. QED
      BY <2>1, <2>2, <3>1 DEF NoLostWakeUp
  <2>3. CASE n # Len(samples)
    <3>1. Len(SubSeq(samples, n + 1, Len(samples))) = Len(samples) - n
      BY <2>3
    <3>2. Len(pending_output_samples_') # 0
      BY <2>1, <2>3, <3>1
    <3>3. pending_output_samples_' # <<>>
      BY <3>2
    <3>4. QED
      BY <3>3 DEF NoLostWakeUp
  <2>4. QED
    BY <2>2, <2>3
<1>3. QED
  BY <1>1, <1>2 DEF ProcessPendingSamples

\* DecodeInternal loses no wake-up of the loop it leaves.
LEMMA DecodeInternalWakeUp ==
  ASSUME TypeOK, NEW rest \in Seq(Message(Tasks)), NEW i \in Inputs,
         DecodeInternal(rest, i),
         pending_input_buffers_ # <<>> =>
           \/ pending_output_samples_ # <<>>
           \/ Has(rest, "DecodePendingInputBuffers")
  PROVE  NoLostWakeUp'
<1>1. CASE /\ loop' = rest /\ UNCHANGED pending_output_samples_
           /\ pending_input_buffers_' = pending_input_buffers_ \/ MustQueue
  BY <1>1 DEF NoLostWakeUp, MustQueue, Has
<1>2. CASE pending_input_buffers_' = <<>>
  BY <1>2 DEF NoLostWakeUp
<1>3. CASE pending_output_samples_' = Append(pending_output_samples_, i)
  <2>1. pending_output_samples_' # <<>>
    <3>1. pending_output_samples_ \in Seq(Inputs)
      BY DEF TypeOK
    <3>2. Append(pending_output_samples_, i) # <<>>
      BY <3>1
    <3>3. QED
      BY <1>3, <3>2
  <2>2. QED
    BY <2>1 DEF NoLostWakeUp
<1>4. CASE ProcessPendingSamples(rest, Append(pending_output_samples_, i),
                                 restart_ \/ buffering_,
                                 output_picture_buffers_, available,
                                 <<Decoded(i)>>)
  <2>1. /\ Append(pending_output_samples_, i) \in Seq(Inputs)
        /\ <<Decoded(i)>> \in Seq(Message(Tasks))
        /\ (restart_ \/ buffering_) \in BOOLEAN
        /\ output_picture_buffers_ \in SUBSET PictureIds
        /\ available \in SUBSET output_picture_buffers_
    BY MessageTypes, SeqTypes DEF TypeOK
  <2>2. QED
    BY <1>4, <2>1, ProcessPendingSamplesWakeUp
<1>5. QED
  BY <1>1, <1>2, <1>3, <1>4 DEF DecodeInternal, StopOnError

\* No step forgets queued inputs.
LEMMA NextWakeUp == TypeOK /\ NoLostWakeUp /\ [Next]_vars => NoLostWakeUp'
<1> DEFINE Woken(queue) == Has(queue, "DecodePendingInputBuffers")
<1> SUFFICES ASSUME TypeOK, NoLostWakeUp, [Next]_vars
             PROVE  NoLostWakeUp'
  OBVIOUS
<1>0. ASSUME \/ pending_input_buffers_' = <<>>
             \/ /\ UNCHANGED <<pending_input_buffers_, pending_output_samples_>>
                /\ Woken(loop) => Woken(loop')
      PROVE  NoLostWakeUp'
  BY <1>0 DEF NoLostWakeUp, Has
<1>1. ASSUME loop # <<>>, Head(loop).type # "DecodePendingInputBuffers"
      PROVE  /\ Tail(loop) \in Seq(Message(Tasks))
             /\ Woken(loop) <=> Woken(Tail(loop))
  BY <1>1, SeqTypes, HasTail DEF TypeOK
<1>2. ASSUME NEW call, Handles(call)
      PROVE  /\ Tail(loop) \in Seq(Message(Tasks))
             /\ Woken(loop) <=> Woken(Tail(loop))
  BY <1>1, <1>2 DEF Handles, Runs
<1>3. ASSUME NEW s \in Seq(Message(Tasks)), NEW t \in Notes \ {"PictureReady",
                                                 "EndOfBitstreamBuffer"}
      PROVE  Woken(s) => Woken(Append(s, Msg(t)))
  <2>1. Msg(t) \in Message(Tasks)
    BY MessageTypes DEF Tasks, Notes, OfBuffer, OfInput
  <2>2. QED
    BY <2>1, HasAppend
<1>4. CASE Initialize \/ Flush \/ Reset \/ Destroy
  <2>1. CASE pending_input_buffers_' = <<>>
    BY <1>0, <2>1
  <2>2. CASE /\ UNCHANGED <<pending_input_buffers_, pending_output_samples_>>
             /\ \/ loop' = Tail(loop)
                \/ loop' = Append(Tail(loop), Msg("InitializeDone"))
                \/ loop' = Append(Tail(loop), Msg("FlushDone"))
             /\ \E call : Handles(call)
    BY <1>0, <1>2, <1>3, <2>2 DEF Notes
  <2>3. QED
    BY <1>4, <2>1, <2>2
       DEF Initialize, Flush, Reset, Destroy, Refuse, StopOnError
<1>5. CASE Decode
  <2>1. CASE Refuse("IllegalState")
    BY <1>0, <2>1 DEF Refuse, StopOnError
  <2>2. CASE DecodeInternal(Tail(loop), Head(calls).id)
    <3>1. Head(calls) \in Message(Calls) /\ Head(calls).type \in OfInput
      BY <1>5, HandlesType DEF Decode, OfInput
    <3>2. Head(calls).id \in Inputs
      BY <3>1, ConstantsAssumption DEF Message, Inputs
    <3>3. QED
      BY <1>2, <1>5, <2>2, <3>2, DecodeInternalWakeUp DEF Decode, NoLostWakeUp
  <2>3. QED
    BY <1>5, <2>1, <2>2 DEF Decode
<1>6. CASE AssignPictureBuffers
  <2>1. CASE ProcessPendingSamples(Tail(loop), pending_output_samples_,
                                   buffering_, PictureIds, PictureIds, <<>>)
    BY <1>2, <1>6, <2>1, ProcessPendingSamplesWakeUp, SeqTypes
       DEF AssignPictureBuffers, TypeOK
  <2>2. QED
    BY <1>0, <1>6, <2>1 DEF AssignPictureBuffers, Refuse, StopOnError
<1>7. CASE ReusePictureBuffer
  <2>1. CASE /\ Head(calls).buf \in output_picture_buffers_
             /\ ProcessPendingSamples(Tail(loop), pending_output_samples_,
                                     buffering_, output_picture_buffers_,
                                     available \cup {Head(calls).buf}, <<>>)
    BY <1>2, <1>7, <2>1, ProcessPendingSamplesWakeUp, SeqTypes
       DEF ReusePictureBuffer, TypeOK
  <2>2. CASE loop' = Tail(loop) /\ UNCHANGED <<decoderVars, notes>>
    BY <1>0, <1>2, <1>7, <2>2 DEF ReusePictureBuffer, decoderVars
  <2>3. QED
    BY <1>0, <1>7, <2>1, <2>2 DEF ReusePictureBuffer, Refuse, StopOnError
<1>8. CASE RunNotification
  <2>1. Head(loop).type # "DecodePendingInputBuffers"
    BY <1>8 DEF RunNotification, Notes
  <2>2. QED
    BY <1>0, <1>1, <1>8, <2>1 DEF RunNotification
<1>9. CASE DecodePendingInputBuffers
  BY <1>9 DEF DecodePendingInputBuffers, Refuse, StopOnError, NoLostWakeUp
<1>10. CASE DecodeNextOfCopy
  <2>1. Head(inputs_copy) \in Inputs
    BY <1>10, SeqTypes DEF DecodeNextOfCopy, TypeOK
  <2>2. QED
    BY <1>10, <2>1, DecodeInternalWakeUp
       DEF DecodeNextOfCopy, NoLostWakeUp, TypeOK
<1>11. CASE MessageReceived
  <2>1. Msg("HandleMessage") \in Message(Tasks)
    BY MessageTypes DEF Tasks, Notes, OfBuffer, OfInput
  <2>2. Woken(loop) => Woken(loop')
    BY <1>11, <2>1, HasAppend DEF MessageReceived, TypeOK
  <2>3. QED
    BY <1>0, <1>11, <2>2 DEF MessageReceived, decoderVars
<1>12. CASE Client \/ UNCHANGED vars
  <2>1. UNCHANGED <<decoderVars, loop>>
    BY <1>12 DEF Client, ClientDecode, ClientFlush, ClientReset,
                FactoriesAbort,
                 ClientStop, ClientReuse, Call, Receive, ReceiveDone,
                 ReceiveEndOfBitstreamBuffer, ReceivePictureReady,
                 ReceiveProvidePictureBuffers, ReceiveError, ReceiveNothing,
                 Receives, vars
  <2>2. QED
    BY <1>0, <2>1 DEF decoderVars
<1>13. QED
  BY <1>4, <1>5, <1>6, <1>7, <1>8, <1>9, <1>10, <1>11, <1>12
     DEF Next, MainThread

\* Inputs queued behind a frame are never forgotten: either that frame still
\* waits, or the task that decodes them is posted.
THEOREM WakeUpsAreKept == Spec => []NoLostWakeUp
<1>1. Init => NoLostWakeUp
  BY DEF Init, NoLostWakeUp
<1>2. QED
  BY <1>1, TypeCorrect, NextWakeUp, PTL DEF Spec

-----------------------------------------------------------------------------
(***************************************************************************)
(* Changes of resolution.  ResolutionBranchIsDead is not inductive: it     *)
(* needs to know that Initialize, which sets restart_ again, comes before  *)
(* everything else, and that no picture buffer is even asked for before    *)
(* the first packet cleared restart_ and fixed the size for good.          *)
(***************************************************************************)

\* The client never calls Initialize, and assigns picture buffers only when it
\* is asked for them.
LEMMA ClientCalls ==
  ASSUME TypeOK, Client
  PROVE  \/ UNCHANGED calls
         \/ \E m \in Message(Calls) :
              /\ calls' = Append(calls, m)
              /\ m.type # "Initialize"
              /\ m.type = "AssignPictureBuffers"
                   => Has(notes, "ProvidePictureBuffers")
<1>1. CASE ClientDecode
  <2> DEFINE m == [type |-> "Decode", buf |-> 0, id |-> sent + 1]
  <2>1. sent + 1 \in 1..MaxInputs
    BY <1>1, ConstantsAssumption DEF ClientDecode, TypeOK
  <2>2. m \in Message(Calls)
    BY <2>1, ConstantsAssumption DEF Message, Calls, OfBuffer, OfInput
  <2>3. m.type = "Decode" /\ calls' = Append(calls, m)
    BY <1>1 DEF ClientDecode, Call
  <2>4. QED
    BY <2>2, <2>3
<1>2. ASSUME NEW p \in held, ClientReuse(p)
      PROVE  \E m \in Message(Calls) : /\ calls' = Append(calls, m)
                                       /\ m.type = "ReusePictureBuffer"
  <2> DEFINE m == [type |-> "ReusePictureBuffer", buf |-> p.buf, id |-> 0]
  <2>1. p.buf \in 0..kNumPictureBuffers /\ p.buf # 0
    BY ConstantsAssumption DEF TypeOK, Message, OfBuffer
  <2>2. m \in Message(Calls)
    BY <2>1, ConstantsAssumption DEF Message, Calls, OfBuffer, OfInput
  <2>3. m.type = "ReusePictureBuffer" /\ calls' = Append(calls, m)
    BY <1>2 DEF ClientReuse, Call
  <2>4. QED
    BY <2>2, <2>3
<1>3. ASSUME NEW t \in {"Flush", "Reset", "Destroy", "AssignPictureBuffers"}
      PROVE  /\ Msg(t) \in Message(Calls)
             /\ Msg(t).type = t /\ t # "Initialize"
  <2>1. t \in Calls \ (OfBuffer \cup OfInput) /\ t # "Initialize"
    BY DEF Calls, OfBuffer, OfInput
  <2>2. QED
    BY <2>1, MessageTypes DEF Msg
<1>4. CASE ReceiveProvidePictureBuffers
  <2>1. Has(notes, "ProvidePictureBuffers")
    BY <1>4, HasTail DEF ReceiveProvidePictureBuffers, Receives, TypeOK
  <2>2. QED
    BY <1>3, <1>4, <2>1 DEF ReceiveProvidePictureBuffers
<1>5. CASE \E t \in {"Flush", "Reset", "Destroy"} : calls' = Append(calls, Msg(t))
  BY <1>3, <1>5
<1>7. CASE FactoriesAbort
  BY <1>7 DEF FactoriesAbort
<1>6. QED
  BY <1>1, <1>2, <1>4, <1>5, <1>7
     DEF Client, ClientFlush, ClientReset, ClientStop, Call, Receive,
         ReceiveDone, ReceiveEndOfBitstreamBuffer, ReceivePictureReady,
         ReceiveError, ReceiveNothing

\* No step, before or after, breaks the order of Initialize and the rest.
LEMMA NextInitialize ==
  TypeOK /\ InitializeComesFirst /\ [Next]_vars => InitializeComesFirst'
<1> SUFFICES ASSUME TypeOK, InitializeComesFirst, [Next]_vars
             PROVE  InitializeComesFirst'
  OBVIOUS
<1>1. CASE ~Has(calls, "Initialize")
  <2>1. CASE Client
    BY <1>1, <2>1, ClientCalls, HasAppend DEF InitializeComesFirst, TypeOK
  <2>2. ASSUME \/ calls' = calls
               \/ calls # <<>> /\ calls' = Tail(calls)
        PROVE  InitializeComesFirst'
    <3>1. ~Has(calls', "Initialize")
      BY <1>1, <2>2, HasTail DEF TypeOK
    <3>2. QED
      BY <3>1 DEF InitializeComesFirst, Has
  <2>3. CASE MainThread
    BY <2>2, <2>3
       DEF MainThread, Initialize, Decode, AssignPictureBuffers,
           ReusePictureBuffer, Flush, Reset, Destroy, Handles, RunNotification,
           DecodePendingInputBuffers, DecodeNextOfCopy
  <2>4. CASE MessageReceived
    BY <2>2, <2>4 DEF MessageReceived
  <2>5. CASE UNCHANGED vars
    BY <2>2, <2>5 DEF vars
  <2>6. QED
    BY <2>1, <2>3, <2>4, <2>5 DEF Next
<1>2. CASE Has(calls, "Initialize")
  <2>1. /\ Len(calls) = 1 /\ notes = <<>> /\ held = {} /\ phase = "connecting"
        /\ inputs_copy = <<>> /\ output_picture_buffers_ = {}
        /\ \A k \in 1..Len(loop) : loop[k].type = "HandleMessage"
    BY <1>2 DEF InitializeComesFirst
  <2>2. ASSUME calls' = Tail(calls) PROVE InitializeComesFirst'
    <3>1. Len(calls') = 0
      BY <2>1, <2>2 DEF TypeOK
    <3>2. ~Has(calls', "Initialize")
      BY <3>1 DEF Has
    <3>3. QED
      BY <3>2 DEF InitializeComesFirst, Has
  <2>3. CASE MessageReceived
    <3>1. \A k \in 1..Len(loop') : loop'[k].type = "HandleMessage"
      BY <2>1, <2>3 DEF MessageReceived, Msg, TypeOK
    <3>2. UNCHANGED <<calls, notes, held, phase, inputs_copy,
                      output_picture_buffers_>>
      BY <2>3 DEF MessageReceived, decoderVars, clientVars
    <3>3. QED
      BY <2>1, <3>1, <3>2 DEF InitializeComesFirst
  <2>4. CASE UNCHANGED vars
    BY <2>1, <2>4
       DEF vars, decoderVars, clientVars, InitializeComesFirst, Has
  <2>5. Client => FactoriesAbort
    BY <2>1
       DEF Client, ClientDecode, ClientFlush, ClientReset, ClientStop,
           ClientReuse, Receive, ReceiveDone, ReceiveEndOfBitstreamBuffer,
           ReceivePictureReady, ReceiveProvidePictureBuffers, ReceiveError,
           ReceiveNothing, Receives
  <2>6. ~RunNotification /\ ~DecodePendingInputBuffers /\ ~DecodeNextOfCopy
    <3>1. loop # <<>> => Head(loop).type = "HandleMessage"
      BY <2>1 DEF TypeOK
    <3>2. QED
      BY <2>1, <3>1 DEF RunNotification, DecodePendingInputBuffers, Runs,
                        DecodeNextOfCopy, Notes
  <2>8. CASE FactoriesAbort
    BY <2>1, <2>8 DEF FactoriesAbort, decoderVars, InitializeComesFirst, Has
  <2>7. QED
    BY <2>2, <2>3, <2>4, <2>5, <2>6, <2>8
       DEF Next, MainThread, Initialize, Decode, AssignPictureBuffers,
           ReusePictureBuffer, Flush, Reset, Destroy, Handles
<1>3. QED
  BY <1>1, <1>2

\* A step that asks for no picture buffers, provides none and assigns none, and
\* leaves the sizes alone, keeps SizeIsSettled.
LEMMA SizeIsKept ==
  ASSUME SizeIsSettled,
         UNCHANGED <<restart_, stream_size, texture_dimensions_>>,
         Has(loop', "ProvidePictureBuffers") => Has(loop, "ProvidePictureBuffers"),
         Has(notes', "ProvidePictureBuffers")
           => Has(notes, "ProvidePictureBuffers"),
         Has(calls', "AssignPictureBuffers")
           => \/ Has(calls, "AssignPictureBuffers")
              \/ Has(notes, "ProvidePictureBuffers"),
         output_picture_buffers_' # {}
           => \/ output_picture_buffers_ # {}
              \/ Has(calls, "AssignPictureBuffers")
  PROVE  SizeIsSettled'
BY DEF SizeIsSettled, Has

\* An error asks for no picture buffers.
LEMMA StopOnErrorSize ==
  ASSUME TypeOK, NEW rest, NEW error \in Errors, StopOnError(rest, error)
  PROVE  /\ Has(notes', "ProvidePictureBuffers")
              => Has(notes, "ProvidePictureBuffers")
         /\ loop' = rest /\ output_picture_buffers_' = {}
         /\ UNCHANGED texture_dimensions_
<1>1. Msg(error) \in Message(Notes \cup Errors)
      /\ Msg(error).type # "ProvidePictureBuffers"
  BY MessageTypes DEF Errors, OfBuffer, OfInput, Msg
<1>2. notes' = Append(notes, Msg(error)) \/ notes' = notes
  BY DEF StopOnError
<1>3. Has(notes', "ProvidePictureBuffers") => Has(notes, "ProvidePictureBuffers")
  BY <1>1, <1>2, HasAppend DEF TypeOK
<1>4. QED
  BY <1>3 DEF StopOnError

\* Presenting samples asks for no picture buffers.
LEMMA ProcessPendingSamplesSize ==
  ASSUME TypeOK,
         NEW rest \in Seq(Message(Tasks)), NEW samples \in Seq(Inputs),
         NEW buffering \in BOOLEAN,
         NEW buffers \in SUBSET PictureIds, NEW free \in SUBSET buffers,
         NEW ack \in Seq(Message(Tasks)),
         ~Has(ack, "ProvidePictureBuffers"),
         ProcessPendingSamples(rest, samples, buffering, buffers, free, ack)
  PROVE  /\ Has(notes', "ProvidePictureBuffers")
              => Has(notes, "ProvidePictureBuffers")
         /\ Has(loop', "ProvidePictureBuffers")
              => Has(rest, "ProvidePictureBuffers")
         /\ output_picture_buffers_' # {} => output_picture_buffers_' = buffers
         /\ UNCHANGED texture_dimensions_
<1>1. CASE StopOnError(rest, "PlatformFailure")
  BY <1>1, StopOnErrorSize DEF Errors
<1>2. ASSUME NEW n \in 0..Len(samples), NEW ids \in [1..n -> free],
             Present(rest, samples, buffering, buffers, free, ack, n, ids)
      PROVE  /\ Has(loop', "ProvidePictureBuffers")
                  => Has(rest, "ProvidePictureBuffers")
             /\ output_picture_buffers_' = buffers
             /\ UNCHANGED <<notes, texture_dimensions_>>
  <2>1. \A t : Has(loop', t) =>
          \/ Has(rest, t) \/ Has(ack, t)
          \/ t \in {"PictureReady", "DecodePendingInputBuffers", "FlushDone"}
    BY <1>2, PresentType
  <2>2. Has(loop', "ProvidePictureBuffers")
          => Has(rest, "ProvidePictureBuffers")
    <3>1. Has(loop', "ProvidePictureBuffers")
            => \/ Has(rest, "ProvidePictureBuffers") \/ Has(ack, "ProvidePictureBuffers")
               \/ "ProvidePictureBuffers" \in {"PictureReady", "DecodePendingInputBuffers", "FlushDone"}
      BY <2>1, Zenon
    <3>2. "ProvidePictureBuffers" \notin {"PictureReady", "DecodePendingInputBuffers", "FlushDone"}
      OBVIOUS
    <3>3. QED
      BY <3>1, <3>2
  <2>3. /\ output_picture_buffers_' = buffers
        /\ UNCHANGED <<notes, texture_dimensions_>>
    BY <1>2 DEF Present
  <2>4. QED
    BY <2>2, <2>3
<1>3. QED
  BY <1>1, <1>2 DEF ProcessPendingSamples

\* DecodeInternal settles the size before it asks for picture buffers.
LEMMA DecodeInternalSize ==
  ASSUME TypeOK, SizeIsSettled, NEW rest \in Seq(Message(Tasks)),
         NEW i \in Inputs, DecodeInternal(rest, i),
         Has(rest, "ProvidePictureBuffers") => Has(loop, "ProvidePictureBuffers"),
         Has(calls', "AssignPictureBuffers") => Has(calls, "AssignPictureBuffers")
  PROVE  SizeIsSettled'
<1>1. restart_' = FALSE /\ (~restart_ => UNCHANGED stream_size)
  BY DEF DecodeInternal, PeekSize
<1>2. <<Decoded(i)>> \in Seq(Message(Tasks))
      /\ ~Has(<<Decoded(i)>>, "ProvidePictureBuffers")
  BY MessageTypes, SeqTypes, HasSingle DEF Decoded
<1>3. /\ Has(notes', "ProvidePictureBuffers")
           => Has(notes, "ProvidePictureBuffers")
      /\ output_picture_buffers_' # {}
           => output_picture_buffers_' = output_picture_buffers_
      /\ UNCHANGED texture_dimensions_
  <2>1. CASE UNCHANGED <<notes, output_picture_buffers_, texture_dimensions_>>
    BY <2>1 DEF Has
  <2>2. CASE StopOnError(rest, "PlatformFailure")
             \/ StopOnError(rest, "IllegalState")
    BY <2>2, StopOnErrorSize DEF Errors
  <2>3. CASE ProcessPendingSamples(rest, Append(pending_output_samples_, i),
                                   restart_ \/ buffering_,
                                   output_picture_buffers_, available,
                                   <<Decoded(i)>>)
    <3>1. /\ Append(pending_output_samples_, i) \in Seq(Inputs)
          /\ (restart_ \/ buffering_) \in BOOLEAN
          /\ output_picture_buffers_ \in SUBSET PictureIds
          /\ available \in SUBSET output_picture_buffers_
      BY SeqTypes DEF TypeOK
    <3>2. QED
      BY <1>2, <2>3, <3>1, ProcessPendingSamplesSize
  <2>4. QED
    BY <2>1, <2>2, <2>3 DEF DecodeInternal
<1>4. QED
  BY <1>1, <1>3 DEF SizeIsSettled, Has

\* No step unsettles the size.
LEMMA NextSize ==
  TypeOK /\ InitializeComesFirst /\ SizeIsSettled /\ [Next]_vars
    => SizeIsSettled'
<1> DEFINE Asks(queue) == Has(queue, "ProvidePictureBuffers")
           Assigns(queue) == Has(queue, "AssignPictureBuffers")
<1> SUFFICES ASSUME TypeOK, InitializeComesFirst, SizeIsSettled, [Next]_vars
             PROVE  SizeIsSettled'
  OBVIOUS
<1>1. loop # <<>> => /\ Tail(loop) \in Seq(Message(Tasks))
                     /\ Asks(Tail(loop)) => Asks(loop)
  BY SeqTypes, HasTail DEF TypeOK
<1>2. ASSUME NEW call, Handles(call)
      PROVE  /\ Tail(loop) \in Seq(Message(Tasks))
             /\ Asks(Tail(loop)) => Asks(loop)
             /\ Assigns(calls') => Assigns(calls)
             /\ Has(calls, call)
  BY <1>1, <1>2, SeqTypes, HasTail DEF Handles, Runs, TypeOK
<1>3. ASSUME NEW rest, Asks(rest) => Asks(loop),
             Assigns(calls') => Assigns(calls),
             NEW error \in Errors, StopOnError(rest, error),
             UNCHANGED <<restart_, stream_size>>
      PROVE  SizeIsSettled'
  BY <1>3, StopOnErrorSize, SizeIsKept DEF Has
<1>4. ASSUME NEW call, Handles(call), NEW error \in Errors, Refuse(error)
      PROVE  SizeIsSettled'
  BY <1>2, <1>3, <1>4 DEF Refuse
<1>5. ASSUME NEW t \in {"InitializeDone", "FlushDone", "ResetDone"},
             NEW s \in Seq(Message(Tasks)), Asks(Append(s, Msg(t)))
      PROVE  Asks(s)
  <2>1. Msg(t) \in Message(Tasks) /\ Msg(t).type # "ProvidePictureBuffers"
    <3>1. t \in Tasks \ (OfBuffer \cup OfInput)
      BY DEF Tasks, Notes, OfBuffer, OfInput
    <3>2. QED
      BY <3>1, MessageTypes DEF Msg
  <2>2. QED
    BY <1>5, <2>1, HasAppend
<1>6. CASE Initialize
  <2>1. /\ notes = <<>> /\ output_picture_buffers_ = {} /\ Len(calls) = 1
        /\ \A k \in 1..Len(loop) : loop[k].type = "HandleMessage"
    BY <1>2, <1>6 DEF Initialize, InitializeComesFirst
  <2>2. ~Asks(loop) /\ ~Asks(notes)
    BY <2>1 DEF Has
  <2>3. ~Assigns(calls')
    <3>1. Len(calls') = 0
      BY <1>6, <2>1 DEF Initialize, Handles, TypeOK
    <3>2. QED
      BY <3>1 DEF Has
  <2>4. ~Asks(notes') /\ output_picture_buffers_' = {} /\ ~Asks(loop')
    <3>1. CASE StopOnError(Tail(loop), "PlatformFailure")
      BY <1>2, <1>6, <2>2, <3>1, StopOnErrorSize DEF Initialize, Errors, Has
    <3>2. CASE /\ loop' = Append(Tail(loop), Msg("InitializeDone"))
               /\ UNCHANGED <<notes, output_picture_buffers_>>
      <4>1. ~Asks(loop')
        BY <1>2, <1>5, <1>6, <2>2, <3>2 DEF Initialize
      <4>2. QED
        BY <2>1, <2>2, <3>2, <4>1 DEF Has
    <3>3. QED
      BY <1>6, <3>1, <3>2 DEF Initialize
  <2>5. QED
    BY <2>3, <2>4 DEF SizeIsSettled, Has
<1>7. CASE Decode
  <2>1. CASE Refuse("IllegalState")
    BY <1>4, <1>7, <2>1 DEF Decode, Errors
  <2>2. CASE DecodeInternal(Tail(loop), Head(calls).id)
    <3>1. Head(calls) \in Message(Calls) /\ Head(calls).type \in OfInput
      BY <1>7, HandlesType DEF Decode, OfInput
    <3>2. Head(calls).id \in Inputs
      BY <3>1, ConstantsAssumption DEF Message, Inputs
    <3>3. QED
      BY <1>2, <1>7, <2>2, <3>2, DecodeInternalSize DEF Decode
  <2>3. QED
    BY <1>7, <2>1, <2>2 DEF Decode
<1>8. CASE AssignPictureBuffers
  <2>1. CASE Refuse("IllegalState") \/ Refuse("PlatformFailure")
    BY <1>4, <1>8, <2>1 DEF AssignPictureBuffers, Errors
  <2>2. CASE /\ UNCHANGED <<restart_, stream_size>>
             /\ ProcessPendingSamples(Tail(loop), pending_output_samples_,
                                     buffering_, PictureIds, PictureIds, <<>>)
    <3>1. /\ Asks(notes') => Asks(notes)
          /\ Asks(loop') => Asks(Tail(loop))
          /\ UNCHANGED texture_dimensions_
      BY <1>2, <1>8, <2>2, ProcessPendingSamplesSize, HasSingle, SeqTypes
         DEF AssignPictureBuffers, TypeOK
    <3>2. QED
      BY <1>2, <1>8, <2>2, <3>1, SizeIsKept DEF AssignPictureBuffers, Has
  <2>3. QED
    BY <1>8, <2>1, <2>2 DEF AssignPictureBuffers
<1>9. CASE ReusePictureBuffer
  <2> DEFINE b == Head(calls).buf
  <2>1. CASE Refuse("IllegalState") \/ Refuse("InvalidArgument")
    BY <1>4, <1>9, <2>1 DEF ReusePictureBuffer, Errors
  <2>2. CASE loop' = Tail(loop) /\ UNCHANGED <<decoderVars, notes>>
    BY <1>2, <1>9, <2>2, SizeIsKept DEF ReusePictureBuffer, decoderVars, Has
  <2>3. CASE /\ b \in output_picture_buffers_
             /\ UNCHANGED <<restart_, stream_size, surface>>
             /\ ProcessPendingSamples(Tail(loop), pending_output_samples_,
                                     buffering_, output_picture_buffers_,
                                     available \cup {b}, <<>>)
    <3>1. /\ Asks(notes') => Asks(notes)
          /\ Asks(loop') => Asks(Tail(loop))
          /\ UNCHANGED texture_dimensions_
      BY <1>2, <1>9, <2>3, ProcessPendingSamplesSize, HasSingle, SeqTypes
         DEF ReusePictureBuffer, TypeOK
    <3>2. QED
      BY <1>2, <1>9, <2>3, <3>1, SizeIsKept DEF ReusePictureBuffer, Has
  <2>4. QED
    BY <1>9, <2>1, <2>2, <2>3 DEF ReusePictureBuffer
<1>10. CASE Flush
  <2>1. CASE Refuse("IllegalState")
    BY <1>4, <1>10, <2>1 DEF Flush, Errors
  <2>2. CASE /\ \/ loop' = Tail(loop)
                \/ loop' = Append(Tail(loop), Msg("FlushDone"))
             /\ UNCHANGED <<restart_, stream_size, output_picture_buffers_,
                            texture_dimensions_, notes>>
    <3>1. Asks(loop') => Asks(loop)
      BY <1>2, <1>5, <1>10, <2>2 DEF Flush
    <3>2. QED
      BY <1>2, <1>10, <2>2, <3>1, SizeIsKept DEF Flush, Has
  <2>3. QED
    BY <1>10, <2>1, <2>2 DEF Flush
<1>11. CASE Reset
  <2>1. CASE Refuse("IllegalState")
    BY <1>4, <1>11, <2>1 DEF Reset, Errors
  <2>2. CASE /\ loop' = Append(Tail(loop), Msg("ResetDone"))
             /\ notes' = notes \o NotifyInputBuffersDropped
             /\ UNCHANGED <<restart_, stream_size, output_picture_buffers_,
                            texture_dimensions_>>
    <3>1. Asks(loop') => Asks(loop)
      BY <1>2, <1>5, <1>11, <2>2 DEF Reset
    <3>2. ~Asks(NotifyInputBuffersDropped)
      <4>1. Len(pending_input_buffers_) \in Nat
        BY DEF TypeOK
      <4>2. \A k \in 1..Len(pending_input_buffers_) :
              NotifyInputBuffersDropped[k].type = "EndOfBitstreamBuffer"
        BY DEF NotifyInputBuffersDropped, Decoded
      <4>3. Len(NotifyInputBuffersDropped) = Len(pending_input_buffers_)
        BY <4>1 DEF NotifyInputBuffersDropped
      <4>4. QED
        BY <4>2, <4>3 DEF Has
    <3>3. Asks(notes') => Asks(notes)
      BY <2>2, <3>2, DroppedType, HasConcat DEF TypeOK
    <3>4. QED
      BY <1>2, <1>11, <2>2, <3>1, <3>3, SizeIsKept DEF Reset, Has
  <2>3. QED
    BY <1>11, <2>1, <2>2 DEF Reset
<1>12. CASE Destroy
  <2>1. ~Asks(loop')
    BY <1>12, HasSingle DEF Destroy, Has
  <2>2. QED
    BY <1>2, <1>12, <2>1, SizeIsKept DEF Destroy, Has
<1>13. CASE RunNotification
  <2>1. Asks(loop') => Asks(loop)
    <3>1. loop # <<>> /\ loop' = Tail(loop)
      BY <1>13 DEF RunNotification
    <3>2. QED
      BY <1>1, <3>1
  <2>2. Head(loop) \in Message(Notes \cup Errors)
    <3>1. Head(loop) \in Message(Tasks) /\ Head(loop).type \in Notes
      BY <1>13, SeqTypes DEF RunNotification, TypeOK
    <3>2. QED
      BY <3>1 DEF Message
  <2>3. CASE client_ /\ Head(loop).type = "ProvidePictureBuffers"
    <3>1. Asks(loop)
      BY <1>13, <2>3, HasTail DEF RunNotification, TypeOK
    <3>2. ~restart_' /\ stream_size' = texture_dimensions_'
      BY <1>13, <2>3, <3>1 DEF RunNotification, SizeIsSettled
    <3>3. QED
      BY <3>2 DEF SizeIsSettled, Has
  <2>4. CASE ~(client_ /\ Head(loop).type = "ProvidePictureBuffers")
    <3>1. Asks(notes') => Asks(notes)
      BY <1>13, <2>2, <2>4, HasAppend DEF RunNotification, TypeOK, Has
    <3>2. QED
      BY <1>13, <2>1, <2>4, <3>1, SizeIsKept DEF RunNotification, Has
  <2>5. QED
    BY <2>3, <2>4
<1>14. CASE DecodePendingInputBuffers
  <2>1. CASE Refuse("IllegalState")
    BY <1>1, <1>3, <1>14, <2>1
       DEF DecodePendingInputBuffers, Runs, Refuse, Errors
  <2>2. CASE /\ loop' = Tail(loop)
             /\ UNCHANGED <<restart_, stream_size, output_picture_buffers_,
                            texture_dimensions_, notes>>
    BY <1>1, <1>14, <2>2, SizeIsKept DEF DecodePendingInputBuffers, Runs, Has
  <2>3. QED
    BY <1>14, <2>1, <2>2 DEF DecodePendingInputBuffers
<1>15. CASE DecodeNextOfCopy
  <2>1. Head(inputs_copy) \in Inputs
    BY <1>15, SeqTypes DEF DecodeNextOfCopy, TypeOK
  <2>2. QED
    BY <1>15, <2>1, DecodeInternalSize DEF DecodeNextOfCopy, TypeOK, Has
<1>16. CASE MessageReceived
  <2>1. Msg("HandleMessage") \in Message(Tasks)
        /\ Msg("HandleMessage").type # "ProvidePictureBuffers"
    BY MessageTypes DEF Tasks, Notes, OfBuffer, OfInput, Msg
  <2>2. Asks(loop') => Asks(loop)
    BY <1>16, <2>1, HasAppend DEF MessageReceived, TypeOK
  <2>3. QED
    BY <1>16, <2>2, SizeIsKept DEF MessageReceived, decoderVars, Has
<1>17. CASE Client
  <2>1. Assigns(calls') => Assigns(calls) \/ Asks(notes)
    <3>1. calls \in Seq(Message(Calls))
      BY DEF TypeOK
    <3>2. \A m \in Message(Calls) :
            Has(Append(calls, m), "AssignPictureBuffers")
              <=> Has(calls, "AssignPictureBuffers") \/ m.type = "AssignPictureBuffers"
      BY <3>1, HasAppend, Zenon
    <3>3. QED
      BY <1>17, <3>2, ClientCalls, Zenon
  <2>2. UNCHANGED <<decoderVars, loop>>
    BY <1>17 DEF Client, ClientDecode, ClientFlush, ClientReset,
                FactoriesAbort,
                 ClientStop, ClientReuse, Call, Receive, ReceiveDone,
                 ReceiveEndOfBitstreamBuffer, ReceivePictureReady,
                 ReceiveProvidePictureBuffers, ReceiveError, ReceiveNothing,
                 Receives
  <2>3. \/ notes' = notes
        \/ notes # <<>> /\ notes' = Tail(notes)
    BY <1>17 DEF Client, ClientDecode, ClientFlush, ClientReset,
                FactoriesAbort,
                 ClientStop, ClientReuse, Receive, ReceiveDone,
                 ReceiveEndOfBitstreamBuffer, ReceivePictureReady,
                 ReceiveProvidePictureBuffers, ReceiveError, ReceiveNothing,
                 Receives
  <2>4. Asks(notes') => Asks(notes)
    <3>1. notes # <<>> => (Asks(Tail(notes)) => Asks(notes))
      BY HasTail DEF TypeOK
    <3>2. CASE notes' = notes
      BY <3>2
    <3>3. CASE notes # <<>> /\ notes' = Tail(notes)
      BY <3>1, <3>3
    <3>4. QED
      BY <2>3, <3>2, <3>3
  <2>5. QED
    BY <2>1, <2>2, <2>4, SizeIsKept DEF decoderVars, Has
<1>18. CASE UNCHANGED vars
  BY <1>18, SizeIsKept DEF vars, decoderVars, Has
<1>19. QED
  BY <1>6, <1>7, <1>8, <1>9, <1>10, <1>11, <1>12, <1>13, <1>14, <1>15, <1>16,
     <1>17, <1>18 DEF Next, MainThread

\* The decoder never sees a sample whose size is not that of the picture
\* buffers: once the first packet has fixed the size no step changes it, so
\* HandleResolutionChanged is dead code, whatever sizes the stream holds.
THEOREM ResolutionBranchUnreachable == Spec => []ResolutionBranchIsDead
<1>1. Init => InitializeComesFirst /\ SizeIsSettled
  BY DEF Init, InitializeComesFirst, SizeIsSettled, Has, Msg
<1>2. SizeIsSettled => ResolutionBranchIsDead
  BY DEF SizeIsSettled, ResolutionBranchIsDead
<1>3. QED
  BY <1>1, <1>2, TypeCorrect, NextInitialize, NextSize, PTL DEF Spec
=============================================================================
