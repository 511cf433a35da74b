---------------------- MODULE VPXVideoDecodeAccelerator ----------------------
(***************************************************************************)
(* The VP9 hardware decoder of the GPU process,                            *)
(* content/common/gpu/media/vpx_video_decode_accelerator.cc, in its        *)
(* AMD_ACCELERATED build, with the message loop it posts its tasks to and  *)
(* the protocol its client (media/filters/gpu_video_decoder.cc, reached    *)
(* through gpu_video_decode_accelerator.cc over two FIFO IPC channels)     *)
(* obeys.                                                                  *)
(*                                                                         *)
(* Everything of the decoder runs on the main thread of the GPU process.   *)
(* That thread takes one task at a time from the head of `loop`: a task    *)
(* the decoder posted to itself, or the GPU channel's HandleMessage, which *)
(* dispatches the oldest call of `calls`.  Bitstream buffers are numbered  *)
(* 1, 2, ... in the order the client sends them and stand for the frame    *)
(* they decode to.                                                         *)
(***************************************************************************)
EXTENDS Integers, Sequences, FiniteSets

CONSTANTS
  kNumPictureBuffers,   \* picture buffers requested from the client (10)
  kBufferingSlack,      \* picture buffers left free while buffering (3)
  kMaxInFlightDecodes,  \* decodes the client keeps in flight (4)
  MaxInputs,            \* bound: bitstream buffers the client ever sends
  StreamSize,           \* StreamSize[i]: the frame size coded in buffer i
  Faults                \* the failures of the platform a behaviour may meet

FaultKinds ==
  {"init", "context", "copy", "create", "surface", "decode", "textures", "abort"}

ASSUME ConstantsAssumption ==
  /\ kNumPictureBuffers \in Nat
  /\ kBufferingSlack \in 0..(kNumPictureBuffers - 1)
  /\ kMaxInFlightDecodes \in Nat
  /\ MaxInputs \in Nat
  /\ StreamSize \in [1..MaxInputs -> Nat \ {0}]
  /\ Faults \subseteq FaultKinds

Inputs == 1..MaxInputs
PictureIds == 1..kNumPictureBuffers

\* Pictures are held back until there are this many of them.
BufferingThreshold == kNumPictureBuffers - kBufferingSlack

VARIABLES
  \* VPXVideoDecodeAccelerator
  state_,                     \* kUninitialized, kNormal, kFlushing; or deleted
  client_,                    \* is the client pointer still set?
  restart_,                   \* no packet was seen yet
  buffering_,                 \* the first pictures are being held back
  pictures_requested_,
  stream_size,                \* width_, height_
  surface,                    \* the frame in temp_surface_rgba_ (0: none)
  pending_output_samples_,    \* decoded, not yet copied to a picture buffer
  pending_input_buffers_,     \* waiting to be decoded
  inputs_copy,                \* rest of DecodePendingInputBuffers' local copy
  output_picture_buffers_,    \* ids of the picture buffers assigned
  available,                  \* those whose available() is true
  texture,                    \* the frame each picture buffer shows (0: none)
  texture_dimensions_,        \* their size, as the GVDA accepted them
  buffered_picture_buffers_,  \* pictures held back
  \* the message loop and the IPC channel
  loop,                       \* FIFO of tasks of the main thread
  calls,                      \* client to decoder
  notes,                      \* decoder to client
  \* the client
  phase,                      \* what the client is waiting for
  aborted,                    \* factories_->IsAborted()
  sent,                       \* bitstream buffers sent so far
  unacked,                    \* bitstream_buffers_in_decoder_
  held                        \* pictures the client has and must return

decoderVars == <<state_, client_, restart_, buffering_, pictures_requested_,
                 stream_size, surface, pending_output_samples_,
                 pending_input_buffers_, inputs_copy,
                 output_picture_buffers_, available, texture,
                 texture_dimensions_, buffered_picture_buffers_>>
clientVars == <<phase, aborted, sent, unacked, held>>
vars == <<decoderVars, loop, calls, notes, clientVars>>

(***************************************************************************)
(* Messages.  A notification the decoder posts to itself is the very       *)
(* record it later hands to its client.                                    *)
(***************************************************************************)
Calls == {"Initialize", "Decode", "AssignPictureBuffers",
          "ReusePictureBuffer", "Flush", "Reset", "Destroy"}
Notes == {"InitializeDone", "EndOfBitstreamBuffer", "FlushDone", "ResetDone",
          "ProvidePictureBuffers", "PictureReady"}
Errors == {"IllegalState", "PlatformFailure", "InvalidArgument"}
Tasks == Notes \cup {"HandleMessage", "DecodePendingInputBuffers"}

\* Messages that name a picture buffer, and those that name an input.
OfBuffer == {"PictureReady", "ReusePictureBuffer"}
OfInput  == {"PictureReady", "Decode", "EndOfBitstreamBuffer"}

Message(types) ==
  {m \in [type : types, buf : 0..kNumPictureBuffers, id : 0..MaxInputs] :
     /\ m.buf # 0 <=> m.type \in OfBuffer
     /\ m.id # 0 <=> m.type \in OfInput}

Msg(type)          == [type |-> type, buf |-> 0, id |-> 0]
Decoded(i)         == [type |-> "EndOfBitstreamBuffer", buf |-> 0, id |-> i]
PictureReady(b, i) == [type |-> "PictureReady", buf |-> b, id |-> i]

\* Is there a message of this type in the queue?
Has(queue, type) == \E k \in 1..Len(queue) : queue[k].type = type

Init ==
  /\ state_ = "kUninitialized" /\ client_ = TRUE
  /\ restart_ = FALSE /\ buffering_ = FALSE /\ pictures_requested_ = FALSE
  /\ stream_size = 0 /\ surface = 0
  /\ pending_output_samples_ = <<>> /\ pending_input_buffers_ = <<>>
  /\ inputs_copy = <<>>
  /\ output_picture_buffers_ = {} /\ available = {}
  /\ texture = [b \in PictureIds |-> 0] /\ texture_dimensions_ = 0
  /\ buffered_picture_buffers_ = <<>>
  /\ loop = <<>> /\ calls = <<Msg("Initialize")>> /\ notes = <<>>
  /\ phase = "connecting" /\ aborted = FALSE
  /\ sent = 0 /\ unacked = {} /\ held = {}

(***************************************************************************)
(* Decisions of the decoder's code.  A definition X_Y is X with a plausible*)
(* mistake in it; no action uses it, it serves to show that a property     *)
(* notices the mistake.                                                    *)
(***************************************************************************)

\* The size a packet is decoded for: only the first packet is peeked at.
PeekSize_EveryPacket(i) == StreamSize[i]
PeekSize(i) == IF restart_ THEN StreamSize[i] ELSE stream_size

\* An input is queued behind a sample that waits and behind queued inputs.
MustQueue_IgnoresSample == pending_input_buffers_ # <<>>
MustQueue == pending_output_samples_ # <<>> \/ pending_input_buffers_ # <<>>

\* The picture buffers still free once those of `used` show a picture.
StillAvailable_Unmarked(free, used) == free
StillAvailable(free, used) == free \ used

\* The pictures held back, with the new ones.
HeldBack_Reversed(pictures) == pictures \o buffered_picture_buffers_
HeldBack(pictures) == buffered_picture_buffers_ \o pictures

\* Are queued inputs to be decoded now that samples were presented?
WakesUp_NotInFlush(drained) ==
  drained /\ state_ = "kNormal" /\ pending_input_buffers_ # <<>>
WakesUp(drained) == drained /\ pending_input_buffers_ # <<>>

\* Does presenting the samples end a Flush that waited for them?
FlushCompletes_Forgotten(drained) == FALSE
FlushCompletes(drained) == state_ = "kFlushing" /\ drained

\* Reset acknowledges the queued inputs as it drops them.
NotifyInputBuffersDropped_Silent == <<>>
NotifyInputBuffersDropped ==
  [k \in 1..Len(pending_input_buffers_) |-> Decoded(pending_input_buffers_[k])]

(***************************************************************************)
(* Helpers of the decoder.  Every handler ends with the main thread back   *)
(* in its loop; `rest` is the loop without the task that runs.             *)
(***************************************************************************)

\* Error notification and Invalidate().  The held-back pictures and the tasks
\* already posted survive, but each of those tasks finds client_ NULL.
StopOnError(rest, error) ==
  /\ notes' = IF client_ THEN Append(notes, Msg(error)) ELSE notes
  /\ client_' = FALSE
  /\ state_' = "kUninitialized"
  /\ output_picture_buffers_' = {} /\ available' = {}
  /\ pending_output_samples_' = <<>> /\ pending_input_buffers_' = <<>>
  /\ loop' = rest
  /\ UNCHANGED <<pictures_requested_, texture, texture_dimensions_,
                 buffered_picture_buffers_>>

\* The picture buffers the loop over the map picks for the first n of the
\* samples: the n lowest available ids, in increasing order.
LowestAvailable(n, free, ids) ==
  /\ \A j, k \in 1..n : j < k => ids[j] < ids[k]
  /\ \A b \in free : \/ \E k \in 1..n : ids[k] = b
                     \/ \A k \in 1..n : ids[k] < b

\* The first n samples go to the picture buffers ids, which are announced, or
\* held back while buffering.  If that was all, queued inputs are woken up and
\* a Flush that waited for the samples is done.
Present(rest, samples, buffering, buffers, free, ack, n, ids) ==
  LET pictures == [k \in 1..n |-> PictureReady(ids[k], samples[k])]
      drained  == n = Len(samples)
      all      == HeldBack(pictures)
      hold     == buffering /\ Len(all) < BufferingThreshold
      announce == IF hold \/ n = 0 THEN <<>>
                  ELSE IF buffering THEN all ELSE pictures
      wakeUp   == IF WakesUp(drained)
                  THEN <<Msg("DecodePendingInputBuffers")>> ELSE <<>>
      flushed  == IF FlushCompletes(drained) THEN <<Msg("FlushDone")>> ELSE <<>>
  IN
  /\ LowestAvailable(n, free, ids)
  /\ drained \/ \A b \in free : \E k \in 1..n : ids[k] = b
  /\ output_picture_buffers_' = buffers
  /\ available' = StillAvailable(free, {ids[k] : k \in 1..n})
  /\ texture' = [b \in PictureIds |->
                   IF \E k \in 1..n : ids[k] = b THEN surface' ELSE texture[b]]
  /\ pending_output_samples_' = SubSeq(samples, n + 1, Len(samples))
  /\ buffered_picture_buffers_' =
       IF n = 0 THEN buffered_picture_buffers_
       ELSE IF hold THEN all
       ELSE IF buffering THEN <<>> ELSE buffered_picture_buffers_
  /\ buffering_' = (buffering /\ (n = 0 \/ hold))
  /\ loop' = rest \o announce \o wakeUp \o ack \o flushed
  /\ state_' = IF FlushCompletes(drained) THEN "kNormal" ELSE state_
  /\ UNCHANGED <<client_, pictures_requested_, pending_input_buffers_,
                 texture_dimensions_, notes>>

\* Copy decoded samples to as many available picture buffers as there are.
ProcessPendingSamples(rest, samples, buffering, buffers, free, ack) ==
  \/ /\ \/ "context" \in Faults
        \/ "copy" \in Faults /\ samples # <<>> /\ free # {}
     /\ StopOnError(rest, "PlatformFailure")
     /\ buffering_' = buffering
  \/ \E n \in 0..Len(samples) : \E ids \in [1..n -> free] :
       Present(rest, samples, buffering, buffers, free, ack, n, ids)

\* Queue the bitstream buffer, or decode it and present its frame.
DecodeInternal(rest, i) ==
  LET buffering == restart_ \/ buffering_
      ack       == <<Decoded(i)>>
      samples   == Append(pending_output_samples_, i)
      kept      == <<client_, state_, output_picture_buffers_, available,
                     texture, texture_dimensions_,
                     buffered_picture_buffers_, notes>>
  IN
  /\ restart_' = FALSE
  /\ stream_size' = PeekSize(i)
  /\ \/ /\ state_ = "kUninitialized"
        /\ loop' = rest
        /\ buffering_' = buffering
        /\ UNCHANGED <<kept, surface, pending_output_samples_,
                       pending_input_buffers_, pictures_requested_>>
     \/ /\ state_ # "kUninitialized"
        /\ MustQueue
        /\ pending_input_buffers_' = Append(pending_input_buffers_, i)
        /\ loop' = rest
        /\ buffering_' = buffering
        /\ UNCHANGED <<kept, surface, pending_output_samples_,
                       pictures_requested_>>
     \/ /\ state_ # "kUninitialized"
        /\ ~MustQueue
        /\ \/ /\ {"decode", "surface"} \cap Faults # {}
              /\ loop' = rest            \* neither acknowledged nor reported
              /\ buffering_' = buffering
              /\ UNCHANGED <<kept, surface, pending_output_samples_,
                             pending_input_buffers_, pictures_requested_>>
           \/ /\ "surface" \in Faults
              /\ StopOnError(rest, "PlatformFailure")
              /\ buffering_' = buffering /\ UNCHANGED surface
           \/ /\ state_ = "kFlushing"     \* found after the frame was presented
              /\ StopOnError(rest, "IllegalState")
              /\ buffering_' = buffering /\ surface' = i
           \/ /\ state_ = "kNormal" /\ output_picture_buffers_ # {}
              /\ surface' = i
              /\ ProcessPendingSamples(rest, samples, buffering,
                                       output_picture_buffers_, available, ack)
           \/ /\ state_ = "kNormal" /\ output_picture_buffers_ = {}
              /\ surface' = i
              /\ pending_output_samples_' = samples
              /\ pictures_requested_' = TRUE
              /\ loop' = rest \o (IF pictures_requested_ THEN <<>>
                                  ELSE <<Msg("ProvidePictureBuffers")>>) \o ack
              /\ buffering_' = buffering
              /\ UNCHANGED <<kept, pending_input_buffers_>>

-----------------------------------------------------------------------------
(***************************************************************************)
(* The main thread.                                                        *)
(***************************************************************************)

\* The thread is back in its loop, not inside DecodePendingInputBuffers.
Idle == inputs_copy = <<>>

\* The next task of the loop, and the next call HandleMessage dispatches.
Runs(task) == Idle /\ loop # <<>> /\ Head(loop).type = task
Handles(call) ==
  /\ Runs("HandleMessage") /\ calls # <<>> /\ Head(calls).type = call
  /\ calls' = Tail(calls)
  /\ UNCHANGED <<inputs_copy, clientVars>>

Initialize ==
  /\ Handles("Initialize")
  /\ restart_' = TRUE /\ buffering_' = FALSE
  /\ UNCHANGED <<stream_size, surface>>
  /\ \/ /\ "init" \in Faults
        /\ StopOnError(Tail(loop), "PlatformFailure")
     \/ /\ state_' = "kNormal"
        /\ loop' = Append(Tail(loop), Msg("InitializeDone"))
        /\ UNCHANGED <<client_, pictures_requested_, pending_output_samples_,
                       pending_input_buffers_, output_picture_buffers_,
                       available, texture, texture_dimensions_,
                       buffered_picture_buffers_, notes>>

\* A handler that finds the decoder in the wrong state reports it and does
\* nothing else.
Refuse(error) ==
  /\ StopOnError(Tail(loop), error)
  /\ UNCHANGED <<restart_, buffering_, stream_size, surface>>

Decode ==
  /\ Handles("Decode")
  /\ \/ state_ = "kUninitialized" /\ Refuse("IllegalState")
     \/ state_ # "kUninitialized" /\ DecodeInternal(Tail(loop), Head(calls).id)

AssignPictureBuffers ==
  /\ Handles("AssignPictureBuffers")
  /\ \/ state_ = "kUninitialized" /\ Refuse("IllegalState")
     \/ "create" \in Faults /\ Refuse("PlatformFailure")
     \/ /\ state_ # "kUninitialized"
        /\ UNCHANGED <<restart_, stream_size, surface>>
        /\ ProcessPendingSamples(Tail(loop), pending_output_samples_,
                                 buffering_, PictureIds, PictureIds, <<>>)

ReusePictureBuffer_Unchecked ==
  /\ Handles("ReusePictureBuffer")
  /\ UNCHANGED <<restart_, stream_size, surface>>
  /\ ProcessPendingSamples(Tail(loop), pending_output_samples_, buffering_,
                           output_picture_buffers_,
                           available \cup {Head(calls).buf}, <<>>)
ReusePictureBuffer ==
  /\ Handles("ReusePictureBuffer")
  /\ LET b == Head(calls).buf IN
     \/ state_ = "kUninitialized" /\ Refuse("IllegalState")
     \/ /\ state_ # "kUninitialized" /\ output_picture_buffers_ = {}
        /\ loop' = Tail(loop)
        /\ UNCHANGED <<decoderVars, notes>>
     \/ /\ state_ # "kUninitialized" /\ output_picture_buffers_ # {}
        /\ b \notin output_picture_buffers_
        /\ Refuse("InvalidArgument")
     \/ /\ state_ # "kUninitialized" /\ b \in output_picture_buffers_
        /\ UNCHANGED <<restart_, stream_size, surface>>
        /\ ProcessPendingSamples(Tail(loop), pending_output_samples_,
                                 buffering_, output_picture_buffers_,
                                 available \cup {b}, <<>>)

Flush ==
  /\ Handles("Flush")
  /\ \/ state_ # "kNormal" /\ Refuse("IllegalState")
     \/ /\ state_ = "kNormal"
        /\ IF pending_output_samples_ # <<>>
           THEN state_' = "kFlushing" /\ loop' = Tail(loop)
           ELSE /\ loop' = Append(Tail(loop), Msg("FlushDone"))
                /\ UNCHANGED state_
        /\ UNCHANGED <<client_, restart_, buffering_, pictures_requested_,
                       stream_size, surface, pending_output_samples_,
                       pending_input_buffers_, output_picture_buffers_,
                       available, texture, texture_dimensions_,
                       buffered_picture_buffers_, notes>>

\* Nothing decoded or queued survives; restart_ is left alone.
Reset_KeepsHeldBack ==
  /\ Handles("Reset")
  /\ \/ state_ # "kNormal" /\ Refuse("IllegalState")
     \/ /\ state_ = "kNormal"
        /\ pending_output_samples_' = <<>>
        /\ notes' = notes \o NotifyInputBuffersDropped
        /\ pending_input_buffers_' = <<>>
        /\ loop' = Append(Tail(loop), Msg("ResetDone"))
        /\ UNCHANGED <<state_, client_, restart_, buffering_,
                       buffered_picture_buffers_, pictures_requested_,
                       stream_size, surface, output_picture_buffers_,
                       available, texture, texture_dimensions_>>
Reset ==
  /\ Handles("Reset")
  /\ \/ state_ # "kNormal" /\ Refuse("IllegalState")
     \/ /\ state_ = "kNormal"
        /\ pending_output_samples_' = <<>>
        /\ buffered_picture_buffers_' = <<>> /\ buffering_' = FALSE
        /\ notes' = notes \o NotifyInputBuffersDropped
        /\ pending_input_buffers_' = <<>>
        /\ loop' = Append(Tail(loop), Msg("ResetDone"))
        /\ UNCHANGED <<state_, client_, restart_, pictures_requested_,
                       stream_size, surface, output_picture_buffers_,
                       available, texture, texture_dimensions_>>

\* Invalidate() and `delete this`: the weak pointers of posted tasks die.
Destroy ==
  /\ Handles("Destroy")
  /\ state_' = "deleted" /\ client_' = FALSE
  /\ output_picture_buffers_' = {} /\ available' = {}
  /\ pending_output_samples_' = <<>> /\ pending_input_buffers_' = <<>>
  /\ loop' = <<>>
  /\ UNCHANGED <<restart_, buffering_, pictures_requested_, stream_size,
                 surface, texture, texture_dimensions_,
                 buffered_picture_buffers_, notes>>

\* A posted NotifyXxx or RequestPictureBuffers runs.  The GVDA remembers the
\* dimensions it asks picture buffers for.
RunNotification ==
  /\ Idle /\ loop # <<>> /\ Head(loop).type \in Notes
  /\ notes' = IF client_ THEN Append(notes, Head(loop)) ELSE notes
  /\ texture_dimensions_' =
       IF client_ /\ Head(loop).type = "ProvidePictureBuffers"
       THEN stream_size ELSE texture_dimensions_
  /\ loop' = Tail(loop)
  /\ UNCHANGED <<state_, client_, restart_, buffering_, pictures_requested_,
                 stream_size, surface, pending_output_samples_,
                 pending_input_buffers_, inputs_copy, output_picture_buffers_,
                 available, texture, buffered_picture_buffers_, calls,
                 clientVars>>

\* The task swaps the queued inputs into a local copy ...
DecodePendingInputBuffers ==
  /\ Runs("DecodePendingInputBuffers")
  /\ UNCHANGED <<calls, clientVars>>
  /\ \/ /\ state_ = "kUninitialized"
        /\ Refuse("IllegalState")
        /\ UNCHANGED inputs_copy
     \/ /\ state_ # "kUninitialized"
        /\ loop' = Tail(loop)
        /\ IF pending_output_samples_ = <<>>
           THEN /\ inputs_copy' = pending_input_buffers_
                /\ pending_input_buffers_' = <<>>
           ELSE UNCHANGED <<inputs_copy, pending_input_buffers_>>
        /\ UNCHANGED <<state_, client_, restart_, buffering_,
                       pictures_requested_, stream_size, surface,
                       pending_output_samples_, output_picture_buffers_,
                       available, texture, texture_dimensions_,
                       buffered_picture_buffers_, notes>>

\* ... and decodes the copy one by one.  The task keeps the thread until the
\* copy is empty: no other step of the main thread is enabled before that.
DecodeNextOfCopy ==
  /\ inputs_copy # <<>>
  /\ inputs_copy' = Tail(inputs_copy)
  /\ DecodeInternal(loop, Head(inputs_copy))
  /\ UNCHANGED <<calls, clientVars>>

MainThread ==
  \/ Initialize \/ Decode \/ AssignPictureBuffers \/ ReusePictureBuffer
  \/ Flush \/ Reset \/ Destroy
  \/ RunNotification \/ DecodePendingInputBuffers \/ DecodeNextOfCopy

\* Between two tasks the thread runs the channel's OnMessageReceived, which
\* posts one HandleMessage; the next one is posted after that one has run.
MessageReceived ==
  /\ Idle /\ Len(calls) > 0
  /\ ~Has(loop, "HandleMessage")
  /\ loop' = Append(loop, Msg("HandleMessage"))
  /\ UNCHANGED <<decoderVars, calls, notes, clientVars>>

-----------------------------------------------------------------------------
(***************************************************************************)
(* The client, as far as the decoder can tell: the calls GpuVideoDecoder   *)
(* may make, given the notifications it has received.                      *)
(***************************************************************************)

Call(m) == calls' = Append(calls, m) /\ UNCHANGED <<decoderVars, loop>>

\* The pipeline asks for the next buffer while fewer than kMaxInFlightDecodes
\* are in the decoder, and also each time it is handed a picture.
CanMoreDecodeWorkBeDone ==
  Cardinality(unacked) < kMaxInFlightDecodes \/ held # {}

ClientDecode ==
  /\ phase = "normal"
  /\ sent < MaxInputs /\ CanMoreDecodeWorkBeDone
  /\ sent' = sent + 1
  /\ unacked' = unacked \cup {sent + 1}
  /\ Call([type |-> "Decode", buf |-> 0, id |-> sent + 1])
  /\ UNCHANGED <<notes, phase, aborted, held>>

ClientFlush ==
  /\ phase = "normal"
  /\ phase' = "draining"
  /\ Call(Msg("Flush"))
  /\ UNCHANGED <<notes, aborted, sent, unacked, held>>

\* The compositor's context is being torn down.
FactoriesAbort ==
  /\ "abort" \in Faults /\ ~aborted
  /\ aborted' = TRUE
  /\ UNCHANGED <<decoderVars, loop, calls, notes, phase, sent, unacked, held>>

\* A Reset that comes during a drain is put off until the drain is over, but
\* not when the factories are aborted: it is then sent behind the Flush.
ClientReset_AtOnce ==
  /\ \/ phase = "normal" /\ phase' = "resetting"
     \/ phase = "draining" /\ phase' = "aborting"
  /\ Call(Msg("Reset"))
  /\ UNCHANGED <<notes, aborted, sent, unacked, held>>
ClientReset ==
  /\ \/ phase = "normal" /\ phase' = "resetting"
     \/ phase = "draining" /\ aborted /\ phase' = "aborting"
  /\ Call(Msg("Reset"))
  /\ UNCHANGED <<notes, aborted, sent, unacked, held>>

\* The last reference to a frame went away.
ClientReuse(p) ==
  /\ p \in held /\ phase # "destroyed"
  /\ held' = held \ {p}
  /\ Call([type |-> "ReusePictureBuffer", buf |-> p.buf, id |-> 0])
  /\ UNCHANGED <<notes, phase, aborted, sent, unacked>>

ClientStop ==
  /\ phase \notin {"connecting", "destroyed"}
  /\ phase' = "destroyed"
  /\ Call(Msg("Destroy"))
  /\ UNCHANGED <<notes, aborted, sent, unacked, held>>

Receives(types) ==
  /\ notes # <<>> /\ Head(notes).type \in types
  /\ notes' = Tail(notes)
  /\ UNCHANGED <<decoderVars, loop, aborted, sent>>

\* The end of a drain leaves a Reset sent during it to be answered.
ReceiveDone ==
  /\ phase # "destroyed"
  /\ Receives({"InitializeDone", "FlushDone", "ResetDone"})
  /\ phase' = IF phase = "aborting" THEN "resetting" ELSE "normal"
  /\ UNCHANGED <<calls, unacked, held>>

ReceiveEndOfBitstreamBuffer ==
  /\ phase # "destroyed"
  /\ Receives({"EndOfBitstreamBuffer"})
  /\ unacked' = unacked \ {Head(notes).id}
  /\ UNCHANGED <<calls, phase, held>>

ReceivePictureReady ==
  /\ phase # "destroyed"
  /\ Receives({"PictureReady"})
  /\ held' = held \cup {Head(notes)}
  /\ UNCHANGED <<calls, phase, unacked>>

\* A client that cannot create the textures gives the decoder up.
ReceiveProvidePictureBuffers ==
  /\ phase # "destroyed"
  /\ Receives({"ProvidePictureBuffers"})
  /\ \/ /\ calls' = Append(calls, Msg("AssignPictureBuffers"))
        /\ UNCHANGED phase
     \/ /\ "textures" \in Faults
        /\ calls' = Append(calls, Msg("Destroy"))
        /\ phase' = "destroyed"
  /\ UNCHANGED <<unacked, held>>

ReceiveError ==
  /\ phase # "destroyed"
  /\ Receives(Errors)
  /\ phase' = "destroyed"
  /\ calls' = Append(calls, Msg("Destroy"))
  /\ UNCHANGED <<unacked, held>>

\* vda_ is gone.
ReceiveNothing ==
  /\ phase = "destroyed"
  /\ Receives(Notes \cup Errors)
  /\ UNCHANGED <<calls, phase, unacked, held>>

Receive ==
  \/ ReceiveDone \/ ReceiveEndOfBitstreamBuffer \/ ReceivePictureReady
  \/ ReceiveProvidePictureBuffers \/ ReceiveError \/ ReceiveNothing

Client ==
  \/ ClientDecode \/ ClientFlush \/ ClientReset \/ ClientStop
  \/ FactoriesAbort
  \/ \E p \in held : ClientReuse(p)
  \/ Receive

Next == MainThread \/ MessageReceived \/ Client

Spec == Init /\ [][Next]_vars

\* The threads and the IPC channels make progress and the client gives frames
\* back; whether it decodes, flushes, resets or stops is up to it.
Fairness ==
  /\ WF_vars(MainThread)
  /\ WF_vars(MessageReceived)
  /\ WF_vars(Receive)
  /\ WF_vars(\E p \in held : ClientReuse(p))

FairSpec == Spec /\ Fairness

-----------------------------------------------------------------------------
(***************************************************************************)
(* Properties.                                                             *)
(***************************************************************************)

\* Every variable has its type; only assigned buffers are available.
TypeOK ==
  /\ state_ \in {"kUninitialized", "kNormal", "kFlushing", "deleted"}
  /\ client_ \in BOOLEAN /\ restart_ \in BOOLEAN /\ buffering_ \in BOOLEAN
  /\ pictures_requested_ \in BOOLEAN
  /\ stream_size \in Nat /\ surface \in 0..MaxInputs
  /\ pending_output_samples_ \in Seq(Inputs)
  /\ pending_input_buffers_ \in Seq(Inputs)
  /\ inputs_copy \in Seq(Inputs)
  /\ output_picture_buffers_ \subseteq PictureIds
  /\ available \subseteq output_picture_buffers_
  /\ texture \in [PictureIds -> 0..MaxInputs] /\ texture_dimensions_ \in Nat
  /\ buffered_picture_buffers_ \in Seq(Message({"PictureReady"}))
  /\ loop \in Seq(Message(Tasks))
  /\ calls \in Seq(Message(Calls))
  /\ notes \in Seq(Message(Notes \cup Errors))
  /\ phase \in {"connecting", "normal", "draining", "aborting",
                "resetting", "destroyed"}
  /\ aborted \in BOOLEAN
  /\ sent \in 0..MaxInputs
  /\ unacked \subseteq 1..sent
  /\ held \subseteq Message({"PictureReady"})

\* There is one decode surface, temp_surface_rgba_, and a decoded sample stays
\* in it until a picture buffer is free: nothing may be decoded over it.
SurfaceHoldsPendingSample ==
  /\ Len(pending_output_samples_) <= 1
  /\ pending_output_samples_ # <<>> => pending_output_samples_[1] = surface

\* The client is told that it broke the protocol in one case only: a Reset sent
\* during a drain because the factories were aborted finds the decoder still
\* flushing.  No other call is refused, a queued input is never decoded during
\* a flush, and every picture buffer returned is known.
NoProtocolError ==
  \A k \in 1..Len(notes) :
    /\ notes[k].type # "InvalidArgument"
    /\ notes[k].type = "IllegalState" =>
         aborted /\ phase \in {"aborting", "destroyed"}

\* What is on its way to the client, oldest first.
Outgoing == notes \o loop

\* Pictures announced, held back, or in the client's hands.
PicturesOut ==
  held \cup {Outgoing[k] : k \in {j \in 1..Len(Outgoing) :
                                   Outgoing[j].type = "PictureReady"}}
       \cup {buffered_picture_buffers_[k] :
              k \in 1..Len(buffered_picture_buffers_)}

\* From the copy of a frame into a picture buffer until the client returns
\* that buffer, the buffer shows exactly that frame and is not reused.
PictureShowsItsFrame ==
  \A p \in PicturesOut : p.buf \notin available /\ texture[p.buf] = p.id

\* The whole pipeline as one queue, read from the client's end: what is on its
\* way to the client, the pictures held back, the frames decoded or waiting to
\* be (each as the Decode call that brought it), and the calls not yet handled.
Frames(inputs) ==
  [k \in 1..Len(inputs) |-> [type |-> "Decode", buf |-> 0, id |-> inputs[k]]]
Waiting == pending_output_samples_ \o pending_input_buffers_ \o inputs_copy
Pipeline == Outgoing \o buffered_picture_buffers_ \o Frames(Waiting) \o calls

\* Every bitstream buffer is in one place, and pictures overtake neither each
\* other nor the inputs queued behind them: the numbers of the buffers in the
\* pipeline increase.
InDecodeOrder ==
  \A j, k \in 1..Len(Pipeline) :
    j < k /\ {Pipeline[j].type, Pipeline[k].type} \subseteq {"PictureReady", "Decode"}
      => Pipeline[j].id < Pipeline[k].id

\* Nothing of a bitstream buffer sent before a Reset is left behind its
\* ResetDone: GpuVideoDecoder then forgets the data of those buffers.
ResetDoneIsLast ==
  \A k \in 1..Len(Outgoing) : Outgoing[k].type = "ResetDone" =>
    /\ \A j \in k..Len(Outgoing) :
         Outgoing[j].type \notin {"PictureReady", "EndOfBitstreamBuffer"}
    /\ pending_output_samples_ = <<>> /\ pending_input_buffers_ = <<>>
    /\ buffered_picture_buffers_ = <<>> /\ inputs_copy = <<>>

\* Queued inputs are never forgotten: they wait for a sample that waits for a
\* picture buffer, or a DecodePendingInputBuffers task is posted or running.
NoLostWakeUp ==
  pending_input_buffers_ # <<>> =>
    \/ pending_output_samples_ # <<>>
    \/ Has(loop, "DecodePendingInputBuffers")

\* A sample meets only picture buffers of its stream's size, as the decoder
\* knows it: the call of HandleResolutionChanged is never reached.
ResolutionBranchIsDead ==
  output_picture_buffers_ # {} => stream_size = texture_dimensions_

\* Why that is so.  Nothing happens before Initialize has run, ...
InitializeComesFirst ==
  Has(calls, "Initialize") =>
    /\ Len(calls) = 1 /\ notes = <<>> /\ held = {} /\ phase = "connecting"
    /\ inputs_copy = <<>> /\ output_picture_buffers_ = {}
    /\ \A k \in 1..Len(loop) : loop[k].type = "HandleMessage"

\* ... and once picture buffers are asked for the first packet was peeked at,
\* so that the size they are asked for stays the size of the stream.
SizeIsSettled ==
  /\ Has(loop, "ProvidePictureBuffers") => ~restart_
  /\ \/ Has(notes, "ProvidePictureBuffers")
     \/ Has(calls, "AssignPictureBuffers")
     \/ output_picture_buffers_ # {}
     => ~restart_ /\ stream_size = texture_dimensions_

\* Each picture the client gets has the size of its frame: GpuVideoDecoder
\* leaves a change of the coded size to the decoder to detect.
PictureHasFrameSize ==
  \A p \in PicturesOut : StreamSize[p.id] = texture_dimensions_

\* A flush is reported done only behind all that was decoded for it: no input
\* is left undecoded, no picture is held back or announced after it.
FlushDeliversPictures ==
  \A k \in 1..Len(Outgoing) : Outgoing[k].type = "FlushDone" =>
    /\ \A j \in k..Len(Outgoing) : Outgoing[j].type # "PictureReady"
    /\ pending_output_samples_ = <<>> /\ pending_input_buffers_ = <<>>
    /\ buffered_picture_buffers_ = <<>> /\ inputs_copy = <<>>

\* A picture buffer that is not available will be returned by the client.
PictureBuffersAreReused ==
  \A b \in output_picture_buffers_ \ available :
    \/ \E p \in PicturesOut : p.buf = b
    \/ \E k \in 1..Len(calls) :
         calls[k].type = "ReusePictureBuffer" /\ calls[k].buf = b

\* A flush and a reset come to an end, and so does a reset sent during a flush.
RequestsAreAnswered ==
  /\ phase = "draining" ~> phase # "draining"
  /\ phase = "aborting" ~> phase # "aborting"
  /\ phase = "resetting" ~> phase # "resetting"

\* The client gets every bitstream buffer back.
DecodesAreAcknowledged ==
  \A i \in Inputs : i \in unacked ~> i \notin unacked \/ phase = "destroyed"
=============================================================================
