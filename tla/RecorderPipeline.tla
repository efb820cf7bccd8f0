-------------------------- MODULE RecorderPipeline --------------------------
(***************************************************************************)
(* The segmented recorder of src/utils/mp4_recorder.cpp around its         *)
(* GStreamer pipeline: the pool of DMA buffers that the encoder gives      *)
(* back from its own threads, the messages of the bus, from which the      *)
(* closed segments are known, the end of stream, and the audio frames that *)
(* the capture thread of AudioCaptureManager delivers.                     *)
(*                                                                         *)
(* start, write_frame and stop run on the recorder thread; why it calls    *)
(* them is the subject of RingRecording.  The pipeline is external: it     *)
(* holds buffers, opens and finalizes fragments in the background          *)
(* (async-finalize), fails, and ends when both streams have ended.         *)
(***************************************************************************)
EXTENDS Integers, Sequences, FiniteSets

CONSTANTS
  PoolSlots,      \* kRecorderDmaPoolMaxSlots
  MaxRecordings,  \* bound: recordings
  MaxFragments,   \* bound: fragments of a recording
  MaxFaults       \* bound: errors on the bus and exceptions of the callback

ASSUME RecorderAssumption ==
  /\ PoolSlots \in Nat /\ MaxRecordings \in Nat
  /\ MaxFragments \in Nat /\ MaxFaults \in Nat

VARIABLES
  recorder,   \* the fields of Mp4Recorder
  thread,     \* the recorder thread in one of its calls
  inUse,      \* slots in use, in the pool of each recording
  held,       \* slots of each pool in memory that GStreamer holds
  pipeline,   \* the pipeline of the present recording
  bus,        \* its messages
  audio,      \* the capture thread of AudioCaptureManager in dispatch
  told,       \* history: the segments the callback was given
  faults      \* bound: number of faults

recorderVars == <<recorder, thread, inUse, held, pipeline, bus, audio, told, faults>>

Recording == 1..MaxRecordings
Slot      == 1..PoolSlots
Fragment  == 1..MaxFragments
None      == -1

\* "recording" counts the starts: it names the pipeline, its pool and its consumer
Idle     == [recording |-> 0, running |-> FALSE, audioSrc |-> 0, consumer |-> 0,
             nextIndex |-> 0, lastEnd |-> 0,
             started |-> [f \in Fragment |-> None], index |-> [f \in Fragment |-> None]]
NoLease  == 0
Resting  == [pc |-> "idle", lease |-> NoLease, eos |-> FALSE, whole |-> FALSE]
NoStream == [opened |-> 0, closed |-> {}, videoEos |-> FALSE, audioEos |-> FALSE,
             ended |-> FALSE, late |-> FALSE]

RecorderInit ==
  /\ recorder = Idle
  /\ thread = Resting
  /\ inUse = [r \in Recording |-> {}]
  /\ held = [r \in Recording |-> {}]
  /\ pipeline = NoStream
  /\ bus = <<>>
  /\ audio = 0
  /\ told = <<>>
  /\ faults = 0

\* the pool and the memory of the present recording
Pool == inUse[recorder.recording]

-----------------------------------------------------------------------------
(* start_segmented.                                                        *)

\* The fields behind the pipeline: a new pool, and fragments numbered from 0
Fresh(r) == [Idle EXCEPT !.recording = r, !.running = TRUE, !.audioSrc = r]

\* Any step of the construction may fail; each gives back what the ones before
\* it took, and nothing is left.
StartSegmented ==
  /\ thread.pc = "idle" /\ ~recorder.running
  /\ recorder.recording < MaxRecordings
  /\ recorder' = Fresh(recorder.recording + 1)
  /\ thread' = [Resting EXCEPT !.pc = "register"]
  /\ pipeline' = NoStream
  /\ bus' = <<>> /\ told' = <<>>
  /\ UNCHANGED <<inUse, held, audio, faults>>

RegisterConsumer ==
  /\ thread.pc = "register"
  /\ recorder' = [recorder EXCEPT !.consumer = recorder.recording]
  /\ thread' = [thread EXCEPT !.pc = "idle"]
  /\ UNCHANGED <<inUse, held, pipeline, bus, audio, told, faults>>

-----------------------------------------------------------------------------
(* process_bus_messages.                                                   *)

Opened(f)  == [type |-> "opened", fragment |-> f, time |-> f - 1]
Closed(f)  == [type |-> "closed", fragment |-> f, time |-> f]
Eos        == [type |-> "eos", fragment |-> 0, time |-> 0]
BusError   == [type |-> "error", fragment |-> 0, time |-> 0]

\* Mutant of FragmentOpened: the number is not used up until the fragment is closed.
FragmentOpenedUnnumbered(m) ==
  /\ recorder' = [recorder EXCEPT !.started[m.fragment] = m.time,
                                  !.index[m.fragment] = recorder.nextIndex]
  /\ UNCHANGED told

\* splitmuxsink-fragment-opened
FragmentOpened(m) ==
  /\ recorder' = [recorder EXCEPT !.started[m.fragment] = m.time,
                                  !.index[m.fragment] = recorder.nextIndex,
                                  !.nextIndex = @ + 1]
  /\ UNCHANGED told

\* splitmuxsink-fragment-closed: a segment begins where the last one ended,
\* except the first.
FragmentClosed(m) ==
  LET known == recorder.index[m.fragment] # None
      index == IF known THEN recorder.index[m.fragment] ELSE recorder.nextIndex
      from  == IF index = 0 /\ known THEN recorder.started[m.fragment] ELSE recorder.lastEnd
      to    == IF m.time > from THEN m.time ELSE from
  IN  /\ recorder' = [recorder EXCEPT !.nextIndex = IF known THEN @ ELSE @ + 1,
                                      !.lastEnd = to,
                                      !.started[m.fragment] = None,
                                      !.index[m.fragment] = None]
      /\ told' = Append(told, [fragment |-> m.fragment, index |-> index,
                               from |-> from, to |-> to])

\* One message: an error, or an exception of the callback, ends the processing.
\* Without waiting it goes on until there is none left.
ProcessBusMessage ==
  /\ thread.pc \in {"bus", "wait", "drain"} /\ bus # <<>>
  /\ bus' = Tail(bus)
  /\ LET m == Head(bus)
         stopping == thread.pc # "bus"
         failed   == [thread EXCEPT !.pc = IF stopping THEN "null" ELSE "stop"]
     IN  \/ /\ m.type = "opened" /\ FragmentOpened(m)
            /\ UNCHANGED <<thread, faults>>
         \/ /\ m.type = "closed" /\ FragmentClosed(m)
            /\ UNCHANGED <<thread, faults>>
         \/ /\ m.type = "closed" /\ faults < MaxFaults   \* the callback throws
            /\ FragmentClosed(m)
            /\ thread' = failed
            /\ faults' = faults + 1
         \/ /\ m.type = "eos"
            /\ thread' = [thread EXCEPT !.eos = stopping,
                                        !.pc = IF stopping THEN "drain" ELSE @]
            /\ UNCHANGED <<recorder, told, faults>>
         \/ /\ m.type = "error"
            /\ thread' = failed
            /\ UNCHANGED <<recorder, told, faults>>
  /\ UNCHANGED <<inUse, held, pipeline, audio>>

\* Nothing (more) on the bus: write_frame goes on; stop() has all it waited for.
BusEmpty ==
  /\ bus = <<>>
  /\ \/ thread.pc = "bus" /\ thread' = [thread EXCEPT !.pc = "acquire"]
     \/ thread.pc = "drain" /\ thread' = [thread EXCEPT !.pc = "null", !.whole = TRUE]
  /\ UNCHANGED <<recorder, inUse, held, pipeline, bus, audio, told, faults>>

\* 30 s without the end of stream; what is on the bus is still read.
EosTimeout ==
  /\ thread.pc = "wait"
  /\ thread' = [thread EXCEPT !.pc = "drain"]
  /\ UNCHANGED <<recorder, inUse, held, pipeline, bus, audio, told, faults>>

-----------------------------------------------------------------------------
(* write_frame.                                                            *)

Unmoved == UNCHANGED <<recorder, pipeline, bus, audio, told, faults>>

WriteFrame ==
  /\ thread.pc = "idle" /\ recorder.running
  /\ thread' = [Resting EXCEPT !.pc = "bus"]
  /\ UNCHANGED <<inUse, held>> /\ Unmoved

\* A free slot; when all are in use the frame is dropped, and that is no failure;
\* an allocation fails only when it takes a new one.
AcquireDmaBuffer ==
  /\ thread.pc = "acquire"
  /\ \/ \E s \in Slot \ Pool :
          /\ inUse' = [inUse EXCEPT ![recorder.recording] = @ \union {s}]
          /\ thread' = [thread EXCEPT !.pc = "copy", !.lease = s]
     \/ Slot = Pool /\ thread' = Resting /\ UNCHANGED inUse
     \/ Slot # Pool /\ thread' = [thread EXCEPT !.pc = "stop"] /\ UNCHANGED inUse
  /\ UNCHANGED held /\ Unmoved

Released(r, s) == [inUse EXCEPT ![r] = @ \ {s}]

\* Mutant of WriteFails: the slot of a frame that could not be written stays in use.
WriteFailsWithLease ==
  /\ thread.pc = "copy"
  /\ thread' = [Resting EXCEPT !.pc = "stop"]
  /\ UNCHANGED <<inUse, held>> /\ Unmoved

\* The RGA copy, or the wrapping into a GstBuffer, fails.
WriteFails ==
  /\ thread.pc = "copy"
  /\ inUse' = Released(recorder.recording, thread.lease)
  /\ thread' = [Resting EXCEPT !.pc = "stop"]
  /\ UNCHANGED held /\ Unmoved

\* Copied and wrapped: the memory gives the slot back when it goes.
WrapFrame ==
  /\ thread.pc = "copy"
  /\ held' = [held EXCEPT ![recorder.recording] = @ \union {thread.lease}]
  /\ thread' = [thread EXCEPT !.pc = "push", !.lease = NoLease]
  /\ UNCHANGED inUse /\ Unmoved

\* gst_app_src_push_buffer takes the buffer in any case; other than GST_FLOW_OK
\* is a failure of write_frame.
PushFrame ==
  /\ thread.pc = "push"
  /\ \/ thread' = Resting
     \/ thread' = [Resting EXCEPT !.pc = "stop"]
  /\ UNCHANGED <<inUse, held>> /\ Unmoved

\* on_recorder_dma_buffer_released, on any thread, for a memory of the present or
\* of an earlier pipeline: the lease knows its pool.
DmaBufferReleased ==
  \E r \in Recording : \E s \in held[r] :
    /\ held' = [held EXCEPT ![r] = @ \ {s}]
    /\ inUse' = Released(r, s)
    /\ UNCHANGED thread /\ Unmoved

-----------------------------------------------------------------------------
(* stop.                                                                   *)

StopMoves(from, to) ==
  /\ thread.pc = from /\ thread' = [thread EXCEPT !.pc = to]
  /\ UNCHANGED <<inUse, held, bus, audio, told, faults>>

StopRecorder ==
  /\ recorder.running
  /\ \/ StopMoves("idle", "unregister") \/ StopMoves("stop", "unregister")
  /\ UNCHANGED <<recorder, pipeline>>

UnregisterConsumer ==
  /\ StopMoves("unregister", "takeAudio")
  /\ recorder' = [recorder EXCEPT !.consumer = 0]
  /\ UNCHANGED pipeline

\* Mutant of TakeAudioSource: the audio source is left where push_audio_frame finds it.
TakeAudioSourceLate ==
  /\ StopMoves("takeAudio", "audioEos")
  /\ UNCHANGED <<recorder, pipeline>>

\* Under audio_mtx_.
TakeAudioSource ==
  /\ StopMoves("takeAudio", "audioEos")
  /\ recorder' = [recorder EXCEPT !.audioSrc = 0]
  /\ UNCHANGED pipeline

EndAudio ==
  /\ StopMoves("audioEos", "videoEos")
  /\ pipeline' = [pipeline EXCEPT !.audioEos = TRUE]
  /\ UNCHANGED recorder

EndVideo ==
  /\ StopMoves("videoEos", "wait")
  /\ pipeline' = [pipeline EXCEPT !.videoEos = TRUE]
  /\ UNCHANGED recorder

\* The pipeline is taken down, and the fields are reset; memory that something
\* still refers to keeps its pool.
PipelineToNull ==
  /\ thread.pc = "null"
  /\ thread' = [thread EXCEPT !.pc = "idle"]
  /\ recorder' = [Idle EXCEPT !.recording = recorder.recording]
  /\ bus' = <<>>
  /\ UNCHANGED <<inUse, held, pipeline, audio, told, faults>>

-----------------------------------------------------------------------------
(* The audio frames: AudioFrameDispatcher::dispatch copies the consumers   *)
(* under its lock and calls them without it.                               *)

DispatchAudio ==
  /\ audio = 0 /\ recorder.consumer # 0
  /\ audio' = recorder.consumer
  /\ UNCHANGED <<recorder, thread, inUse, held, pipeline, bus, told, faults>>

\* Under audio_mtx_: into the audio source there is now, if any.
PushAudioFrame ==
  /\ audio # 0
  /\ audio' = 0
  /\ LET behind == recorder.audioSrc # 0 /\ pipeline.audioEos
     IN  pipeline' = [pipeline EXCEPT !.late = @ \/ behind]
  /\ UNCHANGED <<recorder, thread, inUse, held, bus, told, faults>>

-----------------------------------------------------------------------------
(* GStreamer.                                                              *)

PipelineMoves(m) ==
  /\ recorder.running /\ thread.pc # "register"
  /\ bus' = Append(bus, m)
  /\ UNCHANGED <<recorder, thread, inUse, held, audio, told>>

OpenFragment ==
  /\ pipeline.opened < MaxFragments /\ ~pipeline.ended /\ ~pipeline.videoEos
  /\ PipelineMoves(Opened(pipeline.opened + 1))
  /\ pipeline' = [pipeline EXCEPT !.opened = @ + 1]
  /\ UNCHANGED faults

\* Every fragment but the one being written may be finalized, in any order; at
\* the end of both streams that one too.
CloseFragment ==
  \E f \in (1..pipeline.opened) \ pipeline.closed :
    /\ f < pipeline.opened \/ (pipeline.videoEos /\ pipeline.audioEos)
    /\ PipelineMoves(Closed(f))
    /\ pipeline' = [pipeline EXCEPT !.closed = @ \union {f}]
    /\ UNCHANGED faults

EndOfStream ==
  /\ pipeline.videoEos /\ pipeline.audioEos /\ ~pipeline.ended
  /\ pipeline.closed = 1..pipeline.opened
  /\ PipelineMoves(Eos)
  /\ pipeline' = [pipeline EXCEPT !.ended = TRUE]
  /\ UNCHANGED faults

PipelineFails ==
  /\ faults < MaxFaults /\ ~pipeline.ended
  /\ PipelineMoves(BusError)
  /\ pipeline' = [pipeline EXCEPT !.ended = TRUE]
  /\ faults' = faults + 1

-----------------------------------------------------------------------------

RecorderNext ==
  \/ StartSegmented \/ RegisterConsumer
  \/ ProcessBusMessage \/ BusEmpty \/ EosTimeout
  \/ WriteFrame \/ AcquireDmaBuffer \/ WriteFails \/ WrapFrame \/ PushFrame
  \/ DmaBufferReleased
  \/ StopRecorder \/ UnregisterConsumer \/ TakeAudioSource \/ EndAudio \/ EndVideo
  \/ PipelineToNull
  \/ DispatchAudio \/ PushAudioFrame
  \/ OpenFragment \/ CloseFragment \/ EndOfStream \/ PipelineFails

RecorderSpec == RecorderInit /\ [][RecorderNext]_recorderVars

-----------------------------------------------------------------------------
(* Properties.                                                             *)

\* A slot is in use exactly while the thread writes it or GStreamer holds its
\* memory, and never both: the encoder never sees a buffer that is written
\* again, no path loses a slot, and memory of an earlier recording frees no slot
\* of this one.
SlotsAreAccounted ==
  \A r \in Recording :
    LET leased == IF r = recorder.recording THEN {thread.lease} \ {NoLease} ELSE {}
    IN  inUse[r] = held[r] \union leased /\ held[r] \intersect leased = {}

\* No audio frame enters a source that has been told it is the last, although
\* the dispatcher calls a consumer that has just been unregistered.
AudioEndsAtEos == ~pipeline.late

Ordered == \A i \in 1..Len(told) : told[i].fragment = i

\* The callback is given every segment once, under the number in which it was
\* opened, whatever the order of their ends; segments that end in order follow
\* one another without a gap; and a stop that has seen the end of the stream
\* has given all of them.
SegmentsAreTold ==
  /\ \A i \in 1..Len(told) :
       /\ told[i].index = told[i].fragment - 1
       /\ \A j \in 1..Len(told) : told[i].fragment = told[j].fragment => i = j
  /\ Ordered => \A i \in 1..Len(told) :
                  told[i].from = (IF i = 1 THEN 0 ELSE told[i-1].to) /\ told[i].to = i
  /\ thread.eos /\ thread.whole => Len(told) = pipeline.opened

=============================================================================
