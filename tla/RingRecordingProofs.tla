------------------------ MODULE RingRecordingProofs ------------------------
(***************************************************************************)
(* RingRecording, proved for every number of events, presses, recordings,  *)
(* segments and deaths of the process: it uses the store as EventStore     *)
(* allows, a recording is finalized once, by one of the threads and queues *)
(* that may do it, and one that ends well has every segment the recorder   *)
(* closed.                                                                 *)
(***************************************************************************)
EXTENDS RingRecording, EventStoreProofs

-----------------------------------------------------------------------------
(* Types.                                                                  *)

AnyRecording == RecId \union {NoRecording}

ButtonPc   == {"idle", "expire", "expired", "record", "notify", "done", "give"}
RecorderPc == {"loop", "decide", "drop", "identity", "start", "startFailed", "forget", "started",
               "write", "writeFailed", "stop", "finalize", "exited"}

Contexts == [pressing : BOOLEAN, stopping : BOOLEAN, ring : AnyEvent, current : AnyRecording,
             attempt : AnyRecording, pending : AnyRecording]
Buttons  == [pc : ButtonPc, at : Time, known : AnyRecording, event : AnyEvent, state : RingState,
             given : AnyRecording]
Recorders == [pc : RecorderPc, rec : AnyRecording, status : Terminal]

SegmentJobs == [kind : {"segment"}, rec : RecId, index : SegIndex, status : {"none"}]
FinalJobs   == [kind : {"finalize"}, rec : RecId, index : {0}, status : Terminal]
Jobs        == SegmentJobs \union FinalJobs

Typed ==
  /\ now \in Time /\ phase \in {"down", "up", "stopping"}
  /\ context \in Contexts /\ button \in Buttons /\ recorder \in Recorders
  /\ pipeline \in AnyRecording /\ closed \in [RecId -> 0..MaxSegments]
  /\ recordingJobs \in Seq(Jobs) /\ failed \subseteq RecId
  /\ worker \in [pc : {"check", "expired", "take"}, event : AnyEvent]
  /\ mqtt \in [pc : {"idle", "notify"}, event : AnyEvent, state : RingState]

\* A thread that tells main of an event has one.
HandsAreFull ==
  /\ button.pc \in {"expired", "notify"} => button.event \in EventId
  /\ worker.pc = "expired" => worker.event \in EventId
  /\ mqtt.pc = "notify" => mqtt.event \in EventId

\* While the process is down nothing is at work, and once the store is open
\* again no recording of the dead process is left unfinished.
DownIsIdle ==
  phase = "down" =>
    /\ context = IdleContext /\ button = IdleButton /\ recorder = IdleRecorder
    /\ pipeline = NoRecording /\ recordingJobs = <<>> /\ failed = {}
    /\ worker = IdleWorker /\ mqtt = IdleMqtt
    /\ isOpen => \A r \in RecId : recordings[r].status # "recording"

Base == SegmentInv /\ Typed /\ HandsAreFull /\ DownIsIdle

-----------------------------------------------------------------------------
(* Who holds a recording.                                                  *)

\* The recorder has the identity in its hand, and has not yet finished with it.
InHand == recorder.pc \in {"start", "startFailed", "started"}

\* The recordings a finalization may still be submitted for: with the button
\* thread, waiting for the recorder, with it, or being written.
Held ==
  {r \in RecId :
     \/ r = button.given \/ r = context.current \/ r = pipeline
     \/ InHand /\ r = recorder.rec
     \/ r = context.pending /\ ~(recorder.pc = "forget" /\ r = recorder.rec)}

\* The pipeline writes the current recording, or the one that has just started.
PipelineInv ==
  /\ pipeline # NoRecording =>
       IF recorder.pc = "started" THEN pipeline = recorder.rec
       ELSE pipeline = context.current
              /\ recorder.pc \in {"loop", "decide", "drop", "write", "writeFailed", "stop"}
  /\ pipeline = NoRecording /\ context.current # NoRecording =>
       recorder.pc \in {"writeFailed", "stop", "finalize"}
  /\ recorder.pc = "started" => pipeline = recorder.rec
  /\ recorder.pc \in {"start", "startFailed", "started", "forget"} =>
       recorder.rec # NoRecording /\ context.current = NoRecording

\* The three places an identity passes through are three identities.
IdentityInv ==
  /\ button.given # NoRecording =>
       /\ button.given # context.pending /\ button.given # context.current
       /\ InHand \/ recorder.pc = "forget" => button.given # recorder.rec
  /\ context.pending # NoRecording => context.pending # context.current
  /\ recorder.pc = "forget" => recordings[recorder.rec].status # "absent"

\* A decision to stop is seen by every later press.
StopInv ==
  /\ recorder.pc \in {"stop", "finalize"} => context.stopping
  /\ recorder.pc = "stop" /\ recorder.status = "finalized" /\ context.pressing =>
       button.known = NoRecording

-----------------------------------------------------------------------------
(* The jobs and the segments of a recording.                               *)

QueueIndex == 1..Len(recordingJobs)

\* Jobs wait for recordings that are not terminal; the finalization is the last
\* one, and there is none for a recording that somebody holds.
QueueInv ==
  /\ \A i \in QueueIndex : recordings[recordingJobs[i].rec].status = "recording"
  /\ \A i, j \in QueueIndex :
       i < j /\ recordingJobs[i].rec = recordingJobs[j].rec => recordingJobs[i].kind = "segment"
  /\ \A r \in Held : recordings[r].status = "recording"
  /\ \A i \in QueueIndex : recordingJobs[i].rec \in Held => recordingJobs[i].kind = "segment"

\* A segment that was closed is stored, waits in the queue, or its recording is
\* remembered as one that lost a segment.
SegmentsInv ==
  /\ \A r \in RecId, i \in SegIndex : <<r, i>> \in segments => i <= closed[r]
  /\ \A r \in RecId : recordings[r].status = "absent" => closed[r] = 0
  /\ phase # "down" =>
       \A r \in RecId : recordings[r].status = "recording" /\ r \notin failed =>
         \A i \in 1..closed[r] :
           <<r, i>> \in segments \/ \E j \in QueueIndex : recordingJobs[j] = SegmentJob(r, i)
  /\ \A j \in QueueIndex : recordingJobs[j].index <= closed[recordingJobs[j].rec]

CoreInv == QueueInv /\ SegmentsInv /\ WholeUnlessFailed

\* The inductive invariant.
RecordingInv == Base /\ PipelineInv /\ IdentityInv /\ StopInv /\ CoreInv

USE DEF EventId, PressSeq, RecId, SegIndex, Time, NoEvent, NoRecording, RingState, Terminal,
        NoPress, AnyEvent, AnyRecording

-----------------------------------------------------------------------------
(* The queue of the worker.                                                *)

\* What the worker takes is the first job, and the others move up by one.
LEMMA JobTaken ==
  ASSUME recordingJobs \in Seq(Jobs), recordingJobs # <<>>
  PROVE  /\ 1 \in QueueIndex /\ Head(recordingJobs) = recordingJobs[1]
         /\ Head(recordingJobs) \in Jobs
         /\ Tail(recordingJobs) \in Seq(Jobs)
         /\ Len(Tail(recordingJobs)) = Len(recordingJobs) - 1
         /\ \A i \in 1..(Len(recordingJobs) - 1) :
              Tail(recordingJobs)[i] = recordingJobs[i + 1]
  BY DEF QueueIndex

\* A job is put behind all the others.
LEMMA JobAppended ==
  ASSUME NEW jobs \in Seq(Jobs), NEW job \in Jobs
  PROVE  /\ Append(jobs, job) \in Seq(Jobs)
         /\ Len(Append(jobs, job)) = Len(jobs) + 1
         /\ \A i \in 1..Len(jobs) : Append(jobs, job)[i] = jobs[i]
         /\ Append(jobs, job)[Len(jobs) + 1] = job
  OBVIOUS

\* The two kinds of job.
LEMMA JobKinds ==
  ASSUME NEW job \in Jobs
  PROVE  /\ job.rec \in RecId
         /\ job.kind = "segment" => job.index \in SegIndex
         /\ job.kind = "finalize" => job.status \in Terminal /\ job.index = 0
         /\ job.kind \in {"segment", "finalize"}
  BY DEF Jobs, SegmentJobs, FinalJobs

LEMMA NewJobs ==
  ASSUME NEW r \in RecId, NEW i \in SegIndex, NEW status \in Terminal
  PROVE  SegmentJob(r, i) \in Jobs /\ FinalizeJob(r, status) \in Jobs
  BY DEF SegmentJob, FinalizeJob, Jobs, SegmentJobs, FinalJobs

LEMMA NewFinalization ==
  ASSUME NEW r \in RecId, NEW status \in Terminal
  PROVE  FinalizeJob(r, status) \in Jobs
  BY DEF FinalizeJob, Jobs, FinalJobs

\* A recording there is to finalize becomes a job.
LEMMA FinalizationSubmitted ==
  ASSUME recordingJobs \in Seq(Jobs), NEW r \in AnyRecording, NEW status \in Terminal,
         IF r = NoRecording THEN UNCHANGED recordingJobs ELSE Enqueue(FinalizeJob(r, status))
  PROVE  recordingJobs' \in Seq(Jobs)
<1>1. CASE r = NoRecording
  BY <1>1
<1>2. CASE r # NoRecording
  <2>1. FinalizeJob(r, status) \in Jobs
    BY <1>2, NewFinalization
  <2>2. recordingJobs' = Append(recordingJobs, FinalizeJob(r, status))
    BY <1>2 DEF Enqueue
  <2> QED BY <2>1, <2>2, JobAppended
<1> QED BY <1>1, <1>2

-----------------------------------------------------------------------------
(* The store is used as EventStore allows.                                 *)

\* Every step is a transaction of the store, or leaves the tables alone.
LEMMA StepIsTransaction == Typed /\ HandsAreFull /\ [Next]_vars => [StoreNext]_storeVars
<1> SUFFICES ASSUME Typed, HandsAreFull, Next PROVE [StoreNext]_storeVars
  BY DEF vars
<1>1. ASSUME NEW e \in EventId, EventTransaction(e) PROVE StoreNext
  BY <1>1 DEF StoreNext
<1>2. ASSUME NEW r \in RecId, RecordingTransaction(r) PROVE StoreNext
  BY <1>2 DEF StoreNext
<1>3. CASE Start
  BY <1>1, <1>3 DEF Start, StoreNext, EventTransaction
<1>4. CASE Die
  BY <1>4 DEF Die, StoreNext
<1>5. CASE ButtonExpire
  <2>1. button.at \in Time
    BY DEF Typed, Buttons
  <2> QED BY <1>1, <1>5, <2>1 DEF ButtonExpire, EventTransaction
<1>6. CASE ButtonRecord
  <2>1. button.at \in Time /\ button.known \in RecId \union {NoRecording}
    BY DEF Typed, Buttons
  <2> QED BY <1>1, <1>6, <2>1 DEF ButtonRecord, EventTransaction
<1>7. CASE RecorderIdentity
  BY <1>2, <1>7 DEF RecorderIdentity, RecordingTransaction
<1>8. CASE WorkerExpire
  <2>1. now \in Time
    BY DEF Typed
  <2> QED BY <1>1, <1>8, <2>1 DEF WorkerExpire, EventTransaction
<1>9. CASE PersistSegment \/ FinalizeSucceeds
  <2> DEFINE job == Head(recordingJobs)
  <2>1. job \in Jobs
    BY <1>9, JobTaken DEF Typed, PersistSegment, FinalizeSucceeds, TakeJob
  <2>2. CASE PersistSegment
    <3>1. job.rec \in RecId /\ job.index \in SegIndex
      BY <2>1, <2>2, JobKinds DEF PersistSegment, TakeJob
    <3> QED BY <1>2, <2>2, <3>1 DEF PersistSegment, RecordingTransaction
  <2>3. CASE FinalizeSucceeds
    <3>1. job.rec \in RecId /\ TerminalStatus(job) \in Terminal
      BY <2>1, <2>3, JobKinds DEF FinalizeSucceeds, TakeJob, TerminalStatus
    <3> QED BY <1>2, <2>3, <3>1 DEF FinalizeSucceeds, RecordingTransaction
  <2> QED BY <1>9, <2>2, <2>3
<1>10. ASSUME NEW e \in EventId, NEW state \in RingState, RingCommand(e, state)
       PROVE  StoreNext
  BY <1>1, <1>10 DEF RingCommand, EventTransaction
<1>11. CASE Tick \/ Shutdown \/ SubmitSnapshot \/ RingNotify
  BY <1>11 DEF Tick, Shutdown, SubmitSnapshot, RingNotify
<1>12. CASE ButtonRead \/ ButtonExpired \/ ButtonNotify \/ ButtonDone \/ ButtonGive
  BY <1>12 DEF ButtonRead, ButtonExpired, ButtonNotify, ButtonDone, ButtonGive
<1>13. CASE WorkerExpired \/ FinalizeFails \/ WorkerOtherJob
  BY <1>13 DEF WorkerExpired, FinalizeFails, WorkerOtherJob
<1>14. CASE RecorderLook \/ RecorderDecide \/ RecorderDrop \/ RecorderStart
              \/ RecorderStartFailed \/ RecorderForget
  BY <1>14 DEF RecorderLook, RecorderDecide, RecorderDrop, RecorderStart, RecorderStartFailed,
               RecorderForget
<1>15. CASE RecorderStarted \/ RecorderWrite \/ RecorderWriteFailed \/ RecorderExit
              \/ SegmentClosed \/ RecorderStop \/ RecorderFinalize
  BY <1>15 DEF RecorderStarted, RecorderWrite, RecorderWriteFailed, RecorderExit, SegmentClosed,
               RecorderStop, RecorderFinalize
<1> QED BY <1>3, <1>4, <1>5, <1>6, <1>7, <1>8, <1>9, <1>10, <1>11, <1>12, <1>13, <1>14, <1>15
        DEF Next, Button, Recorder, Worker, Backend

-----------------------------------------------------------------------------
(* Types.                                                                  *)

LEMMA IdleTypes ==
  /\ IdleContext \in Contexts /\ IdleButton \in Buttons /\ IdleRecorder \in Recorders
  /\ IdleWorker \in [pc : {"check", "expired", "take"}, event : AnyEvent]
  /\ IdleMqtt \in [pc : {"idle", "notify"}, event : AnyEvent, state : RingState]
<1>1. IdleContext \in Contexts
  BY DEF IdleContext, Contexts
<1>2. IdleButton \in Buttons
  BY EventStoreAssumption DEF IdleButton, Buttons, ButtonPc
<1>3. IdleRecorder \in Recorders
  BY DEF IdleRecorder, Recorders, RecorderPc
<1>4. IdleWorker \in [pc : {"check", "expired", "take"}, event : AnyEvent]
  BY DEF IdleWorker
<1>5. IdleMqtt \in [pc : {"idle", "notify"}, event : AnyEvent, state : RingState]
  BY DEF IdleMqtt
<1> QED BY <1>1, <1>2, <1>3, <1>4, <1>5

\* What is known of an event changes the ring of the context and nothing else.
LEMMA RingTold ==
  ASSUME context \in Contexts, NEW e \in EventId, NEW state, LifecycleHandler(e, state)
  PROVE  /\ context' \in Contexts
         /\ context'.current = context.current /\ context'.pending = context.pending
         /\ context'.attempt = context.attempt /\ context'.stopping = context.stopping
         /\ context'.pressing = context.pressing
  BY DEF LifecycleHandler, Contexts

LEMMA ButtonTypes == SegmentInv /\ Typed /\ HandsAreFull /\ Button => (Typed /\ HandsAreFull)'
<1> SUFFICES ASSUME SegmentInv, Typed, HandsAreFull, Button PROVE (Typed /\ HandsAreFull)'
  OBVIOUS
<1>t. /\ context \in Contexts /\ button \in Buttons /\ now \in Time
      /\ context.current \in AnyRecording /\ context.attempt \in AnyRecording
      /\ button.event \in AnyEvent /\ button.given \in AnyRecording /\ button.known \in AnyRecording
      /\ button.state \in RingState
  BY DEF Typed, Contexts, Buttons
<1>1. SUFFICES /\ context' \in Contexts /\ button' \in Buttons
               /\ button'.pc \in {"expired", "notify"} => button'.event \in EventId
               /\ UNCHANGED <<processVars, recordVars, jobVars, worker, mqtt>>
  BY DEF Typed, HandsAreFull, processVars, recordVars, jobVars
<1>2. CASE ButtonRead
  <2>1. KnownRecording \in AnyRecording
    BY <1>t DEF KnownRecording
  <2> QED BY <1>t, <1>2, <2>1, IdleTypes DEF ButtonRead, Contexts, Buttons, ButtonPc, IdleButton
<1>3. CASE ButtonExpire
  BY <1>t, <1>3 DEF ButtonExpire, Buttons, ButtonPc
<1>4. CASE ButtonExpired
  <2>1. button.event \in EventId
    BY <1>4 DEF ButtonExpired, HandsAreFull
  <2> QED BY <1>t, <1>4, <2>1, RingTold DEF ButtonExpired, Buttons, ButtonPc
<1>5. CASE ButtonRecord
  <2>1. ASSUME NEW e \in EventId, RecordRepeatPress(e, button.at),
               button' = [button EXCEPT !.pc = "notify", !.event = e, !.state = rings[e].state]
        PROVE  button' \in Buttons /\ button'.event \in EventId
    <3>1. rings[e].state \in RingState
      BY <2>1 DEF RecordRepeatPress, ActiveRings
    <3> QED BY <1>t, <2>1, <3>1 DEF Buttons, ButtonPc
  <2>2. ASSUME NEW e \in EventId, NEW g \in AnyRecording,
               button' = [button EXCEPT !.pc = "notify", !.event = e, !.state = "ringing",
                                        !.given = g]
        PROVE  button' \in Buttons /\ button'.event \in EventId
    BY <1>t, <2>2 DEF Buttons, ButtonPc
  <2>3. CASE button' = [button EXCEPT !.pc = "done"]
    BY <1>t, <1>5, <2>3 DEF ButtonRecord, Buttons, ButtonPc
  <2>4. ASSUME NEW e \in EventId, NEW r \in RecId,
               button' = [button EXCEPT !.pc = "notify", !.event = e, !.state = "ringing",
                            !.given = IF button.known = NoRecording THEN r ELSE NoRecording]
        PROVE  button' \in Buttons /\ button'.event \in EventId
    BY <2>2, <2>4
  <2> QED BY <1>t, <1>5, <2>1, <2>3, <2>4 DEF ButtonRecord
<1>6. CASE ButtonNotify
  <2>1. button.event \in EventId
    BY <1>6 DEF ButtonNotify, HandsAreFull
  <2> QED BY <1>t, <1>6, <2>1, RingTold DEF ButtonNotify, Buttons, ButtonPc
<1>7. CASE ButtonDone
  BY <1>t, <1>7, IdleTypes DEF ButtonDone, Contexts, Buttons, ButtonPc, IdleButton
<1>8. CASE ButtonGive
  BY <1>t, <1>8, IdleTypes DEF ButtonGive, Contexts, IdleButton
<1> QED BY <1>2, <1>3, <1>4, <1>5, <1>6, <1>7, <1>8 DEF Button

LEMMA RecorderTypes ==
  ASSUME Typed, HandsAreFull, PipelineInv, Recorder
  PROVE  (Typed /\ HandsAreFull)'
<1>t. /\ context \in Contexts /\ recorder \in Recorders /\ pipeline \in AnyRecording
      /\ context.current \in AnyRecording /\ context.attempt \in AnyRecording
      /\ context.pending \in AnyRecording /\ context.ring \in AnyEvent
      /\ recorder.rec \in AnyRecording /\ recorder.status \in Terminal
      /\ recordingJobs \in Seq(Jobs) /\ closed \in [RecId -> 0..MaxSegments]
  BY DEF Typed, Contexts, Recorders
<1>1. SUFFICES /\ context' \in Contexts /\ recorder' \in Recorders /\ pipeline' \in AnyRecording
               /\ closed' \in [RecId -> 0..MaxSegments] /\ recordingJobs' \in Seq(Jobs)
               /\ UNCHANGED <<processVars, failed, button, worker, mqtt>>
  BY DEF Typed, HandsAreFull, processVars
<1>g. \A pc \in RecorderPc : [recorder EXCEPT !.pc = pc] \in Recorders
  BY <1>t DEF Recorders
<1>2. CASE RecorderLook
  <2>1. {"decide", "drop", "write", "identity"} \subseteq RecorderPc
    BY DEF RecorderPc
  <2> QED BY <1>t, <1>g, <1>2, <2>1 DEF RecorderLook, Goto, jobVars
<1>3. CASE RecorderDecide \/ RecorderWriteFailed \/ RecorderExit
  <2>1. /\ "loop" \in RecorderPc /\ "exited" \in RecorderPc
        /\ [context EXCEPT !.stopping = TRUE] \in Contexts
        /\ [recorder EXCEPT !.pc = "stop", !.status = "finalized"] \in Recorders
        /\ [recorder EXCEPT !.pc = "stop", !.status = "interrupted"] \in Recorders
    BY <1>t DEF RecorderPc, Contexts, Recorders
  <2> QED BY <1>t, <1>g, <1>3, <2>1
          DEF RecorderDecide, RecorderWriteFailed, RecorderExit, Goto, jobVars
<1>4. CASE RecorderDrop
  <2>1. context' \in Contexts
    BY <1>t, <1>4 DEF RecorderDrop, Forget, Contexts
  <2>2. recordingJobs' \in Seq(Jobs)
    BY <1>t, <1>4, FinalizationSubmitted DEF RecorderDrop
  <2>3. "loop" \in RecorderPc
    BY DEF RecorderPc
  <2> QED BY <1>t, <1>g, <1>4, <2>1, <2>2, <2>3 DEF RecorderDrop, Goto
<1>5. CASE RecorderIdentity
  <2>1. {"start", "loop"} \subseteq RecorderPc
    BY DEF RecorderPc
  <2>2. ASSUME NEW r \in AnyRecording, recorder' = [recorder EXCEPT !.pc = "start", !.rec = r]
        PROVE  recorder' \in Recorders
    BY <1>t, <2>1, <2>2 DEF Recorders
  <2>3. ASSUME NEW r \in RecId, context' = [context EXCEPT !.attempt = r]
        PROVE  context' \in Contexts
    BY <1>t, <2>3 DEF Contexts
  <2> QED BY <1>t, <1>g, <1>5, <2>1, <2>2, <2>3 DEF RecorderIdentity, Goto, jobVars
<1>6. CASE RecorderStart \/ RecorderStop \/ RecorderWrite
  <2>1. {"started", "startFailed", "finalize", "loop", "writeFailed"} \subseteq RecorderPc
    BY DEF RecorderPc
  <2> QED BY <1>t, <1>g, <1>6, <2>1 DEF RecorderStart, RecorderStop, RecorderWrite, Goto, jobVars
<1>7. CASE RecorderStartFailed
  <2>1. "forget" \in RecorderPc
    BY DEF RecorderPc
  <2>2. recordingJobs' \in Seq(Jobs)
    <3>1. recorder.rec \in RecId
      BY <1>t, <1>7 DEF RecorderStartFailed, At, PipelineInv
    <3>2. FinalizeJob(recorder.rec, "failed") \in Jobs
      BY <3>1, NewFinalization
    <3> QED BY <1>t, <1>7, <3>2 DEF RecorderStartFailed, Enqueue
  <2> QED BY <1>t, <1>g, <1>7, <2>1, <2>2 DEF RecorderStartFailed, Goto
<1>8. CASE RecorderForget \/ RecorderStarted
  <2>1. context' \in Contexts
    BY <1>t, <1>8 DEF RecorderForget, RecorderStarted, Forget, Contexts
  <2>2. recorder' \in Recorders
    BY <1>8, IdleTypes DEF RecorderForget, RecorderStarted, Recorders, RecorderPc, IdleRecorder
  <2> QED BY <1>t, <1>8, <2>1, <2>2 DEF RecorderForget, RecorderStarted, jobVars
<1>9. CASE SegmentClosed
  <2>1. pipeline \in RecId /\ closed[pipeline] + 1 \in SegIndex
    BY <1>t, <1>9, EventStoreAssumption DEF SegmentClosed
  <2>2. recordingJobs' \in Seq(Jobs)
    BY <1>t, <1>9, <2>1 DEF SegmentClosed, Enqueue, SegmentJob, Jobs, SegmentJobs
  <2>3. closed' \in [RecId -> 0..MaxSegments]
    BY <1>t, <1>9, <2>1 DEF SegmentClosed
  <2> QED BY <1>t, <1>9, <2>2, <2>3 DEF SegmentClosed
<1>10. CASE RecorderFinalize
  <2>1. context' \in Contexts
    BY <1>t, <1>10 DEF RecorderFinalize, Forget, Contexts
  <2>2. recordingJobs' \in Seq(Jobs)
    BY <1>t, <1>10, FinalizationSubmitted DEF RecorderFinalize
  <2> QED BY <1>t, <1>10, <2>1, <2>2, IdleTypes DEF RecorderFinalize
<1> QED BY <1>2, <1>3, <1>4, <1>5, <1>6, <1>7, <1>8, <1>9, <1>10 DEF Recorder

LEMMA WorkerTypes ==
  ASSUME Typed, HandsAreFull, Worker
  PROVE  (Typed /\ HandsAreFull)'
<1>t. /\ context \in Contexts /\ worker \in [pc : {"check", "expired", "take"}, event : AnyEvent]
      /\ recordingJobs \in Seq(Jobs) /\ failed \subseteq RecId
  BY DEF Typed
<1>1. SUFFICES /\ context' \in Contexts /\ recordingJobs' \in Seq(Jobs) /\ failed' \subseteq RecId
               /\ worker' \in [pc : {"check", "expired", "take"}, event : AnyEvent]
               /\ worker'.pc = "expired" => worker'.event \in EventId
               /\ UNCHANGED <<processVars, button, recordVars, mqtt>>
  BY DEF Typed, HandsAreFull, processVars, recordVars
<1>2. CASE WorkerExpire
  <2>1. /\ UNCHANGED <<processVars, context, button, recordVars, jobVars, mqtt>>
        /\ \/ \E e \in EventId : worker' = [pc |-> "expired", event |-> e]
           \/ worker' = [pc |-> "take", event |-> NoEvent]
    BY <1>2 DEF WorkerExpire
  <2>2. /\ worker' \in [pc : {"check", "expired", "take"}, event : AnyEvent]
        /\ worker'.pc = "expired" => worker'.event \in EventId
    BY <2>1
  <2> QED BY <1>t, <2>1, <2>2 DEF jobVars
<1>5. CASE WorkerOtherJob
  <2>1. worker'.pc = "check"
    BY <1>5 DEF WorkerOtherJob, IdleWorker
  <2> QED BY <1>t, <1>5, <2>1, IdleTypes DEF WorkerOtherJob
<1>3. CASE WorkerExpired
  <2>1. worker.event \in EventId
    BY <1>3 DEF WorkerExpired, HandsAreFull
  <2> QED BY <1>t, <1>3, <2>1, RingTold DEF WorkerExpired, jobVars
<1>4. CASE PersistSegment \/ FinalizeSucceeds \/ FinalizeFails
  <2> DEFINE job == Head(recordingJobs)
  <2>1. /\ recordingJobs # <<>> /\ worker' = IdleWorker
        /\ UNCHANGED <<processVars, context, button, recordVars, mqtt>>
    BY <1>4 DEF PersistSegment, FinalizeSucceeds, FinalizeFails, TakeJob
  <2>2. job \in Jobs /\ job.rec \in RecId /\ Tail(recordingJobs) \in Seq(Jobs)
    BY <1>t, <2>1, JobTaken, JobKinds
  <2>3. recordingJobs' \in {Tail(recordingJobs), Append(Tail(recordingJobs), job)}
    BY <1>4 DEF PersistSegment, FinalizeSucceeds, FinalizeFails
  <2>4. recordingJobs' \in Seq(Jobs)
    BY <2>2, <2>3, JobAppended
  <2>5. failed' \subseteq failed \union {job.rec}
    BY <1>4 DEF PersistSegment, FinalizeSucceeds, FinalizeFails
  <2>6. worker'.pc = "check" /\ worker' \in [pc : {"check", "expired", "take"}, event : AnyEvent]
    BY <2>1, IdleTypes DEF IdleWorker
  <2> QED BY <1>t, <2>1, <2>2, <2>4, <2>5, <2>6
<1> QED BY <1>2, <1>3, <1>4, <1>5 DEF Worker

LEMMA BackendTypes ==
  ASSUME SegmentInv, Typed, HandsAreFull, Backend
  PROVE  (Typed /\ HandsAreFull)'
<1>t. context \in Contexts
  BY DEF Typed
<1>1. SUFFICES /\ context' \in Contexts
               /\ mqtt' \in [pc : {"idle", "notify"}, event : AnyEvent, state : RingState]
               /\ mqtt'.pc = "notify" => mqtt'.event \in EventId
               /\ UNCHANGED <<processVars, button, recordVars, jobVars, worker>>
  BY DEF Typed, HandsAreFull, processVars, recordVars, jobVars
<1>2. CASE RingNotify
  <2>1. mqtt.event \in EventId
    BY <1>2 DEF RingNotify, HandsAreFull
  <2> QED BY <1>t, <1>2, <2>1, RingTold, IdleTypes DEF RingNotify, IdleMqtt
<1>3. ASSUME NEW e \in EventId, NEW state \in RingState, RingCommand(e, state)
      PROVE  /\ context' = context
             /\ mqtt' \in [pc : {"idle", "notify"}, event : AnyEvent, state : RingState]
             /\ mqtt'.event \in EventId
             /\ UNCHANGED <<processVars, button, recordVars, jobVars, worker>>
  BY <1>3 DEF RingCommand
<1> QED BY <1>t, <1>2, <1>3 DEF Backend

LEMMA ProcessTypes ==
  ASSUME Typed, HandsAreFull, Start \/ Die \/ Shutdown \/ Tick \/ SubmitSnapshot
  PROVE  (Typed /\ HandsAreFull)'
<1>1. CASE Start
  BY <1>1 DEF Start, Typed, HandsAreFull, recordVars, jobVars
<1>2. CASE Die
  <2>1. IdleButton.pc = "idle" /\ IdleWorker.pc = "check" /\ IdleMqtt.pc = "idle"
    BY DEF IdleButton, IdleWorker, IdleMqtt
  <2>2. <<>> \in Seq(Jobs) /\ NoRecording \in AnyRecording /\ {} \subseteq RecId
    OBVIOUS
  <2> QED BY <1>2, <2>1, <2>2, IdleTypes DEF Die, Typed, HandsAreFull
<1>3. CASE Shutdown \/ SubmitSnapshot
  BY <1>3 DEF Shutdown, SubmitSnapshot, Typed, HandsAreFull, processVars, recordVars, jobVars
<1>4. CASE Tick
  BY <1>4, EventStoreAssumption DEF Tick, Typed, HandsAreFull, recordVars, jobVars
<1> QED BY <1>1, <1>2, <1>3, <1>4

-----------------------------------------------------------------------------
(* While the process is down.                                              *)

\* Only the start and the clock go on without a process.
LEMMA DownStep ==
  ASSUME DownIsIdle, phase = "down", Next
  PROVE  Start \/ Tick
<1>1. /\ button.pc = "idle" /\ worker.pc = "check" /\ mqtt.pc = "idle" /\ ~Running
  BY DEF DownIsIdle, IdleButton, IdleWorker, IdleMqtt, Running
<1>2. ~Die /\ ~Shutdown /\ ~SubmitSnapshot
  BY <1>1 DEF Die, Shutdown, SubmitSnapshot
<1>3. ~Button
  BY <1>1 DEF Button, ButtonRead, ButtonExpire, ButtonExpired, ButtonRecord, ButtonNotify,
              ButtonDone, ButtonGive
<1>4. ~Recorder
  BY <1>1 DEF Recorder, RecorderLook, RecorderDecide, RecorderDrop, RecorderIdentity, RecorderStart,
              RecorderStartFailed, RecorderForget, RecorderStarted, RecorderWrite,
              RecorderWriteFailed, RecorderExit, SegmentClosed, RecorderStop, RecorderFinalize, At
<1>5. ~Worker
  BY <1>1 DEF Worker, WorkerExpire, WorkerExpired, PersistSegment, FinalizeSucceeds, FinalizeFails,
              WorkerOtherJob, TakeJob
<1>6. ~Backend
  BY <1>1 DEF Backend, RingNotify, RingCommand
<1> QED BY <1>2, <1>3, <1>4, <1>5, <1>6 DEF Next

LEMMA StepDown == SegmentInv /\ DownIsIdle /\ [Next]_vars => DownIsIdle'
<1> SUFFICES ASSUME SegmentInv, DownIsIdle, Next PROVE DownIsIdle'
  BY DEF vars, storeVars, processVars, recordVars, jobVars, DownIsIdle
<1>r. recordings \in RecordingRows
  BY DEF SegmentInv, StoreTypeOK
<1>1. CASE phase = "down" /\ Tick
  BY <1>1 DEF Tick, DownIsIdle, storeVars, recordVars, jobVars
<1>2. CASE phase = "down" /\ Start
  <2>1. CASE isOpen
    BY <1>2, <2>1 DEF Start, DownIsIdle
  <2>2. CASE ~isOpen
    <3>1. \A r \in RecId : recordings'[r].status # "recording"
      BY <1>r, <1>2, <2>2 DEF Start, Open, RecordingRows
    <3> QED BY <1>2, <2>2, <3>1 DEF Start, Open, DownIsIdle, recordVars, jobVars
  <2> QED BY <2>1, <2>2
<1>3. CASE phase # "down" /\ Die
  BY <1>3 DEF Die, Close, DownIsIdle
<1>4. CASE phase # "down" /\ ~Die
  <2>1. phase' # "down"
    <3>1. ~Start
      BY <1>4 DEF Start
    <3>2. CASE Shutdown \/ Tick \/ SubmitSnapshot
      BY <1>4, <3>2 DEF Shutdown, Tick, SubmitSnapshot, processVars
    <3>3. CASE Button
      BY <1>4, <3>3 DEF Button, ButtonRead, ButtonExpire, ButtonExpired, ButtonRecord, ButtonNotify,
                        ButtonDone, ButtonGive, processVars
    <3>4. CASE Recorder
      BY <1>4, <3>4 DEF Recorder, RecorderLook, RecorderDecide, RecorderDrop, RecorderIdentity,
                        RecorderStart, RecorderStartFailed, RecorderForget, RecorderStarted,
                        RecorderWrite, RecorderWriteFailed, RecorderExit, SegmentClosed,
                        RecorderStop, RecorderFinalize, processVars
    <3>5. CASE Worker \/ Backend
      BY <1>4, <3>5 DEF Worker, WorkerExpire, WorkerExpired, PersistSegment, FinalizeSucceeds,
                        FinalizeFails, WorkerOtherJob, Backend, RingNotify, RingCommand, processVars
    <3> QED BY <1>4, <3>1, <3>2, <3>3, <3>4, <3>5 DEF Next
  <2> QED BY <2>1 DEF DownIsIdle
<1> QED BY <1>1, <1>2, <1>3, <1>4, DownStep

LEMMA StepBase == Base /\ PipelineInv /\ [Next]_vars => Base'
<1> SUFFICES ASSUME Base, PipelineInv, [Next]_vars PROVE Base'
  OBVIOUS
<1>1. SegmentInv'
  BY StepIsTransaction, StepSegments DEF Base
<1>2. DownIsIdle'
  BY StepDown DEF Base
<1>3. (Typed /\ HandsAreFull)'
  <2>1. CASE UNCHANGED vars
    BY <2>1 DEF Base, vars, processVars, recordVars, jobVars, Typed, HandsAreFull
  <2>2. CASE Next
    BY <2>2, ButtonTypes, RecorderTypes, WorkerTypes, BackendTypes, ProcessTypes DEF Base, Next
  <2> QED BY <2>1, <2>2
<1> QED BY <1>1, <1>2, <1>3 DEF Base

-----------------------------------------------------------------------------
(* The steps of the other threads.                                         *)

Others == Start \/ Shutdown \/ Tick \/ SubmitSnapshot \/ Worker \/ Backend

\* They leave the recorder, the button and the identities in the context alone.
LEMMA OthersStep ==
  ASSUME Typed, HandsAreFull, Others
  PROVE  /\ UNCHANGED <<recorder, pipeline, button, closed>>
         /\ context'.current = context.current /\ context'.pending = context.pending
         /\ context'.stopping = context.stopping /\ context'.pressing = context.pressing
<1>1. CASE Start \/ Shutdown \/ Tick \/ SubmitSnapshot
  BY <1>1 DEF Start, Shutdown, Tick, SubmitSnapshot, recordVars
<1>2. CASE RingNotify
  <2>1. mqtt.event \in EventId /\ context \in Contexts
    BY <1>2 DEF RingNotify, HandsAreFull, Typed
  <2> QED BY <1>2, <2>1, RingTold DEF RingNotify, recordVars
<1>3. CASE WorkerExpired
  <2>1. worker.event \in EventId /\ context \in Contexts
    BY <1>3 DEF WorkerExpired, HandsAreFull, Typed
  <2> QED BY <1>3, <2>1, RingTold DEF WorkerExpired, recordVars
<1>4. ASSUME NEW e \in EventId, NEW state \in RingState, RingCommand(e, state)
      PROVE  UNCHANGED <<recorder, pipeline, button, closed, context>>
  BY <1>4 DEF RingCommand, recordVars
<1>5. CASE WorkerExpire \/ PersistSegment \/ FinalizeSucceeds \/ FinalizeFails \/ WorkerOtherJob
  BY <1>5 DEF WorkerExpire, PersistSegment, FinalizeSucceeds, FinalizeFails, WorkerOtherJob,
              recordVars
<1> QED BY <1>1, <1>2, <1>3, <1>4, <1>5 DEF Others, Worker, Backend

\* The button thread leaves the recorder and the current recording alone.
LEMMA ButtonStep ==
  ASSUME Typed, HandsAreFull, Button
  PROVE  /\ UNCHANGED <<recorder, pipeline, closed, recordingJobs, failed, phase>>
         /\ context'.current = context.current /\ context'.stopping = context.stopping
<1>t. context \in Contexts
  BY DEF Typed
<1> USE DEF recordVars, jobVars, processVars
<1>1. CASE ButtonExpired \/ ButtonNotify
  <2>1. button.event \in EventId
    BY <1>1 DEF ButtonExpired, ButtonNotify, HandsAreFull
  <2> QED BY <1>t, <1>1, <2>1, RingTold DEF ButtonExpired, ButtonNotify
<1>2. CASE ButtonRead \/ ButtonDone \/ ButtonGive
  BY <1>t, <1>2 DEF ButtonRead, ButtonDone, ButtonGive, Contexts
<1>3. CASE ButtonExpire \/ ButtonRecord
  BY <1>3 DEF ButtonExpire, ButtonRecord
<1> QED BY <1>1, <1>2, <1>3 DEF Button

\* The recorder leaves the button and what it is told of rings alone.
LEMMA RecorderStep ==
  ASSUME Typed, Recorder
  PROVE  /\ UNCHANGED <<button, phase, failed, segments>>
         /\ context'.pressing = context.pressing
<1>t. context \in Contexts
  BY DEF Typed
<1> USE DEF recordVars, jobVars, processVars, storeVars
<1>1. CASE RecorderLook \/ RecorderStart \/ RecorderStartFailed \/ RecorderWrite \/ SegmentClosed
             \/ RecorderStop
  BY <1>1 DEF RecorderLook, RecorderStart, RecorderStartFailed, RecorderWrite, SegmentClosed,
              RecorderStop
<1>2. CASE RecorderDecide \/ RecorderDrop \/ RecorderForget \/ RecorderStarted
             \/ RecorderWriteFailed \/ RecorderExit \/ RecorderFinalize
  BY <1>t, <1>2 DEF RecorderDecide, RecorderDrop, RecorderForget, RecorderStarted,
                    RecorderWriteFailed, RecorderExit, RecorderFinalize, Contexts, Forget
<1>3. CASE RecorderIdentity
  <2>1. UNCHANGED <<button, phase, failed, segments>>
    BY <1>3 DEF RecorderIdentity, BeginRecording
  <2>2. context'.pressing = context.pressing
    BY <1>t, <1>3 DEF RecorderIdentity, Contexts
  <2> QED BY <2>1, <2>2
<1> QED BY <1>1, <1>2, <1>3 DEF Recorder

-----------------------------------------------------------------------------
(* The pipeline.                                                           *)

LEMMA RecorderPipeline ==
  ASSUME Typed, PipelineInv, Recorder
  PROVE  PipelineInv'
<1>t. /\ context \in Contexts /\ recorder \in Recorders
  BY DEF Typed
<1> USE DEF PipelineInv, At, Goto
<1>1. CASE RecorderLook
  BY <1>t, <1>1 DEF RecorderLook, Recorders
<1>2. CASE RecorderDecide \/ RecorderWriteFailed \/ RecorderExit
  BY <1>t, <1>2 DEF RecorderDecide, RecorderWriteFailed, RecorderExit, Recorders, Contexts
<1>3. CASE RecorderDrop
  BY <1>t, <1>3 DEF RecorderDrop, Forget, Recorders, Contexts
<1>4. CASE RecorderIdentity
  <2>1. pipeline = NoRecording /\ context.current = NoRecording
    BY <1>4 DEF RecorderIdentity
  <2>2. /\ pipeline' = NoRecording /\ context'.current = NoRecording
        /\ \/ recorder'.pc = "start" /\ recorder'.rec # NoRecording
           \/ recorder'.pc = "loop"
    <3>1. CASE /\ context.pending # NoRecording
               /\ recorder' = [recorder EXCEPT !.pc = "start", !.rec = context.pending]
               /\ UNCHANGED context
      BY <1>t, <1>4, <2>1, <3>1 DEF RecorderIdentity, Recorders
    <3>2. ASSUME NEW r \in RecId, context' = [context EXCEPT !.attempt = r],
                 recorder' = [recorder EXCEPT !.pc = "start", !.rec = r]
          PROVE  /\ context'.current = NoRecording /\ recorder'.rec # NoRecording
                 /\ recorder'.pc = "start"
      BY <1>t, <2>1, <3>2, EventStoreAssumption DEF Recorders, Contexts
    <3>3. CASE recorder' = [recorder EXCEPT !.pc = "loop"] /\ UNCHANGED context
      BY <1>t, <1>4, <2>1, <3>3 DEF RecorderIdentity, Recorders
    <3>4. UNCHANGED pipeline
      BY <1>4 DEF RecorderIdentity
    <3> QED BY <1>4, <2>1, <3>1, <3>2, <3>3, <3>4 DEF RecorderIdentity
  <2> QED BY <2>2
<1>5. CASE RecorderStart \/ RecorderStop
  BY <1>t, <1>5 DEF RecorderStart, RecorderStop, Recorders
<1>6. CASE RecorderStartFailed
  BY <1>t, <1>6 DEF RecorderStartFailed, Recorders
<1>7. CASE RecorderForget
  BY <1>t, <1>7 DEF RecorderForget, Forget, IdleRecorder, Contexts
<1>8. CASE RecorderStarted
  BY <1>t, <1>8 DEF RecorderStarted, IdleRecorder, Contexts
<1>9. CASE RecorderWrite
  BY <1>t, <1>9 DEF RecorderWrite, Recorders
<1>10. CASE SegmentClosed
  BY <1>10 DEF SegmentClosed
<1>11. CASE RecorderFinalize
  BY <1>t, <1>11 DEF RecorderFinalize, Forget, IdleRecorder, Contexts
<1> QED BY <1>1, <1>2, <1>3, <1>4, <1>5, <1>6, <1>7, <1>8, <1>9, <1>10, <1>11 DEF Recorder

LEMMA IdleInv ==
  ASSUME context' = IdleContext, button' = IdleButton, recorder' = IdleRecorder,
         pipeline' = NoRecording
  PROVE  PipelineInv' /\ IdentityInv' /\ StopInv' /\ Held' = {}
  BY DEF PipelineInv, IdentityInv, StopInv, Held, InHand, IdleContext, IdleButton, IdleRecorder

LEMMA StepPipeline == Typed /\ HandsAreFull /\ PipelineInv /\ [Next]_vars => PipelineInv'
<1> SUFFICES ASSUME Typed, HandsAreFull, PipelineInv, [Next]_vars PROVE PipelineInv'
  OBVIOUS
<1>1. CASE UNCHANGED vars
  BY <1>1 DEF vars, recordVars, PipelineInv
<1>2. CASE Others
  BY <1>2, OthersStep DEF PipelineInv
<1>3. CASE Button
  BY <1>3, ButtonStep DEF PipelineInv
<1>4. CASE Recorder
  BY <1>4, RecorderPipeline
<1>5. CASE Die
  BY <1>5, IdleInv DEF Die
<1> QED BY <1>1, <1>2, <1>3, <1>4, <1>5 DEF Next, Others

-----------------------------------------------------------------------------
(* The identities.                                                         *)

\* A recording that was allocated stays allocated.
LEMMA StepStays == SegmentInv /\ [StoreNext]_storeVars => RecordingsStay
<1> SUFFICES ASSUME SegmentInv, [StoreNext]_storeVars PROVE RecordingsStay
  OBVIOUS
<1>1. recordings \in RecordingRows
  BY DEF SegmentInv, StoreTypeOK
<1> USE DEF RecordingsStay, RecordingRows
<1>2. CASE Open \/ Close \/ UNCHANGED storeVars
  BY <1>1, <1>2 DEF Open, Close, storeVars
<1>3. ASSUME NEW e \in EventId, EventTransaction(e) PROVE RecordingsStay
  <2>1. ASSUME NEW r \in RecId,
               recordings' = [recordings EXCEPT ![r] = [status |-> "recording", segments |-> 0]]
        PROVE  RecordingsStay
    BY <1>1, <2>1
  <2> QED BY <1>1, <1>3, <2>1, EventStepRecordings
<1>4. ASSUME NEW r \in RecId, RecordingTransaction(r) PROVE RecordingsStay
  <2>1. CASE BeginRecording(r)
    BY <1>1, <2>1 DEF BeginRecording
  <2>2. ASSUME NEW i \in SegIndex, AppendRecordingSegment(r, i) PROVE RecordingsStay
    BY <1>1, <2>2 DEF AppendRecordingSegment
  <2>3. ASSUME NEW status \in Terminal, FinalizeRecording(r, status) PROVE RecordingsStay
    BY <1>1, <2>3 DEF FinalizeRecording
  <2>4. ASSUME NEW i \in SegIndex, NEW status \in Terminal, CompleteRecording(r, i, status)
        PROVE  RecordingsStay
    BY <1>1, <2>4 DEF CompleteRecording
  <2> QED BY <1>4, <2>1, <2>2, <2>3, <2>4 DEF RecordingTransaction
<1> QED BY <1>2, <1>3, <1>4 DEF StoreNext

\* A new recording is none of those somebody has in hand.
LEMMA FreshIsNew ==
  ASSUME Typed, QueueInv, IdentityInv, NEW r \in RecId, FreshRecording(r)
  PROVE  /\ r # button.given /\ r # context.current /\ r # context.pending /\ r # pipeline
         /\ InHand \/ recorder.pc = "forget" => r # recorder.rec
<1>1. recordings[r].status = "absent"
  BY DEF FreshRecording
<1>2. r \notin Held
  BY <1>1 DEF QueueInv
<1>3. recorder.pc = "forget" => r # recorder.rec
  BY <1>1 DEF IdentityInv
<1> QED BY <1>2, <1>3 DEF Held

\* A failed start has a recording that was allocated, and it stays allocated.
LEMMA ForgottenStays ==
  ASSUME Typed, PipelineInv, IdentityInv, RecordingsStay, UNCHANGED recorder
  PROVE  recorder'.pc = "forget" => recordings'[recorder'.rec].status # "absent"
<1> SUFFICES ASSUME recorder.pc = "forget"
             PROVE  recordings'[recorder.rec].status # "absent"
  OBVIOUS
<1>1. recordings[recorder.rec].status # "absent"
  BY DEF IdentityInv
<1>2. recorder.rec \in RecId
  BY DEF PipelineInv, Typed, Recorders
<1> QED BY <1>1, <1>2 DEF RecordingsStay

LEMMA ButtonIdentity ==
  ASSUME Typed, HandsAreFull, PipelineInv, QueueInv, IdentityInv, StopInv, RecordingsStay, Button
  PROVE  IdentityInv' /\ StopInv'
<1>t. context \in Contexts /\ button \in Buttons
  BY DEF Typed
<1>a. /\ UNCHANGED recorder
      /\ context'.current = context.current /\ context'.stopping = context.stopping
  BY ButtonStep
<1>r. recorder'.pc = "forget" => recordings'[recorder'.rec].status # "absent"
  BY <1>a, ForgottenStays
\* Most steps give the button nothing new.
<1>1. CASE /\ context'.pending = context.pending
           /\ context'.pressing => context.pressing /\ button'.known = button.known
           /\ button'.given \in {button.given, NoRecording}
  BY <1>a, <1>r, <1>1 DEF IdentityInv, StopInv, InHand
<1>2. CASE ButtonRead
  <2>1. /\ context'.pending = context.pending /\ button'.given = NoRecording
        /\ context.stopping => button'.known = NoRecording
    BY <1>t, <1>2 DEF ButtonRead, KnownRecording, Contexts, IdleButton
  <2> QED BY <1>a, <1>r, <2>1 DEF IdentityInv, StopInv, InHand
<1>3. CASE ButtonExpire
  BY <1>t, <1>1, <1>3 DEF ButtonExpire, Buttons
<1>4. CASE ButtonExpired \/ ButtonNotify
  <2>1. button.event \in EventId
    BY <1>4 DEF ButtonExpired, ButtonNotify, HandsAreFull
  <2>2. context'.pending = context.pending /\ context'.pressing = context.pressing
    BY <1>t, <1>4, <2>1, RingTold DEF ButtonExpired, ButtonNotify
  <2>3. button'.given = button.given /\ button'.known = button.known
    BY <1>t, <1>4 DEF ButtonExpired, ButtonNotify, Buttons
  <2> QED BY <1>1, <2>2, <2>3
<1>5. CASE ButtonRecord
  <2>1. UNCHANGED context
    BY <1>5 DEF ButtonRecord
  <2>2. ASSUME NEW e \in EventId, NEW r \in RecId, RecordInitialPress(e, button.known, r, button.at),
               button' = [button EXCEPT !.pc = "notify", !.event = e, !.state = "ringing",
                            !.given = IF button.known = NoRecording THEN r ELSE NoRecording]
        PROVE  IdentityInv' /\ StopInv'
    <3>1. /\ button'.known = button.known
          /\ button'.given = IF button.known = NoRecording THEN r ELSE NoRecording
      BY <1>t, <2>2 DEF Buttons
    <3>2. CASE button.known = NoRecording
      <4>1. FreshRecording(r)
        BY <2>2, <3>2, EventStoreAssumption DEF RecordInitialPress
      <4>2. /\ r # context.current /\ r # context.pending
            /\ InHand \/ recorder.pc = "forget" => r # recorder.rec
        BY <4>1, FreshIsNew
      <4> QED BY <1>a, <1>r, <2>1, <3>1, <3>2, <4>2 DEF IdentityInv, StopInv, InHand
    <3> QED BY <1>1, <2>1, <3>1, <3>2
  <2>3. ASSUME NEW e, NEW state,
               button' = [button EXCEPT !.pc = "notify", !.event = e, !.state = state]
        PROVE  button'.known = button.known /\ button'.given = button.given
    BY <1>t, <2>3 DEF Buttons
  <2>4. CASE button' = [button EXCEPT !.pc = "done"]
    BY <1>t, <1>1, <2>1, <2>4 DEF Buttons
  <2> QED BY <1>1, <1>5, <2>1, <2>2, <2>3, <2>4 DEF ButtonRecord
<1>6. CASE ButtonDone
  <2>1. context'.pending = context.pending /\ ~context'.pressing
    BY <1>t, <1>6 DEF ButtonDone, Contexts
  <2>2. button'.given \in {button.given, NoRecording}
    BY <1>t, <1>6 DEF ButtonDone, Buttons, IdleButton
  <2> QED BY <1>1, <2>1, <2>2
<1>7. CASE ButtonGive
  <2>1. context'.pending = button.given /\ context'.pressing = context.pressing
    BY <1>t, <1>7 DEF ButtonGive, Contexts
  <2>2. button'.given = NoRecording /\ button'.known = NoRecording
    BY <1>7 DEF ButtonGive, IdleButton
  <2> QED BY <1>a, <1>r, <2>1, <2>2 DEF IdentityInv, StopInv, InHand
<1> QED BY <1>2, <1>3, <1>4, <1>5, <1>6, <1>7 DEF Button

LEMMA RecorderKeepsIdentities ==
  ASSUME Typed, PipelineInv, QueueInv, IdentityInv, RecordingsStay, Recorder
  PROVE  IdentityInv'
<1>t. context \in Contexts /\ recorder \in Recorders /\ UNCHANGED button
  BY RecorderStep DEF Typed
\* Most steps take nothing into the hand: a recorder that goes on holds what it
\* held, and the context may let go of the identities it has.
<1>1. CASE /\ context'.pending \in {context.pending, NoRecording}
           /\ context'.current \in {context.current, NoRecording}
           /\ recorder'.pc \notin {"start", "startFailed", "started", "forget"}
  BY <1>t, <1>1 DEF IdentityInv, InHand
<1>2. CASE RecorderLook \/ RecorderDecide \/ RecorderWrite \/ RecorderWriteFailed \/ RecorderExit
             \/ RecorderStop
  <2>1. context'.pending = context.pending /\ context'.current = context.current
    BY <1>t, <1>2 DEF RecorderLook, RecorderDecide, RecorderWrite, RecorderWriteFailed, RecorderExit,
                      RecorderStop, Contexts
  <2>2. recorder'.pc \notin {"start", "startFailed", "started", "forget"}
    BY <1>t, <1>2 DEF RecorderLook, RecorderDecide, RecorderWrite, RecorderWriteFailed, RecorderExit,
                      RecorderStop, Goto, Recorders
  <2> QED BY <1>1, <2>1, <2>2
<1>3. CASE RecorderDrop \/ RecorderForget \/ RecorderFinalize
  <2>1. /\ context'.pending \in {context.pending, NoRecording}
        /\ context'.current \in {context.current, NoRecording}
    BY <1>t, <1>3 DEF RecorderDrop, RecorderForget, RecorderFinalize, Forget, Contexts
  <2>2. recorder'.pc = "loop"
    BY <1>t, <1>3 DEF RecorderDrop, RecorderForget, RecorderFinalize, Goto, IdleRecorder, Recorders
  <2> QED BY <1>1, <2>1, <2>2
<1>4. CASE RecorderIdentity
  <2>1. CASE /\ context.pending # NoRecording
             /\ recorder' = [recorder EXCEPT !.pc = "start", !.rec = context.pending]
             /\ UNCHANGED context
    <3>1. recorder'.pc = "start" /\ recorder'.rec = context.pending
      BY <1>t, <2>1 DEF Recorders
    <3> QED BY <1>t, <2>1, <3>1 DEF IdentityInv, InHand
  <2>2. ASSUME NEW r \in RecId, BeginRecording(r), context' = [context EXCEPT !.attempt = r],
               recorder' = [recorder EXCEPT !.pc = "start", !.rec = r]
        PROVE  IdentityInv'
    <3>1. /\ recorder'.pc = "start" /\ recorder'.rec = r
          /\ context'.pending = context.pending /\ context'.current = context.current
      BY <1>t, <2>2 DEF Recorders, Contexts
    <3>2. r # button.given
      BY <2>2, FreshIsNew DEF BeginRecording
    <3> QED BY <1>t, <3>1, <3>2 DEF IdentityInv, InHand
  <2>3. CASE Goto("loop") /\ UNCHANGED context
    <3>1. recorder'.pc = "loop"
      BY <1>t, <2>3 DEF Goto, Recorders
    <3> QED BY <1>1, <2>3, <3>1
  <2> QED BY <1>4, <2>1, <2>2, <2>3 DEF RecorderIdentity
<1>5. CASE RecorderStart \/ RecorderStartFailed
  <2>1. /\ InHand /\ recorder'.rec = recorder.rec
        /\ UNCHANGED <<context, recordings>>
    BY <1>t, <1>5 DEF RecorderStart, RecorderStartFailed, At, Goto, InHand, Recorders, storeVars
  <2>2. recorder.rec \in Held
    BY <1>t, <1>5, <2>1 DEF Held, PipelineInv, RecorderStart, RecorderStartFailed, At, Recorders
  <2>3. recordings'[recorder'.rec].status # "absent"
    BY <2>1, <2>2 DEF QueueInv
  <2> QED BY <1>t, <2>1, <2>3 DEF IdentityInv
<1>6. CASE RecorderStarted
  <2>1. /\ InHand /\ recorder'.pc = "write"
        /\ context'.current = recorder.rec
        /\ context'.pending = IF context.pending = recorder.rec THEN NoRecording
                                                                ELSE context.pending
    BY <1>t, <1>6 DEF RecorderStarted, At, InHand, IdleRecorder, Contexts
  <2> QED BY <1>t, <2>1 DEF IdentityInv, InHand
<1>7. CASE SegmentClosed
  <2>1. UNCHANGED <<context, recorder>> /\ recorder.pc # "forget"
    BY <1>7 DEF SegmentClosed, At
  <2> QED BY <1>t, <2>1 DEF IdentityInv, InHand
<1> QED BY <1>2, <1>3, <1>4, <1>5, <1>6, <1>7 DEF Recorder

LEMMA RecorderStops ==
  ASSUME Typed, PipelineInv, StopInv, Recorder
  PROVE  StopInv'
<1>t. /\ context \in Contexts /\ recorder \in Recorders /\ UNCHANGED button
      /\ context'.pressing = context.pressing
  BY RecorderStep DEF Typed
<1>1. CASE recorder'.pc \notin {"stop", "finalize"}
  BY <1>1 DEF StopInv
<1>2. CASE RecorderLook \/ RecorderStart \/ RecorderStartFailed \/ RecorderWrite
  BY <1>t, <1>1, <1>2 DEF RecorderLook, RecorderStart, RecorderStartFailed, RecorderWrite, Goto,
                          Recorders
<1>3. CASE RecorderDrop \/ RecorderForget \/ RecorderStarted \/ RecorderFinalize
  BY <1>t, <1>1, <1>3 DEF RecorderDrop, RecorderForget, RecorderStarted, RecorderFinalize, Goto,
                          IdleRecorder, Recorders
<1>4. CASE RecorderIdentity
  <2>1. recorder'.pc \in {"start", "loop"}
    BY <1>t, <1>4 DEF RecorderIdentity, Goto, Recorders
  <2> QED BY <1>1, <2>1
<1>5. CASE RecorderDecide \/ RecorderWriteFailed \/ RecorderExit
  BY <1>t, <1>1, <1>5 DEF RecorderDecide, RecorderWriteFailed, RecorderExit, Goto, StopInv,
                          Recorders, Contexts
<1>6. CASE RecorderStop
  <2>1. UNCHANGED context /\ recorder.pc = "stop" /\ recorder'.pc = "finalize"
    BY <1>t, <1>6 DEF RecorderStop, At, Goto, Recorders
  <2> QED BY <2>1 DEF StopInv
<1>7. CASE SegmentClosed
  BY <1>t, <1>7 DEF SegmentClosed, StopInv
<1> QED BY <1>2, <1>3, <1>4, <1>5, <1>6, <1>7 DEF Recorder

LEMMA StepIdentity ==
  ASSUME Base, PipelineInv, QueueInv, IdentityInv, StopInv, [Next]_vars
  PROVE  IdentityInv' /\ StopInv'
<1>1. Typed /\ HandsAreFull /\ RecordingsStay
  BY StepIsTransaction, StepStays DEF Base
<1>2. CASE UNCHANGED vars
  BY <1>2 DEF vars, storeVars, recordVars, IdentityInv, StopInv, InHand
<1>3. CASE Others
  <2>1. recorder'.pc = "forget" => recordings'[recorder'.rec].status # "absent"
    BY <1>1, <1>3, OthersStep, ForgottenStays
  <2> QED BY <1>1, <1>3, <2>1, OthersStep DEF IdentityInv, StopInv, InHand
<1>4. CASE Button
  BY <1>1, <1>4, ButtonIdentity
<1>5. CASE Recorder
  BY <1>1, <1>5, RecorderKeepsIdentities, RecorderStops
<1>6. CASE Die
  BY <1>6, IdleInv DEF Die
<1> QED BY <1>2, <1>3, <1>4, <1>5, <1>6 DEF Next, Others

-----------------------------------------------------------------------------
(* What a step may do to the jobs and the segments.                        *)

\* A step that touches neither jobs nor recordings, and takes nothing new into
\* the hand.
LEMMA QuietCore ==
  ASSUME CoreInv, UNCHANGED <<recordings, segments, recordingJobs, failed, closed>>,
         phase' # "down" => phase # "down", Held' \subseteq Held
  PROVE  CoreInv'
<1>1. QueueInv'
  BY DEF CoreInv, QueueInv, QueueIndex
<1>2. SegmentsInv'
  BY DEF CoreInv, SegmentsInv, QueueIndex
<1>3. WholeUnlessFailed'
  BY DEF CoreInv, WholeUnlessFailed
<1> QED BY <1>1, <1>2, <1>3 DEF CoreInv

\* A step that allocates a recording and takes it into the hand.
LEMMA FreshCore ==
  ASSUME Typed, CoreInv, recordings \in RecordingRows, NEW r \in RecId, FreshRecording(r),
         recordings' = [recordings EXCEPT ![r] = [status |-> "recording", segments |-> 0]],
         UNCHANGED <<segments, recordingJobs, failed, closed, phase>>,
         Held' \subseteq Held \union {r}
  PROVE  CoreInv'
<1>1. recordings[r].status = "absent"
  BY DEF FreshRecording
<1>2. /\ recordings'[r].status = "recording"
      /\ \A q \in RecId : q # r => recordings'[q].status = recordings[q].status
  BY DEF RecordingRows
<1>3. \A i \in QueueIndex : recordingJobs[i].rec \in RecId /\ recordingJobs[i].rec # r
  <2>1. \A i \in QueueIndex : recordingJobs[i] \in Jobs
    BY DEF Typed, QueueIndex
  <2> QED BY <1>1, <2>1, JobKinds DEF CoreInv, QueueInv
<1>4. QueueInv'
  <2>1. \A i \in QueueIndex : recordings'[recordingJobs[i].rec].status = "recording"
    BY <1>2, <1>3 DEF CoreInv, QueueInv
  <2>2. \A q \in Held' : recordings'[q].status = "recording"
    <3>1. Held \subseteq RecId
      BY DEF Held
    <3> QED BY <1>2, <3>1 DEF CoreInv, QueueInv
  <2>3. \A i \in QueueIndex : recordingJobs[i].rec \in Held' => recordingJobs[i].kind = "segment"
    BY <1>3 DEF CoreInv, QueueInv
  <2> QED BY <2>1, <2>2, <2>3 DEF CoreInv, QueueInv, QueueIndex
<1>5. SegmentsInv'
  <2>1. closed[r] = 0
    BY <1>1 DEF CoreInv, SegmentsInv
  <2> QED BY <1>2, <2>1 DEF CoreInv, SegmentsInv, QueueIndex
<1>6. WholeUnlessFailed'
  BY <1>2 DEF CoreInv, WholeUnlessFailed
<1> QED BY <1>4, <1>5, <1>6 DEF CoreInv

\* A step that submits the finalization of a recording, and lets go of it.
LEMMA SubmittedCore ==
  ASSUME Typed, CoreInv, NEW r \in Held, NEW status \in Terminal,
         Enqueue(FinalizeJob(r, status)),
         UNCHANGED <<recordings, segments, failed, closed, phase>>,
         Held' \subseteq Held, r \notin Held'
  PROVE  CoreInv'
<1> DEFINE n == Len(recordingJobs)
           job == FinalizeJob(r, status)
<1>1. /\ r \in RecId /\ job.rec = r /\ job.kind = "finalize" /\ job.index = 0 /\ job \in Jobs
  BY NewFinalization DEF Held, FinalizeJob
<1>2. /\ recordingJobs' \in Seq(Jobs) /\ Len(recordingJobs') = n + 1 /\ n \in Nat
      /\ \A i \in 1..n : recordingJobs'[i] = recordingJobs[i]
      /\ recordingJobs'[n + 1] = job
  BY <1>1, JobAppended DEF Typed, Enqueue
<1>3. QueueInv'
  <2>1. \A i \in QueueIndex' : i \in QueueIndex \/ i = n + 1
    BY <1>2 DEF QueueIndex
  <2>2. \A i \in QueueIndex' : recordings'[recordingJobs'[i].rec].status = "recording"
    BY <1>1, <1>2, <2>1 DEF CoreInv, QueueInv, QueueIndex
  <2>3. ASSUME NEW i \in QueueIndex', NEW j \in QueueIndex', i < j,
               recordingJobs'[i].rec = recordingJobs'[j].rec
        PROVE  recordingJobs'[i].kind = "segment"
    <3>1. i \in QueueIndex
      BY <1>2, <2>1, <2>3 DEF QueueIndex
    <3>2. CASE j \in QueueIndex
      BY <1>2, <2>3, <3>1, <3>2 DEF CoreInv, QueueInv, QueueIndex
    <3>3. CASE j = n + 1
      BY <1>1, <1>2, <2>3, <3>1, <3>3 DEF CoreInv, QueueInv, QueueIndex
    <3> QED BY <2>1, <3>2, <3>3
  <2>4. \A q \in Held' : recordings'[q].status = "recording"
    BY DEF CoreInv, QueueInv
  <2>5. \A i \in QueueIndex' : recordingJobs'[i].rec \in Held' => recordingJobs'[i].kind = "segment"
    BY <1>1, <1>2, <2>1 DEF CoreInv, QueueInv, QueueIndex
  <2> QED BY <2>2, <2>3, <2>4, <2>5 DEF QueueInv
<1>4. SegmentsInv'
  <2>1. QueueIndex \subseteq QueueIndex' /\ \A i \in QueueIndex : recordingJobs'[i] = recordingJobs[i]
    BY <1>2 DEF QueueIndex
  <2>2. \A i \in QueueIndex' : recordingJobs'[i].index <= closed'[recordingJobs'[i].rec]
    <3>1. closed[r] \in Nat
      BY <1>1, EventStoreAssumption DEF Typed
    <3> QED BY <1>1, <1>2, <2>1, <3>1 DEF CoreInv, SegmentsInv, QueueIndex
  <2> QED BY <2>1, <2>2 DEF CoreInv, SegmentsInv
<1>5. WholeUnlessFailed'
  BY DEF CoreInv, WholeUnlessFailed
<1> QED BY <1>3, <1>4, <1>5 DEF CoreInv

\* A fragment is closed: its job goes behind those of the same recording.
LEMMA ClosedCore ==
  ASSUME Typed, PipelineInv, CoreInv, SegmentClosed
  PROVE  CoreInv'
<1> DEFINE n == Len(recordingJobs)
           r == pipeline
           job == SegmentJob(r, closed[r] + 1)
<1>1. r \in RecId /\ closed[r] \in Nat /\ closed[r] + 1 \in SegIndex /\ r \in Held
  BY EventStoreAssumption DEF SegmentClosed, Typed, Held
<1>2. job.rec = r /\ job.kind = "segment" /\ job.index = closed[r] + 1 /\ job \in Jobs
  BY <1>1 DEF SegmentJob, Jobs, SegmentJobs
<1>3. /\ recordingJobs' \in Seq(Jobs) /\ Len(recordingJobs') = n + 1 /\ n \in Nat
      /\ \A i \in 1..n : recordingJobs'[i] = recordingJobs[i]
      /\ recordingJobs'[n + 1] = job
  BY <1>2, JobAppended DEF Typed, SegmentClosed, Enqueue
<1>4. /\ closed'[r] = closed[r] + 1
      /\ \A q \in RecId : q # r => closed'[q] = closed[q]
      /\ \A q \in RecId : closed[q] \in Nat
  BY <1>1, EventStoreAssumption DEF SegmentClosed, Typed
<1>5. /\ UNCHANGED <<recordings, segments, failed, phase>> /\ Held' = Held
  BY DEF SegmentClosed, storeVars, processVars, Held, InHand
<1>6. /\ QueueIndex' = QueueIndex \union {n + 1}
      /\ \A i \in QueueIndex : recordingJobs'[i] = recordingJobs[i]
  BY <1>3 DEF QueueIndex
<1>7. recordings[r].status = "recording"
  BY <1>1 DEF CoreInv, QueueInv
<1>8. QueueInv'
  <2>1. \A i \in QueueIndex' : recordings'[recordingJobs'[i].rec].status = "recording"
    BY <1>2, <1>3, <1>5, <1>6, <1>7 DEF CoreInv, QueueInv
  <2>2. ASSUME NEW i \in QueueIndex', NEW j \in QueueIndex', i < j,
               recordingJobs'[i].rec = recordingJobs'[j].rec
        PROVE  recordingJobs'[i].kind = "segment"
    <3>1. i \in QueueIndex
      BY <1>3, <1>6, <2>2 DEF QueueIndex
    <3>2. CASE j \in QueueIndex
      BY <1>6, <2>2, <3>1, <3>2 DEF CoreInv, QueueInv
    <3>3. CASE j = n + 1
      BY <1>1, <1>2, <1>3, <1>6, <2>2, <3>1, <3>3 DEF CoreInv, QueueInv
    <3> QED BY <1>6, <3>2, <3>3
  <2>3. \A q \in Held' : recordings'[q].status = "recording"
    BY <1>5 DEF CoreInv, QueueInv
  <2>4. \A i \in QueueIndex' : recordingJobs'[i].rec \in Held' => recordingJobs'[i].kind = "segment"
    BY <1>2, <1>3, <1>5, <1>6 DEF CoreInv, QueueInv
  <2> QED BY <2>1, <2>2, <2>3, <2>4 DEF QueueInv
<1>9. SegmentsInv'
  <2>1. \A q \in RecId, i \in SegIndex : <<q, i>> \in segments' => i <= closed'[q]
    BY <1>1, <1>4, <1>5 DEF CoreInv, SegmentsInv
  <2>2. \A q \in RecId : recordings'[q].status = "absent" => closed'[q] = 0
    BY <1>4, <1>5, <1>7 DEF CoreInv, SegmentsInv
  <2>3. ASSUME phase' # "down", NEW q \in RecId, recordings'[q].status = "recording", q \notin failed',
               NEW i \in 1..closed'[q]
        PROVE  <<q, i>> \in segments' \/ \E j \in QueueIndex' : recordingJobs'[j] = SegmentJob(q, i)
    <3>1. CASE i \in 1..closed[q]
      BY <1>5, <1>6, <2>3, <3>1 DEF CoreInv, SegmentsInv
    <3>2. CASE q = r /\ i = closed[r] + 1
      BY <1>3, <1>6, <3>2
    <3> QED BY <1>1, <1>4, <2>3, <3>1, <3>2
  <2>4. \A j \in QueueIndex' : recordingJobs'[j].index <= closed'[recordingJobs'[j].rec]
    <3>1. ASSUME NEW j \in QueueIndex
          PROVE  recordingJobs[j].index <= closed'[recordingJobs[j].rec]
      <4>1. recordingJobs[j] \in Jobs
        BY DEF Typed, QueueIndex
      <4>2. recordingJobs[j].rec \in RecId /\ recordingJobs[j].index \in Nat
        BY <4>1, EventStoreAssumption DEF Jobs, SegmentJobs, FinalJobs
      <4>3. recordingJobs[j].index <= closed[recordingJobs[j].rec]
        BY DEF CoreInv, SegmentsInv
      <4> QED BY <1>1, <1>4, <4>2, <4>3
    <3> QED BY <1>1, <1>2, <1>3, <1>4, <1>6, <3>1
  <2> QED BY <2>1, <2>2, <2>3, <2>4 DEF SegmentsInv
<1>10. WholeUnlessFailed'
  BY <1>4, <1>5, <1>7 DEF CoreInv, WholeUnlessFailed
<1> QED BY <1>8, <1>9, <1>10 DEF CoreInv

\* The worker takes a job: what waits behind it still waits, and is about
\* recordings as before.
LEMMA TakenJobs ==
  ASSUME Typed, CoreInv, recordingJobs # <<>>, recordingJobs' = Tail(recordingJobs)
  PROVE  /\ recordingJobs[1] \in Jobs /\ Head(recordingJobs) = recordingJobs[1]
         /\ 1 \in QueueIndex
         /\ \A i \in QueueIndex' : i + 1 \in QueueIndex /\ recordingJobs'[i] = recordingJobs[i + 1]
         /\ \A i \in QueueIndex :
              i # 1 => i - 1 \in QueueIndex' /\ recordingJobs'[i - 1] = recordingJobs[i]
         /\ \A i \in QueueIndex : recordingJobs[i] \in Jobs
<1>1. recordingJobs \in Seq(Jobs)
  BY DEF Typed
<1> QED BY <1>1, JobTaken DEF QueueIndex

LEMMA PersistCore ==
  ASSUME Typed, DownIsIdle, CoreInv, recordings \in RecordingRows, PersistSegment
  PROVE  CoreInv'
<1> DEFINE job == recordingJobs[1]
           r == job.rec
<1>1. recordingJobs # <<>> /\ Head(recordingJobs) = job /\ recordingJobs' = Tail(recordingJobs)
  BY TakenJobs DEF PersistSegment, TakeJob
<1>2. /\ job \in Jobs /\ job.kind = "segment" /\ 1 \in QueueIndex
      /\ \A i \in QueueIndex' : i + 1 \in QueueIndex /\ recordingJobs'[i] = recordingJobs[i + 1]
      /\ \A i \in QueueIndex :
           i # 1 => i - 1 \in QueueIndex' /\ recordingJobs'[i - 1] = recordingJobs[i]
  BY <1>1, TakenJobs DEF PersistSegment, TakeJob
<1>3. r \in RecId /\ job.index \in SegIndex
  BY <1>2, JobKinds
<1>4. /\ \A q \in RecId : recordings'[q].status = recordings[q].status
      /\ failed \subseteq failed' /\ segments \subseteq segments'
      /\ segments' \subseteq segments \union {<<r, job.index>>}
      /\ r \in failed' \/ <<r, job.index>> \in segments'
      /\ UNCHANGED <<closed, phase, context, button, recorder, pipeline>>
  <2>1. CASE AppendRecordingSegment(r, job.index) /\ UNCHANGED failed
    <3>1. \A q \in RecId : recordings'[q].status = recordings[q].status
      BY <1>3, <2>1 DEF AppendRecordingSegment, RecordingRows
    <3> QED BY <2>1, <3>1 DEF AppendRecordingSegment, PersistSegment, recordVars, processVars
  <2>2. CASE failed' = failed \union {r} /\ UNCHANGED storeVars
    BY <2>2 DEF PersistSegment, recordVars, processVars, storeVars
  <2> QED BY <1>1, <2>1, <2>2 DEF PersistSegment
<1>5. Held' = Held
  BY <1>4 DEF Held, InHand
<1>6. \A i \in QueueIndex : recordingJobs[i] \in Jobs /\ recordingJobs[i].rec \in RecId
  BY <1>1, TakenJobs, JobKinds
<1>i. QueueIndex \subseteq Nat /\ QueueIndex' \subseteq Nat
  BY <1>1 DEF QueueIndex
<1>7. QueueInv'
  <2>1. \A i \in QueueIndex' : recordings'[recordingJobs'[i].rec].status = "recording"
    BY <1>2, <1>4, <1>6 DEF CoreInv, QueueInv
  <2>2. \A i, j \in QueueIndex' :
          i < j /\ recordingJobs'[i].rec = recordingJobs'[j].rec => recordingJobs'[i].kind = "segment"
    <3>1. \A i, j \in QueueIndex' : i < j => i + 1 < j + 1
      BY <1>i
    <3> QED BY <1>2, <3>1 DEF CoreInv, QueueInv
  <2>3. \A q \in Held' : recordings'[q].status = "recording"
    BY <1>4, <1>5 DEF CoreInv, QueueInv, Held
  <2>4. \A i \in QueueIndex' : recordingJobs'[i].rec \in Held' => recordingJobs'[i].kind = "segment"
    BY <1>2, <1>5 DEF CoreInv, QueueInv
  <2> QED BY <2>1, <2>2, <2>3, <2>4 DEF QueueInv
<1>8. SegmentsInv'
  <2>1. \A q \in RecId, i \in SegIndex : <<q, i>> \in segments' => i <= closed'[q]
    <3>1. job.index <= closed[r]
      BY <1>2 DEF CoreInv, SegmentsInv
    <3> QED BY <1>4, <3>1 DEF CoreInv, SegmentsInv
  <2>2. \A q \in RecId : recordings'[q].status = "absent" => closed'[q] = 0
    BY <1>4 DEF CoreInv, SegmentsInv
  <2>3. ASSUME phase' # "down", NEW q \in RecId, recordings'[q].status = "recording", q \notin failed',
               NEW i \in 1..closed'[q]
        PROVE  <<q, i>> \in segments' \/ \E j \in QueueIndex' : recordingJobs'[j] = SegmentJob(q, i)
    <3>1. <<q, i>> \in segments \/ \E j \in QueueIndex : recordingJobs[j] = SegmentJob(q, i)
      BY <1>4, <2>3 DEF CoreInv, SegmentsInv
    <3>2. CASE <<q, i>> \in segments
      BY <1>4, <3>2
    <3>3. ASSUME NEW j \in QueueIndex, recordingJobs[j] = SegmentJob(q, i)
          PROVE  <<q, i>> \in segments' \/ \E k \in QueueIndex' : recordingJobs'[k] = SegmentJob(q, i)
      <4>1. CASE j = 1
        <5>1. r = q /\ job.index = i
          BY <3>3, <4>1 DEF SegmentJob
        <5> QED BY <1>4, <2>3, <5>1
      <4>2. CASE j # 1
        BY <1>2, <3>3, <4>2
      <4> QED BY <4>1, <4>2
    <3> QED BY <3>1, <3>2, <3>3
  <2>4. \A j \in QueueIndex' : recordingJobs'[j].index <= closed'[recordingJobs'[j].rec]
    BY <1>2, <1>4 DEF CoreInv, SegmentsInv
  <2> QED BY <2>1, <2>2, <2>3, <2>4 DEF SegmentsInv
<1>9. WholeUnlessFailed'
  <2>1. recordings[r].status = "recording"
    BY <1>2 DEF CoreInv, QueueInv
  <2> QED BY <1>3, <1>4, <2>1 DEF CoreInv, WholeUnlessFailed
<1> QED BY <1>7, <1>8, <1>9 DEF CoreInv

\* A transaction failed: the job goes behind all others, and none of them is
\* about its recording.
LEMMA RotatedCore ==
  ASSUME Typed, CoreInv, FinalizeFails
  PROVE  CoreInv'
<1> DEFINE n == Len(recordingJobs)
           old(i) == IF i = n THEN 1 ELSE i + 1
<1>1. /\ n \in Nat \ {0} /\ QueueIndex = 1..n /\ QueueIndex' = 1..n
      /\ \A i \in QueueIndex' : recordingJobs'[i] = recordingJobs[old(i)]
  <2>1. recordingJobs \in Seq(Jobs) /\ recordingJobs # <<>>
        /\ recordingJobs' = Append(Tail(recordingJobs), Head(recordingJobs))
    BY DEF FinalizeFails, TakeJob, Typed
  <2> QED BY <2>1, JobTaken, JobAppended DEF QueueIndex
<1>2. \A i \in 1..n : old(i) \in 1..n
  BY <1>1
<1>3. recordingJobs[1].kind = "finalize"
  BY JobTaken DEF FinalizeFails, TakeJob, Typed
<1>4. UNCHANGED <<recordings, segments, failed, closed, phase>> /\ Held' = Held
  BY DEF FinalizeFails, storeVars, processVars, recordVars, Held, InHand
<1>5. QueueInv'
  <2>1. ASSUME NEW i \in QueueIndex', NEW j \in QueueIndex', i < j,
               recordingJobs'[i].rec = recordingJobs'[j].rec
        PROVE  recordingJobs'[i].kind = "segment"
    <3>1. CASE j = n
      <4>1. old(i) \in QueueIndex /\ old(j) = 1 /\ 1 < old(i) /\ 1 \in QueueIndex
        BY <1>1, <2>1, <3>1
      <4> QED BY <1>1, <1>3, <2>1, <4>1 DEF CoreInv, QueueInv
    <3>2. CASE j # n
      <4>1. old(i) \in QueueIndex /\ old(j) \in QueueIndex /\ old(i) < old(j)
        BY <1>1, <2>1, <3>2
      <4> QED BY <1>1, <2>1, <4>1 DEF CoreInv, QueueInv
    <3> QED BY <3>1, <3>2
  <2>2. /\ \A i \in QueueIndex' : recordings'[recordingJobs'[i].rec].status = "recording"
        /\ \A i \in QueueIndex' : recordingJobs'[i].rec \in Held' => recordingJobs'[i].kind = "segment"
        /\ \A r \in Held' : recordings'[r].status = "recording"
    BY <1>1, <1>2, <1>4 DEF CoreInv, QueueInv
  <2> QED BY <2>1, <2>2 DEF QueueInv
<1>6. SegmentsInv'
  <2>1. ASSUME NEW i \in QueueIndex
        PROVE  \E j \in QueueIndex' : recordingJobs'[j] = recordingJobs[i]
    <3>1. CASE i = 1
      BY <1>1, <3>1
    <3>2. CASE i # 1
      <4>1. i - 1 \in QueueIndex' /\ old(i - 1) = i
        BY <1>1, <3>2
      <4> QED BY <1>1, <4>1
    <3> QED BY <3>1, <3>2
  <2>2. \A j \in QueueIndex' : recordingJobs'[j].index <= closed'[recordingJobs'[j].rec]
    BY <1>1, <1>2, <1>4 DEF CoreInv, SegmentsInv
  <2>3. \A r \in RecId, i \in SegIndex : <<r, i>> \in segments' => i <= closed'[r]
    BY <1>4 DEF CoreInv, SegmentsInv
  <2>4. \A r \in RecId : recordings'[r].status = "absent" => closed'[r] = 0
    BY <1>4 DEF CoreInv, SegmentsInv
  <2>5. ASSUME phase' # "down", NEW r \in RecId, recordings'[r].status = "recording", r \notin failed',
               NEW i \in 1..closed'[r]
        PROVE  <<r, i>> \in segments' \/ \E j \in QueueIndex' : recordingJobs'[j] = SegmentJob(r, i)
    <3>1. <<r, i>> \in segments \/ \E j \in QueueIndex : recordingJobs[j] = SegmentJob(r, i)
      BY <1>4, <2>5 DEF CoreInv, SegmentsInv
    <3> QED BY <1>4, <2>1, <3>1
  <2> QED BY <2>2, <2>3, <2>4, <2>5 DEF SegmentsInv
<1>7. WholeUnlessFailed'
  BY <1>4 DEF CoreInv, WholeUnlessFailed
<1> QED BY <1>5, <1>6, <1>7 DEF CoreInv

\* The recording ends: every segment the recorder closed is stored by then, or
\* the recording lost one and ends as failed.
LEMMA EndedCore ==
  ASSUME Base, CoreInv, FinalizeSucceeds
  PROVE  CoreInv'
<1> DEFINE job == recordingJobs[1]
           r == job.rec
<1>t. Typed /\ recordings \in RecordingRows /\ segments \subseteq RecId \X SegIndex
  BY DEF Base, SegmentInv, StoreTypeOK
<1>1. recordingJobs # <<>> /\ Head(recordingJobs) = job /\ recordingJobs' = Tail(recordingJobs)
  BY <1>t, TakenJobs DEF FinalizeSucceeds, TakeJob
<1>2. /\ job \in Jobs /\ job.kind = "finalize" /\ 1 \in QueueIndex
      /\ \A i \in QueueIndex' : i + 1 \in QueueIndex /\ recordingJobs'[i] = recordingJobs[i + 1]
      /\ \A i \in QueueIndex :
           i # 1 => i - 1 \in QueueIndex' /\ recordingJobs'[i - 1] = recordingJobs[i]
      /\ \A i \in QueueIndex : recordingJobs[i] \in Jobs
  BY <1>t, <1>1, TakenJobs DEF FinalizeSucceeds, TakeJob
<1>3. r \in RecId /\ job.index = 0 /\ recordings[r].status = "recording" /\ phase # "down"
  <2>1. worker.pc # "check"
    BY DEF FinalizeSucceeds, TakeJob
  <2>2. phase # "down"
    BY <2>1 DEF Base, DownIsIdle, IdleWorker
  <2> QED BY <1>2, <2>2, JobKinds DEF CoreInv, QueueInv
<1>4. /\ recordings'[r].status = TerminalStatus(job)
      /\ \A q \in RecId : q # r => recordings'[q].status = recordings[q].status
      /\ failed' = failed \ {r}
      /\ UNCHANGED <<segments, closed, phase, context, button, recorder, pipeline>>
  <2>1. FinalizeRecording(r, TerminalStatus(job)) /\ failed' = failed \ {r}
        /\ UNCHANGED <<closed, phase, context, button, recorder, pipeline>>
    BY <1>1 DEF FinalizeSucceeds, recordVars, processVars
  <2>2. recordings' = [recordings EXCEPT ![r].status = TerminalStatus(job)] /\ UNCHANGED segments
    BY <2>1 DEF FinalizeRecording
  <2> QED BY <1>t, <1>3, <2>1, <2>2 DEF RecordingRows
<1>i. QueueIndex \subseteq Nat \ {0} /\ QueueIndex' \subseteq Nat
  BY <1>t, <1>1 DEF QueueIndex
\* There is no other job for it, and nobody holds it.
<1>5. \A i \in QueueIndex : i # 1 => recordingJobs[i].rec # r
  <2>1. \A i \in QueueIndex : i # 1 => 1 < i
    BY <1>i
  <2> QED BY <1>2, <2>1 DEF CoreInv, QueueInv
<1>6. Held' = Held /\ r \notin Held
  <2>1. Held' = Held
    BY <1>4 DEF Held, InHand
  <2> QED BY <1>2, <2>1 DEF CoreInv, QueueInv
<1>7. \A i \in QueueIndex' : /\ recordingJobs'[i].rec \in RecId /\ recordingJobs'[i].rec # r
                            /\ i + 1 \in QueueIndex
  <2>1. \A i \in QueueIndex' : i + 1 # 1
    BY <1>1, <1>t DEF QueueIndex
  <2> QED BY <1>2, <1>5, <2>1, JobKinds
<1>8. QueueInv'
  <2>1. \A i \in QueueIndex' : recordings'[recordingJobs'[i].rec].status = "recording"
    BY <1>2, <1>4, <1>7 DEF CoreInv, QueueInv
  <2>2. \A i, j \in QueueIndex' :
          i < j /\ recordingJobs'[i].rec = recordingJobs'[j].rec => recordingJobs'[i].kind = "segment"
    <3>1. \A i, j \in QueueIndex' : i < j => i + 1 < j + 1
      BY <1>i
    <3> QED BY <1>2, <3>1 DEF CoreInv, QueueInv
  <2>3. \A q \in Held' : recordings'[q].status = "recording"
    BY <1>4, <1>6 DEF CoreInv, QueueInv, Held
  <2>4. \A i \in QueueIndex' : recordingJobs'[i].rec \in Held' => recordingJobs'[i].kind = "segment"
    BY <1>2, <1>6 DEF CoreInv, QueueInv
  <2> QED BY <2>1, <2>2, <2>3, <2>4 DEF QueueInv
<1>9. TerminalStatus(job) \in Terminal
  BY <1>2, JobKinds DEF TerminalStatus
<1>10. SegmentsInv'
  <2>1. \A q \in RecId, i \in SegIndex : <<q, i>> \in segments' => i <= closed'[q]
    BY <1>4 DEF CoreInv, SegmentsInv
  <2>2. \A q \in RecId : recordings'[q].status = "absent" => closed'[q] = 0
    BY <1>4, <1>9 DEF CoreInv, SegmentsInv
  <2>3. ASSUME phase' # "down", NEW q \in RecId, recordings'[q].status = "recording", q \notin failed',
               NEW i \in 1..closed'[q]
        PROVE  <<q, i>> \in segments' \/ \E j \in QueueIndex' : recordingJobs'[j] = SegmentJob(q, i)
    <3>1. q # r
      BY <1>4, <1>9, <2>3
    <3>2. <<q, i>> \in segments \/ \E j \in QueueIndex : recordingJobs[j] = SegmentJob(q, i)
      BY <1>4, <2>3, <3>1 DEF CoreInv, SegmentsInv
    <3>3. ASSUME NEW j \in QueueIndex, recordingJobs[j] = SegmentJob(q, i)
          PROVE  \E k \in QueueIndex' : recordingJobs'[k] = SegmentJob(q, i)
      <4>1. j # 1
        BY <3>1, <3>3 DEF SegmentJob
      <4> QED BY <1>2, <3>3, <4>1
    <3> QED BY <1>4, <3>2, <3>3
  <2>4. \A j \in QueueIndex' : recordingJobs'[j].index <= closed'[recordingJobs'[j].rec]
    BY <1>2, <1>4 DEF CoreInv, SegmentsInv
  <2> QED BY <2>1, <2>2, <2>3, <2>4 DEF SegmentsInv
<1>11. TerminalStatus(job) # "failed" =>
         closed[r] > 0 /\ {i \in SegIndex : <<r, i>> \in segments} = 1..closed[r]
  <2> SUFFICES ASSUME TerminalStatus(job) # "failed"
               PROVE  closed[r] > 0 /\ {i \in SegIndex : <<r, i>> \in segments} = 1..closed[r]
    OBVIOUS
  <2>1. recordings[r].segments # 0 /\ r \notin failed
    BY DEF TerminalStatus
  <2>2. closed[r] \in 0..MaxSegments
    BY <1>t, <1>3 DEF Typed
  <2>3. \A i \in 1..closed[r] : <<r, i>> \in segments
    <3>1. \A i \in 1..closed[r], j \in QueueIndex : recordingJobs[j] # SegmentJob(r, i)
      BY <1>2, <1>5 DEF SegmentJob
    <3> QED BY <1>3, <2>1, <3>1 DEF CoreInv, SegmentsInv
  <2>4. {i \in SegIndex : <<r, i>> \in segments} = 1..closed[r]
    BY <1>3, <2>2, <2>3, EventStoreAssumption DEF CoreInv, SegmentsInv
  <2>5. {i \in SegIndex : <<r, i>> \in segments} # {}
    <3>1. recordings[r].segments = Cardinality({i \in SegIndex : <<r, i>> \in segments})
      BY <1>3 DEF Base, SegmentInv, SegmentCountMatches
    <3> QED BY <2>1, <3>1, FS_EmptySet
  <2>6. closed[r] # 0
    <3>1. closed[r] = 0 => 1..closed[r] = {}
      OBVIOUS
    <3> QED BY <2>4, <2>5, <3>1
  <2>7. closed[r] > 0
    BY <2>2, <2>6
  <2> QED BY <2>4, <2>7
<1>12. WholeUnlessFailed'
  BY <1>3, <1>4, <1>9, <1>11 DEF CoreInv, WholeUnlessFailed
<1> QED BY <1>8, <1>10, <1>12 DEF CoreInv

\* The store is opened, and the process goes up: no recording is left over.
LEMMA StartedCore ==
  ASSUME Base, CoreInv, Start
  PROVE  CoreInv'
<1>1. /\ phase = "down" /\ recordingJobs = <<>> /\ Held = {} /\ QueueIndex = {}
      /\ recordingJobs' = <<>> /\ Held' = {} /\ QueueIndex' = {}
  <2>1. phase = "down"
    BY DEF Start
  <2>2. /\ context = IdleContext /\ button = IdleButton /\ recorder = IdleRecorder
        /\ pipeline = NoRecording /\ recordingJobs = <<>>
    BY <2>1 DEF Base, DownIsIdle
  <2>3. UNCHANGED <<context, button, recorder, pipeline, recordingJobs>>
    BY DEF Start, recordVars, jobVars
  <2> QED BY <2>1, <2>2, <2>3 DEF Held, InHand, IdleContext, IdleButton, IdleRecorder, QueueIndex
<1>2. UNCHANGED <<segments, closed>>
  BY DEF Start, Open, RecoverStaleAcceptedRing, SetRingState, storeVars, recordVars
<1>3. \A r \in RecId : \/ recordings'[r].status = recordings[r].status
                       \/ recordings[r].status = "recording" /\ recordings'[r].status = "failed"
  <2>1. recordings \in RecordingRows
    BY DEF Base, SegmentInv, StoreTypeOK
  <2> QED BY <2>1 DEF Start, Open, RecoverStaleAcceptedRing, SetRingState, storeVars, RecordingRows
<1>4. phase' # "down" => \A r \in RecId : recordings'[r].status # "recording"
  BY <1>1 DEF Start, Base, DownIsIdle, RecoverStaleAcceptedRing, SetRingState, storeVars
<1>5. QueueInv'
  BY <1>1 DEF QueueInv
<1>6. SegmentsInv'
  BY <1>1, <1>2, <1>3, <1>4 DEF CoreInv, SegmentsInv
<1>7. WholeUnlessFailed'
  BY <1>2, <1>3 DEF CoreInv, WholeUnlessFailed
<1> QED BY <1>5, <1>6, <1>7 DEF CoreInv

LEMMA DiedCore ==
  ASSUME CoreInv, Die
  PROVE  CoreInv'
<1>1. Held' = {} /\ QueueIndex' = {} /\ phase' = "down"
  BY IdleInv DEF Die, QueueIndex
<1>2. UNCHANGED <<recordings, segments, closed>>
  BY DEF Die, Close
<1>3. QueueInv'
  BY <1>1 DEF QueueInv
<1>4. SegmentsInv'
  BY <1>1, <1>2 DEF CoreInv, SegmentsInv
<1>5. WholeUnlessFailed'
  BY <1>2 DEF CoreInv, WholeUnlessFailed
<1> QED BY <1>3, <1>4, <1>5 DEF CoreInv

-----------------------------------------------------------------------------
(* The steps that leave jobs and segments alone.                           *)

LEMMA OthersCore ==
  ASSUME Base, CoreInv, Others
  PROVE  CoreInv'
<1>t. Typed /\ HandsAreFull /\ DownIsIdle /\ recordings \in RecordingRows
  BY DEF Base, SegmentInv, StoreTypeOK
<1>1. Held' \subseteq Held
  BY <1>t, OthersStep DEF Held, InHand
<1>2. CASE Shutdown \/ Tick \/ SubmitSnapshot \/ WorkerExpired \/ WorkerOtherJob \/ RingNotify
  <2>1. UNCHANGED <<recordings, segments, recordingJobs, failed, closed>>
    BY <1>2 DEF Shutdown, Tick, SubmitSnapshot, WorkerExpired, WorkerOtherJob, RingNotify,
                storeVars, recordVars, jobVars
  <2>2. phase' # "down" => phase # "down"
    BY <1>2 DEF Shutdown, Tick, SubmitSnapshot, WorkerExpired, WorkerOtherJob, RingNotify,
                processVars
  <2> QED BY <1>1, <2>1, <2>2, QuietCore
<1>3. CASE WorkerExpire \/ \E e \in EventId, state \in RingState : RingCommand(e, state)
  <2>1. UNCHANGED <<recordings, segments, recordingJobs, failed, closed, phase>>
    BY <1>3 DEF WorkerExpire, ExpireOpenRing, RingCommand, UpdateRingState, SetRingState,
                storeVars, recordVars, jobVars, processVars
  <2> QED BY <1>1, <2>1, QuietCore
<1>4. CASE Start
  BY <1>4, StartedCore
<1>5. CASE PersistSegment
  BY <1>t, <1>5, PersistCore
<1>6. CASE FinalizeSucceeds
  BY <1>6, EndedCore
<1>7. CASE FinalizeFails
  BY <1>t, <1>7, RotatedCore
<1> QED BY <1>2, <1>3, <1>4, <1>5, <1>6, <1>7 DEF Others, Worker, Backend

LEMMA ButtonCore ==
  ASSUME Base, PipelineInv, IdentityInv, CoreInv, Button
  PROVE  CoreInv'
<1>t. /\ Typed /\ HandsAreFull /\ recordings \in RecordingRows
      /\ context \in Contexts /\ button \in Buttons
  BY DEF Base, SegmentInv, StoreTypeOK, Typed
<1>1. /\ UNCHANGED <<recorder, pipeline, closed, recordingJobs, failed, phase>>
      /\ context'.current = context.current
  BY <1>t, ButtonStep
<1>2. CASE /\ UNCHANGED <<recordings, segments>>
           /\ button'.given \in {button.given, NoRecording}
           /\ context'.pending = context.pending
  <2>1. Held' \subseteq Held
    BY <1>1, <1>2 DEF Held, InHand
  <2> QED BY <1>1, <1>2, <2>1, QuietCore
<1>3. CASE ButtonRead \/ ButtonDone
  <2>1. UNCHANGED <<recordings, segments>> /\ context'.pending = context.pending
    BY <1>t, <1>3 DEF ButtonRead, ButtonDone, storeVars, Contexts
  <2>2. button'.given \in {button.given, NoRecording}
    <3>1. CASE ButtonRead
      BY <3>1 DEF ButtonRead, IdleButton
    <3>2. CASE ButtonDone
      BY <1>t, <3>2 DEF ButtonDone, Buttons, IdleButton
    <3> QED BY <1>3, <3>1, <3>2
  <2> QED BY <1>2, <2>1, <2>2
<1>4. CASE ButtonExpire
  <2>1. UNCHANGED <<recordings, segments, context>>
    BY <1>4 DEF ButtonExpire, ExpireOpenRing, SetRingState, storeVars
  <2>2. button'.given = button.given
    BY <1>t, <1>4 DEF ButtonExpire, Buttons
  <2> QED BY <1>2, <2>1, <2>2
<1>5. CASE ButtonExpired \/ ButtonNotify
  <2>1. button.event \in EventId
    BY <1>5 DEF ButtonExpired, ButtonNotify, HandsAreFull, Base
  <2>2. context'.pending = context.pending
    BY <1>t, <1>5, <2>1, RingTold DEF ButtonExpired, ButtonNotify
  <2>3. button'.given = button.given /\ UNCHANGED <<recordings, segments>>
    BY <1>t, <1>5 DEF ButtonExpired, ButtonNotify, Buttons, storeVars
  <2> QED BY <1>2, <2>2, <2>3
<1>6. CASE ButtonRecord
  <2>c. UNCHANGED context
    BY <1>6 DEF ButtonRecord
  <2>1. ASSUME NEW e \in EventId, NEW r \in RecId, RecordInitialPress(e, button.known, r, button.at),
               button' = [button EXCEPT !.pc = "notify", !.event = e, !.state = "ringing",
                            !.given = IF button.known = NoRecording THEN r ELSE NoRecording]
        PROVE  CoreInv'
    <3>1. button'.given = IF button.known = NoRecording THEN r ELSE NoRecording
      BY <1>t, <2>1 DEF Buttons
    <3>2. CASE button.known = NoRecording
      <4>1. /\ FreshRecording(r) /\ UNCHANGED segments
            /\ recordings' = [recordings EXCEPT ![r] = [status |-> "recording", segments |-> 0]]
        BY <2>1, <3>2, EventStoreAssumption DEF RecordInitialPress
      <4>2. Held' \subseteq Held \union {r}
        BY <1>1, <2>c, <3>1, <3>2 DEF Held, InHand
      <4> QED BY <1>t, <1>1, <4>1, <4>2, FreshCore
    <3>3. CASE button.known # NoRecording
      <4>1. UNCHANGED <<recordings, segments>>
        BY <2>1, <3>3 DEF RecordInitialPress
      <4> QED BY <1>2, <2>c, <3>1, <3>3, <4>1
    <3> QED BY <3>2, <3>3
  <2>2. ASSUME NEW e \in EventId, RecordRepeatPress(e, button.at),
               button' = [button EXCEPT !.pc = "notify", !.event = e, !.state = rings[e].state]
        PROVE  CoreInv'
    <3>1. button'.given = button.given
      BY <1>t, <2>2 DEF Buttons
    <3> QED BY <1>2, <2>c, <2>2, <3>1 DEF RecordRepeatPress
  <2>3. CASE button' = [button EXCEPT !.pc = "done"] /\ UNCHANGED storeVars
    <3>1. button'.given = button.given
      BY <1>t, <2>3 DEF Buttons
    <3> QED BY <1>2, <2>c, <2>3, <3>1 DEF storeVars
  <2> QED BY <1>6, <2>1, <2>2, <2>3 DEF ButtonRecord
<1>7. CASE ButtonGive
  <2>1. /\ UNCHANGED <<recordings, segments>> /\ button'.given = NoRecording
        /\ context'.pending = button.given
    BY <1>t, <1>7 DEF ButtonGive, storeVars, Contexts, IdleButton
  <2>2. Held' \subseteq Held
    BY <1>1, <2>1 DEF Held, InHand
  <2> QED BY <1>1, <2>1, <2>2, QuietCore
<1> QED BY <1>3, <1>4, <1>5, <1>6, <1>7 DEF Button

LEMMA RecorderCore ==
  ASSUME Base, PipelineInv, IdentityInv, CoreInv, Recorder
  PROVE  CoreInv'
<1>t. /\ Typed /\ recordings \in RecordingRows
      /\ context \in Contexts /\ recorder \in Recorders
      /\ context.pending \in AnyRecording /\ context.current \in AnyRecording
      /\ recorder.rec \in AnyRecording /\ recorder.status \in Terminal
  BY DEF Base, SegmentInv, StoreTypeOK, Typed, Contexts, Recorders
<1>1. UNCHANGED <<button, phase, failed, segments>>
  BY <1>t, RecorderStep
<1>2. CASE RecorderLook \/ RecorderDecide \/ RecorderWriteFailed \/ RecorderExit \/ RecorderWrite
             \/ RecorderStop
  <2>1. /\ UNCHANGED <<recordings, recordingJobs, closed>>
        /\ pipeline' \in {pipeline, NoRecording}
        /\ recorder.pc \notin {"start", "startFailed", "started", "forget"}
    BY <1>2 DEF RecorderLook, RecorderDecide, RecorderWriteFailed, RecorderExit, RecorderWrite,
                RecorderStop, At, storeVars, jobVars
  <2>2. context'.pending = context.pending /\ context'.current = context.current
    BY <1>t, <1>2 DEF RecorderLook, RecorderDecide, RecorderWriteFailed, RecorderExit,
                      RecorderWrite, RecorderStop, Contexts
  <2>3. recorder'.pc \notin {"start", "startFailed", "started", "forget"}
    BY <1>t, <1>2 DEF RecorderLook, RecorderDecide, RecorderWriteFailed, RecorderExit,
                      RecorderWrite, RecorderStop, Goto, Recorders
  <2>4. Held' \subseteq Held
    BY <1>1, <2>1, <2>2, <2>3 DEF Held, InHand
  <2> QED BY <1>1, <2>1, <2>4, QuietCore
<1>3. CASE RecorderStart
  <2>1. /\ UNCHANGED <<recordings, recordingJobs, closed, context>>
        /\ pipeline' \in {pipeline, recorder.rec} /\ recorder.pc = "start"
    BY <1>3 DEF RecorderStart, At, storeVars, jobVars
  <2>2. recorder'.rec = recorder.rec /\ recorder'.pc \in {"started", "startFailed"}
    BY <1>t, <1>3 DEF RecorderStart, Goto, Recorders
  <2>3. Held' \subseteq Held
    BY <1>1, <2>1, <2>2 DEF Held, InHand
  <2> QED BY <1>1, <2>1, <2>3, QuietCore
<1>4. CASE RecorderForget \/ RecorderStarted
  <2>1. /\ UNCHANGED <<recordings, recordingJobs, closed, pipeline>>
        /\ recorder.pc = "forget" \/ InHand
    BY <1>4 DEF RecorderForget, RecorderStarted, At, InHand, storeVars, jobVars
  <2>2. /\ context'.pending = IF context.pending = recorder.rec THEN NoRecording
                                                                ELSE context.pending
        /\ \/ context'.current = context.current
           \/ InHand /\ context'.current = recorder.rec
    BY <1>t, <1>4 DEF RecorderForget, RecorderStarted, At, InHand, Forget, Contexts
  <2>3. recorder'.pc \in {"loop", "write"}
    BY <1>4 DEF RecorderForget, RecorderStarted, IdleRecorder
  <2>4. Held' \subseteq Held
    BY <1>1, <2>1, <2>2, <2>3, EventStoreAssumption DEF Held, InHand
  <2> QED BY <1>1, <2>1, <2>4, QuietCore
<1>5. CASE RecorderIdentity
  <2>1. UNCHANGED <<recordingJobs, closed, pipeline>> /\ recorder.pc = "identity"
    BY <1>5 DEF RecorderIdentity, At, jobVars
  <2>2. ASSUME NEW r \in RecId, BeginRecording(r), context' = [context EXCEPT !.attempt = r],
               recorder' = [recorder EXCEPT !.pc = "start", !.rec = r]
        PROVE  CoreInv'
    <3>1. /\ recorder'.pc = "start" /\ recorder'.rec = r
          /\ context'.pending = context.pending /\ context'.current = context.current
      BY <1>t, <2>2 DEF Recorders, Contexts
    <3>2. Held' \subseteq Held \union {r}
      BY <1>1, <2>1, <3>1 DEF Held, InHand
    <3> QED BY <1>t, <1>1, <2>1, <2>2, <3>2, FreshCore DEF BeginRecording
  <2>3. CASE /\ UNCHANGED <<storeVars, context>>
             /\ \/ Goto("loop")
                \/ recorder' = [recorder EXCEPT !.pc = "start", !.rec = context.pending]
    <3>1. \/ recorder'.pc = "loop"
          \/ recorder'.pc = "start" /\ recorder'.rec = context.pending
      BY <1>t, <2>3 DEF Goto, Recorders
    <3>2. Held' \subseteq Held
      BY <1>1, <2>1, <2>3, <3>1 DEF Held, InHand
    <3> QED BY <1>1, <2>1, <2>3, <3>2, QuietCore DEF storeVars
  <2> QED BY <1>5, <2>2, <2>3 DEF RecorderIdentity
<1>6. CASE RecorderStartFailed
  <2>1. /\ UNCHANGED <<recordings, closed, context, pipeline>>
        /\ recorder.pc = "startFailed" /\ Enqueue(FinalizeJob(recorder.rec, "failed"))
    BY <1>6 DEF RecorderStartFailed, At, storeVars
  <2>2. recorder'.pc = "forget" /\ recorder'.rec = recorder.rec
    BY <1>t, <1>6 DEF RecorderStartFailed, Goto, Recorders
  <2>3. /\ recorder.rec \in RecId /\ recorder.rec # NoRecording
        /\ context.current = NoRecording /\ pipeline = NoRecording
    BY <1>t, <2>1 DEF PipelineInv
  <2>4. recorder.rec \in Held /\ Held' \subseteq Held
    BY <1>1, <2>1, <2>2, <2>3 DEF Held, InHand
  <2>5. recorder.rec \notin Held'
    BY <1>1, <2>1, <2>2, <2>3 DEF Held, InHand, IdentityInv
  <2> QED BY <1>t, <1>1, <2>1, <2>4, <2>5, SubmittedCore
<1>7. CASE RecorderDrop
  <2>1. /\ UNCHANGED <<recordings, closed, pipeline>> /\ recorder.pc = "drop"
        /\ context'.pending = NoRecording /\ context'.current = context.current
        /\ recorder'.pc = "loop"
    BY <1>t, <1>7 DEF RecorderDrop, At, Goto, Forget, storeVars, Contexts, Recorders
  <2>2. Held' \subseteq Held
    BY <1>1, <2>1, EventStoreAssumption DEF Held, InHand
  <2>3. CASE context.pending = NoRecording
    BY <1>1, <1>7, <2>1, <2>2, <2>3, QuietCore DEF RecorderDrop
  <2>4. CASE context.pending # NoRecording
    <3>1. Enqueue(FinalizeJob(context.pending, "failed"))
      BY <1>7, <2>4 DEF RecorderDrop
    <3>2. context.pending \in Held
      BY <1>t, <2>1, <2>4 DEF Held
    <3>3. context.pending \notin Held'
      <4>1. pipeline # context.pending
        BY <2>1, <2>4 DEF PipelineInv, IdentityInv
      <4> QED BY <1>1, <2>1, <2>4, <4>1 DEF Held, InHand, IdentityInv
    <3> QED BY <1>t, <1>1, <2>1, <2>2, <3>1, <3>2, <3>3, SubmittedCore
  <2> QED BY <2>3, <2>4
<1>8. CASE RecorderFinalize
  <2>1. /\ UNCHANGED <<recordings, closed, pipeline>> /\ recorder.pc = "finalize"
        /\ context'.pending = context.pending /\ context'.current = NoRecording
        /\ recorder'.pc = "loop"
    BY <1>t, <1>8 DEF RecorderFinalize, At, Forget, storeVars, Contexts, IdleRecorder
  <2>2. Held' \subseteq Held
    BY <1>1, <2>1, EventStoreAssumption DEF Held, InHand
  <2>3. CASE context.current = NoRecording
    BY <1>1, <1>8, <2>1, <2>2, <2>3, QuietCore DEF RecorderFinalize
  <2>4. CASE context.current # NoRecording
    <3>1. Enqueue(FinalizeJob(context.current, recorder.status))
      BY <1>8, <2>4 DEF RecorderFinalize
    <3>2. context.current \in Held
      BY <1>t, <2>4 DEF Held
    <3>3. context.current \notin Held'
      <4>1. pipeline = NoRecording
        BY <2>1 DEF PipelineInv
      <4> QED BY <1>1, <2>1, <2>4, <4>1 DEF Held, InHand, IdentityInv
    <3> QED BY <1>t, <1>1, <2>1, <2>2, <3>1, <3>2, <3>3, SubmittedCore
  <2> QED BY <2>3, <2>4
<1>9. CASE SegmentClosed
  BY <1>t, <1>9, ClosedCore
<1> QED BY <1>2, <1>3, <1>4, <1>5, <1>6, <1>7, <1>8, <1>9 DEF Recorder

LEMMA StepCore ==
  ASSUME Base, PipelineInv, IdentityInv, CoreInv, [Next]_vars
  PROVE  CoreInv'
<1>1. CASE UNCHANGED vars
  <2>1. Held' = Held
    BY <1>1 DEF vars, recordVars, Held, InHand
  <2>2. UNCHANGED <<recordings, segments, recordingJobs, failed, closed, phase>>
    BY <1>1 DEF vars, storeVars, recordVars, jobVars, processVars
  <2> QED BY <2>1, <2>2, QuietCore
<1>2. CASE Others
  BY <1>2, OthersCore
<1>3. CASE Button
  BY <1>3, ButtonCore
<1>4. CASE Recorder
  BY <1>4, RecorderCore
<1>5. CASE Die
  BY <1>5, DiedCore
<1> QED BY <1>1, <1>2, <1>3, <1>4, <1>5 DEF Next, Others

-----------------------------------------------------------------------------
(* The theorems.                                                           *)

LEMMA InitRecording == Init => RecordingInv
<1> SUFFICES ASSUME Init PROVE RecordingInv
  OBVIOUS
<1>1. SegmentInv
  <2>1. \A r \in RecId : recordings[r].segments = 0 /\ SegmentsOf(r) = {}
    BY DEF Init, StoreInit, SegmentsOf, NoRecRow
  <2>2. SegmentCountMatches
    BY <2>1, FS_EmptySet DEF SegmentCountMatches, SegmentsOf
  <2> QED BY <2>1, <2>2, InitTypes DEF SegmentInv, AbsentIsEmpty, Init
<1>2. Typed
  BY IdleTypes, EventStoreAssumption DEF Init, Typed
<1>3. HandsAreFull
  BY DEF Init, HandsAreFull, IdleButton, IdleWorker, IdleMqtt
<1>4. DownIsIdle
  BY DEF Init, DownIsIdle, StoreInit
<1>5. PipelineInv /\ IdentityInv /\ StopInv /\ Held = {}
  BY DEF Init, PipelineInv, IdentityInv, StopInv, Held, InHand, IdleContext, IdleButton,
         IdleRecorder
<1>6. \A r \in RecId : recordings[r].status = "absent"
  BY DEF Init, StoreInit, NoRecRow
<1>7. QueueInv
  BY <1>5 DEF Init, QueueInv, QueueIndex
<1>8. SegmentsInv
  BY DEF Init, StoreInit, SegmentsInv, QueueIndex
<1>9. WholeUnlessFailed
  BY <1>6 DEF WholeUnlessFailed
<1> QED BY <1>1, <1>2, <1>3, <1>4, <1>5, <1>7, <1>8, <1>9 DEF RecordingInv, Base, CoreInv

\* The inductive invariant: who holds a recording, which jobs wait for it and
\* where its segments are, in every state.
THEOREM RecordingIsKept == Spec => []RecordingInv
<1>1. Init => RecordingInv
  BY InitRecording
<1>2. RecordingInv /\ [Next]_vars => RecordingInv'
  <2> SUFFICES ASSUME RecordingInv, [Next]_vars PROVE RecordingInv'
    OBVIOUS
  <2>1. /\ Base /\ Typed /\ HandsAreFull /\ PipelineInv /\ IdentityInv /\ StopInv /\ CoreInv
        /\ QueueInv
    BY DEF RecordingInv, Base, CoreInv
  <2>2. Base'
    BY <2>1, StepBase
  <2>3. PipelineInv'
    BY <2>1, StepPipeline
  <2>4. IdentityInv' /\ StopInv'
    BY <2>1, StepIdentity
  <2>5. CoreInv'
    BY <2>1, StepCore
  <2> QED BY <2>2, <2>3, <2>4, <2>5 DEF RecordingInv
<1> QED BY <1>1, <1>2, PTL DEF Spec

\* The recorder, the button, the worker and the backend use the database only
\* through its transactions: what EventStore promises holds here.
THEOREM RecordingUsesTheStore == Spec => StoreSpec
<1>1. Init => StoreInit
  BY DEF Init
<1>2. RecordingInv /\ [Next]_vars => [StoreNext]_storeVars
  BY StepIsTransaction DEF RecordingInv, Base
<1> QED BY <1>1, <1>2, RecordingIsKept, PTL DEF Spec, StoreSpec

\* No late segment, second finalization or restart changes a recording that has
\* ended, whatever the recorder, the worker and the button do.
THEOREM EndedRecordingsStay == Spec => TerminalIsImmutable
BY RecordingUsesTheStore, EndedRecordingsAreImmutable, PTL

\* A recording is finalized once: no two finalizations ever wait for it, and
\* no job waits for a recording that has ended.
THEOREM RecordingsEndOnce == Spec => []FinalizedOnce
<1>1. RecordingInv => FinalizedOnce
  <2> SUFFICES ASSUME RecordingInv, NEW r \in RecId
               PROVE  /\ Cardinality(FinalizeJobs(r)) <= 1
                      /\ JobsOf(r) # {} => recordings[r].status = "recording"
    BY DEF FinalizedOnce
  <2>1. QueueInv /\ QueueIndex \subseteq Nat
    BY DEF RecordingInv, CoreInv, Base, Typed, QueueIndex
  <2>2. \A i, j \in FinalizeJobs(r) : i = j
    <3>1. \A i, j \in FinalizeJobs(r) : ~(i < j)
      BY <2>1 DEF QueueInv, QueueIndex, FinalizeJobs, JobsOf
    <3>2. FinalizeJobs(r) \subseteq Nat
      BY <2>1 DEF QueueIndex, FinalizeJobs, JobsOf
    <3> QED BY <3>1, <3>2
  <2>3. Cardinality(FinalizeJobs(r)) <= 1
    <3>1. CASE FinalizeJobs(r) = {}
      BY <3>1, FS_EmptySet
    <3>2. ASSUME NEW i \in FinalizeJobs(r)
          PROVE  Cardinality(FinalizeJobs(r)) <= 1
      <4>1. FinalizeJobs(r) = {i}
        BY <2>2
      <4>2. Cardinality({i}) = 1
        BY FS_Singleton
      <4> HIDE DEF FinalizeJobs
      <4> QED BY ONLY <4>1, <4>2
    <3> QED BY <3>1, <3>2
  <2>4. JobsOf(r) # {} => recordings[r].status = "recording"
    BY <2>1 DEF QueueInv, QueueIndex, JobsOf
  <2> QED BY <2>3, <2>4
<1> QED BY <1>1, RecordingIsKept, PTL

\* What a press reads as the current recording is not finalized, and its
\* finalization has not been submitted.
THEOREM CurrentStaysLive == Spec => []CurrentIsLive
<1>1. RecordingInv => CurrentIsLive
  <2> SUFFICES ASSUME RecordingInv, context.current # NoRecording
               PROVE  /\ recordings[context.current].status = "recording"
                      /\ FinalizeJobs(context.current) = {}
    BY DEF CurrentIsLive
  <2>1. context.current \in RecId
    BY DEF RecordingInv, Base, Typed, Contexts
  <2>2. context.current \in Held
    BY <2>1 DEF Held
  <2> QED BY <2>2 DEF RecordingInv, CoreInv, QueueInv, QueueIndex, FinalizeJobs, JobsOf
<1> QED BY <1>1, RecordingIsKept, PTL

\* The recorder does not finalize, for lack of want, the recording a press in
\* progress was given.
THEOREM PressesKeepTheirRecording == Spec => []PressKeepsRecording
<1>1. RecordingInv => PressKeepsRecording
  BY DEF RecordingInv, StopInv, PressKeepsRecording
<1> QED BY <1>1, RecordingIsKept, PTL

\* A recording that ends well has every segment the recorder closed.
THEOREM EndedMeansWhole == Spec => []WholeUnlessFailed
<1>1. RecordingInv => WholeUnlessFailed
  BY DEF RecordingInv, CoreInv
<1> QED BY <1>1, RecordingIsKept, PTL
=============================================================================
