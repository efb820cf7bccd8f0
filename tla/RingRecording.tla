--------------------------- MODULE RingRecording ---------------------------
(***************************************************************************)
(* Which recording a ring gets, and how a recording ends: the recorder     *)
(* thread, the ring button and the lifecycle callback of src/main.cpp,     *)
(* with the recording jobs of DeviceEventProcessor::worker_loop, over the  *)
(* tables of EventStore.                                                   *)
(*                                                                         *)
(* The threads share the fields of UiContext guarded by record_mtx; a step *)
(* is one critical section, one store transaction, one callback or one     *)
(* call into the GStreamer pipeline.  Whether a person is in view, the     *)
(* camera is ready, a start, a write, a file operation or a transaction    *)
(* succeeds is chosen freely.  finalize_recording waits up to 30 s for the *)
(* worker and then goes on: here the recorder goes on at any time, which   *)
(* includes both.  Reports are the subject of RingReporting.               *)
(***************************************************************************)
EXTENDS EventStore, Sequences

CONSTANT MaxRestarts   \* bound: how often the process dies

ASSUME RestartsAssumption == MaxRestarts \in Nat

VARIABLES
  now,           \* the system clock
  phase,         \* the process: "down", "up", or "stopping" (g_stop)
  restarts,      \* number of deaths so far
  context,       \* the fields of UiContext guarded by record_mtx
  button,        \* the button thread
  recorder,      \* recorder_worker
  pipeline,      \* the recording Mp4Recorder is writing, if running()
  closed,        \* segments the recorder has closed for each recording
  recordingJobs, \* recording_jobs_
  failed,        \* failed_recordings_: recordings that lost a segment
  worker,        \* worker_loop
  snapshotJob,   \* jobs_ holds a job that is ready
  mqtt           \* the MQTT thread between update_ring_state and the callback

processVars == <<now, phase, restarts>>
jobVars     == <<recordingJobs, failed, snapshotJob>>
recordVars  == <<recorder, pipeline, closed>>

vars == <<storeVars, processVars, context, button, recordVars, jobVars, worker, mqtt>>

AnyEvent     == EventId \union {NoEvent}

SegmentJob(r, i)       == [kind |-> "segment", rec |-> r, index |-> i, status |-> "none"]
FinalizeJob(r, status) == [kind |-> "finalize", rec |-> r, index |-> 0, status |-> status]

IdleContext  == [pressing |-> FALSE, stopping |-> FALSE, ring |-> NoEvent,
                 current |-> NoRecording, attempt |-> NoRecording,
                 pending |-> NoRecording]
IdleButton   == [pc |-> "idle", at |-> 0, known |-> NoRecording,
                 event |-> NoEvent, state |-> "ended", given |-> NoRecording]
IdleRecorder == [pc |-> "loop", rec |-> NoRecording, status |-> "failed"]
IdleWorker   == [pc |-> "check", event |-> NoEvent]
IdleMqtt     == [pc |-> "idle", event |-> NoEvent, state |-> "ended"]

Init ==
  /\ StoreInit
  /\ now = 0 /\ phase = "down" /\ restarts = 0
  /\ context = IdleContext
  /\ button = IdleButton
  /\ recorder = IdleRecorder
  /\ pipeline = NoRecording
  /\ closed = [r \in RecId |-> 0]
  /\ recordingJobs = <<>>
  /\ failed = {}
  /\ worker = IdleWorker
  /\ snapshotJob = FALSE
  /\ mqtt = IdleMqtt

-----------------------------------------------------------------------------
(* The process.                                                            *)

\* start(): open the store and end the ring a dead process had accepted.  Two
\* transactions, before any thread runs.
Start ==
  /\ phase = "down"
  /\ IF isOpen
       THEN /\ \/ \E e \in EventId : RecoverStaleAcceptedRing(e)
               \/ /\ \A e \in EventId : rings[e].state # "accepted"
                  /\ UNCHANGED storeVars
            /\ phase' = "up"
       ELSE /\ Open
            /\ UNCHANGED phase
  /\ UNCHANGED <<now, restarts, context, button, recordVars, jobVars, worker, mqtt>>

\* A crash, or the end of main: the threads are gone and no queue is drained.
Die ==
  /\ phase # "down"
  /\ restarts < MaxRestarts
  /\ Close
  /\ phase' = "down"
  /\ restarts' = restarts + 1
  /\ context' = IdleContext
  /\ button' = IdleButton
  /\ recorder' = IdleRecorder
  /\ pipeline' = NoRecording
  /\ recordingJobs' = <<>>
  /\ failed' = {}
  /\ worker' = IdleWorker
  /\ snapshotJob' = FALSE
  /\ mqtt' = IdleMqtt
  /\ UNCHANGED <<now, closed>>

\* g_stop: main joins the recorder thread before it stops the processor.
Shutdown ==
  /\ phase = "up"
  /\ phase' = "stopping"
  /\ UNCHANGED <<storeVars, now, restarts, context, button, recordVars, jobVars,
                 worker, mqtt>>

Tick ==
  /\ now < MaxTime
  /\ now' = now + 1
  /\ UNCHANGED <<storeVars, phase, restarts, context, button, recordVars, jobVars,
                 worker, mqtt>>

Running == phase # "down"

-----------------------------------------------------------------------------
(* The lifecycle callback, the commands of the backend.                    *)

\* "ended" counts only for the ring the context holds; any other state makes
\* the ring the open one (ring_event_open).
LifecycleHandler(e, state) ==
  context' = [context EXCEPT !.ring =
    IF state # "ended" THEN e ELSE IF @ = e THEN NoEvent ELSE @]

\* respond_ring and close_ring, for any ring event there is.
RingCommand(e, state) ==
  /\ Running
  /\ mqtt.pc = "idle"
  /\ UpdateRingState(e, state)
  /\ mqtt' = [pc |-> "notify", event |-> e, state |-> state]
  /\ UNCHANGED <<processVars, context, button, recordVars, jobVars, worker>>

RingNotify ==
  /\ mqtt.pc = "notify"
  /\ LifecycleHandler(mqtt.event, mqtt.state)
  /\ mqtt' = IdleMqtt
  /\ UNCHANGED <<storeVars, processVars, button, recordVars, jobVars, worker>>

-----------------------------------------------------------------------------
(* The short-press handler.                                                *)

\* While a stop is in progress the running recording is not offered to a ring.
KnownRecording ==
  IF context.stopping THEN NoRecording
  ELSE IF context.current # NoRecording THEN context.current
  ELSE context.attempt

\* Bound: a press is made while its latest deadline is within the clock.
ButtonRead ==
  /\ Running
  /\ button.pc = "idle"
  /\ now + RingCap <= MaxTime
  /\ context' = [context EXCEPT !.pressing = TRUE]
  /\ button' = [IdleButton EXCEPT !.pc = "expire", !.at = now, !.known = KnownRecording]
  /\ UNCHANGED <<storeVars, processVars, recordVars, jobVars, worker, mqtt>>

\* begin_ring_press: end an expired ring, tell main, store the press, tell main.
ButtonExpire ==
  /\ button.pc = "expire"
  /\ \/ \E e \in EventId :
          /\ ExpireOpenRing(e, button.at)
          /\ button' = [button EXCEPT !.pc = "expired", !.event = e]
     \/ /\ UNCHANGED storeVars
        /\ button' = [button EXCEPT !.pc = "record"]
  /\ UNCHANGED <<processVars, context, recordVars, jobVars, worker, mqtt>>

ButtonExpired ==
  /\ button.pc = "expired"
  /\ LifecycleHandler(button.event, "ended")
  /\ button' = [button EXCEPT !.pc = "record", !.event = NoEvent]
  /\ UNCHANGED <<storeVars, processVars, recordVars, jobVars, worker, mqtt>>

\* "given" is the identity that a first press made for a recording to come.
ButtonRecord ==
  /\ button.pc = "record"
  /\ \/ \E e \in EventId :
          /\ RecordRepeatPress(e, button.at)
          /\ button' = [button EXCEPT !.pc = "notify", !.event = e,
                                      !.state = rings[e].state]
     \/ \E e \in EventId, r \in RecId :
          /\ RecordInitialPress(e, button.known, r, button.at)
          /\ button' = [button EXCEPT !.pc = "notify", !.event = e, !.state = "ringing",
                          !.given = IF button.known = NoRecording THEN r ELSE NoRecording]
     \/ /\ UNCHANGED storeVars
        /\ button' = [button EXCEPT !.pc = "done"]
  /\ UNCHANGED <<processVars, context, recordVars, jobVars, worker, mqtt>>

ButtonNotify ==
  /\ button.pc = "notify"
  /\ LifecycleHandler(button.event, button.state)
  /\ button' = [button EXCEPT !.pc = "done"]
  /\ UNCHANGED <<storeVars, processVars, recordVars, jobVars, worker, mqtt>>

ButtonDone ==
  /\ button.pc = "done"
  /\ context' = [context EXCEPT !.pressing = FALSE]
  /\ button' = IF button.given = NoRecording THEN IdleButton
               ELSE [button EXCEPT !.pc = "give"]
  /\ UNCHANGED <<storeVars, processVars, recordVars, jobVars, worker, mqtt>>

\* The identity is handed to the recorder, over one it may not have taken yet.
ButtonGive ==
  /\ button.pc = "give"
  /\ context' = [context EXCEPT !.pending = button.given, !.attempt = button.given]
  /\ button' = IdleButton
  /\ UNCHANGED <<storeVars, processVars, recordVars, jobVars, worker, mqtt>>

-----------------------------------------------------------------------------
(* recorder_worker.                                                        *)

At(pc)   == Running /\ recorder.pc = pc
Goto(pc) == recorder' = [recorder EXCEPT !.pc = pc]

Enqueue(job) == recordingJobs' = Append(recordingJobs, job)

\* A context that forgets a recording id as the last attempt.
Forget(ctx, r) == [ctx EXCEPT !.attempt = IF @ = r THEN NoRecording ELSE @]

\* One turn of the loop: whether to record is decided from the person in view
\* and from the open ring as it is now.
RecorderLook ==
  /\ At("loop") /\ phase = "up"
  /\ \/ /\ context.ring = NoEvent                        \* nothing to record
        /\ Goto(IF pipeline # NoRecording THEN "decide" ELSE "drop")
     \/ Goto("drop")                                     \* no camera
     \/ Goto(IF pipeline # NoRecording THEN "write" ELSE "identity")
  /\ UNCHANGED <<storeVars, processVars, context, button, pipeline, closed, jobVars,
                 worker, mqtt>>

\* Mutant of RecorderDecide: the press in progress is not looked at.
RecorderDecideAtOnce ==
  /\ At("decide")
  /\ IF context.ring # NoEvent
       THEN /\ Goto("loop")
            /\ UNCHANGED context
       ELSE /\ context' = [context EXCEPT !.stopping = TRUE]
            /\ recorder' = [recorder EXCEPT !.pc = "stop", !.status = "finalized"]
  /\ UNCHANGED <<storeVars, processVars, button, pipeline, closed, jobVars, worker, mqtt>>

\* The decision is taken again under the lock before the recording is stopped.
RecorderDecide ==
  /\ At("decide")
  /\ IF context.pressing \/ context.ring # NoEvent
       THEN /\ Goto("loop")
            /\ UNCHANGED context
       ELSE /\ context' = [context EXCEPT !.stopping = TRUE]
            /\ recorder' = [recorder EXCEPT !.pc = "stop", !.status = "finalized"]
  /\ UNCHANGED <<storeVars, processVars, button, pipeline, closed, jobVars, worker, mqtt>>

\* finalize_pending_ring_recording: a ring's identity that cannot be recorded.
RecorderDrop ==
  /\ At("drop")
  /\ context' = [Forget(context, context.pending) EXCEPT !.pending = NoRecording]
  /\ IF context.pending = NoRecording
       THEN UNCHANGED recordingJobs
       ELSE Enqueue(FinalizeJob(context.pending, "failed"))
  /\ Goto("loop")
  /\ UNCHANGED <<storeVars, processVars, button, pipeline, closed, failed, snapshotJob,
                 worker, mqtt>>

\* A ring's identity first; while a ring is open the recorder waits for it;
\* otherwise it registers a recording of its own, which may fail.
RecorderIdentity ==
  /\ At("identity")
  /\ \/ /\ context.pending # NoRecording
        /\ recorder' = [recorder EXCEPT !.pc = "start", !.rec = context.pending]
        /\ UNCHANGED <<storeVars, context>>
     \/ /\ context.pending = NoRecording /\ context.ring = NoEvent
        /\ \E r \in RecId :
             /\ BeginRecording(r)
             /\ context' = [context EXCEPT !.attempt = r]
             /\ recorder' = [recorder EXCEPT !.pc = "start", !.rec = r]
     \/ /\ context.pending = NoRecording
        /\ Goto("loop")
        /\ UNCHANGED <<storeVars, context>>
  /\ UNCHANGED <<processVars, button, pipeline, closed, jobVars, worker, mqtt>>

RecorderStart ==
  /\ At("start")
  /\ \/ /\ pipeline' = recorder.rec
        /\ Goto("started")
     \/ /\ UNCHANGED pipeline
        /\ Goto("startFailed")
  /\ UNCHANGED <<storeVars, processVars, context, button, closed, jobVars, worker, mqtt>>

RecorderStartFailed ==
  /\ At("startFailed")
  /\ Enqueue(FinalizeJob(recorder.rec, "failed"))
  /\ Goto("forget")
  /\ UNCHANGED <<storeVars, processVars, context, button, pipeline, closed, failed,
                 snapshotJob, worker, mqtt>>

\* Only after the wait for the finalization are the ids taken back.
RecorderForget ==
  /\ At("forget")
  /\ context' = [Forget(context, recorder.rec) EXCEPT
                   !.pending = IF @ = recorder.rec THEN NoRecording ELSE @]
  /\ recorder' = IdleRecorder
  /\ UNCHANGED <<storeVars, processVars, button, pipeline, closed, jobVars, worker, mqtt>>

RecorderStarted ==
  /\ At("started")
  /\ context' = [context EXCEPT !.current = recorder.rec,
                   !.pending = IF @ = recorder.rec THEN NoRecording ELSE @]
  /\ recorder' = [IdleRecorder EXCEPT !.pc = "write"]
  /\ UNCHANGED <<storeVars, processVars, button, pipeline, closed, jobVars, worker, mqtt>>

\* write_frame: it may succeed (or have no frame to write), fail, or find a
\* pipeline error and stop the pipeline itself before it fails.
RecorderWrite ==
  /\ At("write")
  /\ \/ Goto("loop") /\ UNCHANGED pipeline
     \/ Goto("writeFailed") /\ pipeline' \in {pipeline, NoRecording}
  /\ UNCHANGED <<storeVars, processVars, context, button, closed, jobVars, worker, mqtt>>

RecorderWriteFailed ==
  /\ At("writeFailed")
  /\ context' = [context EXCEPT !.stopping = TRUE]
  /\ recorder' = [recorder EXCEPT !.pc = "stop", !.status = "interrupted"]
  /\ UNCHANGED <<storeVars, processVars, button, pipeline, closed, jobVars, worker, mqtt>>

\* The end of the thread.
RecorderExit ==
  /\ At("loop") /\ phase = "stopping"
  /\ IF pipeline # NoRecording
       THEN /\ context' = [context EXCEPT !.stopping = TRUE]
            /\ recorder' = [recorder EXCEPT !.pc = "stop", !.status = "interrupted"]
       ELSE /\ Goto("exited")
            /\ UNCHANGED context
  /\ UNCHANGED <<storeVars, processVars, button, pipeline, closed, jobVars, worker, mqtt>>

\* A fragment is closed: the callback runs on the recorder thread, out of
\* write_frame or out of stop.
SegmentClosed ==
  /\ At("write") \/ At("stop")
  /\ pipeline # NoRecording
  /\ closed[pipeline] < MaxSegments
  /\ closed' = [closed EXCEPT ![pipeline] = @ + 1]
  /\ Enqueue(SegmentJob(pipeline, closed[pipeline] + 1))
  /\ UNCHANGED <<storeVars, processVars, context, button, recorder, pipeline, failed,
                 snapshotJob, worker, mqtt>>

\* stop() returns after the end of stream or after 30 s without it.
RecorderStop ==
  /\ At("stop")
  /\ pipeline' = NoRecording
  /\ Goto("finalize")
  /\ UNCHANGED <<storeVars, processVars, context, button, closed, jobVars, worker, mqtt>>

\* Mutant of RecorderFinalize: the current recording is not cleared.
RecorderFinalizeKeepsCurrent ==
  /\ At("finalize")
  /\ context' = [Forget(context, context.current) EXCEPT !.stopping = FALSE]
  /\ IF context.current = NoRecording
       THEN UNCHANGED recordingJobs
       ELSE Enqueue(FinalizeJob(context.current, recorder.status))
  /\ recorder' = IdleRecorder
  /\ UNCHANGED <<storeVars, processVars, button, pipeline, closed, failed, snapshotJob,
                 worker, mqtt>>

\* Mutant of RecorderFinalize: the job gets ahead of the waiting segments.
RecorderFinalizeFirst ==
  /\ At("finalize")
  /\ context' = [Forget(context, context.current) EXCEPT
                   !.current = NoRecording, !.stopping = FALSE]
  /\ IF context.current = NoRecording
       THEN UNCHANGED recordingJobs
       ELSE recordingJobs' = <<FinalizeJob(context.current, recorder.status)>> \o recordingJobs
  /\ recorder' = IdleRecorder
  /\ UNCHANGED <<storeVars, processVars, button, pipeline, closed, failed, snapshotJob,
                 worker, mqtt>>

\* The finalize_recording lambda: the context lets the recording go, and the
\* job goes to the worker behind the segments of the recording.
RecorderFinalize ==
  /\ At("finalize")
  /\ context' = [Forget(context, context.current) EXCEPT
                   !.current = NoRecording, !.stopping = FALSE]
  /\ IF context.current = NoRecording
       THEN UNCHANGED recordingJobs
       ELSE Enqueue(FinalizeJob(context.current, recorder.status))
  /\ recorder' = IdleRecorder
  /\ UNCHANGED <<storeVars, processVars, button, pipeline, closed, failed, snapshotJob,
                 worker, mqtt>>

-----------------------------------------------------------------------------
(* worker_loop.                                                            *)

WorkerExpire ==
  /\ Running
  /\ worker.pc = "check"
  /\ \/ \E e \in EventId :
          /\ ExpireOpenRing(e, now)
          /\ worker' = [pc |-> "expired", event |-> e]
     \/ /\ UNCHANGED storeVars
        /\ worker' = [pc |-> "take", event |-> NoEvent]
  /\ UNCHANGED <<processVars, context, button, recordVars, jobVars, mqtt>>

WorkerExpired ==
  /\ worker.pc = "expired"
  /\ LifecycleHandler(worker.event, "ended")
  /\ worker' = [pc |-> "take", event |-> NoEvent]
  /\ UNCHANGED <<storeVars, processVars, button, recordVars, jobVars, mqtt>>

TakeJob(kind) ==
  /\ worker.pc = "take"
  /\ recordingJobs # <<>>
  /\ Head(recordingJobs).kind = kind
  /\ worker' = IdleWorker

\* Mutant of PersistSegment: a lost segment is not remembered.
PersistSegmentForgetful ==
  /\ TakeJob("segment")
  /\ LET job == Head(recordingJobs)
     IN AppendRecordingSegment(job.rec, job.index) \/ UNCHANGED storeVars
  /\ recordingJobs' = Tail(recordingJobs)
  /\ UNCHANGED <<processVars, context, button, recordVars, failed, snapshotJob, mqtt>>

\* A segment whose file cannot be published or whose row cannot be inserted is
\* not tried again: its recording is remembered as one with a lost segment.
PersistSegment ==
  /\ TakeJob("segment")
  /\ LET job == Head(recordingJobs)
     IN \/ /\ AppendRecordingSegment(job.rec, job.index)
           /\ UNCHANGED failed
        \/ /\ failed' = failed \union {job.rec}
           /\ UNCHANGED storeVars
  /\ recordingJobs' = Tail(recordingJobs)
  /\ UNCHANGED <<processVars, context, button, recordVars, snapshotJob, mqtt>>

TerminalStatus(job) ==
  IF recordings[job.rec].segments = 0 \/ job.rec \in failed
    THEN "failed" ELSE job.status

FinalizeSucceeds ==
  /\ TakeJob("finalize")
  /\ LET job == Head(recordingJobs)
     IN /\ FinalizeRecording(job.rec, TerminalStatus(job))
        /\ failed' = failed \ {job.rec}
  /\ recordingJobs' = Tail(recordingJobs)
  /\ UNCHANGED <<processVars, context, button, recordVars, snapshotJob, mqtt>>

\* Mutant of FinalizeFails: the job is not put back.
FinalizeFailsForGood ==
  /\ TakeJob("finalize")
  /\ recordingJobs' = Tail(recordingJobs)
  /\ UNCHANGED <<storeVars, processVars, context, button, recordVars, failed,
                 snapshotJob, mqtt>>

\* A transaction failed: the job goes to the back of the queue.  The pause of
\* 5 s it is given is not looked at when recording_jobs_ is served.
FinalizeFails ==
  /\ TakeJob("finalize")
  /\ recordingJobs' = Append(Tail(recordingJobs), Head(recordingJobs))
  /\ UNCHANGED <<storeVars, processVars, context, button, recordVars, failed,
                 snapshotJob, mqtt>>

\* jobs_ is served only when recording_jobs_ is empty.
WorkerOtherJob ==
  /\ worker.pc = "take"
  /\ recordingJobs = <<>>
  /\ snapshotJob
  /\ snapshotJob' = FALSE
  /\ worker' = IdleWorker
  /\ UNCHANGED <<storeVars, processVars, context, button, recordVars, recordingJobs,
                 failed, mqtt>>

SubmitSnapshot ==
  /\ Running
  /\ ~snapshotJob
  /\ snapshotJob' = TRUE
  /\ UNCHANGED <<storeVars, processVars, context, button, recordVars, recordingJobs,
                 failed, worker, mqtt>>

-----------------------------------------------------------------------------
Button == ButtonRead \/ ButtonExpire \/ ButtonExpired \/ ButtonRecord
            \/ ButtonNotify \/ ButtonDone \/ ButtonGive

Recorder == RecorderLook \/ RecorderDecide \/ RecorderDrop \/ RecorderIdentity
              \/ RecorderStart \/ RecorderStartFailed \/ RecorderForget
              \/ RecorderStarted \/ RecorderWrite \/ RecorderWriteFailed
              \/ RecorderExit \/ SegmentClosed \/ RecorderStop \/ RecorderFinalize

Worker == WorkerExpire \/ WorkerExpired \/ PersistSegment \/ FinalizeSucceeds
            \/ FinalizeFails \/ WorkerOtherJob

Backend == RingNotify \/ \E e \in EventId, state \in RingState : RingCommand(e, state)

Next ==
  \/ Start \/ Die \/ Shutdown \/ Tick
  \/ Button \/ Recorder \/ Worker \/ Backend \/ SubmitSnapshot

Spec == Init /\ [][Next]_vars

\* The worker thread runs, and the process is started again.
ThreadFairness == WF_vars(Start \/ Worker)

\* A transaction that is tried for ever succeeds at last.
StoreFairness == SF_vars(FinalizeSucceeds)

FairSpec     == Spec /\ ThreadFairness
RecoverySpec == FairSpec /\ StoreFairness

-----------------------------------------------------------------------------
(* Properties.                                                             *)

JobsOf(r) == {i \in 1..Len(recordingJobs) : recordingJobs[i].rec = r}
FinalizeJobs(r) == {i \in JobsOf(r) : recordingJobs[i].kind = "finalize"}

\* A recording is finalized once: the recorder never submits a second job for
\* it, on any path (no more want, failed start, failed write, dropped
\* identity, end of the thread), and no job waits for a recording that is
\* already terminal.  Such a job could only fail, and would be retried for ever.
FinalizedOnce ==
  \A r \in RecId :
    /\ Cardinality(FinalizeJobs(r)) <= 1
    /\ JobsOf(r) # {} => recordings[r].status = "recording"

\* "等待此前分片按序落库，再把父 recording 收敛到不可变终态": a recording that ends
\* as finalized or interrupted has exactly the segments the recorder closed,
\* without a gap, and at least one; otherwise it ends as failed.
WholeUnlessFailed ==
  \A r \in RecId :
    recordings[r].status \in {"finalized", "interrupted"} =>
      /\ closed[r] > 0
      /\ {i \in SegIndex : <<r, i>> \in segments} = 1..closed[r]

\* A press in progress that was given the running recording keeps it: the
\* recorder does not finalize it for lack of want behind the back of the press.
PressKeepsRecording ==
  context.pressing /\ button.known # NoRecording /\ button.known = pipeline =>
    ~(recorder.pc = "stop" /\ recorder.status = "finalized")

\* A recording the pipeline writes is known to the context until it is let go:
\* what a press reads as current is never a recording already finalized.
CurrentIsLive ==
  context.current # NoRecording =>
    /\ recordings[context.current].status = "recording"
    /\ FinalizeJobs(context.current) = {}

\* A recording whose finalization was submitted ends, through failing
\* transactions and a death of the process: the worker, or the next start.
SubmittedEnds ==
  \A r \in RecId :
    FinalizeJobs(r) # {} ~> recordings[r].status \in Terminal

\* "失败任务只延迟自身，不能让等待业务 ACK 的 5 秒退避饿死抓拍等其他任务": a snapshot
\* that is ready is served, also while a finalization keeps failing.
SnapshotServed == snapshotJob ~> ~snapshotJob
=============================================================================
