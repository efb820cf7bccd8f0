--------------------------- MODULE RingReporting ---------------------------
(***************************************************************************)
(* From the ring button to the backend: the ring and report half of        *)
(* DeviceEventProcessor (src/events/device_event_processor.cpp) with the   *)
(* callbacks of main.cpp around it, over the tables of EventStore.         *)
(*                                                                         *)
(* Threads, one program counter each: the button thread (the handler of a  *)
(* short press and begin_ring_press), worker_loop, report_worker_loop and  *)
(* the MQTT thread (business ACKs and ring commands).  The snapshot thread *)
(* and the inference thread take single steps.  A step is one critical     *)
(* section, one store transaction or one callback; the process may die     *)
(* between any two of them and start again on the tables it left.          *)
(*                                                                         *)
(* The recording jobs of the worker are the subject of RingRecording; here *)
(* they are jobs of another kind that keep the worker busy.  Snapshot      *)
(* pictures, their upload, URLs and the 5 s pause before a failed report   *)
(* is retried are left out; the pause only delays.                         *)
(***************************************************************************)
EXTENDS EventStore

CONSTANT MaxRestarts   \* bound: how often the process dies

ASSUME RestartsAssumption == MaxRestarts \in Nat

VARIABLES
  now,              \* the system clock, in the unit of PressWindow and RingCap
  phase,            \* the process: "down", "opened" (in start()) or "up"
  restarts,         \* number of deaths so far
  button,           \* the button thread and the press it handles
  worker,           \* worker_loop and the event in its hand
  reporter,         \* report_worker_loop and the job in its hand
  mqtt,             \* the MQTT thread between update_ring_state and the callback
  mediaJobs,        \* jobs_: PrepareRingEvent jobs, for the timeout or a snapshot
  pendingSnapshots, \* pending_ring_snapshots_
  selecting,        \* main: pending_ring_snapshot_event
  reportJobs,       \* report_jobs_: how many jobs there are for each report
  outbox,           \* reports the MQTT client has queued and not yet sent
  delivered,        \* reports the backend has received
  activeRing,       \* main: active_ring_event_id (ring_event_open iff not NoEvent)
  answered,         \* history: rings this process was told are accepted
  unread            \* history: pending rows that start() failed to read

threadVars  == <<button, worker, reporter, mqtt>>
queueVars   == <<mediaJobs, pendingSnapshots, selecting, reportJobs>>
networkVars == <<outbox, delivered>>
processVars == <<phase, restarts>>
historyVars == <<answered, unread>>

vars == <<storeVars, now, processVars, threadVars, queueVars, networkVars,
          activeRing, historyVars>>

\* A report is an event (press number 0) or a repeated press of a ring.
Report     == EventId \X ({0} \union PressSeq)
EventOf(e) == <<e, 0>>
MediaJob   == [kind : {"timeout", "snapshot"}, event : EventId, ready : BOOLEAN]

TimeoutJob(e, ready) == [kind |-> "timeout", event |-> e, ready |-> ready]
SnapshotJob(e)       == [kind |-> "snapshot", event |-> e, ready |-> TRUE]

IdleButton   == [pc |-> "idle", at |-> 0, event |-> NoEvent, seq |-> 0,
                 state |-> "ended"]
IdleWorker   == [pc |-> "check", event |-> NoEvent]
IdleReporter == [pc |-> "idle", job |-> <<NoEvent, 0>>]
IdleMqtt     == [pc |-> "idle", event |-> NoEvent, state |-> "ended"]

NoJobs == [k \in Report |-> 0]

Init ==
  /\ StoreInit
  /\ now = 0
  /\ phase = "down"
  /\ restarts = 0
  /\ button = IdleButton
  /\ worker = IdleWorker
  /\ reporter = IdleReporter
  /\ mqtt = IdleMqtt
  /\ mediaJobs = {}
  /\ pendingSnapshots = {}
  /\ selecting = NoEvent
  /\ reportJobs = NoJobs
  /\ outbox = {}
  /\ delivered = {}
  /\ activeRing = NoEvent
  /\ answered = {}
  /\ unread = {}

-----------------------------------------------------------------------------
(* Shared operators.                                                       *)

AddReport(k)    == reportJobs' = [reportJobs EXCEPT ![k] = @ + 1]
RemoveReport(k) == reportJobs' = [reportJobs EXCEPT ![k] = @ - 1]

\* The lifecycle callback of main.cpp: an "ended" counts only for the ring
\* main thinks is open, any other state makes the ring the open one.
LifecycleHandler(e, state) ==
  activeRing' = IF state # "ended" THEN e
                ELSE IF activeRing = e THEN NoEvent ELSE activeRing

\* The store found nothing to do, or the transaction failed and was rolled back.
StoreUntouched == UNCHANGED storeVars

-----------------------------------------------------------------------------
(* Starting, dying, time.                                                  *)

StartOpen ==
  /\ phase = "down"
  /\ Open
  /\ phase' = "opened"
  /\ UNCHANGED <<now, restarts, threadVars, queueVars, networkVars,
                 activeRing, historyVars>>

\* The rows pending_events and pending_ring_presses look for.
Unreported(k) ==
  IF k[2] = 0
    THEN events[k[1]].kind # "none" /\ events[k[1]].reported = 0
    ELSE pressQueue[k] = "queued"

\* Mutant of RecoverRing: the accepted ring of a dead process is not ended.
RecoverNoRing == StoreUntouched

RecoverRing ==
  \/ \E e \in EventId : RecoverStaleAcceptedRing(e)
  \/ /\ \A e \in EventId : rings[e].state # "accepted"
     /\ StoreUntouched

\* A query that fails ends like one that has no more rows: start() goes on and
\* does not report what it did not read.
QueuePending ==
  \E rows \in SUBSET {k \in Report : Unreported(k)} :
    /\ reportJobs' = [k \in Report |-> IF k \in rows THEN 1 ELSE 0]
    /\ unread' = {k \in Report : Unreported(k)} \ rows

\* The rest of start(): end the ring a dead process had accepted, then queue
\* a report for every row not yet reported.
StartRecover ==
  /\ phase = "opened"
  /\ RecoverRing
  /\ QueuePending
  /\ phase' = "up"
  /\ UNCHANGED <<now, restarts, threadVars, mediaJobs, pendingSnapshots,
                 selecting, networkVars, activeRing, answered>>

\* The process dies, or stops: stop() joins the threads, drains no queue and
\* closes the store.  Only the tables and what the backend has remain.
Die ==
  /\ phase # "down"
  /\ restarts < MaxRestarts
  /\ Close
  /\ phase' = "down"
  /\ restarts' = restarts + 1
  /\ button' = IdleButton
  /\ worker' = IdleWorker
  /\ reporter' = IdleReporter
  /\ mqtt' = IdleMqtt
  /\ mediaJobs' = {}
  /\ pendingSnapshots' = {}
  /\ selecting' = NoEvent
  /\ reportJobs' = NoJobs
  /\ outbox' = {}
  /\ activeRing' = NoEvent
  /\ answered' = {}
  /\ unread' = {}
  /\ UNCHANGED <<now, delivered>>

Tick ==
  /\ now < MaxTime
  /\ now' = now + 1
  /\ UNCHANGED <<storeVars, processVars, threadVars, queueVars, networkVars,
                 activeRing, historyVars>>

\* The 1.1 s after which the worker gives up waiting for a snapshot.
SnapshotTimer ==
  \E e \in EventId :
    /\ TimeoutJob(e, FALSE) \in mediaJobs
    /\ mediaJobs' = (mediaJobs \ {TimeoutJob(e, FALSE)}) \union {TimeoutJob(e, TRUE)}
    /\ UNCHANGED <<storeVars, now, processVars, threadVars, pendingSnapshots,
                   selecting, reportJobs, networkVars, activeRing, historyVars>>

-----------------------------------------------------------------------------
(* The button thread: the short-press handler and begin_ring_press.        *)

\* The handler reads the clock, and begin_ring_press ends an expired ring first.
ButtonPress ==
  /\ phase = "up"
  /\ button.pc = "idle"
  /\ \/ \E e \in EventId :
          /\ ExpireOpenRing(e, now)
          /\ button' = [IdleButton EXCEPT !.pc = "expired", !.at = now, !.event = e]
     \/ /\ StoreUntouched
        /\ button' = [IdleButton EXCEPT !.pc = "record", !.at = now]
  /\ UNCHANGED <<now, processVars, worker, reporter, mqtt, queueVars,
                 networkVars, activeRing, historyVars>>

ButtonExpired ==
  /\ button.pc = "expired"
  /\ LifecycleHandler(button.event, "ended")
  /\ button' = [button EXCEPT !.pc = "record", !.event = NoEvent]
  /\ UNCHANGED <<storeVars, now, processVars, worker, reporter, mqtt, queueVars,
                 networkVars, historyVars>>

\* record_ring_press; the state the callback will be told is read here.  The
\* recording the handler knows of is any there is, or none.
ButtonRecord ==
  /\ button.pc = "record"
  /\ \/ \E e \in EventId :
          /\ RecordRepeatPress(e, button.at)
          /\ button' = [button EXCEPT !.pc = "enqueue", !.event = e,
                          !.seq = rings[e].count + 1, !.state = rings[e].state]
     \/ \E e \in EventId, known \in RecId \union {NoRecording}, r \in RecId :
          /\ RecordInitialPress(e, known, r, button.at)
          /\ button' = [button EXCEPT !.pc = "enqueue", !.event = e,
                          !.seq = 1, !.state = "ringing"]
     \/ /\ StoreUntouched
        /\ button' = IdleButton
  /\ UNCHANGED <<now, processVars, worker, reporter, mqtt, queueVars,
                 networkVars, activeRing, historyVars>>

\* A first press waits for its snapshot, a repeated one is reported at once.
ButtonEnqueue ==
  /\ button.pc = "enqueue"
  /\ IF button.seq = 1
       THEN /\ pendingSnapshots' = pendingSnapshots \union {button.event}
            /\ mediaJobs' = mediaJobs \union {TimeoutJob(button.event, FALSE)}
            /\ UNCHANGED reportJobs
       ELSE /\ AddReport(<<button.event, button.seq>>)
            /\ UNCHANGED <<mediaJobs, pendingSnapshots>>
  /\ button' = [button EXCEPT !.pc = "notify"]
  /\ UNCHANGED <<storeVars, now, processVars, worker, reporter, mqtt, selecting,
                 networkVars, activeRing, historyVars>>

ButtonNotify ==
  /\ button.pc = "notify"
  /\ LifecycleHandler(button.event, button.state)
  /\ button' = IF button.seq = 1 THEN [button EXCEPT !.pc = "arm"] ELSE IdleButton
  /\ UNCHANGED <<storeVars, now, processVars, worker, reporter, mqtt, queueVars,
                 networkVars, historyVars>>

\* Back in the handler: the one-second frame selection now works for this
\* event; a selection still running for an earlier one is dropped.
ButtonArm ==
  /\ button.pc = "arm"
  /\ selecting' = button.event
  /\ button' = IdleButton
  /\ UNCHANGED <<storeVars, now, processVars, worker, reporter, mqtt, mediaJobs,
                 pendingSnapshots, reportJobs, networkVars, activeRing, historyVars>>

\* ring_snapshot_worker hands over its best frame, or none: whoever takes the
\* event out of pending_ring_snapshots_ reports it, the other does nothing.
SubmitRingSnapshot ==
  /\ selecting # NoEvent
  /\ selecting' = NoEvent
  /\ IF selecting \in pendingSnapshots
       THEN /\ pendingSnapshots' = pendingSnapshots \ {selecting}
            /\ mediaJobs' = mediaJobs \union {SnapshotJob(selecting)}
       ELSE UNCHANGED <<pendingSnapshots, mediaJobs>>
  /\ UNCHANGED <<storeVars, now, processVars, threadVars, reportJobs, networkVars,
                 activeRing, historyVars>>

\* register_started_recording: what the recorder records without a ring.
BeginPersonRecording ==
  /\ phase = "up"
  /\ \E r \in RecId : BeginRecording(r)
  /\ UNCHANGED <<now, processVars, threadVars, queueVars, networkVars, activeRing,
                 historyVars>>

\* begin_person_event, called by the inference thread.
BeginPersonEvent ==
  /\ phase = "up"
  /\ \E e \in EventId, r \in RecId :
       /\ CreatePersonEvent(e, r)
       /\ AddReport(EventOf(e))
  /\ UNCHANGED <<now, processVars, threadVars, mediaJobs, pendingSnapshots,
                 selecting, networkVars, activeRing, historyVars>>

-----------------------------------------------------------------------------
(* worker_loop.  Expired rings are looked for at the head of the outer     *)
(* loop only, that is once per job and not while the worker waits for one. *)

WorkerExpire ==
  /\ phase = "up"
  /\ worker.pc = "check"
  /\ \/ \E e \in EventId :
          /\ ExpireOpenRing(e, now)
          /\ worker' = [pc |-> "expired", event |-> e]
     \/ /\ StoreUntouched
        /\ worker' = [pc |-> "take", event |-> NoEvent]
  /\ UNCHANGED <<now, processVars, button, reporter, mqtt, queueVars,
                 networkVars, activeRing, historyVars>>

WorkerExpired ==
  /\ worker.pc = "expired"
  /\ LifecycleHandler(worker.event, "ended")
  /\ worker' = [pc |-> "take", event |-> NoEvent]
  /\ UNCHANGED <<storeVars, now, processVars, button, reporter, mqtt, queueVars,
                 networkVars, historyVars>>

\* Mutant of WorkerTake: the timeout prepares the event in any case.
WorkerTakeTwice(job) ==
  /\ worker.pc = "take"
  /\ job \in mediaJobs /\ job.ready
  /\ mediaJobs' = mediaJobs \ {job}
  /\ worker' = [pc |-> "prepare", event |-> job.event]
  /\ pendingSnapshots' = IF job.kind = "timeout"
                           THEN pendingSnapshots \ {job.event} ELSE pendingSnapshots
  /\ UNCHANGED <<storeVars, now, processVars, button, reporter, mqtt, selecting,
                 reportJobs, networkVars, activeRing, historyVars>>

\* A PrepareRingEvent job: the timeout does nothing if the snapshot came first.
WorkerTake(job) ==
  /\ worker.pc = "take"
  /\ job \in mediaJobs /\ job.ready
  /\ mediaJobs' = mediaJobs \ {job}
  /\ IF job.kind = "timeout" /\ job.event \notin pendingSnapshots
       THEN worker' = IdleWorker
       ELSE worker' = [pc |-> "prepare", event |-> job.event]
  /\ pendingSnapshots' = IF job.kind = "timeout"
                           THEN pendingSnapshots \ {job.event} ELSE pendingSnapshots
  /\ UNCHANGED <<storeVars, now, processVars, button, reporter, mqtt, selecting,
                 reportJobs, networkVars, activeRing, historyVars>>

\* Mutant of WorkerPrepare: a picture that cannot be saved ends the job.
WorkerPrepareOrGiveUp ==
  /\ worker.pc = "prepare"
  /\ AddReport(EventOf(worker.event)) \/ UNCHANGED reportJobs
  /\ worker' = IdleWorker
  /\ UNCHANGED <<storeVars, now, processVars, button, reporter, mqtt, mediaJobs,
                 pendingSnapshots, selecting, networkVars, activeRing, historyVars>>

\* The picture is saved and uploaded, or not: the event is reported anyway.
WorkerPrepare ==
  /\ worker.pc = "prepare"
  /\ AddReport(EventOf(worker.event))
  /\ worker' = IdleWorker
  /\ UNCHANGED <<storeVars, now, processVars, button, reporter, mqtt, mediaJobs,
                 pendingSnapshots, selecting, networkVars, activeRing, historyVars>>

\* A job of another kind (a segment, a finalization, a person snapshot).
WorkerOtherJob ==
  /\ worker.pc = "take"
  /\ worker' = IdleWorker
  /\ UNCHANGED <<storeVars, now, processVars, button, reporter, mqtt, queueVars,
                 networkVars, activeRing, historyVars>>

-----------------------------------------------------------------------------
(* report_worker_loop.                                                     *)

\* An event is published only while the table says it is unreported; a job
\* whose state cannot be read goes back (a stuttering step).
ReporterTake(k) ==
  /\ reporter.pc = "idle"
  /\ reportJobs[k] > 0
  /\ RemoveReport(k)
  /\ reporter' = IF k[2] = 0 /\ events[k[1]].reported # 0
                   THEN IdleReporter
                   ELSE [pc |-> "publish", job |-> k]
  /\ UNCHANGED <<storeVars, now, processVars, button, worker, mqtt, mediaJobs,
                 pendingSnapshots, selecting, networkVars, activeRing, historyVars>>

\* Mutant of ReporterPublishEvent: the job is dropped once it was published.
ReporterPublishEventOnce ==
  /\ reporter.pc = "publish"
  /\ reporter.job[2] = 0
  /\ \/ /\ outbox' = outbox \union {reporter.job}
        /\ UNCHANGED reportJobs
     \/ /\ AddReport(reporter.job)
        /\ UNCHANGED outbox
  /\ reporter' = IdleReporter
  /\ UNCHANGED <<storeVars, now, processVars, button, worker, mqtt, mediaJobs,
                 pendingSnapshots, selecting, delivered, activeRing, historyVars>>

\* publish_event queues the message in the MQTT client, or fails.  In either
\* case the job is kept until the business ACK.
ReporterPublishEvent ==
  /\ reporter.pc = "publish"
  /\ reporter.job[2] = 0
  /\ \/ outbox' = outbox \union {reporter.job}
     \/ UNCHANGED outbox
  /\ AddReport(reporter.job)
  /\ reporter' = IdleReporter
  /\ UNCHANGED <<storeVars, now, processVars, button, worker, mqtt, mediaJobs,
                 pendingSnapshots, selecting, delivered, activeRing, historyVars>>

\* A press is queued likewise, but then it counts as reported.
ReporterPublishPress ==
  /\ reporter.pc = "publish"
  /\ reporter.job[2] # 0
  /\ \/ /\ outbox' = outbox \union {reporter.job}
        /\ reporter' = [reporter EXCEPT !.pc = "mark"]
        /\ UNCHANGED reportJobs
     \/ /\ AddReport(reporter.job)
        /\ reporter' = IdleReporter
        /\ UNCHANGED outbox
  /\ UNCHANGED <<storeVars, now, processVars, button, worker, mqtt, mediaJobs,
                 pendingSnapshots, selecting, delivered, activeRing, historyVars>>

ReporterMark ==
  /\ reporter.pc = "mark"
  /\ \/ /\ MarkRingPressReported(reporter.job[1], reporter.job[2])
        /\ UNCHANGED reportJobs
     \/ /\ AddReport(reporter.job)
        /\ StoreUntouched
  /\ reporter' = IdleReporter
  /\ UNCHANGED <<now, processVars, button, worker, mqtt, mediaJobs, pendingSnapshots,
                 selecting, networkVars, activeRing, historyVars>>

-----------------------------------------------------------------------------
(* The MQTT session and the commands of the backend.                       *)

SendQueued(k) ==
  /\ k \in outbox
  /\ outbox' = outbox \ {k}
  /\ delivered' = delivered \union {k}
  /\ UNCHANGED <<storeVars, now, processVars, threadVars, queueVars, activeRing, historyVars>>

\* The session is lost: mqtt_loop destroys the client and what it had queued.
SessionLost ==
  /\ outbox # {}
  /\ outbox' = {}
  /\ UNCHANGED <<storeVars, now, processVars, threadVars, queueVars, delivered,
                 activeRing, historyVars>>

\* Mutant of HandleReportAck: any acknowledgement marks the event, also one
\* (the PUBACK of another publication) that says nothing about this event.
HandleReportAckOfAny(e) ==
  /\ phase = "up"
  /\ mqtt.pc = "idle"
  /\ MarkReported(e) \/ MarkUnreportable(e)
  /\ UNCHANGED <<now, processVars, threadVars, queueVars, networkVars, activeRing, historyVars>>

\* The business ACK of an event the backend received: success or a permanent
\* rejection.  (A retryable rejection and a failing store change nothing.)
HandleReportAck(e) ==
  /\ phase = "up"
  /\ mqtt.pc = "idle"
  /\ EventOf(e) \in delivered
  /\ MarkReported(e) \/ MarkUnreportable(e)
  /\ UNCHANGED <<now, processVars, threadVars, queueVars, networkVars, activeRing, historyVars>>

\* respond_ring and close_ring, for an event the backend has heard of.
RingCommand(e, state) ==
  /\ phase = "up"
  /\ mqtt.pc = "idle"
  /\ \E k \in delivered : k[1] = e
  /\ UpdateRingState(e, state)
  /\ mqtt' = [pc |-> "notify", event |-> e, state |-> state]
  /\ answered' = IF state = "accepted" THEN answered \union {e} ELSE answered
  /\ UNCHANGED <<now, processVars, button, worker, reporter, queueVars, networkVars,
                 activeRing, unread>>

RingNotify ==
  /\ mqtt.pc = "notify"
  /\ LifecycleHandler(mqtt.event, mqtt.state)
  /\ mqtt' = IdleMqtt
  /\ UNCHANGED <<storeVars, now, processVars, button, worker, reporter, queueVars,
                 networkVars, historyVars>>

-----------------------------------------------------------------------------
Button   == ButtonPress \/ ButtonExpired \/ ButtonRecord \/ ButtonEnqueue
              \/ ButtonNotify \/ ButtonArm
Worker   == WorkerExpire \/ WorkerExpired \/ WorkerPrepare \/ WorkerOtherJob
              \/ \E job \in MediaJob : WorkerTake(job)
Reporter == ReporterPublishEvent \/ ReporterPublishPress \/ ReporterMark
              \/ \E k \in Report : ReporterTake(k)
Backend  == SessionLost \/ RingNotify
              \/ \E k \in Report : SendQueued(k)
              \/ \E e \in EventId :
                   HandleReportAck(e) \/ \E state \in RingState : RingCommand(e, state)

Next ==
  \/ StartOpen \/ StartRecover \/ Die \/ Tick \/ SnapshotTimer
  \/ Button \/ SubmitRingSnapshot \/ BeginPersonRecording \/ BeginPersonEvent
  \/ Worker \/ Reporter \/ Backend

Spec == Init /\ [][Next]_vars

\* Threads that can run do run.  The queues are scanned from the front, so no
\* job waits for ever behind others, and what is tried again for ever succeeds
\* at last: the publication, the transaction, the answer of the backend.
ProcessFairness ==
  WF_vars(StartOpen) /\ WF_vars(StartRecover) /\ WF_vars(ButtonEnqueue)

EventFairness ==
  /\ WF_vars(SnapshotTimer)
  /\ WF_vars(WorkerExpire) /\ WF_vars(WorkerExpired) /\ WF_vars(WorkerPrepare)
  /\ WF_vars(ReporterPublishPress) /\ WF_vars(ReporterMark)
  /\ WF_vars(RingNotify)
  /\ SF_vars(\E job \in MediaJob : WorkerTake(job))
  /\ \A e \in EventId :
       /\ SF_vars(ReporterTake(EventOf(e)))
       /\ SF_vars(ReporterPublishEvent /\ reporter.job = EventOf(e)
                    /\ EventOf(e) \in outbox')
       /\ SF_vars(SendQueued(EventOf(e)))
       /\ SF_vars(HandleReportAck(e))

EventFairSpec == Spec /\ ProcessFairness /\ EventFairness

-----------------------------------------------------------------------------
(* Properties.                                                             *)

ReportInHand(k) == IF reporter.pc # "idle" /\ reporter.job = k THEN 1 ELSE 0

\* The snapshot and its timeout race for a ring event: exactly one of them
\* reports it, so an event never has two report jobs retrying side by side.
OneReportPerItem ==
  \A k \in Report :
    reportJobs[k] + ReportInHand(k)
      + (IF worker.pc = "prepare" /\ k = EventOf(worker.event) THEN 1 ELSE 0) <= 1

\* Who will still report an event: a queued or held job, the worker that
\* prepares it, a snapshot on its way, or the timeout that waits for one.
EventCarried(e) ==
  \/ reportJobs[EventOf(e)] > 0 \/ ReportInHand(EventOf(e)) = 1
  \/ worker.pc = "prepare" /\ worker.event = e
  \/ SnapshotJob(e) \in mediaJobs
  \/ e \in pendingSnapshots /\ \E ready \in BOOLEAN : TimeoutJob(e, ready) \in mediaJobs
  \/ button.pc = "enqueue" /\ button.event = e /\ button.seq = 1

PressCarried(k) ==
  \/ reportJobs[k] > 0 \/ ReportInHand(k) = 1
  \/ button.pc = "enqueue" /\ <<button.event, button.seq>> = k

\* While the process is up, no unreported row is forgotten: whatever the
\* order of snapshot, timeout, failed publication, ACK, death and restart,
\* somebody still holds the job that reports it.  The one exception is a row
\* that start() could not read.
NothingForgotten ==
  phase = "up" =>
    \A k \in Report : Unreported(k) /\ k \notin unread =>
      IF k[2] = 0 THEN EventCarried(k[1]) ELSE PressCarried(k)

\* "进程重启后媒体管线已经不存在，本地 accepted 事件必须先收敛，避免新按铃复用
\* 旧事件": a ring that is accepted was accepted in this life of the process,
\* so a new press never joins a call that died with an earlier one.
AcceptedInThisLife ==
  phase = "up" => \A e \in EventId : rings[e].state = "accepted" => e \in answered

\* Reporting an event is at-least-once delivery, settled by the business ACK.
EventDelivery == INSTANCE AtLeastOnce WITH
  Item     <- EventId,
  recorded <- {e \in EventId : events[e].kind # "none"},
  received <- {e \in EventId : EventOf(e) \in delivered},
  settled  <- {e \in EventId : events[e].reported # 0}

EventReporting == EventDelivery!Spec

\* Every event, person or ring, is settled in the end, through deaths, lost
\* publications and failing transactions, as long as these do not go on for
\* ever: the local row is the retry list of the backend.
EventsSettle ==
  \A e \in EventId :
    events[e].kind # "none" ~> events[e].reported # 0 \/ EventOf(e) \in unread

\* "只有后端业务 ACK 才能推进 reported；MQTT PUBACK 不改变本地状态": a press row
\* marked reported is one the backend has, or can still get.
ReportedPressArrives ==
  \A k \in EventId \X PressSeq :
    pressQueue[k] = "reported" => k \in delivered \/ k \in outbox
=============================================================================
