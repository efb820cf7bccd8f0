------------------------ MODULE RingReportingProofs ------------------------
(***************************************************************************)
(* RingReporting, proved for every number of events and presses, every     *)
(* deadline and any number of deaths of the process: it uses the store as  *)
(* EventStore allows, no unreported row is forgotten or reported twice     *)
(* over, and reporting is at-least-once delivery.                          *)
(***************************************************************************)
EXTENDS RingReporting, EventStoreProofs

-----------------------------------------------------------------------------
(* The inductive invariant.                                                *)

ButtonPc   == {"idle", "expired", "record", "enqueue", "notify", "arm"}
WorkerPc   == {"check", "expired", "take", "prepare"}
ReporterPc == {"idle", "publish", "mark"}
MqttPc     == {"idle", "notify"}
AnyEvent   == EventId \union {NoEvent}

ButtonStates ==
  [pc : ButtonPc, at : Time, event : AnyEvent, seq : 0..MaxPresses, state : RingState]

ThreadsTypeOK ==
  /\ button \in ButtonStates
  /\ worker \in [pc : WorkerPc, event : AnyEvent]
  /\ reporter \in [pc : ReporterPc, job : Report \union {<<NoEvent, 0>>}]
  /\ mqtt \in [pc : MqttPc, event : AnyEvent, state : RingState]

QueuesTypeOK ==
  /\ mediaJobs \subseteq MediaJob
  /\ pendingSnapshots \subseteq EventId
  /\ selecting \in AnyEvent
  /\ reportJobs \in [Report -> Nat]
  /\ outbox \subseteq Report
  /\ delivered \subseteq Report

\* A thread that is at work has an event, a press or a job in its hand.
HandsAreFull ==
  /\ button.pc \in {"expired", "enqueue", "notify", "arm"} => button.event \in EventId
  /\ button.pc = "enqueue" => button.seq \in PressSeq
  /\ worker.pc \in {"expired", "prepare"} => worker.event \in EventId
  /\ reporter.pc # "idle" => reporter.job \in Report
  /\ reporter.pc = "mark" => reporter.job[2] # 0
  /\ mqtt.pc = "notify" => mqtt.event \in EventId

TypeOK ==
  /\ now \in Time
  /\ phase \in {"down", "opened", "up"}
  /\ ThreadsTypeOK /\ QueuesTypeOK /\ HandsAreFull

\* While the process is not up, its threads and queues hold nothing.
DownIsIdle ==
  /\ isOpen <=> phase # "down"
  /\ phase # "up" =>
       /\ button = IdleButton /\ worker = IdleWorker
       /\ reporter = IdleReporter /\ mqtt = IdleMqtt
       /\ mediaJobs = {} /\ pendingSnapshots = {} /\ selecting = NoEvent
       /\ reportJobs = NoJobs /\ outbox = {}

Base == RingInv /\ TypeOK /\ DownIsIdle

\* Where the report of an event is: with the button thread, waiting for its
\* snapshot, chosen, with the worker, or queued for or held by the reporter.
Entering(e)  == button.pc = "enqueue" /\ button.event = e /\ button.seq = 1
Waiting(e)   == e \in pendingSnapshots
Chosen(e)    == SnapshotJob(e) \in mediaJobs
Preparing(e) == worker.pc = "prepare" /\ worker.event = e
Held(k)      == reporter.pc # "idle" /\ reporter.job = k
Reporting(k) == reportJobs[k] > 0 \/ Held(k)

\* Where a repeated press is: with the button thread, then as a report.
Pressed(k) == button.pc = "enqueue" /\ <<button.event, button.seq>> = k

Timed(e) == TimeoutJob(e, FALSE) \in mediaJobs \/ TimeoutJob(e, TRUE) \in mediaJobs

Carried(e) == Entering(e) \/ Waiting(e) \/ Chosen(e) \/ Preparing(e) \/ Reporting(EventOf(e))

\* A report is queued once or held, and an event or a press is in one place at
\* a time: the strengthening of OneReportPerItem that the steps preserve.
ReportedOnce == \A k \in Report : reportJobs[k] <= 1 /\ (Held(k) => reportJobs[k] = 0)

OnePlaceFor(e) ==
  /\ Entering(e)  => ~Waiting(e) /\ ~Chosen(e) /\ ~Preparing(e) /\ ~Reporting(EventOf(e))
  /\ Waiting(e)   => ~Chosen(e) /\ ~Preparing(e) /\ ~Reporting(EventOf(e))
  /\ Chosen(e)    => ~Preparing(e) /\ ~Reporting(EventOf(e))
  /\ Preparing(e) => ~Reporting(EventOf(e))

OnePlace == \A e \in EventId : OnePlaceFor(e)

OnePressPlace == \A k \in EventId \X PressSeq : Pressed(k) => ~Reporting(k)

\* Nothing is reported, sent or settled that has no row: a new event or a new
\* press starts in no place.
OnlyRows ==
  /\ \A e \in EventId : events[e].kind = "none" =>
       events[e].reported = 0 /\ ~Carried(e) /\ EventOf(e) \notin outbox \union delivered
  /\ \A e \in EventId, s \in PressSeq : s > rings[e].count =>
       ~Reporting(<<e, s>>) /\ ~Pressed(<<e, s>>)

\* An event that waits for its snapshot has its timeout running.
TimeoutRuns == \A e \in EventId : Waiting(e) => Timed(e)

PlaceInv == ReportedOnce /\ OnePlace /\ OnePressPlace /\ OnlyRows /\ TimeoutRuns

\* NothingForgotten in terms of these places.
Unforgotten ==
  phase = "up" =>
    /\ \A e \in EventId :
         events[e].kind # "none" /\ events[e].reported = 0 /\ EventOf(e) \notin unread => Carried(e)
    /\ \A k \in EventId \X PressSeq :
         pressQueue[k] = "queued" /\ k \notin unread => Pressed(k) \/ Reporting(k)

\* The inductive invariant.
ReportInv == Base /\ PlaceInv /\ AcceptedInThisLife /\ Unforgotten

USE DEF EventId, PressSeq, RecId, SegIndex, Time, NoEvent, NoRecording,
        RingState, Terminal, NoPress, Report, EventOf

-----------------------------------------------------------------------------
(* The store is used as EventStore allows.                                 *)

\* Every step is a transaction of the store, or leaves the tables alone.
LEMMA StepIsTransaction == TypeOK /\ [Next]_vars => [StoreNext]_storeVars
<1> SUFFICES ASSUME TypeOK, Next PROVE [StoreNext]_storeVars
  BY DEF vars
<1>1. ASSUME NEW e \in EventId, EventTransaction(e) PROVE StoreNext
  BY <1>1 DEF StoreNext
<1>2. CASE StartOpen \/ Die
  BY <1>2 DEF StartOpen, Die, StoreNext
<1>3. CASE StartRecover
  BY <1>1, <1>3 DEF StartRecover, RecoverRing, StoreUntouched, EventTransaction
<1>4. CASE ButtonPress \/ WorkerExpire
  BY <1>1, <1>4 DEF ButtonPress, WorkerExpire, StoreUntouched, EventTransaction, TypeOK
<1>5. CASE ButtonRecord
  <2>1. button.at \in Time
    BY DEF TypeOK, ThreadsTypeOK, ButtonStates
  <2> QED BY <1>1, <1>5, <2>1 DEF ButtonRecord, StoreUntouched, EventTransaction
<1>6. CASE BeginPersonRecording
  BY <1>6 DEF BeginPersonRecording, StoreNext, RecordingTransaction
<1>7. CASE BeginPersonEvent
  BY <1>1, <1>7 DEF BeginPersonEvent, EventTransaction
<1>8. CASE ReporterMark
  <2>1. reporter.job[1] \in EventId /\ reporter.job[2] \in PressSeq
    BY <1>8 DEF ReporterMark, TypeOK, HandsAreFull
  <2> QED BY <1>1, <1>8, <2>1 DEF ReporterMark, StoreUntouched, EventTransaction
<1>9. CASE Backend
  <2>1. ASSUME NEW e \in EventId, HandleReportAck(e) PROVE StoreNext
    BY <1>1, <2>1 DEF HandleReportAck, EventTransaction
  <2>2. ASSUME NEW e \in EventId, NEW state \in RingState, RingCommand(e, state)
        PROVE  StoreNext
    BY <1>1, <2>2 DEF RingCommand, EventTransaction
  <2>3. CASE SessionLost \/ RingNotify \/ \E k \in Report : SendQueued(k)
    BY <2>3 DEF SessionLost, RingNotify, SendQueued
  <2> QED BY <1>9, <2>1, <2>2, <2>3 DEF Backend
<1>10. CASE Tick \/ SnapshotTimer \/ SubmitRingSnapshot
  BY <1>10 DEF Tick, SnapshotTimer, SubmitRingSnapshot
<1>11. CASE ButtonExpired \/ ButtonEnqueue \/ ButtonNotify \/ ButtonArm
  BY <1>11 DEF ButtonExpired, ButtonEnqueue, ButtonNotify, ButtonArm
<1>12. CASE WorkerExpired \/ WorkerPrepare \/ WorkerOtherJob \/ \E job \in MediaJob : WorkerTake(job)
  BY <1>12 DEF WorkerExpired, WorkerPrepare, WorkerOtherJob, WorkerTake
<1>13. CASE ReporterPublishEvent \/ ReporterPublishPress \/ \E k \in Report : ReporterTake(k)
  BY <1>13 DEF ReporterPublishEvent, ReporterPublishPress, ReporterTake
<1> QED BY <1>2, <1>3, <1>4, <1>5, <1>6, <1>7, <1>8, <1>9, <1>10, <1>11, <1>12, <1>13
        DEF Next, Button, Worker, Reporter

-----------------------------------------------------------------------------
(* Types.                                                                  *)

\* A report is added to and taken from its own counter only.
LEMMA ReportAdded ==
  ASSUME reportJobs \in [Report -> Nat], NEW k \in Report, AddReport(k)
  PROVE  /\ reportJobs' \in [Report -> Nat]
         /\ \A j \in Report :
              reportJobs'[j] = IF j = k THEN reportJobs[j] + 1 ELSE reportJobs[j]
  BY DEF AddReport

LEMMA ReportRemoved ==
  ASSUME reportJobs \in [Report -> Nat], NEW k \in Report, RemoveReport(k), reportJobs[k] > 0
  PROVE  /\ reportJobs' \in [Report -> Nat]
         /\ \A j \in Report :
              reportJobs'[j] = IF j = k THEN reportJobs[j] - 1 ELSE reportJobs[j]
  BY DEF RemoveReport

LEMMA ButtonUpdate ==
  ASSUME NEW b \in ButtonStates
  PROVE  /\ \A pc \in ButtonPc : [b EXCEPT !.pc = pc] \in ButtonStates
         /\ \A at \in Time : [b EXCEPT !.at = at] \in ButtonStates
         /\ \A e \in AnyEvent : [b EXCEPT !.event = e] \in ButtonStates
         /\ \A seq \in 0..MaxPresses : [b EXCEPT !.seq = seq] \in ButtonStates
         /\ \A state \in RingState : [b EXCEPT !.state = state] \in ButtonStates
  BY DEF ButtonStates

\* The updates of the button thread that change several fields at once.
LEMMA ButtonUpdates ==
  ASSUME NEW b \in ButtonStates, NEW pc \in ButtonPc, NEW e \in AnyEvent
  PROVE  /\ [b EXCEPT !.pc = pc, !.event = e] \in ButtonStates
         /\ \A at \in Time : [b EXCEPT !.pc = pc, !.at = at, !.event = e] \in ButtonStates
         /\ \A at \in Time : [b EXCEPT !.pc = pc, !.at = at] \in ButtonStates
         /\ \A seq \in 0..MaxPresses, state \in RingState :
              [b EXCEPT !.pc = pc, !.event = e, !.seq = seq, !.state = state] \in ButtonStates
<1>1. [b EXCEPT !.pc = pc] \in ButtonStates
  BY ButtonUpdate
<1>2. [b EXCEPT !.pc = pc, !.event = e] \in ButtonStates
  BY <1>1, ButtonUpdate
<1>3. ASSUME NEW at \in Time
      PROVE  /\ [b EXCEPT !.pc = pc, !.at = at] \in ButtonStates
             /\ [b EXCEPT !.pc = pc, !.at = at, !.event = e] \in ButtonStates
  <2>1. [b EXCEPT !.pc = pc, !.at = at] \in ButtonStates
    BY <1>1, ButtonUpdate
  <2> QED BY <2>1, ButtonUpdate
<1>4. ASSUME NEW seq \in 0..MaxPresses, NEW state \in RingState
      PROVE  [b EXCEPT !.pc = pc, !.event = e, !.seq = seq, !.state = state] \in ButtonStates
  <2>1. [b EXCEPT !.pc = pc, !.event = e, !.seq = seq] \in ButtonStates
    BY <1>2, ButtonUpdate
  <2> QED BY <2>1, ButtonUpdate
<1> QED BY <1>2, <1>3, <1>4

LEMMA JobTypes ==
  \A e \in EventId :
    /\ TimeoutJob(e, FALSE) \in MediaJob /\ TimeoutJob(e, TRUE) \in MediaJob
    /\ SnapshotJob(e) \in MediaJob
  BY DEF MediaJob, TimeoutJob, SnapshotJob

LEMMA IdleTypes ==
  /\ IdleButton \in ButtonStates
  /\ IdleWorker \in [pc : WorkerPc, event : AnyEvent]
  /\ IdleReporter \in [pc : ReporterPc, job : Report \union {<<NoEvent, 0>>}]
  /\ IdleMqtt \in [pc : MqttPc, event : AnyEvent, state : RingState]
  /\ NoJobs \in [Report -> Nat]
<1>1. IdleButton \in ButtonStates
  BY EventStoreAssumption DEF IdleButton, ButtonPc, AnyEvent, ButtonStates
<1>2. IdleWorker \in [pc : WorkerPc, event : AnyEvent]
  BY DEF IdleWorker, WorkerPc, AnyEvent
<1>3. IdleReporter \in [pc : ReporterPc, job : Report \union {<<NoEvent, 0>>}]
  BY DEF IdleReporter, ReporterPc
<1>4. IdleMqtt \in [pc : MqttPc, event : AnyEvent, state : RingState]
  BY DEF IdleMqtt, MqttPc, AnyEvent
<1> QED BY <1>1, <1>2, <1>3, <1>4 DEF NoJobs

LEMMA ButtonTypes == RingInv /\ TypeOK /\ Button => TypeOK'
<1> SUFFICES ASSUME RingInv, TypeOK, Button PROVE TypeOK'
  OBVIOUS
<1> USE IdleTypes DEF TypeOK, ThreadsTypeOK, QueuesTypeOK, processVars, threadVars, queueVars,
        networkVars
<1>1. CASE ButtonPress
  <2>1. button' \in ButtonStates
    <3>1. "expired" \in ButtonPc /\ "record" \in ButtonPc /\ NoEvent \in AnyEvent
      BY DEF ButtonPc, AnyEvent
    <3>2. ASSUME NEW e \in EventId
          PROVE  [IdleButton EXCEPT !.pc = "expired", !.at = now, !.event = e] \in ButtonStates
      <4>1. e \in AnyEvent
        BY DEF AnyEvent
      <4> QED BY <3>1, <4>1, ButtonUpdates
    <3>3. [IdleButton EXCEPT !.pc = "record", !.at = now] \in ButtonStates
      BY <3>1, ButtonUpdates
    <3>4. ASSUME NEW e \in EventId,
                 button' = [IdleButton EXCEPT !.pc = "expired", !.at = now, !.event = e]
          PROVE  button' \in ButtonStates
      BY <3>2, <3>4
    <3>5. CASE button' = [IdleButton EXCEPT !.pc = "record", !.at = now]
      BY <3>3, <3>5
    <3> QED BY <1>1, <3>4, <3>5 DEF ButtonPress
  <2>2. \/ button'.pc = "record"
        \/ button'.pc = "expired" /\ button'.event \in EventId
    BY <1>1 DEF ButtonPress, IdleButton
  <2> QED BY <1>1, <2>1, <2>2 DEF ButtonPress, HandsAreFull
<1>2. CASE ButtonExpired
  <2>1. button' \in ButtonStates
    BY <1>2, ButtonUpdates DEF ButtonExpired, ButtonPc, AnyEvent
  <2>2. button'.pc = "record"
    BY <1>2 DEF ButtonExpired, ButtonStates
  <2> QED BY <1>2, <2>1, <2>2 DEF ButtonExpired, HandsAreFull
<1>3. CASE ButtonRecord
  <2>1. ASSUME NEW e \in EventId, RecordRepeatPress(e, button.at),
               button' = [button EXCEPT !.pc = "enqueue", !.event = e,
                            !.seq = rings[e].count + 1, !.state = rings[e].state]
        PROVE  TypeOK'
    <3>1. rings[e].count + 1 \in PressSeq /\ rings[e].state \in RingState
      BY <2>1, RingRow, EventStoreAssumption DEF RecordRepeatPress, ActiveRings, RingInv
    <3>2. button' \in ButtonStates
      <4>1. "enqueue" \in ButtonPc /\ e \in AnyEvent /\ rings[e].count + 1 \in 0..MaxPresses
        BY <3>1, EventStoreAssumption DEF ButtonPc, AnyEvent
      <4> QED BY <2>1, <3>1, <4>1, ButtonUpdates
    <3>3. button'.event = e /\ button'.seq = rings[e].count + 1
      BY <2>1 DEF ButtonStates
    <3> QED BY <1>3, <3>1, <3>2, <3>3 DEF ButtonRecord, HandsAreFull
  <2>2. ASSUME NEW e \in EventId,
               button' = [button EXCEPT !.pc = "enqueue", !.event = e,
                            !.seq = 1, !.state = "ringing"]
        PROVE  TypeOK'
    <3>1. 1 \in PressSeq /\ "ringing" \in RingState
      BY EventStoreAssumption
    <3>2. button' \in ButtonStates
      <4>1. "enqueue" \in ButtonPc /\ e \in AnyEvent /\ 1 \in 0..MaxPresses
        BY EventStoreAssumption DEF ButtonPc, AnyEvent
      <4> QED BY <2>2, <3>1, <4>1, ButtonUpdates
    <3>3. button'.event = e /\ button'.seq = 1
      BY <2>2 DEF ButtonStates
    <3> QED BY <1>3, <3>1, <3>2, <3>3 DEF ButtonRecord, HandsAreFull
  <2>3. CASE button' = IdleButton
    BY <1>3, <2>3 DEF ButtonRecord, HandsAreFull, IdleButton
  <2> QED BY <1>3, <2>1, <2>2, <2>3 DEF ButtonRecord
<1>4. CASE ButtonEnqueue
  <2>1. button.event \in EventId /\ button.seq \in PressSeq
    BY <1>4 DEF ButtonEnqueue, HandsAreFull
  <2>2. mediaJobs' \subseteq MediaJob /\ pendingSnapshots' \subseteq EventId
    <3>1. TimeoutJob(button.event, FALSE) \in MediaJob
      BY <2>1, JobTypes
    <3> QED BY <1>4, <2>1, <3>1 DEF ButtonEnqueue
  <2>3. reportJobs' \in [Report -> Nat]
    BY <1>4, <2>1, ReportAdded DEF ButtonEnqueue
  <2> QED BY <1>4, <2>1, <2>2, <2>3 DEF ButtonEnqueue, HandsAreFull, ButtonPc, ButtonStates
<1>5. CASE ButtonNotify
  BY <1>5 DEF ButtonNotify, HandsAreFull, ButtonPc, IdleButton, ButtonStates
<1>6. CASE ButtonArm
  BY <1>6 DEF ButtonArm, HandsAreFull, ButtonPc, IdleButton, AnyEvent
<1> QED BY <1>1, <1>2, <1>3, <1>4, <1>5, <1>6 DEF Button

LEMMA WorkerTypes == TypeOK /\ Worker => TypeOK'
<1> SUFFICES ASSUME TypeOK, Worker PROVE TypeOK'
  OBVIOUS
<1> USE IdleTypes DEF TypeOK, ThreadsTypeOK, QueuesTypeOK, processVars, threadVars, queueVars,
        networkVars
<1>1. CASE WorkerExpire
  BY <1>1 DEF WorkerExpire, HandsAreFull, WorkerPc, AnyEvent
<1>2. CASE WorkerExpired
  BY <1>2 DEF WorkerExpired, HandsAreFull, WorkerPc, AnyEvent
<1>3. CASE WorkerPrepare
  <2>1. EventOf(worker.event) \in Report
    BY <1>3 DEF WorkerPrepare, HandsAreFull
  <2> QED BY <1>3, <2>1, ReportAdded DEF WorkerPrepare, HandsAreFull, IdleWorker
<1>4. CASE WorkerOtherJob
  BY <1>4 DEF WorkerOtherJob, HandsAreFull, IdleWorker
<1>5. ASSUME NEW job \in MediaJob, WorkerTake(job) PROVE TypeOK'
  <2>1. job.event \in EventId
    BY DEF MediaJob
  <2>2. mediaJobs' \subseteq MediaJob /\ pendingSnapshots' \subseteq EventId
    BY <1>5 DEF WorkerTake
  <2>3. worker' \in [pc : WorkerPc, event : AnyEvent]
    BY <1>5, <2>1 DEF WorkerTake, WorkerPc, AnyEvent
  <2> QED BY <1>5, <2>1, <2>2, <2>3 DEF WorkerTake, HandsAreFull, IdleWorker
<1> QED BY <1>1, <1>2, <1>3, <1>4, <1>5 DEF Worker

LEMMA ReporterTypes == TypeOK /\ Reporter => TypeOK'
<1> SUFFICES ASSUME TypeOK, Reporter PROVE TypeOK'
  OBVIOUS
<1> USE IdleTypes DEF TypeOK, ThreadsTypeOK, QueuesTypeOK, processVars, threadVars, queueVars,
        networkVars
<1>1. CASE ReporterPublishEvent
  <2>1. reporter.job \in Report
    BY <1>1 DEF ReporterPublishEvent, HandsAreFull
  <2> QED BY <1>1, <2>1, ReportAdded DEF ReporterPublishEvent, HandsAreFull, IdleReporter
<1>2. CASE ReporterPublishPress
  <2>1. reporter.job \in Report
    BY <1>2 DEF ReporterPublishPress, HandsAreFull
  <2> QED BY <1>2, <2>1, ReportAdded
          DEF ReporterPublishPress, HandsAreFull, IdleReporter, ReporterPc
<1>3. CASE ReporterMark
  <2>1. reporter.job \in Report
    BY <1>3 DEF ReporterMark, HandsAreFull
  <2> QED BY <1>3, <2>1, ReportAdded DEF ReporterMark, HandsAreFull, IdleReporter, networkVars
<1>4. ASSUME NEW k \in Report, ReporterTake(k) PROVE TypeOK'
  BY <1>4, ReportRemoved
     DEF ReporterTake, HandsAreFull, IdleReporter, ReporterPc, networkVars
<1> QED BY <1>1, <1>2, <1>3, <1>4 DEF Reporter

LEMMA BackendTypes == TypeOK /\ Backend => TypeOK'
<1> SUFFICES ASSUME TypeOK, Backend PROVE TypeOK'
  OBVIOUS
<1> USE IdleTypes DEF TypeOK, ThreadsTypeOK, QueuesTypeOK, processVars, threadVars, queueVars,
        networkVars, HandsAreFull, MqttPc, AnyEvent
<1>1. CASE SessionLost \/ RingNotify
  BY <1>1 DEF SessionLost, RingNotify, IdleMqtt
<1>2. ASSUME NEW k \in Report, SendQueued(k) PROVE TypeOK'
  BY <1>2 DEF SendQueued
<1>3. ASSUME NEW e \in EventId, HandleReportAck(e) PROVE TypeOK'
  BY <1>3 DEF HandleReportAck
<1>4. ASSUME NEW e \in EventId, NEW state \in RingState, RingCommand(e, state) PROVE TypeOK'
  BY <1>4 DEF RingCommand
<1> QED BY <1>1, <1>2, <1>3, <1>4 DEF Backend

LEMMA StepTyped == RingInv /\ TypeOK /\ [Next]_vars => TypeOK'
<1> SUFFICES ASSUME RingInv, TypeOK, [Next]_vars PROVE TypeOK'
  OBVIOUS
<1> USE IdleTypes DEF TypeOK, ThreadsTypeOK, QueuesTypeOK, processVars, threadVars, queueVars,
        networkVars
<1>1. CASE StartOpen \/ BeginPersonRecording
  BY <1>1 DEF StartOpen, BeginPersonRecording, threadVars, queueVars, networkVars, HandsAreFull, processVars
<1>2. CASE StartRecover
  <2>1. reportJobs' \in [Report -> Nat]
    BY <1>2 DEF StartRecover, QueuePending
  <2> QED BY <1>2, <2>1 DEF StartRecover, threadVars, networkVars, HandsAreFull
<1>3. CASE Die
  BY <1>3 DEF Die, HandsAreFull, IdleButton, IdleWorker, IdleReporter, IdleMqtt, AnyEvent
<1>4. CASE Tick \/ SnapshotTimer \/ SubmitRingSnapshot
  <2>1. CASE Tick
    BY <2>1, EventStoreAssumption DEF Tick, HandsAreFull
  <2>2. CASE SnapshotTimer
    BY <2>2, JobTypes DEF SnapshotTimer, HandsAreFull
  <2>3. CASE SubmitRingSnapshot
    <3>1. selecting \in EventId
      BY <2>3 DEF SubmitRingSnapshot, AnyEvent
    <3>2. SnapshotJob(selecting) \in MediaJob
      BY <3>1, JobTypes
    <3>3. selecting' \in AnyEvent
      BY <2>3 DEF SubmitRingSnapshot, AnyEvent
    <3> QED BY <2>3, <3>2, <3>3 DEF SubmitRingSnapshot, HandsAreFull
  <2> QED BY <1>4, <2>1, <2>2, <2>3
<1>5. CASE BeginPersonEvent
  <2>1. PICK e \in EventId : AddReport(EventOf(e))
    BY <1>5 DEF BeginPersonEvent
  <2> QED BY <1>5, <2>1, ReportAdded
          DEF BeginPersonEvent, processVars, threadVars, networkVars, HandsAreFull
<1>6. CASE UNCHANGED vars
  BY <1>6 DEF vars, processVars, threadVars, queueVars, networkVars, HandsAreFull
<1> QED BY <1>1, <1>2, <1>3, <1>4, <1>5, <1>6, ButtonTypes, WorkerTypes, ReporterTypes,
           BackendTypes DEF Next

-----------------------------------------------------------------------------
(* A process that is not up does nothing.                                  *)

\* What the threads of a process do, they do while it is up, and leave it so.
ProcessStep == SnapshotTimer \/ Button \/ SubmitRingSnapshot \/ BeginPersonRecording
                 \/ BeginPersonEvent \/ Worker \/ Reporter \/ Backend

LEMMA OnlyWhenUp == Base /\ ProcessStep => phase = "up" /\ UNCHANGED <<phase, isOpen>>
<1> SUFFICES ASSUME Base, ProcessStep PROVE phase = "up" /\ UNCHANGED <<phase, isOpen>>
  OBVIOUS
<1>0. \/ phase = "up"
      \/ /\ button.pc = "idle" /\ worker.pc = "check" /\ reporter.pc = "idle"
         /\ mqtt.pc = "idle" /\ mediaJobs = {} /\ selecting = NoEvent /\ outbox = {}
         /\ \A k \in Report : reportJobs[k] = 0
  BY DEF Base, DownIsIdle, IdleButton, IdleWorker, IdleReporter, IdleMqtt, NoJobs
<1> USE <1>0 DEF processVars
<1>1. CASE SnapshotTimer
  BY <1>1 DEF SnapshotTimer, storeVars
<1>2. CASE Button
  <2>1. phase = "up" /\ UNCHANGED phase
    BY <1>2 DEF Button, ButtonPress, ButtonExpired, ButtonRecord, ButtonEnqueue,
                ButtonNotify, ButtonArm
  <2>2. UNCHANGED isOpen
    BY <1>2 DEF Button, ButtonPress, ButtonExpired, ButtonRecord, ButtonEnqueue,
                ButtonNotify, ButtonArm, StoreUntouched, storeVars, ExpireOpenRing,
                SetRingState, RecordRepeatPress, RecordInitialPress
  <2> QED BY <2>1, <2>2
<1>3. CASE SubmitRingSnapshot
  BY <1>3 DEF SubmitRingSnapshot, storeVars
<1>4. CASE BeginPersonRecording \/ BeginPersonEvent
  BY <1>4 DEF BeginPersonRecording, BeginPersonEvent, BeginRecording, CreatePersonEvent
<1>5. CASE Worker
  BY <1>5 DEF Worker, WorkerExpire, WorkerExpired, WorkerPrepare, WorkerOtherJob,
              WorkerTake, StoreUntouched, storeVars, ExpireOpenRing, SetRingState
<1>6. CASE Reporter
  BY <1>6 DEF Reporter, ReporterPublishEvent, ReporterPublishPress, ReporterMark,
              ReporterTake, StoreUntouched, storeVars, MarkRingPressReported
<1>7. CASE Backend
  BY <1>7 DEF Backend, SessionLost, RingNotify, SendQueued, HandleReportAck, RingCommand,
              storeVars, MarkReported, MarkUnreportable, SetReported, UpdateRingState,
              SetRingState
<1> QED BY <1>1, <1>2, <1>3, <1>4, <1>5, <1>6, <1>7 DEF ProcessStep

LEMMA BaseInit == Init => Base
<1> SUFFICES ASSUME Init PROVE Base
  OBVIOUS
<1> USE DEF Init
<1>1. RingInv /\ isOpen = FALSE
  BY InitRings DEF StoreInit
<1>2. TypeOK
  BY IdleTypes, EventStoreAssumption
     DEF TypeOK, ThreadsTypeOK, QueuesTypeOK, HandsAreFull, AnyEvent, IdleButton,
         IdleWorker, IdleReporter, IdleMqtt
<1> QED BY <1>1, <1>2 DEF Base, DownIsIdle

LEMMA BaseStep == Base /\ [Next]_vars => Base'
<1> SUFFICES ASSUME Base, [Next]_vars PROVE Base'
  OBVIOUS
<1>1. RingInv' /\ TypeOK'
  BY StepIsTransaction, StepRings, StepTyped DEF Base
<1>2. DownIsIdle'
  <2> USE DEF Base, DownIsIdle
  <2>1. CASE StartOpen
    BY <2>1 DEF StartOpen, Open, threadVars, queueVars, networkVars
  <2>2. CASE StartRecover
    <3>1. phase' = "up" /\ phase # "down"
      BY <2>2 DEF StartRecover
    <3>2. UNCHANGED isOpen
      BY <2>2 DEF StartRecover, RecoverRing, RecoverStaleAcceptedRing, SetRingState,
                  StoreUntouched, storeVars
    <3> QED BY <3>1, <3>2
  <2>3. CASE Die
    BY <2>3 DEF Die, Close
  <2>4. CASE Tick \/ UNCHANGED vars
    BY <2>4 DEF Tick, vars, storeVars, processVars, threadVars, queueVars, networkVars
  <2>5. CASE ProcessStep
    BY <2>5, OnlyWhenUp
  <2> QED BY <2>1, <2>2, <2>3, <2>4, <2>5 DEF Next, ProcessStep
<1> QED BY <1>1, <1>2 DEF Base

LEMMA BaseHolds == Spec => []Base
<1> QED BY BaseInit, BaseStep, PTL DEF Spec

\* The event processor only ever uses the store as its interface allows: what
\* is proved of EventStore holds of the tables of the running doorbell.
THEOREM ReportingUsesTheStore == Spec => StoreSpec
<1>1. Init => StoreInit
  BY DEF Init
<1>2. Base /\ [Next]_vars => [StoreNext]_storeVars
  BY StepIsTransaction DEF Base
<1> QED BY <1>1, <1>2, BaseHolds, PTL DEF Spec, StoreSpec

\* In particular no press, command or restart opens a ring beside another one.
THEOREM ReportingKeepsOneRing == Spec => []OneActiveRing
  BY ReportingUsesTheStore, OneRingAtATime, PTL

\* No step of the event processor takes a press, an event or a report back.
THEOREM ReportingKeepsHistory == Spec => HistoryIsKept
  BY ReportingUsesTheStore, HistoryIsNeverLost, PTL

-----------------------------------------------------------------------------
(* Rings accepted by a process that is gone.                               *)

AcceptedKept ==
  \A e \in EventId : rings'[e].state = "accepted" => rings[e].state = "accepted"

LEMMA AcceptedStep == Base /\ AcceptedInThisLife /\ [Next]_vars => AcceptedInThisLife'
<1> SUFFICES ASSUME Base, AcceptedInThisLife, [Next]_vars, phase' = "up"
             PROVE  \A e \in EventId : rings'[e].state = "accepted" => e \in answered'
  BY DEF AcceptedInThisLife
<1>1. StoreTypeOK /\ rings \in RingRows
  BY DEF Base, RingInv, StoreTypeOK
<1>2. CASE StartRecover
  <2>1. ASSUME NEW e \in EventId, RecoverStaleAcceptedRing(e)
        PROVE  \A f \in EventId : rings'[f].state # "accepted"
    <3>1. \A f \in EventId : rings[f].state = "accepted" => f = e
      BY <2>1 DEF RecoverStaleAcceptedRing, Base, RingInv, OneActiveRing, ActiveRings
    <3>2. \A f \in EventId : rings'[f].state = IF f = e THEN "ended" ELSE rings[f].state
      BY <1>1, <2>1 DEF RecoverStaleAcceptedRing, SetRingState, RingRows
    <3> QED BY <3>1, <3>2
  <2>2. ASSUME StoreUntouched, \A e \in EventId : rings[e].state # "accepted"
        PROVE  \A f \in EventId : rings'[f].state # "accepted"
    BY <2>2 DEF StoreUntouched, storeVars
  <2> QED BY <1>2, <2>1, <2>2 DEF StartRecover, RecoverRing
<1>3. ASSUME AcceptedKept, answered \subseteq answered', phase = "up"
      PROVE  \A e \in EventId : rings'[e].state = "accepted" => e \in answered'
  BY <1>3 DEF AcceptedInThisLife, AcceptedKept
<1>4. CASE Tick \/ UNCHANGED vars
  BY <1>3, <1>4 DEF Tick, vars, AcceptedKept, storeVars, processVars, historyVars
<1>5. CASE ProcessStep
  <2>1. phase = "up"
    BY <1>5, OnlyWhenUp
  <2>2. ASSUME NEW e \in EventId, NEW state \in RingState, RingCommand(e, state)
        PROVE  \A f \in EventId : rings'[f].state = "accepted" => f \in answered'
    <3>1. \A f \in EventId : rings'[f].state = IF f = e THEN state ELSE rings[f].state
      BY <1>1, <2>2 DEF RingCommand, UpdateRingState, SetRingState, RingRows
    <3>2. answered' = IF state = "accepted" THEN answered \union {e} ELSE answered
      BY <2>2 DEF RingCommand
    <3> QED BY <2>1, <3>1, <3>2 DEF AcceptedInThisLife
  <2>3. ASSUME ~\E e \in EventId, state \in RingState : RingCommand(e, state)
        PROVE  AcceptedKept /\ UNCHANGED answered
    <3>1. UNCHANGED answered
      BY <1>5, <2>3 DEF ProcessStep, SnapshotTimer, Button, ButtonPress, ButtonExpired,
           ButtonRecord, ButtonEnqueue, ButtonNotify, ButtonArm, SubmitRingSnapshot,
           BeginPersonRecording, BeginPersonEvent, Worker, WorkerExpire, WorkerExpired,
           WorkerPrepare, WorkerOtherJob, WorkerTake, Reporter, ReporterPublishEvent,
           ReporterPublishPress, ReporterMark, ReporterTake, Backend, SessionLost,
           RingNotify, SendQueued, HandleReportAck, historyVars
    <3>2. AcceptedKept
      <4>1. CASE UNCHANGED rings
        BY <4>1 DEF AcceptedKept
      <4>2. CASE Button \/ WorkerExpire
        <5>1. ASSUME NEW e \in EventId, ExpireOpenRing(e, now) PROVE AcceptedKept
          BY <1>1, <5>1 DEF ExpireOpenRing, SetRingState, RingRows, AcceptedKept
        <5>2. ASSUME NEW e \in EventId, RecordRepeatPress(e, button.at) PROVE AcceptedKept
          BY <1>1, <5>2 DEF RecordRepeatPress, RingRows, AcceptedKept
        <5>3. ASSUME NEW e \in EventId, NEW known, NEW r,
                     RecordInitialPress(e, known, r, button.at)
              PROVE  AcceptedKept
          BY <1>1, <5>3 DEF RecordInitialPress, RingRows, AcceptedKept
        <5> QED
          BY <4>1, <4>2, <5>1, <5>2, <5>3 DEF Button, ButtonPress, ButtonExpired,
             ButtonRecord, ButtonEnqueue, ButtonNotify, ButtonArm, WorkerExpire,
             StoreUntouched, storeVars
      <4> QED
        BY <1>5, <2>3, <4>1, <4>2 DEF ProcessStep, SnapshotTimer, SubmitRingSnapshot,
             BeginPersonRecording, BeginPersonEvent, Worker, WorkerExpired, WorkerPrepare,
             WorkerOtherJob, WorkerTake, Reporter, ReporterPublishEvent,
             ReporterPublishPress, ReporterMark, ReporterTake, Backend, SessionLost,
             RingNotify, SendQueued, HandleReportAck, StoreUntouched, storeVars,
             BeginRecording, CreatePersonEvent, MarkRingPressReported, MarkReported,
             MarkUnreportable, SetReported
    <3> QED BY <3>1, <3>2
  <2> QED BY <1>3, <2>1, <2>2, <2>3
<1> QED BY <1>2, <1>4, <1>5 DEF Next, ProcessStep, StartOpen, Die

-----------------------------------------------------------------------------
(* Where a report is.                                                      *)

\* A new event takes a number that has no row.
LEMMA NewEvents ==
  ASSUME RingInv, NEW e \in EventId, NEW kind \in {"person", "ring"}, NEW r,
         e = sequence + 1, InsertEvent(e, kind, r)
  PROVE  /\ events[e].kind = "none" /\ events'[e].kind = kind
         /\ \A f \in EventId : f # e => events'[f] = events[f]
<1>1. events \in EventRows /\ sequence \in Nat
  BY DEF RingInv, StoreTypeOK
<1>2. events[e].kind = "none"
  BY <1>1 DEF RingInv, EventsAreAnchored
<1> QED BY <1>1, <1>2 DEF InsertEvent, EventRows

\* Rows are added and settled for good; a row that is not there is not settled.
RowsGrow ==
  \A e \in EventId :
    /\ events[e].kind # "none" /\ events[e].reported # 0 => events'[e].reported # 0
    /\ events'[e].kind = "none" => /\ events[e].kind = "none"
                                   /\ events'[e].reported = events[e].reported
    /\ \A s \in PressSeq : s > rings'[e].count => s > rings[e].count

LEMMA StoreRowsGrow == RingInv /\ [StoreNext]_storeVars => RowsGrow
<1> SUFFICES ASSUME RingInv, [StoreNext]_storeVars PROVE RowsGrow
  OBVIOUS
<1>1. events \in EventRows /\ \A e \in EventId : rings[e].count \in Nat
  BY RingRow DEF RingInv, StoreTypeOK
<1>2. CASE UNCHANGED <<events, rings>>
  BY <1>2 DEF RowsGrow
<1>3. ASSUME NEW e \in EventId, EventTransaction(e) PROVE RowsGrow
  <2>1. \A f \in EventId :
          /\ events[f].kind # "none" /\ events[f].reported # 0 => events'[f].reported # 0
          /\ events'[f].kind = "none" => events'[f] = events[f]
    <3> DEFINE Kept == \A f \in EventId :
                 /\ events[f].kind # "none" /\ events[f].reported # 0 => events'[f].reported # 0
                 /\ events'[f].kind = "none" => events'[f] = events[f]
    <3>1. ASSUME NEW kind \in {"person", "ring"}, NEW r, e = sequence + 1, InsertEvent(e, kind, r)
          PROVE  Kept
      <4>1. events[e].kind = "none" /\ events'[e].kind = kind
        BY <3>1, NewEvents
      <4>2. \A f \in EventId : f # e => events'[f] = events[f]
        BY <3>1, NewEvents
      <4> QED BY <4>1, <4>2
    <3>2. ASSUME NEW value \in {-1, 1}, SetReported(e, value) PROVE Kept
      BY <1>1, <3>2 DEF SetReported, EventRows
    <3>3. CASE UNCHANGED events
      BY <3>3
    <3> HIDE DEF Kept
    <3> QED
      BY <1>3, <3>1, <3>2, <3>3 DEF EventTransaction, CreatePersonEvent, RecordRepeatPress,
         RecordInitialPress, ExpireOpenRing, UpdateRingState, RecoverStaleAcceptedRing,
         SetRingState, MarkRingPressReported, MarkReported, MarkUnreportable, Kept
  <2>2. CountsKept
    BY <1>3, CountsAreKept
  <2>3. \A f \in EventId : rings'[f].count \in Nat
    <3>1. StoreTypeOK'
      BY <1>3, EventStepTypes DEF RingInv
    <3>2. rings' \in RingRows
      BY <3>1 DEF StoreTypeOK
    <3> QED BY <3>2 DEF RingRows
  <2> QED BY <1>1, <2>1, <2>2, <2>3 DEF CountsKept, RowsGrow
<1> QED BY <1>2, <1>3 DEF StoreNext, Open, Close, storeVars, RecordingTransaction,
           BeginRecording, AppendRecordingSegment, FinalizeRecording, CompleteRecording

\* A step takes no event and no press out of the hands of those who report it.
CarriedOn ==
  /\ \A e \in EventId : Carried(e) \/ events[e].kind = "none" =>
       Carried(e)' \/ events'[e].reported # 0 \/ events'[e].kind = "none"
  /\ \A k \in EventId \X PressSeq :
       Pressed(k) \/ Reporting(k) \/ pressQueue[k] # "queued" =>
         Pressed(k)' \/ Reporting(k)' \/ pressQueue'[k] # "queued"

NoNewRow ==
  /\ \A e \in EventId : /\ events[e].kind = "none" => events'[e].kind = "none"
                        /\ events[e].reported # 0 => events'[e].reported # 0
  /\ \A k \in EventId \X PressSeq : pressQueue'[k] = "queued" => pressQueue[k] = "queued"

SamePlaces ==
  /\ \A e \in EventId :
       /\ Entering(e)' <=> Entering(e)
       /\ Waiting(e)' <=> Waiting(e)
       /\ Chosen(e)' <=> Chosen(e)
       /\ Preparing(e)' <=> Preparing(e)
       /\ Timed(e) => Timed(e)'
  /\ \A k \in Report : Reporting(k)' <=> Reporting(k)
  /\ \A k \in EventId \X PressSeq : Pressed(k)' <=> Pressed(k)

\* What the network holds are reports of the reporter.
SentFrom == \A e \in EventId : EventOf(e) \in outbox' \union delivered' =>
              EventOf(e) \in outbox \union delivered \/ Reporting(EventOf(e))

FewerPlaces ==
  /\ \A e \in EventId :
       /\ Entering(e)' => Entering(e)
       /\ Waiting(e)' => Waiting(e) /\ Timed(e)'
       /\ Chosen(e)' => Chosen(e)
       /\ Preparing(e)' => Preparing(e)
  /\ \A k \in Report : Reporting(k)' => Reporting(k)
  /\ \A k \in EventId \X PressSeq : Pressed(k)' => Pressed(k)

\* A step that puts no report anywhere.
LEMMA PlacesShrink ==
  ASSUME PlaceInv, RowsGrow, FewerPlaces, SentFrom, ReportedOnce'
  PROVE  PlaceInv'
<1>1. \A e \in EventId : EventOf(e) \in Report /\ (Carried(e)' => Carried(e))
  BY DEF FewerPlaces, Carried
<1>2. \A k \in EventId \X PressSeq : k \in Report
  OBVIOUS
<1>3. OnePlace' /\ TimeoutRuns' /\ OnePressPlace'
  BY <1>1, <1>2 DEF PlaceInv, OnePlace, OnePlaceFor, TimeoutRuns, OnePressPlace, FewerPlaces
<1>4. OnlyRows'
  <2>1. ASSUME NEW e \in EventId, events'[e].kind = "none"
        PROVE  /\ events'[e].reported = 0 /\ ~Carried(e)'
               /\ EventOf(e) \notin outbox' \union delivered'
    BY <1>1, <2>1 DEF RowsGrow, PlaceInv, OnlyRows, SentFrom, Carried
  <2>2. ASSUME NEW e \in EventId, NEW s \in PressSeq, s > rings'[e].count
        PROVE  ~Reporting(<<e, s>>)' /\ ~Pressed(<<e, s>>)'
    BY <1>2, <2>2 DEF RowsGrow, PlaceInv, OnlyRows, FewerPlaces
  <2> QED BY <2>1, <2>2 DEF OnlyRows
<1> QED BY <1>3, <1>4 DEF PlaceInv

\* A step that leaves every report where it is.
LEMMA PlacesStay ==
  ASSUME PlaceInv, RowsGrow, NoNewRow, SamePlaces, SentFrom, ReportedOnce'
  PROVE  PlaceInv' /\ CarriedOn
<1>1. \A e \in EventId : EventOf(e) \in Report
  OBVIOUS
<1>2. \A k \in EventId \X PressSeq : k \in Report
  OBVIOUS
<1>3. FewerPlaces
  BY DEF SamePlaces, FewerPlaces, PlaceInv, TimeoutRuns
<1>4. CarriedOn
  BY <1>1, <1>2 DEF CarriedOn, SamePlaces, NoNewRow, Carried
<1> QED BY <1>3, <1>4, PlacesShrink

SamePlace(e) ==
  /\ Entering(e)' <=> Entering(e)
  /\ Waiting(e)' <=> Waiting(e)
  /\ Chosen(e)' <=> Chosen(e)
  /\ Preparing(e)' <=> Preparing(e)
  /\ Timed(e) => Timed(e)'

\* A step that moves the report of one event, or takes up or queues a press.
LEMMA PlacesMove ==
  ASSUME PlaceInv, RowsGrow, NEW e \in EventId, events'[e].kind # "none",
         OnePlaceFor(e)', Waiting(e)' => Timed(e)',
         \A f \in EventId : f # e => SamePlace(f),
         \A k \in Report : k # EventOf(e) /\ Reporting(k)' =>
            Reporting(k) \/ (k \in EventId \X PressSeq /\ Pressed(k)),
         \A f \in EventId, s \in PressSeq : Pressed(<<f, s>>)' =>
            Pressed(<<f, s>>) \/ ~(s > rings'[f].count),
         OnePressPlace', SentFrom, ReportedOnce'
  PROVE  PlaceInv'
<1>1. \A f \in EventId : f # e =>
        EventOf(f) \in Report /\ EventOf(f) # EventOf(e) /\ EventOf(f) \notin EventId \X PressSeq
  OBVIOUS
<1>2. \A f \in EventId : f # e => (Reporting(EventOf(f))' => Reporting(EventOf(f)))
  BY <1>1
<1>3. OnePlace'
  BY <1>2 DEF PlaceInv, OnePlace, OnePlaceFor, SamePlace
<1>4. TimeoutRuns'
  BY DEF PlaceInv, TimeoutRuns, SamePlace
<1>5. ASSUME NEW f \in EventId, events'[f].kind = "none"
      PROVE  /\ events'[f].reported = 0 /\ ~Carried(f)'
             /\ EventOf(f) \notin outbox' \union delivered'
  <2>1. /\ events[f].kind = "none" /\ events'[f].reported = 0
        /\ ~Carried(f) /\ EventOf(f) \notin outbox \union delivered
    BY <1>5 DEF RowsGrow, PlaceInv, OnlyRows
  <2>2. ~Carried(f)'
    BY <1>2, <1>5, <2>1 DEF Carried, SamePlace
  <2> QED BY <2>1, <2>2 DEF SentFrom, Carried
<1>6. ASSUME NEW f \in EventId, NEW s \in PressSeq, s > rings'[f].count
      PROVE  ~Reporting(<<f, s>>)' /\ ~Pressed(<<f, s>>)'
  <2>1. ~Reporting(<<f, s>>) /\ ~Pressed(<<f, s>>)
    BY <1>6 DEF RowsGrow, PlaceInv, OnlyRows
  <2>2. <<f, s>> \in Report /\ <<f, s>> # EventOf(e)
    OBVIOUS
  <2> QED BY <1>6, <2>1, <2>2
<1>7. OnlyRows'
  BY <1>5, <1>6 DEF OnlyRows
<1> QED BY <1>3, <1>4, <1>7 DEF PlaceInv

LEMMA JobsDiffer ==
  \A e, f, r, s :
    /\ TimeoutJob(e, r) # SnapshotJob(f)
    /\ TimeoutJob(e, r) = TimeoutJob(f, s) => e = f /\ r = s
    /\ SnapshotJob(e) = SnapshotJob(f) => e = f
  BY DEF TimeoutJob, SnapshotJob

\* Steps that move no report: time, the parts of the threads that look at the
\* clock or tell main, the network and the backend.
LEMMA QuietSteps ==
  ASSUME Base, PlaceInv, RowsGrow,
         \/ Tick \/ SnapshotTimer \/ BeginPersonRecording \/ UNCHANGED vars
         \/ ButtonPress \/ ButtonExpired \/ ButtonNotify \/ ButtonArm
         \/ WorkerExpire \/ WorkerExpired \/ WorkerOtherJob \/ Backend
  PROVE  PlaceInv' /\ CarriedOn
<1> USE DEF Base
<1>1. UNCHANGED <<reportJobs, reporter, pendingSnapshots>>
  BY DEF Tick, SnapshotTimer, BeginPersonRecording, vars, ButtonPress, ButtonExpired,
         ButtonNotify, ButtonArm, WorkerExpire, WorkerExpired, WorkerOtherJob, Backend,
         SessionLost, RingNotify, SendQueued, HandleReportAck, RingCommand, threadVars,
         queueVars
<1>2. ReportedOnce' /\ \A k \in Report : Reporting(k)' <=> Reporting(k)
  BY <1>1 DEF PlaceInv, ReportedOnce, Reporting, Held
<1>3. /\ button.pc = "enqueue" => UNCHANGED button
      /\ button'.pc = "enqueue" => UNCHANGED button
  <2>1. button \in ButtonStates
    BY DEF TypeOK, ThreadsTypeOK
  <2>2. CASE ButtonPress \/ ButtonExpired \/ ButtonNotify \/ ButtonArm
    <3>1. button.pc # "enqueue"
      BY <2>2 DEF ButtonPress, ButtonExpired, ButtonNotify, ButtonArm
    <3>2. button'.pc # "enqueue"
      <4>1. CASE ButtonPress
        BY <4>1 DEF ButtonPress, IdleButton
      <4>2. CASE ButtonExpired
        BY <2>1, <4>2 DEF ButtonExpired, ButtonStates
      <4>3. CASE ButtonNotify \/ ButtonArm
        BY <2>1, <4>3 DEF ButtonNotify, ButtonArm, IdleButton, ButtonStates
      <4> QED BY <2>2, <4>1, <4>2, <4>3
    <3> QED BY <3>1, <3>2
  <2>3. CASE UNCHANGED button
    BY <2>3
  <2> QED BY <2>2, <2>3 DEF Tick, SnapshotTimer, BeginPersonRecording, vars, WorkerExpire,
             WorkerExpired, WorkerOtherJob, Backend, SessionLost, RingNotify, SendQueued,
             HandleReportAck, RingCommand, threadVars
<1>4. /\ worker.pc = "prepare" => UNCHANGED worker
      /\ worker'.pc = "prepare" => UNCHANGED worker
  <2>1. CASE WorkerExpire \/ WorkerExpired \/ WorkerOtherJob
    <3>1. worker.pc # "prepare"
      BY <2>1 DEF WorkerExpire, WorkerExpired, WorkerOtherJob
    <3>2. worker'.pc # "prepare"
      BY <2>1 DEF WorkerExpire, WorkerExpired, WorkerOtherJob, IdleWorker
    <3> QED BY <3>1, <3>2
  <2>2. CASE UNCHANGED worker
    BY <2>2
  <2> QED BY <2>1, <2>2 DEF Tick, SnapshotTimer, BeginPersonRecording, vars, Backend,
             SessionLost, RingNotify, SendQueued, HandleReportAck, RingCommand, threadVars,
             ButtonPress, ButtonExpired, ButtonNotify, ButtonArm
<1>5. \A e \in EventId : (Chosen(e)' <=> Chosen(e)) /\ (Timed(e) => Timed(e)')
  <2>1. CASE SnapshotTimer
    <3>1. PICK e \in EventId :
            /\ TimeoutJob(e, FALSE) \in mediaJobs
            /\ mediaJobs' = (mediaJobs \ {TimeoutJob(e, FALSE)}) \union {TimeoutJob(e, TRUE)}
      BY <2>1 DEF SnapshotTimer
    <3>2. \A f \in EventId : Chosen(f)' <=> Chosen(f)
      BY <3>1, JobsDiffer DEF Chosen
    <3>3. \A f \in EventId : Timed(f) => Timed(f)'
      BY <3>1, JobsDiffer DEF Timed
    <3> QED BY <3>2, <3>3
  <2>2. CASE UNCHANGED mediaJobs
    BY <2>2 DEF Chosen, Timed
  <2> QED BY <2>1, <2>2 DEF Tick, BeginPersonRecording, vars, ButtonPress, ButtonExpired,
             ButtonNotify, ButtonArm, WorkerExpire, WorkerExpired, WorkerOtherJob, Backend,
             SessionLost, RingNotify, SendQueued, HandleReportAck, RingCommand, queueVars
<1>6. SamePlaces
  BY <1>1, <1>2, <1>3, <1>4, <1>5 DEF SamePlaces, Entering, Waiting, Preparing, Pressed
<1>7. NoNewRow
  <2>1. ASSUME NEW e \in EventId, NEW value \in {-1, 1}, SetReported(e, value) PROVE NoNewRow
    BY <2>1 DEF SetReported, RingInv, StoreTypeOK, EventRows, NoNewRow
  <2>2. CASE UNCHANGED <<events, pressQueue>>
    BY <2>2 DEF NoNewRow
  <2> QED BY <2>1, <2>2 DEF Tick, SnapshotTimer, BeginPersonRecording, vars, ButtonPress,
             ButtonExpired, ButtonNotify, ButtonArm, WorkerExpire, WorkerExpired,
             WorkerOtherJob, Backend, SessionLost, RingNotify, SendQueued, HandleReportAck,
             RingCommand, MarkReported, MarkUnreportable, UpdateRingState, SetRingState,
             BeginRecording, ExpireOpenRing, StoreUntouched, storeVars
<1>8. SentFrom
  BY DEF SentFrom, Tick, SnapshotTimer, BeginPersonRecording, vars, ButtonPress,
         ButtonExpired, ButtonNotify, ButtonArm, WorkerExpire, WorkerExpired,
         WorkerOtherJob, Backend, SessionLost, RingNotify, SendQueued, HandleReportAck,
         RingCommand, networkVars
<1> QED BY <1>2, <1>6, <1>7, <1>8, PlacesStay

\* A report that goes back to the queue.
LEMMA ReportReturned ==
  ASSUME Base, ReportedOnce, NEW k \in Report, Held(k), AddReport(k), reporter'.pc = "idle"
  PROVE  ReportedOnce' /\ \A j \in Report : Reporting(j)' <=> Reporting(j)
<1>1. \A j \in Report : /\ reportJobs[j] \in Nat
                        /\ reportJobs'[j] = IF j = k THEN reportJobs[j] + 1 ELSE reportJobs[j]
  BY ReportAdded DEF Base, TypeOK, QueuesTypeOK
<1>2. \A j \in Report : Held(j) <=> j = k
  BY DEF Held
<1>3. \A j \in Report : ~Held(j)'
  BY DEF Held
<1> QED BY <1>1, <1>2, <1>3 DEF ReportedOnce, Reporting

\* The reporter: what it cannot settle goes back to where it was.
LEMMA ReporterSteps ==
  ASSUME Base, PlaceInv, RowsGrow, Reporter
  PROVE  PlaceInv' /\ CarriedOn
<1> USE DEF Base
<1>1. \A j \in Report : reportJobs[j] \in Nat
  BY DEF TypeOK, QueuesTypeOK
<1>2. UNCHANGED <<button, worker, mediaJobs, pendingSnapshots>>
  BY DEF Reporter, ReporterPublishEvent, ReporterPublishPress, ReporterMark, ReporterTake
<1>3. ASSUME \A j \in Report : Reporting(j)' <=> Reporting(j)
      PROVE  SamePlaces
  BY <1>2, <1>3 DEF SamePlaces, Entering, Waiting, Chosen, Preparing, Timed, Pressed
<1>4. ASSUME \A j \in Report : Reporting(j)' => Reporting(j)
      PROVE  FewerPlaces
  BY <1>2, <1>4 DEF FewerPlaces, Entering, Waiting, Chosen, Preparing, Timed, Pressed,
                    PlaceInv, TimeoutRuns
<1>5. ASSUME UNCHANGED <<events, pressQueue>> PROVE NoNewRow
  BY <1>5 DEF NoNewRow
<1>6. reporter.pc # "idle" => reporter.job \in Report /\ Held(reporter.job)
  BY DEF TypeOK, HandsAreFull, Held
<1>7. CASE ReporterPublishEvent
  <2>1. ReportedOnce' /\ \A j \in Report : Reporting(j)' <=> Reporting(j)
    BY <1>6, <1>7, ReportReturned DEF ReporterPublishEvent, PlaceInv, IdleReporter
  <2>2. SentFrom
    BY <1>6, <1>7 DEF ReporterPublishEvent, SentFrom, Reporting
  <2>3. NoNewRow
    BY <1>5, <1>7 DEF ReporterPublishEvent, storeVars
  <2> QED BY <1>3, <2>1, <2>2, <2>3, PlacesStay
<1>8. CASE ReporterPublishPress
  <2>1. ReportedOnce' /\ \A j \in Report : Reporting(j)' <=> Reporting(j)
    <3>1. CASE AddReport(reporter.job) /\ reporter' = IdleReporter
      BY <1>6, <1>8, <3>1, ReportReturned DEF ReporterPublishPress, PlaceInv, IdleReporter
    <3>2. CASE reporter' = [reporter EXCEPT !.pc = "mark"] /\ UNCHANGED reportJobs
      <4>1. \A j \in Report : Held(j)' <=> Held(j)
        BY <1>8, <3>2 DEF Held, ReporterPublishPress, TypeOK, ThreadsTypeOK
      <4> QED BY <3>2, <4>1 DEF ReportedOnce, Reporting, PlaceInv
    <3> QED BY <1>8, <3>1, <3>2 DEF ReporterPublishPress
  <2>2. SentFrom
    BY <1>6, <1>8 DEF ReporterPublishPress, SentFrom, Reporting
  <2>3. NoNewRow
    BY <1>5, <1>8 DEF ReporterPublishPress, storeVars
  <2> QED BY <1>3, <2>1, <2>2, <2>3, PlacesStay
<1>9. CASE ReporterMark
  <2>1. SentFrom
    BY <1>9 DEF ReporterMark, SentFrom, networkVars
  <2>2. CASE AddReport(reporter.job) /\ StoreUntouched
    <3>1. ReportedOnce' /\ \A j \in Report : Reporting(j)' <=> Reporting(j)
      BY <1>6, <1>9, <2>2, ReportReturned DEF ReporterMark, PlaceInv, IdleReporter
    <3>2. NoNewRow
      BY <1>5, <2>2 DEF StoreUntouched, storeVars
    <3> QED BY <1>3, <2>1, <3>1, <3>2, PlacesStay
  <2>3. ASSUME MarkRingPressReported(reporter.job[1], reporter.job[2]), UNCHANGED reportJobs
        PROVE  PlaceInv' /\ CarriedOn
    <3>1. \A j \in Report : ~Held(j)'
      BY <1>9 DEF ReporterMark, IdleReporter, Held
    <3>2. ReportedOnce' /\ \A j \in Report : Reporting(j)' => Reporting(j)
      BY <2>3, <3>1 DEF PlaceInv, ReportedOnce, Reporting
    <3>3. \A j \in Report : j # reporter.job => (Reporting(j)' <=> Reporting(j))
      BY <2>3, <3>1 DEF Reporting, Held
    <3>4. \E e \in EventId, s \in PressSeq : reporter.job = <<e, s>>
      BY <1>9 DEF ReporterMark, TypeOK, HandsAreFull
    <3>5. /\ pressQueue'[reporter.job] = "reported"
          /\ \A k \in EventId \X PressSeq : k # reporter.job => pressQueue'[k] = pressQueue[k]
      BY <2>3, <3>4 DEF MarkRingPressReported, RingInv, StoreTypeOK, PressRows
    <3>6. \A e \in EventId : EventOf(e) \in Report /\ EventOf(e) # reporter.job
      BY <3>4
    <3>7. \A k \in EventId \X PressSeq :
            Pressed(k) \/ Reporting(k) \/ pressQueue[k] # "queued" =>
              Pressed(k)' \/ Reporting(k)' \/ pressQueue'[k] # "queued"
      BY <1>2, <3>3, <3>5 DEF Pressed
    <3>8. \A e \in EventId : Carried(e)' <=> Carried(e)
      BY <1>2, <3>3, <3>6 DEF Carried, Entering, Waiting, Chosen, Preparing
    <3>9. CarriedOn
      BY <2>3, <3>7, <3>8 DEF CarriedOn, MarkRingPressReported
    <3> QED BY <1>4, <2>1, <3>2, <3>9, PlacesShrink
  <2> QED BY <1>9, <2>2, <2>3 DEF ReporterMark
<1>10. ASSUME NEW k \in Report, ReporterTake(k) PROVE PlaceInv' /\ CarriedOn
  <2>1. \A j \in Report : reportJobs'[j] = IF j = k THEN reportJobs[j] - 1 ELSE reportJobs[j]
    BY <1>10, ReportRemoved DEF ReporterTake, TypeOK, QueuesTypeOK
  <2>2. SentFrom /\ NoNewRow
    BY <1>5, <1>10 DEF ReporterTake, SentFrom, networkVars, storeVars
  <2>3. reportJobs[k] = 1 /\ \A j \in Report : ~Held(j)
    BY <1>1, <1>10 DEF ReporterTake, PlaceInv, ReportedOnce, Held
  <2>4. CASE reporter' = [pc |-> "publish", job |-> k]
    <3>1. \A j \in Report : Held(j)' <=> j = k
      BY <2>4 DEF Held
    <3>2. ReportedOnce' /\ \A j \in Report : Reporting(j)' <=> Reporting(j)
      BY <1>1, <2>1, <2>3, <3>1 DEF PlaceInv, ReportedOnce, Reporting
    <3> QED BY <1>3, <2>2, <3>2, PlacesStay
  <2>5. CASE reporter' = IdleReporter /\ k[2] = 0 /\ events[k[1]].reported # 0
    <3>1. \A j \in Report : ~Held(j)'
      BY <2>5 DEF Held, IdleReporter
    <3>2. ReportedOnce' /\ \A j \in Report : Reporting(j)' => Reporting(j)
      BY <1>1, <2>1, <2>3, <3>1 DEF PlaceInv, ReportedOnce, Reporting
    <3>3. \A j \in Report : j # k => (Reporting(j)' <=> Reporting(j))
      BY <2>1, <2>3, <3>1 DEF Reporting
    <3>4. PICK e \in EventId : k = EventOf(e)
      BY <2>5
    <3>5. \A f \in EventId : f # e => (Carried(f)' <=> Carried(f))
      BY <1>2, <3>3, <3>4 DEF Carried, Entering, Waiting, Chosen, Preparing
    <3>6. \A f \in EventId : events'[f] = events[f]
      BY <1>10 DEF ReporterTake, storeVars
    <3>7. events'[e].reported # 0
      BY <2>5, <3>4, <3>6
    <3>8. \A j \in EventId \X PressSeq : j # k /\ j \in Report
      BY <3>4
    <3>9. UNCHANGED pressQueue
      BY <1>10 DEF ReporterTake, storeVars
    <3>10. CarriedOn
      BY <1>2, <3>3, <3>5, <3>6, <3>7, <3>8, <3>9 DEF CarriedOn, Pressed
    <3> QED BY <1>4, <2>2, <3>2, <3>10, PlacesShrink
  <2> QED BY <1>10, <2>4, <2>5 DEF ReporterTake
<1> QED BY <1>7, <1>8, <1>9, <1>10 DEF Reporter

\* A row that has a place is there already.
LEMMA PlacedRows ==
  ASSUME PlaceInv, RowsGrow, NEW e \in EventId, Carried(e)
  PROVE  events'[e].kind # "none"
  BY DEF PlaceInv, OnlyRows, RowsGrow

\* The worker: it takes the event of a snapshot, or of a timeout that came
\* first, and hands it to the reporter.
LEMMA WorkerSteps ==
  ASSUME Base, PlaceInv, RowsGrow, WorkerPrepare \/ \E job \in MediaJob : WorkerTake(job)
  PROVE  PlaceInv' /\ CarriedOn
<1> USE DEF Base
<1>1. UNCHANGED <<storeVars, button, reporter, networkVars>>
  BY DEF WorkerPrepare, WorkerTake
<1>2. SentFrom /\ NoNewRow
  BY <1>1 DEF SentFrom, NoNewRow, networkVars, storeVars
<1>3. \A f \in EventId : Entering(f)' <=> Entering(f)
  BY <1>1 DEF Entering
<1>4. \A k \in EventId \X PressSeq : Pressed(k)' <=> Pressed(k)
  BY <1>1 DEF Pressed
<1>5. \A k \in EventId \X PressSeq : k \in Report
  OBVIOUS
<1>6. ASSUME \A f \in EventId : Carried(f)' <=> Carried(f),
             \A k \in EventId \X PressSeq : Reporting(k)' <=> Reporting(k)
      PROVE  CarriedOn
  BY <1>2, <1>4, <1>6 DEF CarriedOn, NoNewRow
<1>7. CASE WorkerPrepare
  <2>0. PICK e \in EventId : e = worker.event
    BY <1>7 DEF WorkerPrepare, TypeOK, HandsAreFull
  <2>1. EventOf(e) \in Report /\ Preparing(e)
    BY <1>7, <2>0 DEF WorkerPrepare, Preparing
  <2>2. ~Entering(e) /\ ~Waiting(e) /\ ~Chosen(e) /\ ~Reporting(EventOf(e))
    BY <2>1 DEF PlaceInv, OnePlace, OnePlaceFor
  <2>3. \A f \in EventId : f # e => EventOf(f) # EventOf(e)
    OBVIOUS
  <2>4. \A k \in EventId \X PressSeq : k # EventOf(e)
    OBVIOUS
  <2>5. \A k \in Report : reportJobs'[k] = IF k = EventOf(e) THEN reportJobs[k] + 1 ELSE reportJobs[k]
    BY <1>7, <2>0, <2>1, ReportAdded DEF WorkerPrepare, TypeOK, QueuesTypeOK
  <2>6. \A k \in Report : reportJobs[k] \in Nat /\ (Held(k)' <=> Held(k))
    BY <1>1 DEF TypeOK, QueuesTypeOK, Held
  <2>7. ReportedOnce' /\ \A k \in Report : Reporting(k)' <=> Reporting(k) \/ k = EventOf(e)
    BY <2>1, <2>2, <2>5, <2>6 DEF PlaceInv, ReportedOnce, Reporting
  <2>8. UNCHANGED <<mediaJobs, pendingSnapshots>> /\ worker'.pc # "prepare"
    BY <1>7 DEF WorkerPrepare, IdleWorker
  <2>9. \A f \in EventId : /\ Waiting(f)' <=> Waiting(f)
                           /\ Chosen(f)' <=> Chosen(f)
                           /\ Timed(f)' <=> Timed(f)
                           /\ ~Preparing(f)'
                           /\ Preparing(f) <=> f = e
    BY <1>7, <2>0, <2>8 DEF Waiting, Chosen, Timed, Preparing, WorkerPrepare
  <2>10. OnePlaceFor(e)' /\ \A f \in EventId : f # e => SamePlace(f)
    BY <1>3, <2>1, <2>2, <2>9 DEF OnePlaceFor, SamePlace
  <2>11. OnePressPlace'
    BY <1>4, <1>5, <2>4, <2>7 DEF PlaceInv, OnePressPlace
  <2>12. PlaceInv'
    <3>1. events'[e].kind # "none"
      BY <2>1, PlacedRows DEF Carried
    <3> QED BY <1>2, <1>4, <2>1, <2>2, <2>7, <2>9, <2>10, <2>11, <3>1, PlacesMove
  <2>13. CarriedOn
    <3>1. \A f \in EventId : Carried(f)' <=> Carried(f)
      BY <1>3, <2>1, <2>3, <2>7, <2>9 DEF Carried
    <3> QED BY <1>5, <1>6, <2>4, <2>7, <3>1
  <2> QED BY <2>12, <2>13
<1>8. ASSUME NEW job \in MediaJob, WorkerTake(job) PROVE PlaceInv' /\ CarriedOn
  <2> DEFINE e == job.event
  <2>1. e \in EventId /\ \/ job = SnapshotJob(e)
                         \/ job = TimeoutJob(e, TRUE)
    BY <1>8 DEF WorkerTake, MediaJob, SnapshotJob, TimeoutJob
  <2> HIDE DEF e
  <2>2. ReportedOnce' /\ \A k \in Report : Reporting(k)' <=> Reporting(k)
    BY <1>1, <1>8 DEF WorkerTake, PlaceInv, ReportedOnce, Reporting, Held
  <2>3. OnePressPlace'
    BY <1>4, <1>5, <2>2 DEF PlaceInv, OnePressPlace
  <2>4. mediaJobs' = mediaJobs \ {job} /\ job \in mediaJobs /\ worker.pc = "take"
    BY <1>8 DEF WorkerTake
  <2>5. \A f \in EventId : /\ EventOf(f) \in Report
                           /\ f # e => (Chosen(f)' <=> Chosen(f)) /\ (Timed(f)' <=> Timed(f))
    <3>1. CASE job = SnapshotJob(e)
      BY <2>4, <3>1, JobsDiffer DEF Chosen, Timed
    <3>2. CASE job = TimeoutJob(e, TRUE)
      BY <2>4, <3>2, JobsDiffer DEF Chosen, Timed
    <3> QED BY <2>1, <3>1, <3>2
  <2>6. \A f \in EventId : ~Preparing(f)
    BY <2>4 DEF Preparing
  <2>7. CASE job.kind = "timeout" /\ e \notin pendingSnapshots
    <3>1. job = TimeoutJob(e, TRUE)
      <4>1. SnapshotJob(e).kind = "snapshot"
        BY DEF SnapshotJob
      <4> QED BY <2>1, <2>7, <4>1
    <3>2. worker' = IdleWorker /\ UNCHANGED pendingSnapshots
      BY <1>8, <2>7 DEF WorkerTake, TypeOK, QueuesTypeOK, e
    <3>3. \A f \in EventId : /\ ~Preparing(f)'
                             /\ Chosen(f)' <=> Chosen(f)
                             /\ Waiting(f)' <=> Waiting(f)
      BY <2>4, <3>1, <3>2, JobsDiffer DEF Preparing, IdleWorker, Chosen, Waiting
    <3>4. FewerPlaces
      BY <1>3, <1>4, <2>2, <2>5, <2>7, <3>3
         DEF FewerPlaces, PlaceInv, TimeoutRuns, Waiting
    <3>5. \A f \in EventId : Carried(f)' <=> Carried(f)
      BY <1>3, <2>2, <2>5, <2>6, <3>3 DEF Carried
    <3> QED BY <1>2, <1>5, <1>6, <2>2, <3>4, <3>5, PlacesShrink
  <2>8. CASE ~(job.kind = "timeout" /\ e \notin pendingSnapshots)
    <3>1. worker' = [pc |-> "prepare", event |-> e]
      BY <1>8, <2>8 DEF WorkerTake, e
    <3>2. \A f \in EventId : Preparing(f)' <=> f = e
      BY <3>1 DEF Preparing
    <3>3. Carried(e) /\ ~Waiting(e)' /\ ~Chosen(e)' /\ ~Entering(e) /\ ~Reporting(EventOf(e))
      <4>1. CASE job = TimeoutJob(e, TRUE)
        <5>1. Waiting(e) /\ pendingSnapshots' = pendingSnapshots \ {e}
          BY <1>8, <2>8, <4>1 DEF WorkerTake, Waiting, TimeoutJob, e
        <5>2. Chosen(e)' <=> Chosen(e)
          BY <2>4, <4>1, JobsDiffer DEF Chosen
        <5>3. ~Chosen(e) /\ ~Entering(e) /\ ~Reporting(EventOf(e))
          BY <2>1, <5>1 DEF PlaceInv, OnePlace, OnePlaceFor
        <5> QED BY <5>1, <5>2, <5>3 DEF Carried, Waiting
      <4>2. CASE job = SnapshotJob(e)
        <5>1. Chosen(e) /\ ~Chosen(e)' /\ UNCHANGED pendingSnapshots
          BY <1>8, <2>4, <4>2 DEF WorkerTake, Chosen, SnapshotJob
        <5>2. ~Waiting(e) /\ ~Entering(e) /\ ~Reporting(EventOf(e))
          BY <2>1, <5>1 DEF PlaceInv, OnePlace, OnePlaceFor
        <5> QED BY <5>1, <5>2 DEF Carried, Waiting
      <4> QED BY <2>1, <4>1, <4>2
    <3>4. \A f \in EventId : f # e => (Waiting(f)' <=> Waiting(f))
      BY <1>8 DEF WorkerTake, Waiting, e
    <3>5. OnePlaceFor(e)' /\ \A f \in EventId : f # e => SamePlace(f)
      BY <1>3, <2>1, <2>2, <2>5, <2>6, <3>2, <3>3, <3>4 DEF OnePlaceFor, SamePlace
    <3>6. PlaceInv'
      <4>1. events'[e].kind # "none"
        BY <2>1, <3>3, PlacedRows
      <4> QED BY <1>2, <1>4, <2>1, <2>2, <2>3, <3>3, <3>5, <4>1, PlacesMove
    <3>7. \A f \in EventId : Carried(f)' <=> Carried(f)
      BY <1>3, <2>1, <2>2, <2>5, <2>6, <3>2, <3>3, <3>4 DEF Carried
    <3> QED BY <1>5, <1>6, <2>2, <3>6, <3>7
  <2> QED BY <2>7, <2>8
<1> QED BY <1>7, <1>8

\* The handover of a snapshot, or of none.
LEMMA SnapshotSteps ==
  ASSUME Base, PlaceInv, RowsGrow, SubmitRingSnapshot
  PROVE  PlaceInv' /\ CarriedOn
<1> USE DEF Base
<1>1. UNCHANGED <<storeVars, button, worker, reporter, reportJobs, networkVars>>
  BY DEF SubmitRingSnapshot, threadVars
<1>2. SentFrom /\ NoNewRow
  BY <1>1 DEF SentFrom, NoNewRow, networkVars, storeVars
<1>3. ReportedOnce' /\ OnePressPlace'
  BY <1>1 DEF PlaceInv, ReportedOnce, OnePressPlace, Reporting, Held, Pressed
<1>4. /\ \A f \in EventId : (Entering(f)' <=> Entering(f)) /\ (Preparing(f)' <=> Preparing(f))
      /\ \A k \in Report : Reporting(k)' <=> Reporting(k)
      /\ \A k \in EventId \X PressSeq : Pressed(k)' <=> Pressed(k)
  BY <1>1 DEF Entering, Preparing, Reporting, Held, Pressed
<1>5. PICK e \in EventId : e = selecting
  BY DEF SubmitRingSnapshot, TypeOK, QueuesTypeOK, AnyEvent
<1>6. CASE e \notin pendingSnapshots
  <2>1. UNCHANGED <<pendingSnapshots, mediaJobs>>
    BY <1>5, <1>6 DEF SubmitRingSnapshot
  <2>2. SamePlaces
    BY <1>4, <2>1 DEF SamePlaces, Waiting, Chosen, Timed
  <2> QED BY <1>2, <1>3, <2>2, PlacesStay
<1>7. CASE e \in pendingSnapshots
  <2>1. /\ pendingSnapshots' = pendingSnapshots \ {e}
        /\ mediaJobs' = mediaJobs \union {SnapshotJob(e)}
    BY <1>5, <1>7 DEF SubmitRingSnapshot
  <2>2. /\ ~Waiting(e)' /\ Chosen(e)'
        /\ ~Entering(e) /\ ~Preparing(e) /\ ~Reporting(EventOf(e))
    BY <1>7, <2>1 DEF PlaceInv, OnePlace, OnePlaceFor, Waiting, Chosen
  <2>3. \A f \in EventId : /\ EventOf(f) \in Report
                           /\ f # e => (Waiting(f)' <=> Waiting(f)) /\ (Chosen(f)' <=> Chosen(f))
                           /\ Timed(f)' <=> Timed(f)
    BY <2>1, JobsDiffer DEF Waiting, Chosen, Timed
  <2>4. OnePlaceFor(e)' /\ \A f \in EventId : f # e => SamePlace(f)
    BY <1>4, <2>2, <2>3 DEF OnePlaceFor, SamePlace
  <2>5. PlaceInv'
    <3>1. events'[e].kind # "none"
      BY <1>7, PlacedRows DEF Carried, Waiting
    <3> QED BY <1>2, <1>3, <1>4, <2>2, <2>4, <3>1, PlacesMove
  <2>6. \A f \in EventId : Carried(f) => Carried(f)'
    BY <1>4, <2>2, <2>3 DEF Carried
  <2>7. \A k \in EventId \X PressSeq : k \in Report
    OBVIOUS
  <2> QED BY <1>2, <1>4, <2>5, <2>6, <2>7 DEF CarriedOn, NoNewRow
<1> QED BY <1>6, <1>7

\* A new event is reported at once (a person) or enters with the button thread
\* (a first press); every other press joins its ring.
LEMMA PersonSteps ==
  ASSUME Base, PlaceInv, RowsGrow, BeginPersonEvent
  PROVE  PlaceInv' /\ CarriedOn
<1> USE DEF Base
<1>1. PICK e \in EventId, r \in RecId : CreatePersonEvent(e, r) /\ AddReport(EventOf(e))
  BY DEF BeginPersonEvent
<1>2. /\ events[e].kind = "none" /\ events'[e].kind = "person"
      /\ \A f \in EventId : f # e => events'[f] = events[f]
  BY <1>1, NewEvents DEF CreatePersonEvent
<1>3. ~Carried(e)
  BY <1>2 DEF PlaceInv, OnlyRows
<1>4. /\ \A k \in Report : /\ reportJobs[k] \in Nat
                           /\ reportJobs'[k] = IF k = EventOf(e) THEN reportJobs[k] + 1
                                               ELSE reportJobs[k]
      /\ EventOf(e) \in Report
  BY <1>1, ReportAdded DEF TypeOK, QueuesTypeOK
<1>5. UNCHANGED <<button, worker, reporter, mediaJobs, pendingSnapshots, outbox, delivered,
                  pressQueue>>
  BY <1>1 DEF BeginPersonEvent, CreatePersonEvent, threadVars, networkVars
<1>6. ReportedOnce' /\ \A k \in Report : Reporting(k)' <=> Reporting(k) \/ k = EventOf(e)
  BY <1>3, <1>4, <1>5 DEF PlaceInv, ReportedOnce, Reporting, Held, Carried
<1>7. \A f \in EventId : /\ Entering(f)' <=> Entering(f)
                         /\ Waiting(f)' <=> Waiting(f)
                         /\ Chosen(f)' <=> Chosen(f)
                         /\ Preparing(f)' <=> Preparing(f)
                         /\ Timed(f)' <=> Timed(f)
  BY <1>5 DEF Entering, Waiting, Chosen, Preparing, Timed
<1>8. \A k \in EventId \X PressSeq : (Pressed(k)' <=> Pressed(k)) /\ k \in Report /\ k # EventOf(e)
  BY <1>5 DEF Pressed
<1>9. SentFrom /\ OnePressPlace'
  BY <1>5, <1>6, <1>8 DEF SentFrom, PlaceInv, OnePressPlace
<1>10. OnePlaceFor(e)' /\ \A f \in EventId : SamePlace(f)
  BY <1>3, <1>7 DEF OnePlaceFor, SamePlace, Carried
<1>11. PlaceInv'
  BY <1>2, <1>3, <1>6, <1>7, <1>8, <1>9, <1>10, PlacesMove DEF Carried
<1>12. CarriedOn
  <2>1. \A f \in EventId : EventOf(f) \in Report /\ (Carried(f) \/ f = e => Carried(f)')
    BY <1>4, <1>6, <1>7 DEF Carried
  <2> QED BY <1>2, <1>5, <1>6, <1>8, <2>1 DEF CarriedOn
<1> QED BY <1>11, <1>12

LEMMA RecordSteps ==
  ASSUME Base, PlaceInv, RowsGrow, ButtonRecord
  PROVE  PlaceInv' /\ CarriedOn
<1> USE DEF Base
<1>1. UNCHANGED <<worker, reporter, mediaJobs, pendingSnapshots, reportJobs, outbox, delivered>>
  BY DEF ButtonRecord, queueVars, networkVars
<1>2. /\ \A f \in EventId : /\ ~Entering(f)
                            /\ Waiting(f)' <=> Waiting(f)
                            /\ Chosen(f)' <=> Chosen(f)
                            /\ Preparing(f)' <=> Preparing(f)
                            /\ Timed(f)' <=> Timed(f)
      /\ \A k \in Report : Reporting(k)' <=> Reporting(k)
      /\ \A k \in EventId \X PressSeq : ~Pressed(k) /\ k \in Report
  BY <1>1 DEF Entering, Waiting, Chosen, Preparing, Timed, Reporting, Held, Pressed, ButtonRecord
<1>3. ReportedOnce' /\ SentFrom
  BY <1>1 DEF PlaceInv, ReportedOnce, Held, SentFrom
<1>4. button \in ButtonStates
  BY DEF TypeOK, ThreadsTypeOK
<1>5. ASSUME NEW e \in EventId, RecordRepeatPress(e, button.at),
             button' = [button EXCEPT !.pc = "enqueue", !.event = e,
                          !.seq = rings[e].count + 1, !.state = rings[e].state]
      PROVE  PlaceInv' /\ CarriedOn
  <2>1. rings[e].count \in 1..(MaxPresses - 1)
    <3>1. rings[e].state # "none" /\ rings[e].count < MaxPresses /\ rings[e].count \in Nat
      BY <1>5, RingRow DEF RecordRepeatPress, ActiveRings, RingInv
    <3> QED BY <3>1, EventStoreAssumption DEF RingInv, RingsAreCounted
  <2> DEFINE s == rings[e].count + 1
  <2>2. PICK k \in EventId \X PressSeq : k = <<e, s>>
    <3>1. <<e, s>> \in EventId \X PressSeq
      BY <2>1, EventStoreAssumption
    <3> QED BY <3>1
  <2>3. button'.pc = "enqueue" /\ button'.event = e /\ button'.seq = s /\ s # 1
    BY <1>4, <1>5, <2>1 DEF ButtonStates
  <2>4. \A f \in EventId : ~Entering(f)'
    BY <2>3 DEF Entering
  <2>5. \A j \in EventId \X PressSeq : Pressed(j)' <=> j = k
    BY <2>2, <2>3 DEF Pressed
  <2>6. ~Reporting(k)
    BY <2>1, <2>2, EventStoreAssumption DEF PlaceInv, OnlyRows
  <2>7. rings'[e].count = s /\ UNCHANGED events
    BY <1>5 DEF RecordRepeatPress, RingInv, StoreTypeOK, RingRows
  <2>8. events'[e].kind # "none"
    <3>1. events[e].kind = "ring"
      BY <1>5 DEF RecordRepeatPress, ActiveRings, RingInv, EventsAreAnchored
    <3> QED BY <2>7, <3>1
  <2>9. \A f \in EventId : SamePlace(f)
    BY <1>2, <2>4 DEF SamePlace
  <2>10. OnePlaceFor(e)' /\ (Waiting(e)' => Timed(e)')
    BY <1>2, <2>4 DEF OnePlaceFor, PlaceInv, OnePlace, TimeoutRuns
  <2>11. OnePressPlace'
    BY <1>2, <2>5, <2>6 DEF OnePressPlace
  <2>12. \A f \in EventId, t \in PressSeq : Pressed(<<f, t>>)' => ~(t > rings'[f].count)
    BY <2>1, <2>2, <2>5, <2>7
  <2>13. PlaceInv'
    BY <1>2, <1>3, <2>8, <2>9, <2>10, <2>11, <2>12, PlacesMove
  <2>14. \A j \in EventId \X PressSeq : j # k => pressQueue'[j] = pressQueue[j]
    BY <1>5, <2>2 DEF RecordRepeatPress, RingInv, StoreTypeOK, PressRows
  <2>15. CarriedOn
    BY <1>2, <2>4, <2>5, <2>7, <2>14 DEF CarriedOn, Carried
  <2> QED BY <2>13, <2>15
<1>6. ASSUME NEW e \in EventId, NEW known \in RecId \union {NoRecording}, NEW r \in RecId,
             RecordInitialPress(e, known, r, button.at),
             button' = [button EXCEPT !.pc = "enqueue", !.event = e,
                          !.seq = 1, !.state = "ringing"]
      PROVE  PlaceInv' /\ CarriedOn
  <2>1. /\ events[e].kind = "none" /\ events'[e].kind = "ring"
        /\ \A f \in EventId : f # e => events'[f] = events[f]
    BY <1>6, NewEvents DEF RecordInitialPress
  <2>2. rings[e].count = 0 /\ rings'[e].count = 1 /\ UNCHANGED pressQueue
    <3>1. rings \in RingRows
      BY DEF RingInv, StoreTypeOK
    <3> QED BY <1>6, <2>1, <3>1 DEF RecordInitialPress, RingInv, EventsAreAnchored,
                 RingsAreCounted, RingRows
  <2>3. button'.pc = "enqueue" /\ button'.event = e /\ button'.seq = 1
    BY <1>4, <1>6 DEF ButtonStates
  <2>4. PICK k \in EventId \X PressSeq : k = <<e, 1>>
    <3>1. 1 \in PressSeq
      BY EventStoreAssumption
    <3>2. <<e, 1>> \in EventId \X PressSeq
      BY <3>1
    <3> QED BY <3>2
  <2>5. ~Carried(e) /\ ~Reporting(k)
    <3>1. 1 \in PressSeq
      BY EventStoreAssumption
    <3>2. ~Carried(e)
      BY <2>1 DEF PlaceInv, OnlyRows
    <3>3. 1 > rings[e].count
      BY <2>2
    <3>4. ~Reporting(<<e, 1>>)
      BY <3>1, <3>3 DEF PlaceInv, OnlyRows
    <3> QED BY <2>4, <3>2, <3>4
  <2>6. \A f \in EventId : Entering(f)' <=> f = e
    BY <2>3 DEF Entering
  <2>7. \A j \in EventId \X PressSeq : Pressed(j)' <=> j = k
    BY <2>3, <2>4 DEF Pressed
  <2>8. \A f \in EventId : EventOf(f) \in Report /\ (f # e => SamePlace(f))
    BY <1>2, <2>6 DEF SamePlace
  <2>9. OnePlaceFor(e)' /\ ~Waiting(e)'
    BY <1>2, <2>5, <2>8 DEF OnePlaceFor, Carried
  <2>10. OnePressPlace'
    BY <1>2, <2>5, <2>7 DEF OnePressPlace
  <2>11. \A f \in EventId, t \in PressSeq : Pressed(<<f, t>>)' => ~(t > rings'[f].count)
    BY <2>2, <2>4, <2>7
  <2>12. PlaceInv'
    BY <1>2, <1>3, <2>1, <2>8, <2>9, <2>10, <2>11, PlacesMove
  <2>13. \A f \in EventId : Carried(f) \/ f = e => Carried(f)'
    BY <1>2, <2>6, <2>8 DEF Carried
  <2>14. CarriedOn
    BY <1>2, <2>1, <2>2, <2>13 DEF CarriedOn
  <2> QED BY <2>12, <2>14
<1>7. CASE StoreUntouched /\ button' = IdleButton
  <2>1. SamePlaces
    BY <1>2, <1>7 DEF SamePlaces, Entering, Pressed, IdleButton
  <2>2. NoNewRow
    BY <1>7 DEF NoNewRow, StoreUntouched, storeVars
  <2> QED BY <1>3, <2>1, <2>2, PlacesStay
<1> QED BY <1>5, <1>6, <1>7 DEF ButtonRecord

\* begin_ring_press hands a first press to the snapshot and its timeout, any
\* other one to the reporter.
LEMMA EnqueueSteps ==
  ASSUME Base, PlaceInv, RowsGrow, ButtonEnqueue
  PROVE  PlaceInv' /\ CarriedOn
<1> USE DEF Base
<1>1. UNCHANGED <<storeVars, worker, reporter, networkVars>> /\ button.pc = "enqueue"
  BY DEF ButtonEnqueue
<1>2. SentFrom /\ UNCHANGED <<events, rings, pressQueue>>
  BY <1>1 DEF SentFrom, networkVars, storeVars
<1>3. PICK e \in EventId, s \in PressSeq : e = button.event /\ s = button.seq
  BY <1>1 DEF TypeOK, HandsAreFull
<1>4. button'.pc = "notify"
  BY DEF ButtonEnqueue, TypeOK, ThreadsTypeOK, ButtonStates
<1>5. \A f \in EventId : /\ ~Entering(f)'
                         /\ Entering(f) <=> f = e /\ s = 1
                         /\ Preparing(f)' <=> Preparing(f)
                         /\ EventOf(f) \in Report
  BY <1>1, <1>3, <1>4 DEF Entering, Preparing
<1>6. \A j \in EventId \X PressSeq : ~Pressed(j)' /\ (Pressed(j) <=> j = <<e, s>>) /\ j \in Report
  BY <1>1, <1>3, <1>4 DEF Pressed
<1>7. OnePressPlace'
  BY <1>6 DEF OnePressPlace
<1>8. CASE s = 1
  <2>1. /\ pendingSnapshots' = pendingSnapshots \union {e}
        /\ mediaJobs' = mediaJobs \union {TimeoutJob(e, FALSE)}
        /\ UNCHANGED reportJobs
    BY <1>3, <1>8 DEF ButtonEnqueue
  <2>2. ReportedOnce' /\ \A k \in Report : Reporting(k)' <=> Reporting(k)
    BY <1>1, <2>1 DEF PlaceInv, ReportedOnce, Reporting, Held
  <2>3. ~Waiting(e) /\ ~Chosen(e) /\ ~Preparing(e) /\ ~Reporting(EventOf(e)) /\ Carried(e)
    BY <1>5, <1>8 DEF PlaceInv, OnePlace, OnePlaceFor, Carried
  <2>4. \A f \in EventId : /\ Waiting(f)' <=> Waiting(f) \/ f = e
                           /\ Chosen(f)' <=> Chosen(f)
                           /\ Timed(f)' <=> Timed(f) \/ f = e
    BY <2>1, JobsDiffer DEF Waiting, Chosen, Timed
  <2>5. OnePlaceFor(e)' /\ \A f \in EventId : f # e => SamePlace(f)
    BY <1>5, <2>2, <2>3, <2>4 DEF OnePlaceFor, SamePlace
  <2>6. PlaceInv'
    <3>1. events'[e].kind # "none"
      BY <2>3, PlacedRows
    <3> QED BY <1>2, <1>6, <1>7, <2>2, <2>4, <2>5, <3>1, PlacesMove
  <2>7. \A f \in EventId : Carried(f) => Carried(f)'
    BY <1>5, <2>2, <2>4 DEF Carried
  <2>8. pressQueue[<<e, s>>] = NoPress
    <3>1. s \notin 2..rings[e].count
      BY <1>8
    <3> QED BY <3>1 DEF RingInv, PressRowsMatchCount
  <2>9. CarriedOn
    BY <1>2, <1>6, <2>2, <2>7, <2>8 DEF CarriedOn
  <2> QED BY <2>6, <2>9
<1>9. CASE s # 1
  <2>1. /\ AddReport(<<e, s>>)
        /\ UNCHANGED <<mediaJobs, pendingSnapshots>>
    BY <1>3, <1>9 DEF ButtonEnqueue
  <2>2. <<e, s>> \in Report /\ <<e, s>> \in EventId \X PressSeq
    OBVIOUS
  <2>3. \A k \in Report : /\ reportJobs[k] \in Nat
                          /\ reportJobs'[k] = IF k = <<e, s>> THEN reportJobs[k] + 1
                                              ELSE reportJobs[k]
    BY <2>1, <2>2, ReportAdded DEF TypeOK, QueuesTypeOK
  <2>4. ~Reporting(<<e, s>>)
    BY <1>6, <2>2 DEF PlaceInv, OnePressPlace
  <2>5. ReportedOnce' /\ \A k \in Report : Reporting(k)' <=> Reporting(k) \/ k = <<e, s>>
    BY <1>1, <2>2, <2>3, <2>4 DEF PlaceInv, ReportedOnce, Reporting, Held
  <2>6. \A f \in EventId : EventOf(f) # <<e, s>>
    OBVIOUS
  <2>7. \A f \in EventId : SamePlace(f)
    BY <1>5, <1>9, <2>1 DEF SamePlace, Waiting, Chosen, Timed
  <2>8. OnePlaceFor(e)' /\ (Waiting(e)' => Timed(e)')
    <3>1. Reporting(EventOf(e))' <=> Reporting(EventOf(e))
      BY <1>5, <2>5, <2>6
    <3>2. OnePlaceFor(e) /\ (Waiting(e) => Timed(e)) /\ SamePlace(e)
      BY <2>7 DEF PlaceInv, OnePlace, TimeoutRuns
    <3> QED BY <3>1, <3>2 DEF OnePlaceFor, SamePlace
  <2>9. events'[e].kind # "none"
    <3>1. ~(s > rings[e].count)
      BY <1>6, <2>2 DEF PlaceInv, OnlyRows
    <3>2. rings[e].count # 0 /\ rings[e].count \in Nat
      BY <3>1, RingRow DEF RingInv
    <3>3. events[e].kind = "ring"
      BY <3>2 DEF RingInv, RingsAreCounted, EventsAreAnchored
    <3> QED BY <1>2, <3>3
  <2>10. PlaceInv'
    BY <1>2, <1>6, <1>7, <2>2, <2>5, <2>7, <2>8, <2>9, PlacesMove
  <2>11. \A f \in EventId : Carried(f) => Carried(f)'
    BY <1>5, <2>5, <2>7 DEF Carried, SamePlace
  <2>12. CarriedOn
    BY <1>2, <1>6, <2>5, <2>11 DEF CarriedOn
  <2> QED BY <2>10, <2>12
<1> QED BY <1>8, <1>9

\* start() finds idle threads and empty queues, and queues what is unreported.
LEMMA RecoverSteps ==
  ASSUME Base, PlaceInv, StartRecover
  PROVE  PlaceInv' /\ Unforgotten'
<1> USE DEF Base
<1>1. /\ button' = IdleButton /\ worker' = IdleWorker /\ reporter' = IdleReporter
      /\ mediaJobs' = {} /\ pendingSnapshots' = {} /\ outbox' = {}
      /\ UNCHANGED delivered
  BY DEF StartRecover, DownIsIdle, threadVars, networkVars
<1>2. /\ UNCHANGED <<events, pressQueue>>
      /\ \A e \in EventId : rings'[e].count = rings[e].count
  <2>1. rings \in RingRows
    BY DEF RingInv, StoreTypeOK
  <2>2. ASSUME NEW e \in EventId, RecoverStaleAcceptedRing(e)
        PROVE  UNCHANGED <<events, pressQueue>> /\ \A f \in EventId : rings'[f].count = rings[f].count
    BY <2>1, <2>2 DEF RecoverStaleAcceptedRing, SetRingState, RingRows
  <2>3. ASSUME StoreUntouched
        PROVE  UNCHANGED <<events, pressQueue, rings>>
    BY <2>3 DEF StoreUntouched, storeVars
  <2> QED BY <2>2, <2>3 DEF StartRecover, RecoverRing
<1>3. \A e \in EventId : ~Entering(e)' /\ ~Waiting(e)' /\ ~Chosen(e)' /\ ~Preparing(e)'
  BY <1>1 DEF Entering, Waiting, Chosen, Preparing, IdleButton, IdleWorker
<1>4. \A k \in Report : ~Held(k)'
  BY <1>1 DEF Held, IdleReporter
<1>5. \A k \in EventId \X PressSeq : ~Pressed(k)'
  BY <1>1 DEF Pressed, IdleButton
<1>6. PICK rows \in SUBSET {k \in Report : Unreported(k)} :
        /\ reportJobs' = [k \in Report |-> IF k \in rows THEN 1 ELSE 0]
        /\ unread' = {k \in Report : Unreported(k)} \ rows
  BY DEF StartRecover, QueuePending
<1>7. ReportedOnce' /\ \A k \in Report : Reporting(k)' <=> k \in rows
  BY <1>4, <1>6 DEF ReportedOnce, Reporting
<1>8. OnePlace' /\ OnePressPlace' /\ TimeoutRuns'
  BY <1>3, <1>5 DEF OnePlace, OnePlaceFor, OnePressPlace, TimeoutRuns
<1>9. \A e \in EventId : /\ EventOf(e) \in Report
                         /\ Unreported(EventOf(e)) <=>
                              events[e].kind # "none" /\ events[e].reported = 0
  BY DEF Unreported
<1>10. \A e \in EventId, s \in PressSeq :
         <<e, s>> \in Report /\ (Unreported(<<e, s>>) <=> pressQueue[<<e, s>>] = "queued")
  BY DEF Unreported
<1>11. OnlyRows'
  <2>1. ASSUME NEW e \in EventId, events'[e].kind = "none"
        PROVE  /\ events'[e].reported = 0 /\ ~Carried(e)'
               /\ EventOf(e) \notin outbox' \union delivered'
    <3>1. EventOf(e) \notin rows
      BY <1>2, <1>9, <2>1
    <3>2. ~Carried(e)'
      BY <1>3, <1>7, <1>9, <3>1 DEF Carried
    <3> QED BY <1>1, <1>2, <2>1, <3>2 DEF PlaceInv, OnlyRows
  <2>2. ASSUME NEW e \in EventId, NEW s \in PressSeq, s > rings'[e].count
        PROVE  ~Reporting(<<e, s>>)' /\ ~Pressed(<<e, s>>)'
    <3>1. s \notin 2..rings[e].count
      BY <1>2, <2>2, RingRow DEF RingInv
    <3>2. pressQueue[<<e, s>>] = NoPress
      BY <3>1 DEF RingInv, PressRowsMatchCount
    <3>3. <<e, s>> \notin rows
      BY <1>10, <3>2
    <3> QED BY <1>5, <1>7, <1>10, <3>3
  <2> QED BY <2>1, <2>2 DEF OnlyRows
<1>12. Unforgotten'
  <2>1. \A k \in Report : Unreported(k) /\ k \notin unread' => Reporting(k)'
    BY <1>6, <1>7
  <2>2. ASSUME NEW e \in EventId, events'[e].kind # "none", events'[e].reported = 0,
               EventOf(e) \notin unread'
        PROVE  Carried(e)'
    BY <1>2, <1>9, <2>1, <2>2 DEF Carried
  <2>3. ASSUME NEW e \in EventId, NEW s \in PressSeq, pressQueue'[<<e, s>>] = "queued",
               <<e, s>> \notin unread'
        PROVE  Reporting(<<e, s>>)'
    BY <1>2, <1>10, <2>1, <2>3
  <2> QED BY <2>2, <2>3 DEF Unforgotten
<1> QED BY <1>7, <1>8, <1>11, <1>12 DEF PlaceInv

\* A process that dies or is only opened holds no report.
LEMMA DownSteps ==
  ASSUME Base', PlaceInv, RowsGrow, StartOpen \/ Die
  PROVE  PlaceInv' /\ Unforgotten'
<1>1. phase' # "up" /\ outbox' = {} /\ UNCHANGED delivered
  BY DEF StartOpen, Die, Base, DownIsIdle, networkVars
<1>2. /\ button' = IdleButton /\ worker' = IdleWorker /\ reporter' = IdleReporter
      /\ mediaJobs' = {} /\ pendingSnapshots' = {} /\ reportJobs' = NoJobs
  BY <1>1 DEF Base, DownIsIdle
<1>3. ReportedOnce' /\ \A k \in Report : ~Reporting(k)'
  BY <1>2 DEF ReportedOnce, Reporting, Held, IdleReporter, NoJobs
<1>4. FewerPlaces
  BY <1>2, <1>3 DEF FewerPlaces, Entering, Waiting, Chosen, Preparing, Pressed,
                    IdleButton, IdleWorker
<1>5. SentFrom
  BY <1>1 DEF SentFrom
<1> QED BY <1>1, <1>3, <1>4, <1>5, PlacesShrink DEF Unforgotten

LEMMA PlaceStep == ReportInv /\ [Next]_vars => PlaceInv' /\ Unforgotten'
<1> SUFFICES ASSUME ReportInv, [Next]_vars PROVE PlaceInv' /\ Unforgotten'
  OBVIOUS
<1> USE DEF ReportInv
<1>1. Base' /\ RowsGrow
  BY BaseStep, StepIsTransaction, StoreRowsGrow DEF Base
<1>2. CASE StartOpen \/ Die
  BY <1>1, <1>2, DownSteps
<1>3. CASE StartRecover
  BY <1>3, RecoverSteps
<1>4. CASE ProcessStep \/ Tick \/ UNCHANGED vars
  <2>1. PlaceInv' /\ CarriedOn
    BY <1>1, <1>4, QuietSteps, ReporterSteps, WorkerSteps, SnapshotSteps, PersonSteps,
       RecordSteps, EnqueueSteps DEF ProcessStep, Button, Worker
  <2>2. UNCHANGED <<phase, unread>>
    <3>1. UNCHANGED phase
      BY <1>4, OnlyWhenUp DEF Tick, vars, processVars
    <3>2. UNCHANGED unread
      BY <1>4 DEF ProcessStep, Tick, vars, SnapshotTimer, Button, ButtonPress, ButtonExpired,
           ButtonRecord, ButtonEnqueue, ButtonNotify, ButtonArm, SubmitRingSnapshot,
           BeginPersonRecording, BeginPersonEvent, Worker, WorkerExpire, WorkerExpired,
           WorkerPrepare, WorkerOtherJob, WorkerTake, Reporter, ReporterPublishEvent,
           ReporterPublishPress, ReporterMark, ReporterTake, Backend, SessionLost,
           RingNotify, SendQueued, HandleReportAck, RingCommand, historyVars
    <3> QED BY <3>1, <3>2
  <2> SUFFICES ASSUME phase' = "up"
               PROVE  /\ \A e \in EventId :
                           events'[e].kind # "none" /\ events'[e].reported = 0
                             /\ EventOf(e) \notin unread' => Carried(e)'
                      /\ \A k \in EventId \X PressSeq :
                           pressQueue'[k] = "queued" /\ k \notin unread' =>
                             Pressed(k)' \/ Reporting(k)'
    BY <2>1 DEF Unforgotten
  <2>3. \A e \in EventId :
          events'[e].kind # "none" /\ events'[e].reported = 0 /\ EventOf(e) \notin unread
            => Carried(e) \/ events[e].kind = "none"
    BY <1>1, <2>2 DEF RowsGrow, Unforgotten
  <2> QED BY <2>1, <2>2, <2>3 DEF Unforgotten, CarriedOn
<1> QED BY <1>2, <1>3, <1>4 DEF Next, ProcessStep

-----------------------------------------------------------------------------
(* The theorems.                                                           *)

LEMMA ReportInit == Init => ReportInv
<1> SUFFICES ASSUME Init PROVE ReportInv
  OBVIOUS
<1>1. Base
  BY BaseInit
<1>2. \A e \in EventId : ~Carried(e)
  BY DEF Init, Carried, Entering, Waiting, Chosen, Preparing, Reporting, Held, IdleButton,
         IdleWorker, IdleReporter, NoJobs
<1>3. \A k \in EventId \X PressSeq : ~Pressed(k)
  BY DEF Init, Pressed, IdleButton
<1>4. ReportedOnce /\ \A k \in Report : ~Reporting(k)
  BY DEF Init, ReportedOnce, Reporting, Held, IdleReporter, NoJobs
<1>5. OnePlace /\ OnePressPlace /\ TimeoutRuns
  BY <1>2, <1>3 DEF OnePlace, OnePlaceFor, OnePressPlace, TimeoutRuns, Carried
<1>6. OnlyRows
  <2>1. \A e \in EventId : events[e].reported = 0
    BY DEF Init, StoreInit, NoRow
  <2>2. outbox = {} /\ delivered = {}
    BY DEF Init
  <2> QED BY <1>2, <1>3, <1>4, <2>1, <2>2 DEF OnlyRows
<1>7. AcceptedInThisLife /\ Unforgotten
  BY DEF Init, AcceptedInThisLife, Unforgotten
<1> QED BY <1>1, <1>4, <1>5, <1>6, <1>7 DEF ReportInv, PlaceInv

LEMMA ReportStep == ReportInv /\ [Next]_vars => ReportInv'
  BY BaseStep, PlaceStep, AcceptedStep DEF ReportInv

\* The inductive invariant holds through any deaths, failures and orders.
THEOREM ReportsAreAccounted == Spec => []ReportInv
  BY ReportInit, ReportStep, PTL DEF Spec

\* A ring that is accepted was accepted in this life of the process.
THEOREM NoRingOutlivesItsProcess == Spec => []AcceptedInThisLife
<1>1. ReportInv => AcceptedInThisLife
  BY DEF ReportInv
<1> QED BY <1>1, ReportsAreAccounted, PTL

\* An event or a press never has two reports side by side.
THEOREM NothingIsReportedTwiceOver == Spec => []OneReportPerItem
<1>1. ReportInv => OneReportPerItem
  <2> SUFFICES ASSUME ReportInv, NEW k \in Report
               PROVE  reportJobs[k] + ReportInHand(k)
                        + (IF worker.pc = "prepare" /\ k = EventOf(worker.event)
                             THEN 1 ELSE 0) <= 1
    BY DEF OneReportPerItem
  <2>1. reportJobs[k] \in Nat /\ reportJobs[k] <= 1 /\ (Held(k) => reportJobs[k] = 0)
    BY DEF ReportInv, Base, TypeOK, QueuesTypeOK, PlaceInv, ReportedOnce
  <2>2. ReportInHand(k) = IF Held(k) THEN 1 ELSE 0
    BY DEF ReportInHand, Held
  <2>3. CASE worker.pc = "prepare" /\ k = EventOf(worker.event)
    <3>1. PICK e \in EventId : e = worker.event
      BY <2>3 DEF ReportInv, Base, TypeOK, HandsAreFull
    <3>2. ~Reporting(k)
      BY <2>3, <3>1 DEF ReportInv, PlaceInv, OnePlace, OnePlaceFor, Preparing
    <3> QED BY <2>1, <2>2, <3>2 DEF Reporting
  <2>4. CASE ~(worker.pc = "prepare" /\ k = EventOf(worker.event))
    BY <2>1, <2>2, <2>4
  <2> QED BY <2>3, <2>4
<1> QED BY <1>1, ReportsAreAccounted, PTL

\* While the process is up, somebody holds the report of every unreported row
\* it could read: no order of snapshot, timeout, failure and ACK loses one.
THEOREM NoReportIsForgotten == Spec => []NothingForgotten
<1>1. ReportInv => NothingForgotten
  <2> SUFFICES ASSUME ReportInv, phase = "up", NEW k \in Report, Unreported(k), k \notin unread
               PROVE  IF k[2] = 0 THEN EventCarried(k[1]) ELSE PressCarried(k)
    BY DEF NothingForgotten
  <2>1. \A j \in Report : ReportInHand(j) = 1 <=> Held(j)
    BY DEF ReportInHand, Held
  <2>2. CASE k[2] = 0
    <3>1. PICK e \in EventId : k = EventOf(e)
      BY <2>2
    <3>2. Carried(e) /\ (Waiting(e) => Timed(e))
      BY <3>1 DEF ReportInv, Unforgotten, Unreported, PlaceInv, TimeoutRuns
    <3>3. Timed(e) => \E ready \in BOOLEAN : TimeoutJob(e, ready) \in mediaJobs
      BY DEF Timed
    <3>4. EventOf(e) \in Report
      OBVIOUS
    <3>5. EventCarried(e)
      BY <2>1, <3>2, <3>3, <3>4 DEF Carried, EventCarried, Entering, Waiting, Chosen,
           Preparing, Reporting
    <3> QED BY <2>2, <3>1, <3>5
  <2>3. CASE k[2] # 0
    <3>1. k \in EventId \X PressSeq /\ pressQueue[k] = "queued"
      BY <2>3 DEF Unreported
    <3>2. Pressed(k) \/ Reporting(k)
      BY <3>1 DEF ReportInv, Unforgotten
    <3> QED BY <2>1, <2>3, <3>2 DEF PressCarried, Pressed, Reporting
  <2> QED BY <2>2, <2>3
<1> QED BY <1>1, ReportsAreAccounted, PTL

-----------------------------------------------------------------------------
(* Reporting is at-least-once delivery.                                    *)

Recorded == {e \in EventId : events[e].kind # "none"}
Received == {e \in EventId : EventOf(e) \in delivered}
Settled  == {e \in EventId : events[e].reported # 0}

LEMMA DeliveryStutters ==
  ASSUME UNCHANGED <<events, delivered>>
  PROVE  UNCHANGED <<Recorded, Received, Settled>>
  BY DEF Recorded, Received, Settled

\* Every step records, receives or settles one event, or none of these.
LEMMA DeliveryStep ==
  ASSUME ReportInv, [Next]_vars
  PROVE  \/ UNCHANGED <<Recorded, Received, Settled>>
         \/ \E e \in EventId :
              \/ /\ e \notin Recorded /\ Recorded' = Recorded \union {e}
                 /\ UNCHANGED <<Received, Settled>>
              \/ /\ e \in Recorded /\ Received' = Received \union {e}
                 /\ UNCHANGED <<Recorded, Settled>>
              \/ /\ e \in Received /\ Settled' = Settled \union {e}
                 /\ UNCHANGED <<Recorded, Received>>
<1> USE DEF ReportInv, Base
<1>1. events \in EventRows
  BY DEF RingInv, StoreTypeOK
<1>2. ASSUME NEW e \in EventId, NEW kind \in {"person", "ring"}, NEW r, e = sequence + 1,
             InsertEvent(e, kind, r), UNCHANGED delivered
      PROVE  /\ e \notin Recorded /\ Recorded' = Recorded \union {e}
             /\ UNCHANGED <<Received, Settled>>
  <2>1. /\ events[e].kind = "none" /\ events'[e].kind = kind
        /\ \A f \in EventId : f # e => events'[f] = events[f]
    BY <1>2, NewEvents
  <2>2. events[e].reported = 0 /\ events'[e].reported = 0
    BY <1>1, <1>2, <2>1 DEF PlaceInv, OnlyRows, InsertEvent, EventRows
  <2> QED BY <1>2, <2>1, <2>2 DEF Recorded, Received, Settled
<1>3. CASE ButtonRecord
  BY <1>2, <1>3, DeliveryStutters
     DEF ButtonRecord, RecordRepeatPress, RecordInitialPress, networkVars,
         StoreUntouched, storeVars
<1>4. CASE BeginPersonEvent
  BY <1>2, <1>4 DEF BeginPersonEvent, CreatePersonEvent, networkVars
<1>5. ASSUME NEW k \in Report, SendQueued(k)
      PROVE  \/ UNCHANGED <<Recorded, Received, Settled>>
             \/ \E e \in EventId : /\ e \in Recorded /\ Received' = Received \union {e}
                                   /\ UNCHANGED <<Recorded, Settled>>
  <2>1. UNCHANGED events /\ delivered' = delivered \union {k} /\ k \in outbox
    BY <1>5 DEF SendQueued, storeVars
  <2>2. UNCHANGED <<Recorded, Settled>>
    BY <2>1 DEF Recorded, Settled
  <2>3. CASE k[2] = 0
    <3>1. PICK e \in EventId : k = EventOf(e)
      BY <2>3
    <3>2. e \in Recorded
      BY <2>1, <3>1 DEF PlaceInv, OnlyRows, Recorded
    <3>3. Received' = Received \union {e}
      BY <2>1, <3>1 DEF Received
    <3> QED BY <2>2, <3>2, <3>3
  <2>4. CASE k[2] # 0
    <3>1. \A e \in EventId : EventOf(e) # k
      BY <2>4
    <3>2. UNCHANGED Received
      BY <2>1, <3>1 DEF Received
    <3> QED BY <2>2, <3>2
  <2> QED BY <2>3, <2>4
<1>6. ASSUME NEW e \in EventId, HandleReportAck(e)
      PROVE  /\ e \in Received /\ Settled' = Settled \union {e}
             /\ UNCHANGED <<Recorded, Received>>
  <2>1. PICK value \in {-1, 1} : SetReported(e, value)
    BY <1>6 DEF HandleReportAck, MarkReported, MarkUnreportable
  <2>2. \A f \in EventId : /\ events'[f].kind = events[f].kind
                           /\ events'[f].reported = IF f = e THEN value ELSE events[f].reported
    BY <1>1, <2>1 DEF SetReported, EventRows
  <2>3. EventOf(e) \in delivered /\ UNCHANGED delivered
    BY <1>6 DEF HandleReportAck, networkVars
  <2> QED BY <2>2, <2>3 DEF Recorded, Received, Settled
<1>7. CASE UNCHANGED <<events, delivered>>
  BY <1>7, DeliveryStutters
<1>8. CASE StartOpen \/ StartRecover \/ Die \/ Tick \/ SnapshotTimer \/ SubmitRingSnapshot
             \/ BeginPersonRecording \/ UNCHANGED vars
  BY <1>7, <1>8 DEF StartOpen, Open, StartRecover, RecoverRing, RecoverStaleAcceptedRing,
       SetRingState, StoreUntouched, Die, Close, Tick, SnapshotTimer, SubmitRingSnapshot,
       BeginPersonRecording, BeginRecording, networkVars, storeVars, vars
<1>9. CASE ButtonPress \/ ButtonExpired \/ ButtonEnqueue \/ ButtonNotify \/ ButtonArm \/ Worker
  BY <1>7, <1>9 DEF ButtonPress, ButtonExpired, ButtonEnqueue, ButtonNotify, ButtonArm,
       Worker, WorkerExpire, WorkerExpired, WorkerPrepare, WorkerOtherJob, WorkerTake,
       ExpireOpenRing, SetRingState, StoreUntouched, networkVars, storeVars
<1>10. CASE Reporter
  BY <1>7, <1>10 DEF Reporter, ReporterPublishEvent, ReporterPublishPress, ReporterMark,
       ReporterTake, MarkRingPressReported, StoreUntouched, networkVars, storeVars
<1>11. CASE Backend
  <2>1. CASE SessionLost \/ RingNotify \/ \E e \in EventId, state \in RingState : RingCommand(e, state)
    BY <1>7, <2>1 DEF SessionLost, RingNotify, RingCommand, UpdateRingState, SetRingState,
         networkVars, storeVars
  <2> QED BY <1>5, <1>6, <1>11, <2>1 DEF Backend
<1> QED BY <1>3, <1>4, <1>8, <1>9, <1>10, <1>11 DEF Next, Button

\* The event processor implements at-least-once delivery: an event is settled
\* only after the backend received it, and received only once it is recorded.
THEOREM ReportingDelivers == Spec => EventReporting
<1>1. Init => EventDelivery!Init
  BY DEF Init, StoreInit, NoRow, EventDelivery!Init
<1>2. ReportInv /\ [Next]_vars => [EventDelivery!Next]_(EventDelivery!vars)
  <2> SUFFICES ASSUME ReportInv, [Next]_vars PROVE [EventDelivery!Next]_(EventDelivery!vars)
    OBVIOUS
  <2> QED BY DeliveryStep DEF Recorded, Received, Settled, EventDelivery!Next,
             EventDelivery!vars, EventDelivery!Record, EventDelivery!Receive,
             EventDelivery!Settle
<1> QED BY <1>1, <1>2, ReportsAreAccounted, PTL DEF Spec, EventReporting, EventDelivery!Spec
=============================================================================
