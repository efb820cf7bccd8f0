# A TLA+ model of the doorbell

The program (C++17, RK3568) is a doorbell with a camera: it stores ring and
person events in SQLite, records segmented MP4 files, reports to a backend over
MQTT and serves live view over WebRTC. These modules model its events and
recordings, its connection to the network and the cloud, its settings, the live
view, and the handling of pictures and sound. TLC checks them on small instances,
and TLAPS proves every safety property of the runs for all values of the constants.
Paths below are relative to the repository (`src/...` is its `src` directory).

## 1. Inventory

| Part | State | Operations | Interacts with |
|---|---|---|---|
| **EventStore** `src/events/event_store.cpp` | SQLite tables `event_meta`, `events`, `ring_events`, `ring_press_queue`, `recordings`, `recording_segments` | about 25 methods, each one transaction or statement under one mutex | called by all threads through the processor |
| **DeviceEventProcessor** `src/events/device_event_processor.cpp` | three in-memory queues (`jobs_`, `recording_jobs_`, `report_jobs_`), `pending_ring_snapshots_`, `failed_recordings_`, two worker threads | ring press, person event, snapshot hand-over, segment and finalization jobs, report ACK, ring and media commands, start/stop | publishes through provisioning and MQTT; tells main the life cycle of a ring |
| **main.cpp** | `UiContext`: current, last attempted and pending recording id, open ring, flags of a press or a stop in progress; frame selections | recorder, inference and ring snapshot threads, short-press handler, lifecycle handler, camera restart, shutdown | recorder, camera, processor |
| **Selection** `snapshot_candidate_selector` | window, best frame | start, consider, take | ring snapshot thread |
| **Mp4Recorder** `src/utils/mp4_recorder.cpp` | one GStreamer pipeline, its fragments, a pool of DMA buffers | start, write, stop, closed-segment callback | recorder thread, audio capture, GStreamer threads |
| **Camera** `src/camera.cpp` | two pairs of buffers, the index of the latest | start, stop, capture loop, copies | all readers of frames |
| **AudioCaptureManager**, **DoorbellChimePlayer** `src/utils/` | two playback queues, play request | push, mix, play once, stop; capture dispatch | live view, button, recorder |
| **MqttDeviceClient**, handshake `src/device/` | client, two sets of message ids, connection stage | publish with or without waiting for the PUBACK, session loop, reconnection | MQTT thread calls all command handlers |
| **DoorbellProvisioning** `src/device/provisioning.cpp` | stage, credentials, access point, threads | connect, long-press reset, HTTP set-up, settings commands, button loop | owns MQTT, live view, settings |
| **LiveViewSession**, **LiveWebRtcSession** | call, media state, candidates, quality switch | start, switch, answer, candidate, hang up, failure | signalling over MQTT |
| **DeviceSettingsStore**, **TimezoneManager**, **TimeSyncService** | settings file, zone files, clock state | set with roll back, synchronise | provisioning |
| person gate, RGA, UI, detectors, uploaders | hardware, pixels and I/O | | |

What is hard: more than a dozen threads share these objects, and almost every handler
releases its lock between reading and acting; the process may lose power between
any two steps; MQTT loses what it has queued; disks fill up or become read-only;
jobs are retried without limit; GStreamer and libmosquitto call back from their
own threads, also while they are taken down.

What makes the parts correct:

* store: at most one open ring; counters that agree with rows; terminal states
  that stay; nothing reported is taken back;
* reports: every stored event reaches the backend at least once and is settled
  by its business ACK only; each event is reported by one job; presses arrive;
* rings: no call outlives the process that accepted it; a ring gets a picture of
  its own second, and an answer in any case;
* recordings: a press keeps the recording it was given; a recording is finalized
  once, is whole when it says so, and ends; its segments are told once, in their
  numbers;
* connection: a PUBACK wakes the publisher of its own message; online means that
  this session's handshake is complete; a reset is not undone by a late thread;
  the doorbell can be reached when nobody is at work;
* settings: what is stored is in effect, in memory and on disk, after failures
  and losses of power;
* live view: a quality switch is finished once and always acknowledged; a
  candidate is not lost; a hang-up leaves nothing behind;
* media: a copied picture is whole, no buffer is lost or written under the
  encoder, nothing enters a stream that has ended, a press is heard;
* everywhere: `stop()` returns.

`PROJECT.json` lists the components with their state, and the hazards with the
line where each bites and the property that would catch it.

## 2. Plan

Done, in this order: `EventStore` (arbitrary callers), `RingReporting` with the
abstract `AtLeastOnce`, `RingRecording`, `EventStoreProofs`, `MqttClient`,
`Provisioning`, `DeviceSettings`, `LiveView`, the media parts `CameraFrames`,
`RecorderPipeline`, `AudioPlayback`, `RingSnapshot`, composed in `Media`; then the
proofs about each of them, in a module beside it.

Left:

1. What the liveness properties rest on, as far as it can be stated without fairness:
   for `StopReturns` and `SubmittedEnds`, that from every reachable state with work
   left somebody has a step to take.
2. `PersonEvents` (the gate and its two-second selection) and `SchemaMigration`.

## 3. Modules

### EventStore

The tables are functions over ids; a row that does not exist has kind `"none"`,
state `"none"` or status `"absent"`. Each method is one action, because each
runs under the store's mutex in one transaction. A failing transaction rolls
back and is a stuttering step of the tables. `StoreNext` lets any caller do any
transaction in any order, also opening and closing.

| Definition | Code |
|---|---|
| `Open` | `open`, `initialize_schema` with its recovery `UPDATE` |
| `RecordInitialPress`, `RecordRepeatPress` | the two halves of `record_ring_press` |
| `ExpireOpenRing`, `Deadline` | `expire_open_ring`: min(last + 40 s, first + 120 s) |
| `RecoverStaleAcceptedRing`, `UpdateRingState` | the same methods; the unique index is the guard on active rings |
| `CreatePersonEvent`, `MarkReported`, `MarkUnreportable`, `MarkRingPressReported` | the same methods |
| `BeginRecording`, `AppendRecordingSegment`, `FinalizeRecording`, `CompleteRecording` | the same methods |

Two abstractions: an event id is its sequence number (the code prints a date
before it), and a recording id is the next free number (the code uses the start
in milliseconds; a collision is one more failing transaction).

### RingReporting

The button thread, `worker_loop`, `report_worker_loop` and the MQTT thread each
have a program counter; one step is one critical section, one transaction or one
callback. `ButtonPress` .. `ButtonArm` are the short-press handler with
`begin_ring_press` inside it. `WorkerTake`/`WorkerPrepare` are a
`PrepareRingEvent` job, `SubmitRingSnapshot` the ring snapshot thread,
`BeginPersonRecording` and `BeginPersonEvent` what the recorder and the inference
thread ask of the processor.
`ReporterTake` .. `ReporterMark` are a report job: an event's job goes back to the
queue even when it was published, because only the ACK settles it; a press is
marked reported after its message was *queued* in the MQTT client (`outbox`),
which `SessionLost` empties. `Die` models a crash as well as `stop()`: neither
drains a queue. `StartOpen`/`StartRecover` are `start()`, including its two
queries whose failure is not noticed (`unread`). The backend acknowledges an
event, or sends a command for it, only after it has received a message about it.
`answered` and `unread` are history and never guard an action.

### AtLeastOnce

The promise: items are recorded, then received (perhaps often), then settled.
`RingReporting` instantiates it with events, what the backend has, and
`reported # 0`.

### RingRecording

`context` is the part of `UiContext` guarded by `record_mtx`. The recorder thread
goes through `RecorderLook` (want to record? camera?), `RecorderDecide` (the second
look under the lock), `RecorderIdentity`, `RecorderStart`, `RecorderStarted`,
`RecorderWrite`, `RecorderStop`, `RecorderFinalize` and the failure paths;
`SegmentClosed` is the callback of the recorder, on the same thread. Whether a
person is in view, the camera is ready, a start or a write succeeds is chosen
freely. `finalize_recording` waits at most 30 s for the worker and goes on in
either case, so the recorder goes on at any time. The worker takes
`recording_jobs_` from the front, before `jobs_`, as the code does. `Shutdown` is
`g_stop`; the recorder then leaves through `RecorderExit`.

### MqttClient

`loop` is where `mqtt_loop` is; `handshake` is `MqttSessionHandshake`; `client` is
the pointer that publishers take, handed out in `NewClient` before the connection
and withdrawn in `WithdrawClient`. `published` and `nonblocking` are the two sets of
message ids. libmosquitto gives ids from 1 to every client (`nextId`) and has
messages in flight until `PubAck`, which is `mqtt_publish_callback`.

| Definition | Code |
|---|---|
| `Start`, `StopBegin`, `StopJoin` | `start`, `stop` before and after the join |
| `Subscribe`, `SubAck`, `PublishReady`, `GoOnline`, `HandshakeFails` | the session handshake, its timeouts and failures |
| `SessionLost`, `SessionStopped`, `DestroyClient`, `LoopEnds` | the end of a session and of the loop |
| `Publish(p, "wait")`, `WaitEnds` | `publish_payload`: the PUBACK, the stop or 5 s |
| `Publish(p, "settle")`, `Settle` | `publish_payload_nonblocking`: the id is noted after the message is out |
| `PublishInCallback` | `publish_payload` on the MQTT thread itself |

A call that outlives the client it published through (`Straddles`, `stray`) may take
the PUBACK of a message of the next client that has the same id. The properties
except it; nothing in the code keeps it from happening.

### Provisioning

`main`, `http`, `worker` and `button` are program counters with the credentials in
hand; `mqtt` and `mqttStop` are the MQTT client as provisioning sees it. `stage`,
`saved` (the WiFi file), `sta` and `ap` are shared without a common lock.
`StopMqtt(pc, next, then)` is `MqttDeviceClient::stop` for three callers, and
`Terminate` is what C++ does when two of them join the thread (or a worker is
assigned over a joinable one). Before the MQTT client the same three stop the live view
(`StopLive`), while the MQTT thread may still start or end one (`MqttCommand`): such a
stop may never return (`"stuck"`), and two of them may take one thread (`LiveRace`).
`LiveView` says when; here both are choices wherever a live view has been started. The
stop of the time synchronisation (`MainEndTime`) may wait for hours: `DeviceSettings` says
when. `StaConnects` is what `connect_sta` checks: the ssid only, when the station is in a
network of that name. `Restart` is an end of the process or a loss of power; the daemons
survive only the former. `onDisk` is what the WiFi file may hold after the latter, as
neither its writing nor its removal is flushed. `told` says what the doorbell was told
last: `"reset"`; `"kept"` when a reset could not remove the WiFi file, which
`clear_saved_wifi` does not notice; `"attempt"`; or `"mixed"` when a reset and an attempt
overlapped, in which case the code promises nothing.

| Definition | Code |
|---|---|
| `MainEndHttp`, `MainEndTime`, `MainStopLive`, `MainEndWorker`, `MainStopMqtt`, `MainEndButton` | `stop`, line by line |
| `ButtonReset`, `ButtonStopLive`, `ButtonStopMqtt`, `ButtonStage`, `ButtonLeave`, `ButtonAp` | `handle_long_press_reset` |
| `WorkerStopLive`, `WorkerStopMqtt`, `WorkerStage`, `WorkerConnect`, `WorkerSave` .. | `provisioning_worker` |
| `JoinWorker`, `Spawn` | `begin_provisioning`, for the HTTP thread and for main |

### DeviceSettings

`disk` is `settings.json` and `stored`, `sync` the snapshot in memory;
`ReplaceSettings` and `UpdateTimeSync` write both under the store's mutex.
`command` goes through the fields of a patch in the order of the code: apply,
store, and on failure undo and store again (`FieldApplied`, `FieldStored`,
`FieldNotStored`, `FieldUndone`, `FieldUnstored`). The code has one block of that shape
for each of its six fields (`provisioning.cpp` 683-819); the actions stand for all of
them, and `FieldZone`, `ZoneApplied`, `ZoneUndone` for what only the last one has.
`FieldUnstored` is `fail_store`, which all share. `zone` is one call of
`TimezoneManager::apply`, one step per rename (`ZonePrepare` .. `ZoneClean`), for main
or for a command. `fresh` holds the zone files and backups whose contents were written
but never flushed: a loss of power (`PowerFails`) leaves any of them `Broken`.
`main` is the start, which applies a snapshot that a command may have overtaken
(`overtaken`). `worker` is `worker_loop`, with the test of its condition and its
sleep as two steps, because `stop()` notifies without the mutex (`missed`). `torn`
records that a roll back has failed as well.

### LiveView

`LiveViewSession` on the MQTT thread (`StartLive`, `SwitchQuality`, `Hangup`,
`HandleAnswer`, `HandleCandidate`, and the steps of `mqtt.pc`), `stop()` for the MQTT
thread and for another caller (`StopAudio` .. `StopJoinsLoop`), the threads of
`LiveWebRtcSession` (watchdog, frame thread, main loop), webrtcbin (`peer`, `tasks`),
and `finish_quality_switch` on each of six threads (`FinishTake`, `FinishRollback`,
`FinishAnswer`). The variables under `mtx_` change only in steps that hold it; the
elements of the branch (`branch`), `video_paused_` and the threads change outside.
History: `overtaken` (steps of two switches crossed), `overlap` (a `stop()` from outside
and a command met), `renewed` (and that command was a start, which made a new session),
`lostQuit` (`g_main_loop_quit` before `g_main_loop_run`), `crashed` (`start()` assigned a
joinable thread or used a freed pipeline, or two `stop()` joined one thread). Each of these
really happens in the model; the properties name the one they except.

`StopFromOutside` is `LiveViewSession::stop` for a reset, a new provisioning or the
shutdown. All three stop the MQTT client afterwards (`provisioning.cpp` 622-624, 1245-1246,
1409-1410), so commands and signals go on during it. The threads of a session are known
by their holder: the session, or the `stop()` that has moved the `std::thread` out of it.
Watchdog and frame thread are moved under `mtx_` (`StopTake`), the loop thread without it
(`StopTakesLoop`), where `start()` assigns it without the lock too (`StartLoop`).

One thing seen while reading needs no model: `command_ack_data_publisher` is
assigned (`src/device/provisioning.cpp:550`) after `live_publishers` has been moved
into the session (539), so acknowledgements are always sent without their data.

### CameraFrames, RecorderPipeline, AudioPlayback, RingSnapshot, Media

* `CameraFrames`: the capture loop writes the buffer that is not `latest_` and
  publishes its index; a picture is two halves, so that a torn copy is visible.
  `ReaderLoad`, `ReaderCopy`, `ReaderCheck` are `copy_latest_frame` with its three
  attempts; recorder and live view borrow a `MediaFrame` without a copy.
  `RestartBegin`, `StartNew`, `StartOldAgain` are `restart_camera`.
* `RecorderPipeline`: start, write and stop on the recorder thread, the pool of each
  recording with slots that GStreamer gives back at any time (`DmaBufferReleased`),
  the bus messages (`FragmentOpened`, `FragmentClosed`, end of stream, errors), and the
  audio consumer that is called from a copy of the list (`DispatchAudio`).
* `AudioPlayback`: `playback_loop` with its two queues, the player of the chime and
  its rounds, presses, and the two stops at the end.
* `RingSnapshot`: the button arms a selection in three critical sections
  (`ArmReads`, `ArmSelects`, `ArmRequests`), `NewFrame` announces frames, the worker
  waits, copies, considers and takes (`AwaitRequest` .. `Submit`).
* `Media` puts the four side by side. They share only the camera's frames, which the
  two consumers see as frames of any kind, so a behaviour is one of one part
  (`scene`), the others resting.

### The proofs

`EventStoreProofs`, `RingReportingProofs`, `RingRecordingProofs`, `MqttClientProofs`,
`ProvisioningProofs`, `DeviceSettingsProofs`, `LiveViewProofs` and `MediaProofs` hold the
theorems about the modules they are named after, section 6. They add definitions of
their own only for the inductive invariants; those about the event processor use the
lemmas of `EventStoreProofs`.

## 4. Runs

| Run | Asks | Bounds |
|---|---|---|
| `EventStore` | do the tables stay consistent for arbitrary callers | 2 events, 3 presses, 1 recording, 2 segments, 2 clock values |
| `RingCrash` | is anything forgotten or reported by two jobs, does a call survive its process, does reporting implement `AtLeastOnce` | 1 event (a ring with 2 presses, or a person), the deadline reachable, 1 death |
| `RingEventsSettle` | is every event settled in the end | 1 event, 1 death, deadline passed at once |
| `RingPressLost` (violation) | does a press marked reported arrive | 1 ring, 2 presses |
| `RecordingIdentity` | does a press keep its recording, is the current one live | 1 ring, 2 presses, 2 recordings, clock 0..1 |
| `RecordingEnds` | is a recording finalized once, whole when it says so, and does it end | 2 recordings of 2 segments, 1 death |
| `RecordingStarves` (violation) | is a snapshot served while a finalization fails | 1 recording |
| `MqttClient` | does a PUBACK reach its publisher only, is online ready, does stop return | 2 publishers, 2 subscriptions (3 in the code), 2 messages per session, 2 sessions, 1 stop |
| `Provisioning` | does a reset hold, can the doorbell be reached, is only a reached network stored, are requests answered, does stop return | 1 network, 2 connections or long presses together, 1 end of the process or the power |
| `DeviceSettings` | is what is stored in effect, on disk, with a zone file; is the synchronisation triggered and stopped | rotation and time zone, 1 command, 2 sessions, 1 end of the process or the power |
| `LiveView` | is a switch finished once and acknowledged, does the branch follow, do candidates arrive, is a hang-up complete, does stop return | 2 qualities, 3 commands, 1 `stop()` from outside, 2 signals, 1 failure; 4 of them together, the `stop()` for two |
| `Media` | the seven properties of the four parts | 4 captures and 1 camera restart; 2 pool slots, 2 recordings of 2 fragments, 1 fault; 3 presses, 2 blocks of chime, 1 of voice; 2 rings, a window of 2 samples, clock 0..4 |

Why these bounds are enough to be worth running: two presses are the smallest
number with a queue row, two events the smallest with a competing open ring
(`EventStore`, and `RingSnapshot` for their selections; the reporting runs have one
event, as its jobs meet those of another only in the order of the queue), two
recordings the smallest with jobs of different recordings in one queue or slots of
two pools, two segments the smallest with a gap or a wrong order. One death
separates a process from its successor; a second one starts from the same kind of
tables and files. The clock has two values where the deadline must come to pass
during the run, and one where it has passed from the start or never matters. The
three presses of `EventStore` let a row be added beside one already reported.
Two sessions of two messages are the smallest in which a message id comes again;
a saved WiFi and two
connections let one repeat the ssid of the other with a wrong password, or a long press
meet an attempt or follow another long press; four
captures let both camera buffers be written twice, also after a restart; three
commands are a call, a switch and a hang-up, or two switches that cross, and a call, a
`stop()` from outside and a further command fit the common bound as well; two
samples in a window let a later frame be better than the first. Names that begin
with `Max`, `CameraRestarts` and the sizes of the pool and the queues are bounds of
the models and not of the code.

Deadlock is not checked in the process models: with every bound used up and all
work done they stop. `EventStore` checks it.

What the violations show:

* `RingPressLost`: press, publication (queued), mark, session lost. The press is
  never delivered; the header says that only a business ACK advances `reported`.
* `RecordingStarves`: a finalization that keeps failing is taken again at once,
  as `recording_jobs_` is served first and `ready_at` is not looked at there;
  snapshots and rings in `jobs_` wait for ever. A comment beside the retry says
  that a failed task delays only itself.

Mutants (definitions whose comment begins "Mutant of") are plausible mistakes in
the code, one for every property, with which the property fails under the same
bounds. Nothing else uses them.

## 5. Fairness

* `ProcessFairness`: `start()` and a press that was stored go on; they wait for
  nothing that may never come.
* `EventFairness`: weak fairness for the threads' own steps. The job queues are
  scanned from the front and failed jobs go to the back with a pause of 5 s, so each
  job is taken again and again: strong fairness of `ReporterTake(k)` and
  `WorkerTake`. What is retried for ever (a publication, a transaction, the answer of
  the backend) is assumed to succeed if it is tried for ever: strong fairness of the
  successful branch. Without that an offline doorbell rightly keeps its events.
  Nothing is assumed of presses, deaths, commands, expiry or lost sessions.
* `ThreadFairness` of `RingRecording`: the worker runs. `RecordingStarves` uses
  this alone: its counterexample is a worker that runs all the time.
  `StoreFairness` adds that a finalization tried for ever succeeds at last.
* `MqttClient`: `mqtt_loop` runs; connecting and each wait of the handshake end by
  their timeouts, a waiting publisher returns after 5 s. Nothing is assumed to succeed.
* `Provisioning`: each thread runs, shell commands end, the MQTT loop obeys its stop
  flags and a greeted session becomes online. An HTTP client sends its request or goes
  away: `recv` has no timeout, so without this one silent client holds the only HTTP
  thread, and `stop()`. Nobody has to press, post or stop. The stop of the time
  synchronisation is not assumed to return (`MainEndTime` has no fairness), nor that of
  the live view: `StopReturns` and `RequestAnswered` except a wait for either by name,
  and `WorkerStops` of `DeviceSettings` and `StopReturns` of `LiveView` say when these
  return. One weak fairness condition serves main, button, HTTP thread and worker together,
  as each has only finitely many steps for each connection, press and start.
* `DeviceSettings`: `worker_loop` runs and its queries have timeouts. Its timed waits
  of up to six hours count as endless (no fairness of `WorkerTimeout`), so that no
  property rests on them.
* `LiveView`: every thread goes on with what it has begun, and the waits of the
  watchdog end. Nothing is assumed of the other side, of packets, or of commands. For
  the threads of a session the conditions are stated for each holder.
* `Media`: the playback loop, the player, the clock and the sampler run. The player
  takes the mutex of the mixer, which the playback loop holds only for a moment and
  again and again: strong fairness of `PlayerMixes`. No frame need ever come.

## 6. Proofs

Every theorem holds for all values of the constants that satisfy the assumption named
in the module: the bounds are natural numbers, with at least one press
(`EventStoreAssumption`), one subscription (`MqttClientAssumption`) and a window longer
than nothing (`SnapshotAssumption`); the patched fields are fields
(`DeviceSettingsAssumption`), what a start may ask for are qualities (`LiveViewAssumption`), and
the absence of a network is not a network (`ProvisioningAssumption`). Nothing else is
assumed. In every module the argument is the same: an inductive invariant, of which the
property is a part or a consequence; one step of the proof for each action. TLC checked
each inductive invariant on the runs' instances before it was proved. Where it had to be
stronger than the property is said below.

### EventStoreProofs

* `StoreIsTyped`: `StoreTypeOK`, which is inductive by itself.
* `RingsAreConsistent`: the inductive invariant `RingInv`, that is
  `StoreTypeOK`, `OneActiveRing`, `PressRowsMatchCount`, `EventsAreAnchored` and
  `RingsAreCounted`. The last one is the strengthening: a ring has at least one
  press exactly when it has a row. Without it a repeated press could be number
  1, whose row must not exist, and a new event could inherit presses. From
  `RingInv` follow `OneRingAtATime`, `PressesAreCounted`, `EventsStayAnchored`.
* `SegmentsAreCounted`: `SegmentCountMatches` with the strengthening
  `AbsentIsEmpty` (an id not yet allocated counts no segment), by the cardinality
  lemmas of finite sets.
* `EndedRecordingsAreImmutable` and `HistoryIsNeverLost`: the action properties;
  the second needs `RingInv` in the state before the step (the id after
  `sequence` has no event, the number after `press_count` has no row).

`StoreTypeOK`, `EventsAreAnchored`, `SegmentCountMatches` and `TerminalIsImmutable` are
proved and appear in no run: the theorems cover every instance.

### RingReportingProofs

`ReportingUsesTheStore` (`Spec => StoreSpec`) shows that every step is a transaction of
the store or leaves the tables alone. With it the theorems about the store hold of the
running processor: `ReportingKeepsOneRing`, `ReportingKeepsHistory`.

`ReportInv` says where the report of each row is: entering with the button, waiting
for its snapshot, chosen, being prepared, queued, or held by the reporter. `OnePlace` and
`OnePressPlace` exclude two places at a time (`OneReportPerItem` alone only counts the last
two, and a second report would grow out of an earlier place); `OnlyRows` says that an id
without a row is in no place, so that a new event starts alone; `TimeoutRuns`, that an
event waiting for its snapshot has its timeout queued, without which a snapshot that
never comes would lose the report; `Unforgotten` is `NothingForgotten` in these terms.
From them `NothingIsReportedTwiceOver`, `NoReportIsForgotten`, `NoRingOutlivesItsProcess`.

`ReportingDelivers` is the refinement of `AtLeastOnce`: initial states map to initial
states and each step to one of its steps or a stutter; it needs that the outbox and the
backend hold only events that have a row.

### RingRecordingProofs

`RecordingUsesTheStore` is again `Spec => StoreSpec`, and with it `EndedRecordingsStay`.

`RecordingInv` has five parts. `Held` is the set of recordings somebody may still submit
a finalization for: with the button thread, handed over, in the recorder's hand, current, or
being written. `QueueInv` says that all of them and all recordings with a job are
unfinished, that a finalization is the last job of its recording, and that there is
none for a recording that is held. This is what `FinalizedOnce` lacks: the second
submission would come from another holder. `IdentityInv` says that the three places an
identity passes through hold three different ones; otherwise letting go of one would
leave it held elsewhere. `PipelineInv` ties the pipeline to the current recording and to
where the recorder is. `StopInv` says that a decision to stop is visible to every later
press, which gives `PressesKeepTheirRecording`. `SegmentsInv` says where each closed
segment is: stored, in the queue, or lost and remembered; as the finalization comes last,
nothing is in the queue when the status is chosen, which gives `EndedMeansWhole`.
`RecordingsEndOnce` and `CurrentStaysLive` follow from `QueueInv`.

### MqttClientProofs

`MqttInv` adds to the properties: what the handshake has got to at each place of the
loop (`HandshakeInv`); that ids in flight and acknowledged were used and are disjoint, and
the next one is new (`IdsAreUsed`); that two calls of the present client, and the ready
message, have different ids (`CallsHaveTheirIds`); that without a stray call `published`
holds acknowledged ids only and `nonblocking` none that a publisher waits for
(`IdSetsInv`). From it `OnlineIsReady`, `TrueMeansAcknowledged`, `AcksReachTheirWaiters`.

### ProvisioningProofs

`ProvisioningInv` follows, for each thing the doorbell was told last, which threads may
still be at work and what they have done: `NothingInv`, `ResetInv`, `AttemptInv`. The
properties speak of the state when all is done, and are not inductive without these
intermediate states. `SavedInv` says of the file and of all that a loss of power may leave
of it that it names a network the doorbell has been in. `BeginsAgain` collects what holds
after an end of the process: after a reset the file is still gone, so main has nothing to
begin an attempt with (`ResetInv`), which carries `ResetStaysInForce` over any number of
starts. From these `SavedNetworkWasReached`, `ResetStaysInForce`, `DoorbellStaysReachable`.

### DeviceSettingsProofs

`SettingsInv` adds: who may change the zone files (`Threads`); what each step of
`TimezoneManager::apply` leaves behind (`ZoneSteps`); that an apply can return to what is
stored, from the files or their backups (`ApplyCanReturn`); and what is in effect while a
command has applied a field and not stored it (`FilesInEffect`, `RuntimeInEffect`). Two
parts carry `ZoneFilesAreNeverLost`: `NeverGone`, that a file and its backup are never
missing together, which holds at every step, also of a loss of power; and `FilesWhole`,
that once the service is up no zone file is broken, and the backup is complete from the
moment its file is moved aside until an apply has come to its end. The second cannot
hold before the service is up, because a loss of power may break any content that was
not flushed; it begins with the apply that lets main go on, and `WholeStep` proves it for
one step at a time. From these
`MemoryFollowsTheFile`, `ZoneFilesAreNeverLost`, `EffectFollowsTheStore`.

### LiveViewProofs

`LiveInv` has one part for each question. `SwitchInv`: an accepted switch is pending, with
one thread that finishes it, answered or dropped, and in one of these only
(`SwitchesEndOnce`). `DownInv`: who is in `stop()`, and what each of its stages has
left of threads, pipeline and consumer; `HangupEndsAll` follows from the last stage of
the `stop()` of the hang-up, and of the one from outside where the two overlap: what one
of them has taken the other does not find any more, so both must have ended.
`BranchInv`: what the elements are set to during a roll back and before the command's own
change (`BranchIsInStep`). `CandidatesAreKept` needs no strengthening:
`CandidatesReachPeer` is inductive by itself.

### MediaProofs

The parts of `Media` do not share variables, so there is one invariant for each, over
`MediaSpec`. `CameraInv` knows which pair of buffers is written and what a reader in
flight has seen so far, in terms of the captures published since it began
(`CopiesShowOneFrame`). `RecorderInv` and `SegmentInv` describe the pool, the audio source
and the messages on the bus: the openings not yet seen, in order; each end behind its
opening; the end of stream behind all ends (`SlotsAreNeverLost`, `NoAudioAfterTheEnd`,
`SegmentsAreToldOnce`). `SnapshotInv` says that the pending selection has the window
of its ring and what is about to be submitted is from it (`PicturesFitTheirRing`).

### Only model-checked

The temporal properties under fairness: `EventsSettle`, `SubmittedEnds`, `StopReturns` (of
three modules), `RequestAnswered`, `OnlineSynchronizes`, `WorkerStops`, `SwitchAnswered`,
`PressIsHeard`, `SelectionIsAnswered`. The installed provers cannot reason about `ENABLED`,
which weak and strong fairness are made of. With them all of `AudioPlayback`, whose only
property is one of these, stays with TLC. The two violations are counterexamples and
need no proof.

## 7. Not modelled

* Pictures, uploads and URLs; media commands (`query_snapshot`,
  `query_recording_manifest`, `prepare_recording_segment`); the schema migration; the
  old clip interface (`allocate_clip_ref`).
* The 5 s pause of a failed job (it only delays, and is ignored in one place, which
  `RecordingStarves` shows); clock changes backwards; the loss of committed
  transactions that WAL with `synchronous=NORMAL` allows on power loss.
* What a file system may do at a loss of power beyond this: renames and removals of zone
  files are taken to be durable, in their order, and the contents of a file to be lost or
  kept as a whole until they are written back (an empty and a half-written file are the
  same, `Broken`). Writing back in the background is left out: it only makes fewer files
  lose their contents, and the model lets any of them keep it. `settings.json` is
  flushed before its rename (`device_settings_store.cpp` 64-71, 171-194), which is taken to
  be durable as well. A backup that is torn or beside a torn file is not told from a good
  one by the code: `replace_with_backup` removes it as soon as both exist, so nothing
  complete is promised between a loss of power and the apply of the next start, and if
  that fails, the service does not start.
* The gate of person events and its selection: one thread that follows the results
  of the detector.
* SNTP packets, the time set; SDP text; echo cancellation and the ALSA pipelines; RGA
  conversions: functions of their inputs, or hardware. Their outcomes are choices.
* Weak memory: the atomic variables of the camera are sequentially consistent in the
  model.
* The user interface, the detectors, the uploaders (I/O without state of its own), and
  build files, assets and tests.
