------------------------------ MODULE LiveView ------------------------------
(***************************************************************************)
(* The live view: LiveViewSession, which takes the commands and signals on *)
(* the MQTT thread, and LiveWebRtcSession with its threads: the frame      *)
(* thread, the watchdog of a quality switch, the GLib main loop, and the   *)
(* threads of webrtcbin ("peer") and of the RTP queue ("rtp").  A quality  *)
(* switch can be finished by any of them.  Another thread may call stop()  *)
(* at any time: the commands go on, as the MQTT client is stopped later.   *)
(* Two threads of one kind, one of a session that is being stopped and one *)
(* of the next, take turns in finish_quality_switch; so do the threads of  *)
(* two pipelines in "peer".                                                *)
(***************************************************************************)
EXTENDS Naturals, Sequences, FiniteSets

CONSTANTS
  Quality,       \* the qualities
  StartQuality,  \* the qualities a start command may ask for
  MaxCommands,   \* bound: commands; the number is the id
  MaxStops,      \* bound: stop() from outside
  MaxSignals,    \* bound: answers and candidates of the other side
  MaxFaults,     \* bound: failures
  MaxEvents      \* bound: all of them together, where a stop() counts for two

ASSUME LiveViewAssumption ==
  /\ StartQuality \subseteq Quality
  /\ MaxCommands \in Nat /\ MaxStops \in Nat /\ MaxSignals \in Nat
  /\ MaxFaults \in Nat /\ MaxEvents \in Nat

VARIABLES
  \* LiveViewSession
  call,          \* current_call_id_
  shown,         \* the media_state that was published last
  \* LiveWebRtcSession, under mtx_
  up,            \* pipeline_, webrtc_ and the elements are there
  current,       \* current_: call and quality (with them appsrc_width_, ..)
  active,        \* active_published_
  offerRequested, answerApplied,
  pending,       \* pending_quality_switch_
  remoteSet, buffered,    \* remote_ice_candidates_
  watchdogStop,
  \* outside mtx_
  frameStop,     \* frame_stop_
  paused,        \* video_paused_
  branch,        \* what the elements of the video branch are set to, None: not restored
  mainLoop,      \* main_loop_, as the call it was made for
  consumer,      \* audio_consumer_id_ is set, and a consumer is registered
  \* threads
  mqtt,          \* the command the MQTT thread is in
  fin,           \* finish_quality_switch of each thread
  stopping,      \* stop() of the MQTT thread and of another
  watchdog, loop, frame,  \* by who holds the std::thread, a stop() or the session
  peer,          \* what the thread of webrtcbin is in
  tasks,         \* what each webrtcbin has been asked for
  \* history and bounds
  offered,       \* the calls an offer was published for
  received, handed,   \* candidates since the last offer: arrived, given to webrtcbin
  asked,         \* the switches that were accepted
  answered,      \* .. that have been acknowledged
  dropped,       \* .. that stop() has dropped
  hungUp,        \* the last command that started or ended a call was a hangup
  overlap,       \* a stop() from outside and a command met
  renewed,       \* .. and start() made a new session meanwhile
  overtaken,     \* the steps of two switches, or of a switch and an answer, crossed
  lostQuit,      \* g_main_loop_quit came before g_main_loop_run
  crashed,       \* a pipeline was used that was freed, or a thread joined twice
  commands, signals, faults, stops

sessionVars == <<call, shown>>
lockedVars  == <<up, current, active, offerRequested, answerApplied, pending, remoteSet,
                 buffered, watchdogStop>>
mediaVars   == <<paused, branch, overtaken>>
threadVars  == <<watchdog, loop, frame, frameStop, mainLoop, lostQuit>>
peerVars    == <<peer, tasks, received, handed>>
boundVars   == <<commands, signals, faults, stops>>
switchVars  == <<asked, answered, dropped>>
stopVars    == <<hungUp, overlap, renewed>>
callVars    == <<offered, switchVars, stopVars, crashed>>
histVars    == <<callVars, boundVars>>
vars == <<sessionVars, lockedVars, mediaVars, threadVars, peerVars, histVars, consumer, mqtt,
          fin, stopping>>

None     == "none"
NoCall   == 0
NoSwitch == [id |-> 0, from |-> None, to |-> None]
Caller   == {"mqtt", "other"}
Holder   == Caller \cup {"session"}
Call     == 0..MaxCommands
Finisher == {"mqtt", "peer", "rtp", "frame", "loop", "watchdog"}
Idle     == [pc |-> "idle", call |-> NoCall, quality |-> None, switch |-> 0]
NoFinish == [pc |-> "none", switch |-> NoSwitch]
NoStop   == [pc |-> "none", session |-> NoCall, loop |-> NoCall]
NoLoop   == [pc |-> "none", id |-> NoCall]
LoopEnded == [pc |-> "ended", id |-> NoCall]

Init ==
  /\ call = NoCall /\ shown = "idle"
  /\ up = FALSE /\ current = [call |-> NoCall, quality |-> None] /\ active = FALSE
  /\ offerRequested = FALSE /\ answerApplied = FALSE /\ pending = NoSwitch
  /\ remoteSet = FALSE /\ buffered = {} /\ watchdogStop = TRUE
  /\ paused = FALSE /\ branch = None /\ overtaken = FALSE
  /\ frameStop = TRUE /\ mainLoop = NoCall /\ lostQuit = FALSE
  /\ consumer = [id |-> FALSE, registered |-> FALSE]
  /\ watchdog = [h \in Holder |-> "none"] /\ frame = [h \in Holder |-> "none"]
  /\ loop = [h \in Holder |-> NoLoop]
  /\ mqtt = Idle
  /\ fin = [t \in Finisher |-> NoFinish]
  /\ stopping = [c \in Caller |-> NoStop]
  /\ peer = "free" /\ tasks = [p \in Call |-> <<>>] /\ received = {} /\ handed = {}
  /\ offered = {} /\ asked = {} /\ answered = {} /\ dropped = {}
  /\ hungUp = FALSE /\ overlap = FALSE /\ renewed = FALSE /\ crashed = FALSE
  /\ commands = 0 /\ signals = 0 /\ faults = 0 /\ stops = 0

Events  == commands + signals + faults + 2 * stops
Event   == Events < MaxEvents
Command ==
  Event /\ commands < MaxCommands /\ commands' = commands + 1
  /\ UNCHANGED <<signals, faults, stops>>
Signal ==
  Event /\ signals < MaxSignals /\ signals' = signals + 1
  /\ UNCHANGED <<commands, faults, stops>>
Fault ==
  Event /\ faults < MaxFaults /\ faults' = faults + 1
  /\ UNCHANGED <<commands, signals, stops>>

MqttPc(pc)   == mqtt' = [mqtt EXCEPT !.pc = pc]
MqttReturns  == mqtt' = Idle
MqttIdle     == mqtt.pc = "idle" /\ fin["mqtt"].pc = "none" /\ stopping["mqtt"].pc = "none"
Finishes(t)  == fin' = [fin EXCEPT ![t].pc = "take"]

\* notify_all of quality_switch_cv_.
Notified == [h \in Holder |-> IF watchdog[h] \in {"asleep", "timed"} THEN "test" ELSE watchdog[h]]

\* A command while stop() from outside is under way.
Met     == overlap' = (overlap \/ stopping["other"].pc # "none")
Renewed == renewed' = (renewed \/ stopping["other"].pc # "none")

-----------------------------------------------------------------------------
(* RemoteIceCandidateBuffer and request_offer.                             *)

BeginRemoteDescriptionUpdate ==
  remoteSet' = FALSE /\ buffered' = {} /\ received' = {} /\ handed' = {}

\* The webrtcbin of the current pipeline is asked for something.
Asked(kind, c) ==
  [tasks EXCEPT ![current.call] = Append(@, [kind |-> kind, call |-> c])]

\* One offer at a time; create-offer is answered on the thread of webrtcbin.
RequestOffer ==
  /\ IF offerRequested
       THEN UNCHANGED <<offerRequested, remoteSet, buffered, received, handed>>
       ELSE offerRequested' = TRUE /\ BeginRemoteDescriptionUpdate
  /\ tasks' = IF up /\ ~offerRequested THEN Asked("offer", current.call) ELSE tasks

-----------------------------------------------------------------------------
(* finish_quality_switch, on whichever thread.  Only the first RTP packet  *)
(* finishes a switch with success.                                         *)

Ok(t) == t = "rtp"

\* Mutant of FinishTake: the switch is still there for the next one.
FinishTakeKeeps(t) ==
  /\ fin[t].pc = "take"
  /\ IF pending = NoSwitch
       THEN fin' = [fin EXCEPT ![t] = NoFinish] /\ UNCHANGED lockedVars
       ELSE /\ fin' = [fin EXCEPT ![t] = [pc |-> IF Ok(t) THEN "answer" ELSE "rollback",
                                          switch |-> pending]]
            /\ answerApplied' = FALSE /\ offerRequested' = FALSE
            /\ current' = IF Ok(t) THEN current ELSE [current EXCEPT !.quality = pending.from]
            /\ UNCHANGED <<up, active, pending, remoteSet, buffered, watchdogStop>>
  /\ UNCHANGED <<sessionVars, mediaVars, threadVars, peerVars, histVars, consumer, mqtt,
                 stopping>>

\* The first one takes the switch, whichever it is by then; the others return.
FinishTake(t) ==
  /\ fin[t].pc = "take"
  /\ IF pending = NoSwitch
       THEN /\ fin' = [fin EXCEPT ![t] = NoFinish]
            /\ UNCHANGED lockedVars
       ELSE /\ fin' = [fin EXCEPT ![t] = [pc |-> IF Ok(t) THEN "answer" ELSE "rollback",
                                          switch |-> pending]]
            /\ pending' = NoSwitch
            /\ answerApplied' = FALSE /\ offerRequested' = FALSE
            /\ current' = IF Ok(t) THEN current ELSE [current EXCEPT !.quality = pending.from]
            /\ UNCHANGED <<up, active, remoteSet, buffered, watchdogStop>>
  /\ UNCHANGED <<sessionVars, mediaVars, threadVars, peerVars, histVars, consumer, mqtt,
                 stopping>>

\* Mutant of FinishRollback: the elements keep the quality that has failed.
FinishRollbackLeaves(t) ==
  /\ fin[t].pc = "rollback"
  /\ fin' = [fin EXCEPT ![t].pc = "answer"]
  /\ UNCHANGED <<sessionVars, lockedVars, mediaVars, threadVars, peerVars, histVars, consumer,
                 mqtt, stopping>>

\* reconfigure_video_branch for the quality before; the session may be gone, or an
\* element may refuse: then the video stays paused.
FinishRollback(t) ==
  /\ fin[t].pc = "rollback"
  /\ \/ /\ up /\ branch' = fin[t].switch.from
        /\ fin' = [fin EXCEPT ![t].pc = "answer"]
        /\ UNCHANGED boundVars
     \/ /\ up /\ Fault /\ branch' = None
        /\ fin' = [fin EXCEPT ![t].pc = "answerPaused"]
     \/ /\ ~up
        /\ fin' = [fin EXCEPT ![t].pc = "answerPaused"]
        /\ UNCHANGED <<branch, boundVars>>
  /\ UNCHANGED <<sessionVars, lockedVars, paused, overtaken, threadVars, peerVars, callVars,
                 consumer, mqtt, stopping>>

\* The video goes on, and the callback acknowledges the command.
FinishAnswer(t) ==
  /\ fin[t].pc \in {"answer", "answerPaused"}
  /\ fin' = [fin EXCEPT ![t] = NoFinish]
  /\ paused' = (paused /\ fin[t].pc = "answerPaused")
  /\ answered' = answered \cup {fin[t].switch.id}
  /\ watchdog' = Notified
  /\ UNCHANGED <<sessionVars, lockedVars, branch, overtaken, loop, frame, frameStop, mainLoop,
                 lostQuit, peerVars, offered, asked, dropped, stopVars, crashed, boundVars,
                 consumer, mqtt, stopping>>

-----------------------------------------------------------------------------
(* LiveWebRtcSession::stop, from the MQTT thread or from another.          *)

StopBegins(c) == stopping' = [stopping EXCEPT ![c].pc = "audio"]

\* The microphone is taken away, and the frame thread told to end.
StopAudio(c) ==
  /\ stopping[c].pc = "audio"
  /\ consumer' = IF consumer.id THEN [id |-> FALSE, registered |-> FALSE] ELSE consumer
  /\ frameStop' = TRUE
  /\ stopping' = [stopping EXCEPT ![c].pc = "take"]
  /\ UNCHANGED <<sessionVars, lockedVars, mediaVars, watchdog, loop, frame, mainLoop, lostQuit,
                 peerVars, histVars, mqtt, fin>>

\* Mutant of StopTake: the watchdog is not told to stop.
StopTakeUntold(c) ==
  /\ stopping[c].pc = "take"
  /\ stopping' = [stopping EXCEPT ![c] = [pc |-> "joins", loop |-> mainLoop,
                                          session |-> IF up THEN current.call ELSE NoCall]]
  /\ up' = FALSE /\ active' = FALSE /\ offerRequested' = FALSE /\ answerApplied' = FALSE
  /\ pending' = NoSwitch
  /\ dropped' = IF pending = NoSwitch THEN dropped ELSE dropped \cup {pending.id}
  /\ BeginRemoteDescriptionUpdate
  /\ mainLoop' = NoCall /\ paused' = FALSE
  /\ watchdog' = [Notified EXCEPT ![c] = Notified["session"], !["session"] = "none"]
  /\ frame' = [frame EXCEPT ![c] = frame["session"], !["session"] = "none"]
  /\ UNCHANGED <<sessionVars, current, watchdogStop, branch, overtaken, loop, frameStop,
                 lostQuit, peer, tasks, offered, asked, answered, stopVars, crashed, boundVars,
                 consumer, mqtt, fin>>

\* Everything but the thread of the loop is taken out under the lock; a switch under
\* way is forgotten.
StopTake(c) ==
  /\ stopping[c].pc = "take"
  /\ stopping' = [stopping EXCEPT ![c] = [pc |-> "joins", loop |-> mainLoop,
                                          session |-> IF up THEN current.call ELSE NoCall]]
  /\ up' = FALSE /\ active' = FALSE /\ offerRequested' = FALSE /\ answerApplied' = FALSE
  /\ pending' = NoSwitch
  /\ dropped' = IF pending = NoSwitch THEN dropped ELSE dropped \cup {pending.id}
  /\ BeginRemoteDescriptionUpdate
  /\ watchdogStop' = TRUE
  /\ mainLoop' = NoCall /\ paused' = FALSE
  /\ watchdog' = [Notified EXCEPT ![c] = Notified["session"], !["session"] = "none"]
  /\ frame' = [frame EXCEPT ![c] = frame["session"], !["session"] = "none"]
  /\ UNCHANGED <<sessionVars, current, branch, overtaken, loop, frameStop, lostQuit, peer,
                 tasks, offered, asked, answered, stopVars, crashed, boundVars, consumer, mqtt,
                 fin>>

StopJoins(c) ==
  /\ stopping[c].pc = "joins"
  /\ watchdog[c] \in {"none", "ended"} /\ frame[c] \in {"none", "ended"}
  /\ watchdog' = [watchdog EXCEPT ![c] = "none"] /\ frame' = [frame EXCEPT ![c] = "none"]
  /\ stopping' = [stopping EXCEPT ![c].pc = "null"]
  /\ UNCHANGED <<sessionVars, lockedVars, mediaVars, loop, frameStop, mainLoop, lostQuit,
                 peerVars, histVars, consumer, mqtt, fin>>

\* Mutant of StopNull: the threads of the pipeline are left to themselves.
StopNullAtOnce(c) ==
  /\ stopping[c].pc = "null"
  /\ tasks' = [tasks EXCEPT ![stopping[c].session] = <<>>]
  /\ stopping' = [stopping EXCEPT ![c].pc = "quit"]
  /\ UNCHANGED <<sessionVars, lockedVars, mediaVars, threadVars, peer, received, handed,
                 histVars, consumer, mqtt, fin>>

\* The pipeline goes to NULL, which waits for its threads.
StopNull(c) ==
  /\ stopping[c].pc = "null"
  /\ stopping[c].session # NoCall => peer = "free" /\ \A t \in {"peer", "rtp"} : fin[t].pc = "none"
  /\ tasks' = [tasks EXCEPT ![stopping[c].session] = <<>>]
  /\ stopping' = [stopping EXCEPT ![c].pc = "quit"]
  /\ UNCHANGED <<sessionVars, lockedVars, mediaVars, threadVars, peer, received, handed,
                 histVars, consumer, mqtt, fin>>

\* A thread that has read main_loop_ but does not run it yet misses the quit.
StopQuits(c) ==
  /\ stopping[c].pc = "quit"
  /\ \E missed \in SUBSET {h \in Holder : loop[h].pc = "spawn" /\ loop[h].id <= stopping[c].loop} :
       /\ loop' = [h \in Holder |->
                      IF h \in missed THEN [pc |-> "run", id |-> stopping[c].loop]
                      ELSE IF loop[h] = [pc |-> "run", id |-> stopping[c].loop]
                             THEN [loop[h] EXCEPT !.pc = "quit"]
                      ELSE loop[h]]
       /\ lostQuit' = (lostQuit \/ missed # {})
  /\ stopping' = [stopping EXCEPT ![c].pc = "takeLoop"]
  /\ UNCHANGED <<sessionVars, lockedVars, mediaVars, watchdog, frame, frameStop, mainLoop,
                 peerVars, histVars, consumer, mqtt, fin>>

\* loop_thread_ is moved without the lock, whichever thread it is by now; two that
\* move it at once may both have it.
StopTakesLoop(c) ==
  /\ stopping[c].pc = "takeLoop"
  /\ loop' = [loop EXCEPT ![c] = loop["session"], !["session"] = NoLoop]
  /\ crashed' \in IF loop["session"] # NoLoop /\ \A d \in Caller : stopping[d].pc = "takeLoop"
                     THEN BOOLEAN ELSE {FALSE}
  /\ stopping' = [stopping EXCEPT ![c].pc = "loop"]
  /\ UNCHANGED <<sessionVars, lockedVars, mediaVars, watchdog, frame, frameStop, mainLoop,
                 lostQuit, peerVars, offered, switchVars, stopVars, boundVars, consumer, mqtt,
                 fin>>

\* The thread of the loop is joined and the elements are released.
StopJoinsLoop(c) ==
  /\ stopping[c].pc = "loop"
  /\ loop[c].pc \in {"none", "ended"}
  /\ loop' = [loop EXCEPT ![c] = NoLoop]
  /\ stopping' = [stopping EXCEPT ![c] = NoStop]
  /\ IF c = "mqtt"
       THEN /\ MqttPc(CASE mqtt.pc = "stopOld"  -> "build"
                         [] mqtt.pc = "stopPlay" -> "failed"
                         [] mqtt.pc = "stopHang" -> "hungUp")
            /\ UNCHANGED call
       ELSE call' = NoCall /\ UNCHANGED mqtt
  /\ UNCHANGED <<shown, lockedVars, mediaVars, watchdog, frame, frameStop, mainLoop, lostQuit,
                 peerVars, histVars, consumer, fin>>

\* LiveViewSession::stop, for a reset, a new provisioning or the shutdown: the
\* MQTT thread is still there.
StopFromOutside ==
  /\ stopping["other"].pc = "none"
  /\ Events + 1 < MaxEvents /\ stops < MaxStops /\ stops' = stops + 1
  /\ StopBegins("other")
  /\ overlap' = (overlap \/ ~MqttIdle)
  /\ UNCHANGED <<sessionVars, lockedVars, mediaVars, threadVars, peerVars, offered,
                 switchVars, hungUp, renewed, crashed, commands, signals, faults, consumer, mqtt,
                 fin>>

Stop(c) ==
  \/ StopAudio(c) \/ StopTake(c) \/ StopJoins(c) \/ StopNull(c)
  \/ StopQuits(c) \/ StopTakesLoop(c) \/ StopJoinsLoop(c)

-----------------------------------------------------------------------------
(* start_live and answer_call, on the MQTT thread.                         *)

\* The back end gives every call an id of its own.
StartRejected ==
  /\ MqttIdle /\ Command
  /\ call' = commands + 1 /\ shown' = "idle" /\ hungUp' = FALSE
  /\ UNCHANGED <<lockedVars, mediaVars, threadVars, peerVars, offered, switchVars, overlap,
                 renewed, crashed, consumer, mqtt, fin, stopping>>

\* The command is acknowledged, then start() first stops what may be there.
StartLive(quality) ==
  /\ MqttIdle /\ Command
  /\ call' = commands + 1 /\ shown' = "connecting" /\ hungUp' = FALSE
  /\ mqtt' = [pc |-> "stopOld", call |-> commands + 1, quality |-> quality, switch |-> 0]
  /\ StopBegins("mqtt") /\ Met
  /\ UNCHANGED <<lockedVars, mediaVars, threadVars, peerVars, offered, switchVars, renewed,
                 crashed, consumer, fin>>

\* No camera frame, no server, or an element that is missing or cannot be linked.
StartFails ==
  /\ \/ mqtt.pc = "build" /\ Fault
     \/ mqtt.pc = "failed" /\ UNCHANGED boundVars
  /\ shown' = "idle" /\ MqttReturns
  /\ UNCHANGED <<call, lockedVars, mediaVars, threadVars, peerVars, callVars, consumer, fin,
                 stopping>>

\* A std::thread that is still joinable must not be assigned to.
StartLoop ==
  /\ mqtt.pc = "build"
  /\ mainLoop' = mqtt.call
  /\ loop' = [loop EXCEPT !["session"] = [pc |-> "spawn", id |-> mqtt.call]]
  /\ crashed' = (loop["session"] # NoLoop) /\ Renewed
  /\ MqttPc("publish")
  /\ UNCHANGED <<sessionVars, lockedVars, mediaVars, watchdog, frame, frameStop, lostQuit,
                 peerVars, offered, switchVars, hungUp, overlap, boundVars, consumer, fin,
                 stopping>>

StartPublish ==
  /\ mqtt.pc = "publish"
  /\ up' = TRUE /\ current' = [call |-> mqtt.call, quality |-> mqtt.quality]
  /\ active' = FALSE /\ offerRequested' = FALSE /\ answerApplied' = FALSE
  /\ pending' = NoSwitch /\ watchdogStop' = FALSE
  /\ BeginRemoteDescriptionUpdate
  /\ frameStop' = FALSE /\ paused' = FALSE /\ branch' = mqtt.quality
  /\ MqttPc("watchdog") /\ Renewed
  /\ UNCHANGED <<sessionVars, overtaken, watchdog, loop, frame, mainLoop, lostQuit, peer,
                 tasks, offered, switchVars, hungUp, overlap, crashed, boundVars, consumer,
                 fin, stopping>>

StartWatchdog ==
  /\ mqtt.pc = "watchdog"
  /\ watchdog' = [watchdog EXCEPT !["session"] = "test"]
  /\ crashed' = (watchdog["session"] # "none")
  /\ MqttPc("play")
  /\ UNCHANGED <<sessionVars, lockedVars, mediaVars, loop, frame, frameStop, mainLoop, lostQuit,
                 peerVars, offered, switchVars, stopVars, boundVars, consumer, fin, stopping>>

\* The pipeline is the one of this call of start(): if another thread has stopped the
\* session meanwhile, it is about to be freed, or freed.
StartPlay ==
  /\ mqtt.pc = "play"
  /\ crashed' = ~(up \/ \E c \in Caller : stopping[c].pc \in {"joins", "null"}
                                       /\ stopping[c].session = mqtt.call)
  /\ \/ /\ MqttPc("audio")
        /\ tasks' = IF crashed' THEN tasks
                    ELSE [tasks EXCEPT ![mqtt.call] =
                            Append(@, [kind |-> "negotiate", call |-> mqtt.call])]
        /\ UNCHANGED <<boundVars, stopping>>
     \/ /\ Fault
        /\ MqttPc("stopPlay") /\ StopBegins("mqtt")
        /\ UNCHANGED tasks
  /\ UNCHANGED <<sessionVars, lockedVars, mediaVars, threadVars, peer, received, handed,
                 offered, switchVars, stopVars, consumer, fin>>

StartAudio ==
  /\ mqtt.pc = "audio"
  /\ consumer' = [consumer EXCEPT !.registered = TRUE]
  /\ MqttPc("audioId")
  /\ UNCHANGED <<sessionVars, lockedVars, mediaVars, threadVars, peerVars, histVars, fin,
                 stopping>>

StartAudioId ==
  /\ mqtt.pc = "audioId"
  /\ consumer' = [consumer EXCEPT !.id = TRUE]
  /\ MqttPc("frame")
  /\ UNCHANGED <<sessionVars, lockedVars, mediaVars, threadVars, peerVars, histVars, fin,
                 stopping>>

StartFrame ==
  /\ mqtt.pc = "frame"
  /\ frame' = [frame EXCEPT !["session"] = "run"]
  /\ crashed' = (frame["session"] # "none")
  /\ MqttPc("offer")
  /\ UNCHANGED <<sessionVars, lockedVars, mediaVars, watchdog, loop, frameStop, mainLoop,
                 lostQuit, peerVars, offered, switchVars, stopVars, boundVars, consumer, fin,
                 stopping>>

\* The last step of a start and of a switch.
CommandOffers ==
  /\ mqtt.pc = "offer"
  /\ RequestOffer
  /\ MqttReturns
  /\ UNCHANGED <<sessionVars, up, current, active, answerApplied, pending, watchdogStop,
                 mediaVars, threadVars, peer, histVars, consumer, fin, stopping>>

-----------------------------------------------------------------------------
(* set_live_quality and hangup.                                            *)

\* Refused without an active call, and while another switch is under way.
Switchable == MqttIdle /\ call # NoCall /\ up /\ active /\ pending = NoSwitch

QualityUnchanged ==
  /\ Switchable /\ Command
  /\ asked' = asked \cup {commands + 1}
  /\ answered' = answered \cup {commands + 1}
  /\ UNCHANGED <<sessionVars, lockedVars, mediaVars, threadVars, peerVars, offered, dropped,
                 stopVars, crashed, consumer, mqtt, fin, stopping>>

\* Mutant of SwitchQuality: the watchdog does not hear of the switch.
SwitchQualityUnwatched(quality) ==
  /\ Switchable /\ Command
  /\ asked' = asked \cup {commands + 1}
  /\ quality # current.quality
  /\ pending' = [id |-> commands + 1, from |-> current.quality, to |-> quality]
  /\ current' = [current EXCEPT !.quality = quality]
  /\ answerApplied' = FALSE /\ offerRequested' = FALSE
  /\ paused' = TRUE
  /\ overtaken' = (overtaken \/ \E t \in Finisher : fin[t].pc = "rollback")
  /\ mqtt' = [mqtt EXCEPT !.pc = "branch", !.quality = quality, !.switch = commands + 1]
  /\ UNCHANGED <<sessionVars, up, active, remoteSet, buffered, watchdogStop, branch,
                 threadVars, peerVars, offered, answered, dropped, stopVars, crashed,
                 consumer, fin, stopping>>

SwitchQuality(quality) ==
  /\ Switchable /\ Command
  /\ asked' = asked \cup {commands + 1}
  /\ quality # current.quality
  /\ pending' = [id |-> commands + 1, from |-> current.quality, to |-> quality]
  /\ current' = [current EXCEPT !.quality = quality]
  /\ answerApplied' = FALSE /\ offerRequested' = FALSE
  /\ paused' = TRUE
  /\ watchdog' = Notified
  /\ overtaken' = (overtaken \/ \E t \in Finisher : fin[t].pc = "rollback")
  /\ mqtt' = [mqtt EXCEPT !.pc = "branch", !.quality = quality, !.switch = commands + 1]
  /\ UNCHANGED <<sessionVars, up, active, remoteSet, buffered, watchdogStop, branch, loop,
                 frame, frameStop, mainLoop, lostQuit, peerVars, offered, answered, dropped,
                 stopVars, crashed, consumer, fin, stopping>>

\* reconfigure_video_branch: it does not ask whether the switch is still wanted.
SwitchBranch ==
  /\ mqtt.pc = "branch"
  /\ overtaken' = (overtaken \/ pending.id # mqtt.switch)
  /\ \/ /\ up /\ branch' = mqtt.quality
        /\ MqttPc("offer") /\ UNCHANGED <<boundVars, fin>>
     \/ /\ up /\ Fault /\ branch' = None
        /\ MqttReturns /\ Finishes("mqtt")
     \/ /\ ~up
        /\ MqttReturns /\ Finishes("mqtt")
        /\ UNCHANGED <<branch, boundVars>>
  /\ UNCHANGED <<sessionVars, lockedVars, paused, threadVars, peerVars, callVars, consumer,
                 stopping>>

Hangup ==
  /\ MqttIdle /\ Command
  /\ MqttPc("stopHang") /\ StopBegins("mqtt") /\ Met
  /\ UNCHANGED <<sessionVars, lockedVars, mediaVars, threadVars, peerVars, offered, switchVars,
                 hungUp, renewed, crashed, consumer, fin>>

HangupEnds ==
  /\ mqtt.pc = "hungUp"
  /\ call' = NoCall /\ shown' = "idle" /\ hungUp' = TRUE
  /\ MqttReturns
  /\ UNCHANGED <<lockedVars, mediaVars, threadVars, peerVars, offered, switchVars, overlap,
                 renewed, crashed, boundVars, consumer, fin, stopping>>

-----------------------------------------------------------------------------
(* handle_signal.  Neither signal is compared with the current call.       *)

HandleAnswer(c) ==
  /\ MqttIdle /\ up /\ c \in offered
  /\ \/ Signal /\ tasks' = Asked("answer", c) /\ UNCHANGED fin
     \/ Fault /\ Finishes("mqtt") /\ UNCHANGED tasks
  /\ UNCHANGED <<sessionVars, lockedVars, mediaVars, threadVars, peer, received, handed,
                 callVars, consumer, mqtt, stopping>>

HandleCandidate ==
  /\ MqttIdle /\ up /\ Signal
  /\ LET k == signals + 1 IN
       /\ received' = received \cup {k}
       /\ IF remoteSet THEN handed' = handed \cup {k} /\ UNCHANGED buffered
                       ELSE buffered' = buffered \cup {k} /\ UNCHANGED handed
  /\ UNCHANGED <<sessionVars, up, current, active, offerRequested, answerApplied, pending,
                 remoteSet, watchdogStop, mediaVars, threadVars, peer, tasks, callVars,
                 consumer, mqtt, fin, stopping>>

-----------------------------------------------------------------------------
(* The thread of webrtcbin.                                                *)

PeerFree       == peer = "free" /\ fin["peer"].pc = "none"
Does(p, kind)  == PeerFree /\ tasks[p] # <<>> /\ Head(tasks[p]).kind = kind
Done(p)        == [tasks EXCEPT ![p] = Tail(@)]

PeerNegotiates(p) ==
  /\ Does(p, "negotiate")
  /\ IF offerRequested
       THEN /\ tasks' = Done(p)
            /\ UNCHANGED <<offerRequested, remoteSet, buffered, received, handed>>
       ELSE /\ offerRequested' = TRUE /\ BeginRemoteDescriptionUpdate
            /\ tasks' = IF up THEN [Done(p) EXCEPT ![current.call] =
                                      Append(@, [kind |-> "offer", call |-> current.call])]
                              ELSE Done(p)
  /\ UNCHANGED <<sessionVars, up, current, active, answerApplied, pending, watchdogStop,
                 mediaVars, threadVars, peer, histVars, consumer, mqtt, fin, stopping>>

\* on_offer_created: published, or the session is gone.
PeerOffers(p) ==
  /\ Does(p, "offer")
  /\ tasks' = Done(p)
  /\ offered' = IF up THEN offered \cup {current.call} ELSE offered
  /\ UNCHANGED <<sessionVars, lockedVars, mediaVars, threadVars, peer, received, handed,
                 switchVars, stopVars, crashed, boundVars, consumer, mqtt, fin, stopping>>

\* No reply, or not one video and one audio section; the second ends a call that
\* is not in a switch.
PeerOfferFails(p) ==
  /\ Does(p, "offer") /\ up /\ Fault
  /\ tasks' = Done(p)
  /\ Finishes("peer")
  /\ \/ UNCHANGED <<offerRequested, peer>>
     \/ /\ offerRequested' = FALSE
        /\ peer' = IF pending = NoSwitch THEN "idle" ELSE peer
  /\ UNCHANGED <<sessionVars, up, current, active, answerApplied, pending, remoteSet,
                 buffered, watchdogStop, mediaVars, threadVars, received, handed, callVars,
                 consumer, mqtt, stopping>>

\* Mutant of PeerAnswered: the candidates that have waited are not handed over.
PeerAnsweredAlone(p) ==
  /\ Does(p, "answer")
  /\ tasks' = Done(p)
  /\ IF up /\ current.call = Head(tasks[p]).call
       THEN /\ remoteSet' = TRUE /\ buffered' = {} /\ UNCHANGED handed
            /\ IF pending = NoSwitch THEN UNCHANGED <<answerApplied, peer>>
                                     ELSE answerApplied' = TRUE /\ peer' = "unpause"
       ELSE UNCHANGED <<answerApplied, remoteSet, buffered, peer, handed>>
  /\ overtaken' = (overtaken \/ (pending # NoSwitch /\ ~offerRequested))
  /\ UNCHANGED <<sessionVars, up, current, active, offerRequested, pending, watchdogStop,
                 paused, branch, threadVars, received, histVars, consumer, mqtt, fin,
                 stopping>>

\* on_remote_description_set, for the answer of the current call.
PeerAnswered(p) ==
  /\ Does(p, "answer")
  /\ tasks' = Done(p)
  /\ IF up /\ current.call = Head(tasks[p]).call
       THEN /\ remoteSet' = TRUE /\ buffered' = {} /\ handed' = handed \cup buffered
            /\ IF pending = NoSwitch THEN UNCHANGED <<answerApplied, peer>>
                                     ELSE answerApplied' = TRUE /\ peer' = "unpause"
       ELSE UNCHANGED <<answerApplied, remoteSet, buffered, peer, handed>>
  /\ overtaken' = (overtaken \/ (pending # NoSwitch /\ ~offerRequested))
  /\ UNCHANGED <<sessionVars, up, current, active, offerRequested, pending, watchdogStop,
                 paused, branch, threadVars, received, histVars, consumer, mqtt, fin,
                 stopping>>

PeerAnswerFails(p) ==
  /\ Does(p, "answer") /\ up /\ current.call = Head(tasks[p]).call /\ Fault
  /\ tasks' = Done(p)
  /\ Finishes("peer")
  /\ UNCHANGED <<sessionVars, lockedVars, mediaVars, threadVars, peer, received, handed,
                 callVars, consumer, mqtt, stopping>>

PeerUnpauses ==
  /\ peer = "unpause"
  /\ paused' = FALSE /\ peer' = "free"
  /\ UNCHANGED <<sessionVars, lockedVars, branch, overtaken, threadVars, tasks, received,
                 handed, histVars, consumer, mqtt, fin, stopping>>

\* on_ice_connection_state_changed: connected, or failed, disconnected or closed.
PeerIceChanges ==
  /\ PeerFree /\ up
  /\ \/ peer' = "connected" /\ ~active /\ UNCHANGED boundVars
     \/ peer' = "idle" /\ Fault
  /\ UNCHANGED <<sessionVars, lockedVars, mediaVars, threadVars, tasks, received, handed,
                 callVars, consumer, mqtt, fin, stopping>>

PeerConnected ==
  /\ peer = "connected"
  /\ active' = TRUE /\ peer' = "active"
  /\ UNCHANGED <<sessionVars, up, current, offerRequested, answerApplied, pending, remoteSet,
                 buffered, watchdogStop, mediaVars, threadVars, tasks, received, handed,
                 histVars, consumer, mqtt, fin, stopping>>

PeerPublishes ==
  /\ peer \in {"active", "idle"} /\ fin["peer"].pc = "none"
  /\ shown' = peer /\ peer' = "free"
  /\ UNCHANGED <<call, lockedVars, mediaVars, threadVars, tasks, received, handed, histVars,
                 consumer, mqtt, fin, stopping>>

-----------------------------------------------------------------------------
(* The other threads.                                                      *)

\* on_rtp_probe: the first packet after the answer ends the switch.
RtpPacket ==
  /\ fin["rtp"].pc = "none"
  /\ up /\ ~paused /\ \E h \in Holder : frame[h] = "run"
  /\ pending # NoSwitch /\ answerApplied
  /\ Finishes("rtp")
  /\ UNCHANGED <<sessionVars, lockedVars, mediaVars, threadVars, peerVars, histVars, consumer,
                 mqtt, stopping>>

\* frame_push_loop: appsrc does not take the frame.
FrameFails ==
  /\ (\E h \in Holder : frame[h] = "run") /\ fin["frame"].pc = "none"
  /\ up /\ ~paused
  /\ Fault
  /\ paused' = TRUE
  /\ IF pending = NoSwitch THEN UNCHANGED fin ELSE Finishes("frame")
  /\ UNCHANGED <<sessionVars, lockedVars, branch, overtaken, threadVars, peerVars, callVars,
                 consumer, mqtt, stopping>>

FrameEnds(h) ==
  /\ frame[h] = "run" /\ frameStop /\ fin["frame"].pc = "none"
  /\ frame' = [frame EXCEPT ![h] = "ended"]
  /\ UNCHANGED <<sessionVars, lockedVars, mediaVars, watchdog, loop, frameStop, mainLoop,
                 lostQuit, peerVars, histVars, consumer, mqtt, fin, stopping>>

\* The thread looks at main_loop_ and runs it.
LoopRuns(h) ==
  /\ loop[h].pc = "spawn"
  /\ loop' = [loop EXCEPT ![h] = IF mainLoop = NoCall THEN LoopEnded
                                                     ELSE [pc |-> "run", id |-> mainLoop]]
  /\ UNCHANGED <<sessionVars, lockedVars, mediaVars, watchdog, frame, frameStop, mainLoop,
                 lostQuit, peerVars, histVars, consumer, mqtt, fin, stopping>>

LoopEnds(h) ==
  /\ loop[h].pc = "quit" /\ fin["loop"].pc = "none"
  /\ loop' = [loop EXCEPT ![h] = LoopEnded]
  /\ UNCHANGED <<sessionVars, lockedVars, mediaVars, watchdog, frame, frameStop, mainLoop,
                 lostQuit, peerVars, histVars, consumer, mqtt, fin, stopping>>

\* on_bus_message: an error of the video branch pauses it.
BusError ==
  /\ (\E h \in Holder : loop[h].pc = "run") /\ fin["loop"].pc = "none"
  /\ up /\ (~paused \/ pending # NoSwitch)
  /\ Fault
  /\ paused' = TRUE
  /\ IF pending = NoSwitch THEN UNCHANGED fin ELSE Finishes("loop")
  /\ UNCHANGED <<sessionVars, lockedVars, branch, overtaken, threadVars, peerVars, callVars,
                 consumer, mqtt, stopping>>

WatchdogTests(h) ==
  /\ watchdog[h] = "test" /\ fin["watchdog"].pc = "none"
  /\ watchdog' = [watchdog EXCEPT ![h] = IF watchdogStop THEN "ended"
                                         ELSE IF pending = NoSwitch THEN "asleep" ELSE "timed"]
  /\ UNCHANGED <<sessionVars, lockedVars, mediaVars, loop, frame, frameStop, mainLoop, lostQuit,
                 peerVars, histVars, consumer, mqtt, fin, stopping>>

\* The lock is released before the switch is finished.
WatchdogTimesOut(h) ==
  /\ watchdog[h] = "timed" /\ fin["watchdog"].pc = "none"
  /\ watchdog' = [watchdog EXCEPT ![h] = "test"]
  /\ IF watchdogStop \/ pending = NoSwitch THEN UNCHANGED fin ELSE Finishes("watchdog")
  /\ UNCHANGED <<sessionVars, lockedVars, mediaVars, loop, frame, frameStop, mainLoop, lostQuit,
                 peerVars, histVars, consumer, mqtt, stopping>>

-----------------------------------------------------------------------------
MqttCommand ==
  \/ StartRejected \/ QualityUnchanged \/ Hangup \/ HandleCandidate
  \/ \E q \in StartQuality : StartLive(q)
  \/ \E q \in Quality : SwitchQuality(q)
  \/ \E c \in offered : HandleAnswer(c)

MqttStep ==
  \/ StartFails \/ StartLoop \/ StartPublish \/ StartWatchdog \/ StartPlay \/ StartAudio
  \/ StartAudioId \/ StartFrame \/ CommandOffers \/ SwitchBranch \/ HangupEnds

Finish(t) == FinishTake(t) \/ FinishRollback(t) \/ FinishAnswer(t)

PeerStep ==
  \/ \E p \in Call : \/ PeerNegotiates(p) \/ PeerOffers(p) \/ PeerOfferFails(p)
                     \/ PeerAnswered(p) \/ PeerAnswerFails(p)
  \/ PeerUnpauses \/ PeerConnected \/ PeerPublishes

Watchdog(h) == WatchdogTests(h) \/ WatchdogTimesOut(h)
Loop(h)     == LoopRuns(h) \/ LoopEnds(h)
Thread(h)   == Watchdog(h) \/ Loop(h) \/ FrameEnds(h)

Next ==
  /\ ~crashed
  /\ \/ MqttCommand \/ MqttStep \/ StopFromOutside \/ PeerStep \/ PeerIceChanges
     \/ RtpPacket \/ FrameFails \/ BusError
     \/ \E h \in Holder : Thread(h)
     \/ \E t \in Finisher : Finish(t)
     \/ \E c \in Caller : Stop(c)

Spec == Init /\ [][Next]_vars

\* Every thread goes on with what it has begun, and the waits of the watchdog end.
FairSpec ==
  /\ Spec
  /\ WF_vars(~crashed /\ MqttStep) /\ WF_vars(~crashed /\ PeerStep)
  /\ \A h \in Holder : /\ WF_vars(~crashed /\ Watchdog(h))
                       /\ WF_vars(~crashed /\ Loop(h))
                       /\ WF_vars(~crashed /\ FrameEnds(h))
  /\ \A t \in Finisher : WF_vars(~crashed /\ Finish(t))
  /\ \A c \in Caller : WF_vars(~crashed /\ Stop(c))

-----------------------------------------------------------------------------
(* Properties.                                                             *)

\* Of the packet, the watchdog, errors of three threads, a bad answer and stop(), one
\* ends a quality switch: every accepted switch is in exactly one place, pending, being
\* finished by one thread, acknowledged, or dropped by stop().
AnsweredOnce ==
  \A id \in asked :
    Cardinality({t \in Finisher : fin[t].switch.id = id})
      + Cardinality({id} \cap answered) + Cardinality({id} \cap dropped)
      + Cardinality({id} \cap {pending.id}) = 1

\* Every switch that was accepted is acknowledged, whatever is lost on the way,
\* unless the session is stopped first.
SwitchAnswered == []<>(asked \subseteq answered \cup dropped \/ crashed)

\* When no switch is under way, the elements encode in the quality the session says,
\* however the last switch ended.  Excepted are switches whose steps overtook each
\* other (overtaken), elements that could not be restored, and a start() during a
\* stop() from outside (renewed), whose threads may still restore the call before.
BranchFollowsQuality ==
  up /\ pending = NoSwitch /\ (\A t \in Finisher : fin[t].pc # "rollback") /\ mqtt.pc # "branch"
     /\ ~overtaken /\ ~renewed
  => branch \in {current.quality, None}

\* A candidate that arrives while the answer is awaited waits, and is handed over with
\* the answer; none is lost between the two, and none waits behind the answer.
CandidatesReachPeer ==
  /\ received = buffered \cup handed
  /\ remoteSet => buffered = {}

\* After a hangup, and when no stop() from outside is under way, nothing of the call is
\* left or comes back: no thread, no microphone, no callback that was on its way.  Then
\* the media_state is idle too, unless a stop() from outside met the command (overlap).
HungUpIsDown ==
  hungUp /\ MqttIdle /\ stopping["other"].pc = "none" =>
    /\ ~up /\ ~consumer.registered /\ peer = "free" /\ \A t \in Finisher : fin[t].pc = "none"
    /\ \A h \in Holder : watchdog[h] = "none" /\ frame[h] = "none" /\ loop[h].pc = "none"
    /\ ~overlap => shown = "idle"

\* stop() returns, whatever its threads are in the middle of and whatever commands come.
\* Excepted are a main loop that is told to quit before it runs (lostQuit), a start()
\* during a stop() from outside, which then waits for the threads of the new session
\* (renewed), and two stop() that join one thread.
StopReturns ==
  []<>((\A c \in Caller : stopping[c].pc = "none") \/ lostQuit \/ renewed \/ crashed)
=============================================================================
