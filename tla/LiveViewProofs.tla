---------------------------- MODULE LiveViewProofs ----------------------------
(***************************************************************************)
(* Proofs about LiveView, for any set of qualities and any number of       *)
(* commands, signals and failures: no candidate is lost between arrival    *)
(* and answer, every quality switch is ended by exactly one of the threads *)
(* that may end it, the elements encode what the session says, and after a *)
(* hangup nothing of the call is left.                                     *)
(***************************************************************************)
EXTENDS LiveView, FiniteSetTheorems, TLAPS

MaybeQuality == Quality \cup {None}

MqttPcs == {"idle", "stopOld", "stopPlay", "stopHang", "build", "failed", "publish", "watchdog",
            "play", "audio", "audioId", "frame", "offer", "branch", "hungUp"}
FinPcs  == {"none", "take", "rollback", "answer", "answerPaused"}
StopPcs == {"none", "audio", "take", "joins", "null", "quit", "takeLoop", "loop"}
WatchdogPcs == {"none", "test", "asleep", "timed", "ended"}
FramePcs    == {"none", "run", "ended"}
LoopPcs     == {"none", "spawn", "run", "quit", "ended"}

Switches == [id : Nat, from : MaybeQuality, to : MaybeQuality]
Mqtts    == [pc : MqttPcs, call : Call, quality : MaybeQuality, switch : Nat]
Finishings == [pc : FinPcs, switch : Switches]
Stops    == [pc : StopPcs, session : Call, loop : Call]
Loops    == [pc : LoopPcs, id : Call]

Typed ==
  /\ mqtt \in Mqtts /\ fin \in [Finisher -> Finishings] /\ stopping \in [Caller -> Stops]
  /\ pending \in Switches /\ current \in [call : Call, quality : MaybeQuality]
  /\ watchdog \in [Holder -> WatchdogPcs] /\ frame \in [Holder -> FramePcs]
  /\ loop \in [Holder -> Loops] /\ mainLoop \in Call
  /\ consumer \in [id : BOOLEAN, registered : BOOLEAN]
  /\ up \in BOOLEAN /\ commands \in Nat

-----------------------------------------------------------------------------
(* The switches.                                                           *)

\* A thread finishes one switch at a time, and its own work waits for that.
FinishersInv ==
  /\ \A t \in Finisher : fin[t].pc \in {"none", "take"} => fin[t].switch = NoSwitch
  /\ \A t \in Finisher : fin[t].pc \notin {"none", "take"} => fin[t].switch.id \in asked
  /\ mqtt.pc # "idle" => fin["mqtt"].pc = "none"

\* Where a switch is, and that it is nowhere else.
PlacesInv ==
  /\ asked \subseteq 1..commands
  /\ pending = NoSwitch \/ pending.id \in asked
  /\ answered \subseteq asked /\ dropped \subseteq asked /\ answered \cap dropped = {}
  /\ pending.id \notin answered \cup dropped
  /\ \A t \in Finisher : fin[t].switch.id \notin answered \cup dropped
  /\ \A t \in Finisher : fin[t].switch # NoSwitch => fin[t].switch.id # pending.id
  /\ \A t, u \in Finisher : fin[t].switch.id = fin[u].switch.id /\ t # u => fin[t].switch = NoSwitch
  /\ \A i \in asked : \/ i \in answered \cup dropped \cup {pending.id}
                      \/ \E t \in Finisher : fin[t].switch.id = i

SwitchInv == FinishersInv /\ PlacesInv

-----------------------------------------------------------------------------
(* stop(), and who holds which thread.                                     *)

\* The MQTT thread has taken what was there of the session.
Taken == \/ stopping["mqtt"].pc \in {"joins", "null", "quit", "takeLoop", "loop"}
         \/ mqtt.pc \in {"build", "failed", "publish", "hungUp"}

\* The MQTT thread is in its stop() during a command that calls it, and what that has
\* left of the microphone and the session.
TurnsInv ==
  /\ stopping["mqtt"].pc # "none" <=> mqtt.pc \in {"stopOld", "stopPlay", "stopHang"}
  /\ consumer.registered => consumer.id \/ mqtt.pc = "audioId"
  /\ stopping["mqtt"].pc \notin {"none", "audio"} \/ mqtt.pc = "hungUp" => ~consumer.registered
  /\ ~overlap /\ mqtt.pc \in {"stopHang", "hungUp"} => stopping["other"].pc = "none"
  /\ ~up => pending = NoSwitch
  /\ Taken => ~up
  /\ mqtt.pc \in {"stopOld", "build", "publish"} => mqtt.call # NoCall
  /\ up => current.call # NoCall

\* A stop() holds threads only while it joins them, and start() makes one only where
\* there is none.
HoldersInv ==
  /\ \A c \in Caller : /\ stopping[c].pc # "joins" => watchdog[c] = "none" /\ frame[c] = "none"
                       /\ stopping[c].pc # "loop" => loop[c] = NoLoop
                       /\ stopping[c].pc \in {"none", "audio", "take"} => stopping[c].session = NoCall
  /\ Taken \/ mqtt.pc = "watchdog" => watchdog["session"] = "none"
  /\ Taken \/ mqtt.pc \in {"watchdog", "play", "audio", "audioId", "frame"}
       => frame["session"] = "none"
  /\ stopping["mqtt"].pc = "loop" \/ mqtt.pc \in {"build", "failed", "hungUp"}
       => loop["session"] = NoLoop

\* A pipeline that a stop() has taken and not yet brought to NULL.
Dying == \E c \in Caller : stopping[c].pc \in {"joins", "null"} /\ stopping[c].session # NoCall

\* Whoever finishes a switch is there, and so is what has called it.
WorkersInv ==
  /\ fin["watchdog"].pc # "none" => \E h \in Holder : watchdog[h] = "test"
  /\ fin["frame"].pc # "none" => \E h \in Holder : frame[h] = "run"
  /\ fin["loop"].pc # "none" => \E h \in Holder : loop[h].pc \in {"run", "quit"}
  /\ peer # "free" \/ fin["peer"].pc # "none" \/ fin["rtp"].pc # "none" => up \/ Dying
  /\ mqtt.pc = "publish" /\ ~renewed => fin["loop"].pc = "none"

HangupInv ==
  /\ hungUp =>
       /\ ~up /\ ~consumer.registered /\ mqtt.pc \in {"idle", "stopHang", "hungUp"}
       /\ watchdog["session"] = "none" /\ frame["session"] = "none" /\ loop["session"] = NoLoop
  /\ hungUp /\ ~overlap =>
       shown = "idle" /\ peer = "free" /\ \A c \in Caller : stopping[c].session = NoCall

DownInv == TurnsInv /\ HoldersInv /\ WorkersInv /\ HangupInv

-----------------------------------------------------------------------------
(* The elements of the video branch.                                       *)

BranchInv ==
  ~overtaken /\ ~renewed =>
    /\ up /\ (\A t \in Finisher : fin[t].pc # "rollback") /\ mqtt.pc # "branch" =>
         branch \in {current.quality, None}
    /\ \A t \in Finisher : fin[t].pc = "rollback" =>
         pending = NoSwitch /\ (up => current.quality = fin[t].switch.from)
    /\ mqtt.pc = "branch" /\ pending.id = mqtt.switch => mqtt.quality = current.quality

SwitchIdInv == mqtt.pc = "branch" => mqtt.switch # 0

LiveInv == Typed /\ SwitchInv /\ DownInv /\ SwitchIdInv /\ BranchInv

-----------------------------------------------------------------------------
(* Types.                                                                  *)

\* One thread of finish_quality_switch moves.
LEMMA FinishMoves ==
  ASSUME fin \in [Finisher -> Finishings], NEW t \in Finisher, NEW q \in FinPcs,
         fin' = [fin EXCEPT ![t].pc = q]
  PROVE  /\ fin' \in [Finisher -> Finishings]
         /\ fin'[t].pc = q /\ fin'[t].switch = fin[t].switch
         /\ \A u \in Finisher : u # t => fin'[u] = fin[u]
<1>1. [fin[t] EXCEPT !.pc = q] \in Finishings
  BY DEF Finishings
<1>2. fin' = [fin EXCEPT ![t] = [fin[t] EXCEPT !.pc = q]]
  BY DEF Finishings
<1>3. fin[t] \in Finishings
  OBVIOUS
<1> QED
  BY <1>1, <1>2, <1>3 DEF Finishings

\* One thread in stop() moves.
LEMMA StopMoves ==
  ASSUME stopping \in [Caller -> Stops], NEW c \in Caller, NEW q \in StopPcs,
         stopping' = [stopping EXCEPT ![c].pc = q]
  PROVE  /\ stopping' \in [Caller -> Stops]
         /\ stopping'[c].pc = q /\ stopping'[c].session = stopping[c].session
         /\ \A d \in Caller : d # c => stopping'[d] = stopping[d]
<1>1. [stopping[c] EXCEPT !.pc = q] \in Stops
  BY DEF Stops
<1>2. stopping' = [stopping EXCEPT ![c] = [stopping[c] EXCEPT !.pc = q]]
  BY DEF Stops
<1>3. stopping[c] \in Stops
  OBVIOUS
<1> QED
  BY <1>1, <1>2, <1>3 DEF Stops

LEMMA Blank ==
  /\ NoSwitch \in Switches /\ NoFinish \in Finishings /\ NoStop \in Stops /\ Idle \in Mqtts
  /\ NoLoop \in Loops /\ LoopEnded \in Loops /\ LoopEnded # NoLoop /\ NoCall \in Call
  /\ NoSwitch.id = 0 /\ NoFinish.pc = "none" /\ NoFinish.switch = NoSwitch /\ NoStop.pc = "none"
  /\ NoStop.session = NoCall /\ Idle.pc = "idle" /\ NoLoop.pc = "none" /\ LoopEnded.pc = "ended"
<1>1. NoCall \in Call /\ 0 \in Nat
  BY LiveViewAssumption DEF NoCall, Call
<1>2. None \in MaybeQuality
  BY DEF MaybeQuality
<1>3. NoSwitch \in Switches /\ NoSwitch.id = 0
  BY <1>1, <1>2 DEF NoSwitch, Switches
<1>4. NoFinish \in Finishings /\ NoFinish.pc = "none" /\ NoFinish.switch = NoSwitch
  BY <1>3 DEF NoFinish, Finishings, FinPcs
<1>5. NoStop \in Stops /\ NoStop.pc = "none" /\ NoStop.session = NoCall
  BY <1>1 DEF NoStop, Stops, StopPcs
<1>6. Idle \in Mqtts /\ Idle.pc = "idle"
  BY <1>1, <1>2 DEF Idle, Mqtts, MqttPcs
<1>7. NoLoop \in Loops /\ LoopEnded \in Loops /\ NoLoop.pc = "none" /\ LoopEnded.pc = "ended"
  BY <1>1 DEF NoLoop, LoopEnded, Loops, LoopPcs
<1> QED
  BY <1>1, <1>3, <1>4, <1>5, <1>6, <1>7

LEMMA Names ==
  /\ "mqtt" \in Caller /\ "other" \in Caller /\ \A c \in Caller : c = "mqtt" \/ c = "other"
  /\ "mqtt" \in Finisher /\ "loop" \in Finisher /\ "peer" \in Finisher /\ "rtp" \in Finisher
  /\ "frame" \in Finisher /\ "watchdog" \in Finisher
  /\ "session" \in Holder /\ "session" \notin Caller /\ Caller \subseteq Holder
  /\ \A h \in Holder : h \in Caller \/ h = "session"
BY DEF Caller, Finisher, Holder

LEMMA LiveInitInv == Init => LiveInv /\ CandidatesReachPeer
<1> SUFFICES ASSUME Init PROVE LiveInv /\ CandidatesReachPeer
  OBVIOUS
<1>1. Typed
  <2>1. None \in MaybeQuality
    BY DEF MaybeQuality
  <2>2. /\ mqtt \in Mqtts /\ fin \in [Finisher -> Finishings] /\ stopping \in [Caller -> Stops]
        /\ pending \in Switches /\ loop \in [Holder -> Loops] /\ mainLoop \in Call
    BY Blank DEF Init
  <2>3. watchdog \in [Holder -> WatchdogPcs] /\ frame \in [Holder -> FramePcs]
    BY DEF Init, WatchdogPcs, FramePcs
  <2> QED
    BY Blank, <2>1, <2>2, <2>3 DEF Init, Typed
<1>2. /\ \A t \in Finisher : fin[t] = NoFinish
      /\ \A c \in Caller : stopping[c] = NoStop
      /\ \A h \in Holder : watchdog[h] = "none" /\ frame[h] = "none" /\ loop[h] = NoLoop
      /\ mqtt.pc = "idle"
  BY Blank DEF Init
<1>3. SwitchInv
  BY <1>2, Names, Blank DEF Init, SwitchInv, FinishersInv, PlacesInv
<1>4. DownInv
  BY <1>2, Names, Blank DEF Init, DownInv, TurnsInv, HoldersInv, WorkersInv, HangupInv, Taken
<1>5. SwitchIdInv /\ BranchInv /\ CandidatesReachPeer
  BY <1>2, Names, Blank DEF Init, SwitchIdInv, BranchInv, CandidatesReachPeer
<1> QED
  BY <1>1, <1>3, <1>4, <1>5 DEF LiveInv

\* The MQTT thread goes on to another step.
LEMMA MqttMoves ==
  ASSUME Typed, NEW q \in MqttPcs, MqttPc(q)
  PROVE  /\ mqtt' \in Mqtts /\ mqtt'.pc = q /\ mqtt'.call = mqtt.call
         /\ mqtt'.quality = mqtt.quality /\ mqtt'.switch = mqtt.switch
BY DEF Typed, MqttPc, Mqtts

LEMMA MqttEnds == ASSUME MqttReturns PROVE mqtt' \in Mqtts /\ mqtt'.pc = "idle"
BY Blank DEF MqttReturns

LEMMA CommandTypes ==
  ASSUME Typed, MqttCommand \/ MqttStep \/ StopFromOutside PROVE Typed'
<1> USE DEF sessionVars, lockedVars, mediaVars, threadVars, peerVars, boundVars, switchVars,
        stopVars, callVars, histVars
<1>0. /\ mqtt \in Mqtts /\ fin \in [Finisher -> Finishings] /\ stopping \in [Caller -> Stops]
      /\ pending \in Switches /\ current \in [call : Call, quality : MaybeQuality]
      /\ watchdog \in [Holder -> WatchdogPcs] /\ frame \in [Holder -> FramePcs]
      /\ loop \in [Holder -> Loops] /\ mainLoop \in Call
      /\ consumer \in [id : BOOLEAN, registered : BOOLEAN]
      /\ up \in BOOLEAN /\ commands \in Nat
  BY DEF Typed
<1>1. Quality \subseteq MaybeQuality /\ None \in MaybeQuality /\ StartQuality \subseteq MaybeQuality
  BY LiveViewAssumption DEF MaybeQuality
<1>2. /\ commands + 1 \in Nat
      /\ Command => commands' = commands + 1 /\ commands + 1 \in Call
      /\ Signal \/ Fault => commands' = commands
  BY <1>0, LiveViewAssumption DEF Command, Signal, Fault, Call
<1>3. ASSUME NEW q \in StartQuality, StartLive(q) PROVE Typed'
  <2>1. stopping' \in [Caller -> Stops]
    BY <1>0, <1>3, Names, StopMoves DEF StartLive, StopBegins, StopPcs
  <2>2. mqtt' \in Mqtts
    BY <1>1, <1>2, <1>3 DEF StartLive, Mqtts, MqttPcs
  <2> QED
    BY <1>0, <1>2, <1>3, <2>1, <2>2 DEF StartLive, Typed
<1>4. CASE Hangup \/ StopFromOutside
  <2>1. stopping' \in [Caller -> Stops]
    BY <1>0, <1>4, Names, StopMoves DEF Hangup, StopFromOutside, StopBegins, StopPcs
  <2>2. mqtt' \in Mqtts
    BY <1>0, <1>4, MqttMoves DEF Hangup, StopFromOutside, MqttPcs, Typed
  <2> QED
    BY <1>0, <1>2, <1>4, <2>1, <2>2 DEF Hangup, StopFromOutside, Typed
<1>5. CASE StartRejected \/ QualityUnchanged \/ HandleCandidate
  BY <1>0, <1>2, <1>5 DEF StartRejected, QualityUnchanged, HandleCandidate, Typed
<1>6. ASSUME NEW q \in Quality, SwitchQuality(q) PROVE Typed'
  <2>1. /\ pending' = [id |-> commands + 1, from |-> current.quality, to |-> q]
        /\ current' = [current EXCEPT !.quality = q]
        /\ mqtt' = [mqtt EXCEPT !.pc = "branch", !.quality = q, !.switch = commands + 1]
        /\ q \in MaybeQuality /\ commands' \in Nat /\ watchdog' = Notified
    BY <1>1, <1>2, <1>6 DEF SwitchQuality
  <2>2. pending' \in Switches
    BY <1>0, <1>2, <2>1 DEF Switches
  <2>3. mqtt' \in Mqtts
    BY <1>0, <1>2, <2>1 DEF Mqtts, MqttPcs
  <2>4. current' \in [call : Call, quality : MaybeQuality]
    BY <1>0, <2>1
  <2>5. watchdog' \in [Holder -> WatchdogPcs]
    BY <1>0, <2>1 DEF Notified, WatchdogPcs
  <2> QED
    BY <1>0, <1>6, <2>1, <2>2, <2>3, <2>4, <2>5 DEF SwitchQuality, Typed
<1>7. ASSUME NEW c \in offered, HandleAnswer(c) PROVE Typed'
  <2>1. fin' \in [Finisher -> Finishings]
    BY <1>0, <1>7, Names, FinishMoves DEF HandleAnswer, Finishes, FinPcs
  <2> QED
    BY <1>0, <1>2, <1>7, <2>1 DEF HandleAnswer, Typed
<1>8. CASE SwitchBranch
  <2>1. fin' \in [Finisher -> Finishings]
    BY <1>0, <1>8, Names, FinishMoves DEF SwitchBranch, Finishes, FinPcs
  <2>2. mqtt' \in Mqtts
    BY <1>8, MqttMoves, MqttEnds DEF SwitchBranch, MqttPcs
  <2> QED
    BY <1>0, <1>2, <1>8, <2>1, <2>2 DEF SwitchBranch, Typed
<1>9. CASE StartPlay
  <2>1. stopping' \in [Caller -> Stops]
    BY <1>0, <1>9, Names, StopMoves DEF StartPlay, StopBegins, StopPcs
  <2>2. mqtt' \in Mqtts
    BY <1>9, MqttMoves DEF StartPlay, MqttPcs
  <2> QED
    BY <1>0, <1>2, <1>9, <2>1, <2>2 DEF StartPlay, Typed
<1>10. CASE StartPublish
  <2>1. current' \in [call : Call, quality : MaybeQuality]
    BY <1>0, <1>10 DEF StartPublish, Mqtts
  <2>2. mqtt' \in Mqtts
    BY <1>10, MqttMoves DEF StartPublish, MqttPcs
  <2> QED
    BY <1>0, <1>10, <2>1, <2>2, Blank DEF StartPublish, Typed
<1>11. CASE StartLoop \/ StartWatchdog \/ StartFrame
  <2>1. mqtt' \in Mqtts
    BY <1>11, MqttMoves DEF StartLoop, StartWatchdog, StartFrame, MqttPcs
  <2>2. CASE StartLoop
    <3>1. mqtt.call \in Call /\ [pc |-> "spawn", id |-> mqtt.call] \in Loops
      BY <1>0 DEF Mqtts, Loops, LoopPcs
    <3>2. loop' \in [Holder -> Loops] /\ mainLoop' \in Call
      BY <1>0, <2>2, <3>1 DEF StartLoop
    <3> QED
      BY <1>0, <2>1, <2>2, <3>2 DEF StartLoop, Typed
  <2>3. CASE StartWatchdog
    <3>1. watchdog' \in [Holder -> WatchdogPcs]
      BY <1>0, <2>3 DEF StartWatchdog, WatchdogPcs
    <3> QED
      BY <1>0, <2>1, <2>3, <3>1 DEF StartWatchdog, Typed
  <2>4. CASE StartFrame
    <3>1. frame' \in [Holder -> FramePcs]
      BY <1>0, <2>4 DEF StartFrame, FramePcs
    <3> QED
      BY <1>0, <2>1, <2>4, <3>1 DEF StartFrame, Typed
  <2> QED
    BY <1>11, <2>2, <2>3, <2>4
<1>12. CASE StartFails \/ CommandOffers \/ HangupEnds
  <2>1. mqtt' \in Mqtts
    BY <1>12, MqttEnds DEF StartFails, CommandOffers, HangupEnds
  <2>2. UNCHANGED <<fin, stopping, pending, current, watchdog, loop, frame, consumer, up, mainLoop,
                    commands>>
    BY <1>2, <1>12 DEF StartFails, CommandOffers, HangupEnds
  <2> QED
    BY <1>0, <2>1, <2>2 DEF Typed
<1>13. CASE StartAudio \/ StartAudioId
  <2>1. mqtt' \in Mqtts
    BY <1>13, MqttMoves DEF StartAudio, StartAudioId, MqttPcs
  <2> QED
    BY <1>0, <1>13, <2>1 DEF StartAudio, StartAudioId, Typed
<1> QED
  BY <1>3, <1>4, <1>5, <1>6, <1>7, <1>8, <1>9, <1>10, <1>11, <1>12, <1>13
     DEF MqttCommand, MqttStep

LEMMA ThreadsTypes ==
  ASSUME Typed, \/ PeerStep \/ PeerIceChanges \/ RtpPacket \/ FrameFails \/ BusError
                \/ \E h \in Holder : Thread(h)
  PROVE  Typed'
<1> USE DEF Typed, sessionVars, lockedVars, mediaVars, threadVars, peerVars, boundVars, switchVars,
        stopVars, callVars, histVars
<1>1. \A t \in {"mqtt", "peer", "rtp", "frame", "loop", "watchdog"} :
        Finishes(t) => fin' \in [Finisher -> Finishings]
  BY FinishMoves DEF Finisher, Finishes, FinPcs
<1>2. CASE PeerStep
  BY <1>1, <1>2 DEF PeerStep, PeerNegotiates, PeerOffers, PeerOfferFails, PeerAnswered,
     PeerAnswerFails, PeerUnpauses, PeerConnected, PeerPublishes, Fault
<1>3. CASE PeerIceChanges \/ RtpPacket \/ FrameFails \/ BusError
  BY <1>1, <1>3 DEF PeerIceChanges, RtpPacket, FrameFails, BusError, Fault
<1>4. ASSUME NEW h \in Holder, Thread(h) PROVE Typed'
  <2>1. CASE FrameEnds(h)
    BY <2>1 DEF FrameEnds, FramePcs
  <2>2. CASE LoopRuns(h)
    <3>1. loop[h] \in Loops /\ [pc |-> "run", id |-> mainLoop] \in Loops
      BY DEF Loops, LoopPcs
    <3>2. loop' \in [Holder -> Loops]
      BY <2>2, <3>1, Blank DEF LoopRuns
    <3> QED
      BY <2>2, <3>2 DEF LoopRuns
  <2>3. CASE LoopEnds(h)
    <3>1. loop' \in [Holder -> Loops]
      BY <2>3, Blank DEF LoopEnds
    <3> QED
      BY <2>3, <3>1 DEF LoopEnds
  <2>4. CASE WatchdogTests(h)
    BY <2>4 DEF WatchdogTests, WatchdogPcs
  <2>5. CASE WatchdogTimesOut(h)
    BY <1>1, <2>5 DEF WatchdogTimesOut, WatchdogPcs
  <2> QED
    BY <1>4, <2>1, <2>2, <2>3, <2>4, <2>5 DEF Thread, Watchdog, Loop
<1> QED
  BY <1>2, <1>3, <1>4

LEMMA FinishTypes ==
  ASSUME Typed, NEW t \in Finisher, Finish(t) PROVE Typed'
<1> USE DEF Typed, sessionVars, lockedVars, mediaVars, threadVars, peerVars, boundVars, switchVars,
        stopVars, callVars, histVars
<1>1. CASE FinishTake(t)
  <2>1. CASE pending = NoSwitch
    BY <1>1, <2>1, Blank DEF FinishTake
  <2>2. CASE pending # NoSwitch
    <3>1. PICK q \in FinPcs : fin' = [fin EXCEPT ![t] = [pc |-> q, switch |-> pending]]
      BY <1>1, <2>2 DEF FinishTake, FinPcs
    <3>2. fin' \in [Finisher -> Finishings]
      BY <3>1 DEF Finishings
    <3>3. current' \in [call : Call, quality : MaybeQuality]
      <4>1. pending.from \in MaybeQuality
        BY DEF Switches
      <4> QED
        BY <1>1, <2>2, <4>1 DEF FinishTake
    <3> QED
      BY <1>1, <2>2, <3>2, <3>3, Blank DEF FinishTake
  <2> QED
    BY <2>1, <2>2
<1>2. CASE FinishRollback(t)
  <2>1. fin' \in [Finisher -> Finishings]
    BY <1>2, FinishMoves DEF FinishRollback, FinPcs
  <2> QED
    BY <1>2, <2>1 DEF FinishRollback, Fault
<1>3. CASE FinishAnswer(t)
  BY <1>3, Blank DEF FinishAnswer, Notified, WatchdogPcs
<1> QED
  BY <1>1, <1>2, <1>3 DEF Finish

\* stop(): where the caller goes, and that the other one stays.
LEMMA StopStages ==
  ASSUME Typed, NEW c \in Caller
  PROVE  /\ StopAudio(c) => stopping[c].pc = "audio" /\ stopping'[c].pc = "take"
                              /\ stopping'[c].session = stopping[c].session
         /\ StopTake(c) => stopping[c].pc = "take" /\ stopping'[c].pc = "joins"
                             /\ stopping'[c].session = IF up THEN current.call ELSE NoCall
         /\ StopJoins(c) => stopping[c].pc = "joins" /\ stopping'[c].pc = "null"
                              /\ stopping'[c].session = stopping[c].session
         /\ StopNull(c) => stopping[c].pc = "null" /\ stopping'[c].pc = "quit"
                             /\ stopping'[c].session = stopping[c].session
         /\ StopQuits(c) => stopping[c].pc = "quit" /\ stopping'[c].pc = "takeLoop"
                              /\ stopping'[c].session = stopping[c].session
         /\ StopTakesLoop(c) => stopping[c].pc = "takeLoop" /\ stopping'[c].pc = "loop"
                                  /\ stopping'[c].session = stopping[c].session
         /\ StopJoinsLoop(c) => stopping[c].pc = "loop" /\ stopping'[c] = NoStop
         /\ Stop(c) => stopping' \in [Caller -> Stops]
         /\ Stop(c) => \A d \in Caller : d # c => stopping'[d] = stopping[d]
<1> USE DEF Typed
<1>1. /\ StopAudio(c) => stopping' = [stopping EXCEPT ![c].pc = "take"]
      /\ StopJoins(c) => stopping' = [stopping EXCEPT ![c].pc = "null"]
      /\ StopNull(c) => stopping' = [stopping EXCEPT ![c].pc = "quit"]
      /\ StopQuits(c) => stopping' = [stopping EXCEPT ![c].pc = "takeLoop"]
      /\ StopTakesLoop(c) => stopping' = [stopping EXCEPT ![c].pc = "loop"]
  BY DEF StopAudio, StopJoins, StopNull, StopQuits, StopTakesLoop
<1>2. {"take", "null", "quit", "takeLoop", "loop"} \subseteq StopPcs
  BY DEF StopPcs
<1>3. CASE StopTake(c)
  <2>1. PICK s \in Call :
          /\ s = IF up THEN current.call ELSE NoCall
          /\ stopping' = [stopping EXCEPT ![c] = [pc |-> "joins", loop |-> mainLoop, session |-> s]]
    BY <1>3, Blank DEF StopTake
  <2>2. [pc |-> "joins", loop |-> mainLoop, session |-> s] \in Stops
    BY DEF Stops, StopPcs
  <2> QED
    BY <1>3, <2>1, <2>2
       DEF StopTake, StopAudio, StopJoins, StopNull, StopQuits, StopTakesLoop, StopJoinsLoop
<1>4. CASE StopJoinsLoop(c)
  BY <1>4, Blank
     DEF StopTake, StopAudio, StopJoins, StopNull, StopQuits, StopTakesLoop, StopJoinsLoop
<1>5. CASE ~StopTake(c) /\ ~StopJoinsLoop(c)
  <2>1. /\ StopAudio(c) => stopping[c].pc = "audio"
        /\ StopJoins(c) => stopping[c].pc = "joins"
        /\ StopNull(c) => stopping[c].pc = "null"
        /\ StopQuits(c) => stopping[c].pc = "quit"
        /\ StopTakesLoop(c) => stopping[c].pc = "takeLoop"
    BY DEF StopAudio, StopJoins, StopNull, StopQuits, StopTakesLoop
  <2>2. ASSUME NEW q \in StopPcs, stopping' = [stopping EXCEPT ![c].pc = q]
        PROVE  /\ stopping'[c].pc = q /\ stopping'[c].session = stopping[c].session
               /\ stopping' \in [Caller -> Stops]
               /\ \A d \in Caller : d # c => stopping'[d] = stopping[d]
    BY <2>2, StopMoves
  <2>3. /\ StopAudio(c) => stopping'[c].pc = "take" /\ stopping'[c].session = stopping[c].session
        /\ StopJoins(c) => stopping'[c].pc = "null" /\ stopping'[c].session = stopping[c].session
        /\ StopNull(c) => stopping'[c].pc = "quit" /\ stopping'[c].session = stopping[c].session
        /\ StopQuits(c) => stopping'[c].pc = "takeLoop" /\ stopping'[c].session = stopping[c].session
        /\ StopTakesLoop(c) => stopping'[c].pc = "loop" /\ stopping'[c].session = stopping[c].session
    BY <1>1, <1>2, <2>2
  <2>4. Stop(c) => /\ stopping' \in [Caller -> Stops]
                   /\ \A d \in Caller : d # c => stopping'[d] = stopping[d]
    BY <1>1, <1>2, <1>5, <2>2 DEF Stop
  <2> QED
    BY <1>5, <2>1, <2>3, <2>4
<1> QED
  BY <1>3, <1>4, <1>5

\* What stop() leaves alone, and that it is the MQTT thread's only in a command.
LEMMA StopEffect ==
  ASSUME Typed, NEW c \in Caller, Stop(c)
  PROVE  /\ stopping[c].pc # "none"
         /\ UNCHANGED <<fin, peer, hungUp, overlap, renewed, shown, asked, answered, current, branch,
                        overtaken, commands>>
         /\ up' => up
         /\ mqtt' = mqtt \/ (c = "mqtt" /\ StopJoinsLoop(c))
<1> USE DEF sessionVars, lockedVars, mediaVars, threadVars, peerVars, boundVars, switchVars,
        stopVars, callVars, histVars
<1>1. CASE StopAudio(c) \/ StopJoins(c) \/ StopNull(c)
  BY <1>1 DEF StopAudio, StopJoins, StopNull
<1>2. CASE StopTake(c)
  BY <1>2 DEF StopTake
<1>3. CASE StopQuits(c)
  BY <1>3 DEF StopQuits
<1>4. CASE StopTakesLoop(c)
  BY <1>4 DEF StopTakesLoop
<1>5. CASE StopJoinsLoop(c)
  BY <1>5 DEF StopJoinsLoop
<1> QED
  BY <1>1, <1>2, <1>3, <1>4, <1>5 DEF Stop

\* The MQTT thread after its stop().
LEMMA StopReturned ==
  ASSUME Typed, TurnsInv, StopJoinsLoop("mqtt")
  PROVE  /\ mqtt' \in Mqtts /\ mqtt'.pc \in {"build", "failed", "hungUp"}
         /\ mqtt'.pc = "build" => mqtt.pc = "stopOld"
         /\ mqtt'.pc = "failed" => mqtt.pc = "stopPlay"
         /\ mqtt'.pc = "hungUp" => mqtt.pc = "stopHang"
         /\ mqtt.pc \in {"stopOld", "stopPlay", "stopHang"}
         /\ mqtt'.call = mqtt.call
<1>1. mqtt.pc \in {"stopOld", "stopPlay", "stopHang"}
  BY DEF StopJoinsLoop, TurnsInv
<1>2. {"build", "failed", "hungUp"} \subseteq MqttPcs
  BY DEF MqttPcs
<1>3. /\ mqtt.pc = "stopOld" => MqttPc("build")
      /\ mqtt.pc = "stopPlay" => MqttPc("failed")
      /\ mqtt.pc = "stopHang" => MqttPc("hungUp")
  BY DEF StopJoinsLoop
<1> QED
  BY <1>1, <1>2, <1>3, MqttMoves

LEMMA StopTypes ==
  ASSUME Typed, TurnsInv, NEW c \in Caller, Stop(c) PROVE Typed'
<1> USE DEF sessionVars, lockedVars, mediaVars, threadVars, peerVars, boundVars, switchVars,
        stopVars, callVars, histVars
<1>1. /\ stopping' \in [Caller -> Stops] /\ UNCHANGED <<fin, current, commands>>
      /\ fin \in [Finisher -> Finishings] /\ current \in [call : Call, quality : MaybeQuality]
      /\ commands \in Nat
  BY StopStages, StopEffect DEF Typed
<1>2. mqtt' \in Mqtts
  BY StopEffect, StopReturned DEF Typed
<1>3. consumer' \in [id : BOOLEAN, registered : BOOLEAN]
  <2>1. [id |-> FALSE, registered |-> FALSE] \in [id : BOOLEAN, registered : BOOLEAN]
    OBVIOUS
  <2>2. UNCHANGED consumer \/ consumer' = [id |-> FALSE, registered |-> FALSE]
    BY DEF Stop, StopAudio, StopTake, StopJoins, StopNull, StopQuits, StopTakesLoop, StopJoinsLoop
  <2> QED
    BY <2>1, <2>2 DEF Typed
<1>4. pending' \in Switches /\ up' \in BOOLEAN /\ mainLoop' \in Call
  BY Blank
     DEF Stop, StopAudio, StopTake, StopJoins, StopNull, StopQuits, StopTakesLoop, StopJoinsLoop,
         Typed
<1>5. watchdog' \in [Holder -> WatchdogPcs] /\ frame' \in [Holder -> FramePcs]
  <2>1. CASE StopTake(c)
    <3>1. Notified \in [Holder -> WatchdogPcs] /\ watchdog \in [Holder -> WatchdogPcs]
      BY DEF Notified, Typed, WatchdogPcs
    <3>2. "none" \in WatchdogPcs /\ "none" \in FramePcs /\ frame \in [Holder -> FramePcs]
      BY DEF WatchdogPcs, FramePcs, Typed
    <3> QED
      BY <2>1, <3>1, <3>2, Names DEF StopTake
  <2>2. CASE StopJoins(c)
    BY <2>2 DEF StopJoins, Typed, WatchdogPcs, FramePcs
  <2>3. CASE ~StopTake(c) /\ ~StopJoins(c)
    BY <2>3 DEF Stop, StopAudio, StopNull, StopQuits, StopTakesLoop, StopJoinsLoop, Typed
  <2> QED
    BY <2>1, <2>2, <2>3
<1>6. loop' \in [Holder -> Loops]
  <2>0. loop \in [Holder -> Loops]
    BY DEF Typed
  <2>1. CASE StopQuits(c)
    <3>1. stopping[c].loop \in Call /\ [pc |-> "run", id |-> stopping[c].loop] \in Loops
      BY DEF Typed, Stops, Loops, LoopPcs
    <3>2. \A h \in Holder : [loop[h] EXCEPT !.pc = "quit"] \in Loops
      BY <2>0 DEF Loops, LoopPcs
    <3> QED
      BY <2>0, <2>1, <3>1, <3>2 DEF StopQuits
  <2>2. CASE StopTakesLoop(c)
    BY <2>0, <2>2, Names, Blank DEF StopTakesLoop
  <2>3. CASE StopJoinsLoop(c)
    BY <2>0, <2>3, Names, Blank DEF StopJoinsLoop
  <2>4. CASE ~StopQuits(c) /\ ~StopTakesLoop(c) /\ ~StopJoinsLoop(c)
    BY <2>0, <2>4 DEF Stop, StopAudio, StopTake, StopJoins, StopNull
  <2> QED
    BY <2>1, <2>2, <2>3, <2>4
<1> QED
  BY <1>1, <1>2, <1>3, <1>4, <1>5, <1>6 DEF Typed

LEMMA TypedStep ==
  ASSUME Typed, TurnsInv, [Next]_vars PROVE Typed'
<1>1. CASE UNCHANGED vars
  BY <1>1 DEF vars, Typed, lockedVars, threadVars, histVars, boundVars
<1> QED
  BY <1>1, CommandTypes, ThreadsTypes, FinishTypes, StopTypes DEF Next

-----------------------------------------------------------------------------
(* The candidates of the other side.                                       *)

LEMMA CandidatesStep ==
  ASSUME CandidatesReachPeer, [Next]_vars PROVE CandidatesReachPeer'
<1> USE DEF CandidatesReachPeer, sessionVars, lockedVars, mediaVars, threadVars, peerVars, boundVars,
        switchVars, stopVars, callVars, histVars
<1>1. CASE MqttCommand \/ StopFromOutside
  <2>1. CASE HandleCandidate
    BY <2>1 DEF HandleCandidate, Signal
  <2>2. CASE ~HandleCandidate
    <3>1. UNCHANGED <<received, buffered, handed, remoteSet>>
      BY <1>1, <2>2 DEF MqttCommand, StopFromOutside, StartRejected, StartLive, QualityUnchanged,
         Hangup, SwitchQuality, HandleAnswer
    <3> QED
      BY <3>1
  <2> QED
    BY <2>1, <2>2
<1>2. CASE MqttStep
  <2>1. CASE StartPublish \/ CommandOffers
    BY <2>1 DEF StartPublish, CommandOffers, RequestOffer, BeginRemoteDescriptionUpdate
  <2>2. CASE ~StartPublish /\ ~CommandOffers
    <3>1. UNCHANGED <<received, buffered, handed, remoteSet>>
      BY <1>2, <2>2 DEF MqttStep, StartFails, StartLoop, StartWatchdog, StartPlay, StartAudio,
         StartAudioId, StartFrame, SwitchBranch, HangupEnds
    <3> QED
      BY <3>1
  <2> QED
    BY <2>1, <2>2
<1>3. ASSUME NEW p \in Call, PeerNegotiates(p) \/ PeerAnswered(p) PROVE CandidatesReachPeer'
  <2>1. CASE PeerNegotiates(p)
    BY <2>1 DEF PeerNegotiates, BeginRemoteDescriptionUpdate
  <2>2. CASE PeerAnswered(p)
    BY <2>2 DEF PeerAnswered
  <2> QED
    BY <1>3, <2>1, <2>2
<1>4. ASSUME UNCHANGED <<received, buffered, handed, remoteSet>> PROVE CandidatesReachPeer'
  BY <1>4
<1>5. CASE PeerStep \/ PeerIceChanges
  BY <1>3, <1>4, <1>5 DEF PeerStep, PeerIceChanges, PeerOffers, PeerOfferFails, PeerAnswerFails,
     PeerUnpauses, PeerConnected, PeerPublishes
<1>6. CASE RtpPacket \/ FrameFails \/ BusError
  BY <1>6 DEF RtpPacket, FrameFails, BusError
<1>7. ASSUME NEW h \in Holder, Thread(h) PROVE CandidatesReachPeer'
  BY <1>7 DEF Thread, FrameEnds, Loop, LoopRuns, LoopEnds, Watchdog, WatchdogTests,
     WatchdogTimesOut
<1>8. ASSUME NEW t \in Finisher, Finish(t) PROVE CandidatesReachPeer'
  BY <1>8 DEF Finish, FinishTake, FinishRollback, FinishAnswer
<1>9. ASSUME NEW c \in Caller, Stop(c) PROVE CandidatesReachPeer'
  <2>1. CASE StopTake(c)
    BY <2>1 DEF StopTake, BeginRemoteDescriptionUpdate
  <2>2. CASE ~StopTake(c)
    BY <1>4, <1>9, <2>2 DEF Stop, StopAudio, StopJoins, StopNull, StopQuits, StopTakesLoop,
       StopJoinsLoop
  <2> QED
    BY <2>1, <2>2
<1>10. CASE UNCHANGED vars
  BY <1>10 DEF vars
<1> QED
  BY <1>1, <1>2, <1>5, <1>6, <1>7, <1>8, <1>9, <1>10 DEF Next


-----------------------------------------------------------------------------
(* What the other threads do, and leave alone.                             *)

LEMMA FinishStarts ==
  ASSUME Typed, NEW t \in Finisher, Finishes(t)
  PROVE  /\ fin'[t].pc = "take" /\ fin'[t].switch = fin[t].switch
         /\ \A u \in Finisher : u # t => fin'[u] = fin[u]
BY FinishMoves DEF Typed, Finishes, FinPcs

\* finish_quality_switch: its thread goes on, the others stay.
LEMMA FinishEffect ==
  ASSUME Typed, NEW t \in Finisher, Finish(t)
  PROVE  /\ \A u \in Finisher : u # t => fin'[u] = fin[u]
         /\ fin[t].pc # "none" /\ watchdog' \in {watchdog, Notified}
         /\ UNCHANGED <<mqtt, stopping, loop, frame, mainLoop, consumer, up, peer, tasks, asked,
                        dropped, overlap, renewed, hungUp, shown, overtaken, commands>>
<1> USE DEF Typed, sessionVars, lockedVars, mediaVars, threadVars, peerVars, boundVars, switchVars,
        stopVars, callVars, histVars
<1>1. CASE FinishTake(t)
  BY <1>1 DEF FinishTake
<1>2. CASE FinishRollback(t)
  <2>1. \A u \in Finisher : u # t => fin'[u] = fin[u]
    BY <1>2, FinishMoves DEF FinishRollback, FinPcs
  <2> QED
    BY <1>2, <2>1 DEF FinishRollback, Fault
<1>3. CASE FinishAnswer(t)
  BY <1>3 DEF FinishAnswer
<1> QED
  BY <1>1, <1>2, <1>3 DEF Finish

LEMMA NotifiedKeeps ==
  ASSUME Typed, NEW h \in Holder
  PROVE  Notified[h] = "none" <=> watchdog[h] = "none"
BY DEF Notified

LEMMA NotifiedTests ==
  ASSUME Typed, NEW h \in Holder, watchdog[h] = "test" PROVE Notified[h] = "test"
BY DEF Notified

Threads == \/ PeerStep \/ PeerIceChanges \/ RtpPacket \/ FrameFails \/ BusError
           \/ \E h \in Holder : Thread(h)

\* The other threads: one of them may have to finish a switch.
LEMMA ThreadsEffect ==
  ASSUME Typed, Threads
  PROVE  /\ UNCHANGED <<mqtt, stopping, mainLoop, consumer, up, current, pending, branch, asked,
                        answered, dropped, overlap, renewed, hungUp, commands>>
         /\ \/ UNCHANGED fin
            \/ \E t \in Finisher \ {"mqtt"} : Finishes(t) /\ fin[t].pc = "none"
         /\ overtaken => overtaken'
<1> USE DEF Typed, sessionVars, lockedVars, mediaVars, threadVars, peerVars, boundVars, switchVars,
        stopVars, callVars, histVars
<1>1. {"peer", "rtp", "frame", "loop", "watchdog"} \subseteq Finisher \ {"mqtt"}
  BY DEF Finisher
<1>2. ASSUME NEW p \in Call, PeerOfferFails(p) \/ PeerAnswerFails(p)
      PROVE  /\ \E t \in Finisher \ {"mqtt"} : Finishes(t) /\ fin[t].pc = "none"
             /\ UNCHANGED <<mqtt, stopping, mainLoop, consumer, up, current, pending, branch, asked,
                            answered, dropped, overlap, renewed, hungUp, commands, overtaken>>
  <2>1. fin["peer"].pc = "none" /\ Finishes("peer")
    BY <1>2 DEF PeerOfferFails, PeerAnswerFails, Does, PeerFree
  <2>2. \E t \in Finisher \ {"mqtt"} : Finishes(t) /\ fin[t].pc = "none"
    BY <1>1, <2>1
  <2> QED
    BY <1>2, <2>2 DEF PeerOfferFails, PeerAnswerFails, Fault
<1>3. ASSUME NEW p \in Call, PeerNegotiates(p) \/ PeerOffers(p) \/ PeerAnswered(p)
      PROVE  /\ UNCHANGED <<mqtt, stopping, mainLoop, consumer, up, current, pending, branch, asked,
                            answered, dropped, overlap, renewed, hungUp, commands, fin>>
             /\ overtaken => overtaken'
  <2>1. overtaken' = overtaken \/ overtaken' = (overtaken \/ (pending # NoSwitch /\ ~offerRequested))
    BY <1>3 DEF PeerNegotiates, PeerOffers, PeerAnswered
  <2>2. overtaken => overtaken'
    BY ONLY <2>1, Zenon
  <2> QED
    BY <1>3, <2>2 DEF PeerNegotiates, PeerOffers, PeerAnswered
<1>4. CASE PeerUnpauses \/ PeerConnected \/ PeerPublishes \/ PeerIceChanges
  BY <1>4 DEF PeerUnpauses, PeerConnected, PeerPublishes, PeerIceChanges, Fault
<1>5. CASE RtpPacket \/ FrameFails \/ BusError
  BY <1>1, <1>5 DEF RtpPacket, FrameFails, BusError, Fault
<1>6. ASSUME NEW h \in Holder, Thread(h)
      PROVE  /\ UNCHANGED <<mqtt, stopping, mainLoop, consumer, up, current, pending, branch, asked,
                            answered, dropped, overlap, renewed, hungUp, commands, overtaken>>
             /\ \/ UNCHANGED fin
                \/ \E t \in Finisher \ {"mqtt"} : Finishes(t) /\ fin[t].pc = "none"
  BY <1>1, <1>6 DEF Thread, FrameEnds, Loop, LoopRuns, LoopEnds, Watchdog, WatchdogTests,
     WatchdogTimesOut
<1> QED
  BY <1>2, <1>3, <1>4, <1>5, <1>6 DEF Threads, PeerStep

\* The same, of a thread that someone holds.
LEMMA ThreadEffect ==
  ASSUME Typed, NEW h \in Holder, Thread(h)
  PROVE  /\ \A g \in Holder : g # h => /\ watchdog'[g] = watchdog[g]
                                       /\ frame'[g] = frame[g] /\ loop'[g] = loop[g]
         /\ watchdog'[h] = "none" <=> watchdog[h] = "none"
         /\ frame'[h] = "none" <=> frame[h] = "none"
         /\ loop'[h] = NoLoop <=> loop[h] = NoLoop
         /\ UNCHANGED <<peer, shown>>
         /\ fin["watchdog"].pc # "none" => watchdog' = watchdog
         /\ fin'["watchdog"].pc # "none" /\ fin["watchdog"].pc = "none" => watchdog'[h] = "test"
         /\ fin["frame"].pc # "none" => frame' = frame
         /\ fin["loop"].pc # "none" /\ loop[h].pc \in {"run", "quit"} => loop' = loop
         /\ \A t \in Finisher : t # "watchdog" => fin'[t] = fin[t]
<1> USE DEF threadVars, peerVars, sessionVars
<1>1. /\ watchdog \in [Holder -> WatchdogPcs] /\ frame \in [Holder -> FramePcs]
      /\ loop \in [Holder -> Loops] /\ fin \in [Finisher -> Finishings]
  BY DEF Typed
<1>2. CASE FrameEnds(h)
  BY <1>1, <1>2 DEF FrameEnds
<1>3. CASE LoopRuns(h)
  <2>1. [pc |-> "run", id |-> mainLoop].pc = "run"
    OBVIOUS
  <2>2. /\ \A g \in Holder : g # h => loop'[g] = loop[g]
        /\ loop'[h] # NoLoop /\ loop[h].pc = "spawn"
    BY <1>1, <1>3, <2>1, Blank DEF LoopRuns
  <2> QED
    BY <1>3, <2>2, Blank DEF LoopRuns
<1>4. CASE LoopEnds(h)
  BY <1>1, <1>4, Blank DEF LoopEnds
<1>5. CASE WatchdogTests(h)
  BY <1>1, <1>5 DEF WatchdogTests
<1>6. CASE WatchdogTimesOut(h)
  <2>1. \A t \in Finisher : t # "watchdog" => fin'[t] = fin[t]
    BY <1>6, FinishStarts, Names DEF WatchdogTimesOut
  <2> QED
    BY <1>1, <1>6, <2>1 DEF WatchdogTimesOut
<1> QED
  BY <1>2, <1>3, <1>4, <1>5, <1>6 DEF Thread, Watchdog, Loop

\* .. and of the rest of the threads, which is the business of a session.
LEMMA BusyEffect ==
  ASSUME Typed, PeerStep \/ PeerIceChanges \/ RtpPacket \/ FrameFails \/ BusError
  PROVE  /\ UNCHANGED <<watchdog, frame, loop>>
         /\ fin'["watchdog"] = fin["watchdog"] /\ fin'["mqtt"] = fin["mqtt"]
         /\ fin'["frame"].pc # "none" /\ fin["frame"].pc = "none" =>
              up /\ \E h \in Holder : frame[h] = "run"
         /\ fin'["loop"].pc # "none" /\ fin["loop"].pc = "none" =>
              up /\ \E h \in Holder : loop[h].pc = "run"
         /\ fin'["rtp"].pc # "none" /\ fin["rtp"].pc = "none" => up
         /\ peer' # "free" \/ fin'["peer"].pc # "none" =>
              up \/ peer # "free" \/ fin["peer"].pc # "none"
         /\ peer = "free" => shown' = shown
<1> USE Names DEF threadVars, sessionVars, peerVars
<1>1. /\ Finishes("peer") => \A t \in Finisher : t # "peer" => fin'[t] = fin[t]
      /\ Finishes("rtp") => \A t \in Finisher : t # "rtp" => fin'[t] = fin[t]
      /\ Finishes("frame") => \A t \in Finisher : t # "frame" => fin'[t] = fin[t]
      /\ Finishes("loop") => \A t \in Finisher : t # "loop" => fin'[t] = fin[t]
  BY FinishStarts
<1>2. ASSUME NEW p \in Call, PeerNegotiates(p) \/ PeerOffers(p)
      PROVE  UNCHANGED <<watchdog, frame, loop, fin, peer, shown>>
  BY <1>2 DEF PeerNegotiates, PeerOffers
<1>3. ASSUME NEW p \in Call, PeerAnswered(p)
      PROVE  UNCHANGED <<watchdog, frame, loop, fin, shown>> /\ (peer' = peer \/ up)
  BY <1>3 DEF PeerAnswered
<1>4. ASSUME NEW p \in Call, PeerOfferFails(p) \/ PeerAnswerFails(p)
      PROVE  UNCHANGED <<watchdog, frame, loop, shown>> /\ Finishes("peer") /\ up
  BY <1>4 DEF PeerOfferFails, PeerAnswerFails
<1>5. CASE PeerUnpauses \/ PeerConnected \/ PeerPublishes \/ PeerIceChanges
  BY <1>5 DEF PeerUnpauses, PeerConnected, PeerPublishes, PeerIceChanges
<1>6. CASE RtpPacket
  BY <1>1, <1>6 DEF RtpPacket
<1>7. CASE FrameFails
  BY <1>1, <1>7 DEF FrameFails
<1>8. CASE BusError
  BY <1>1, <1>8 DEF BusError
<1>9. ASSUME NEW p \in Call, PeerNegotiates(p) \/ PeerOffers(p) \/ PeerAnswered(p)
             \/ PeerOfferFails(p) \/ PeerAnswerFails(p)
      PROVE  /\ UNCHANGED <<watchdog, frame, loop, shown>>
             /\ \A t \in Finisher : t # "peer" => fin'[t] = fin[t]
             /\ peer' # "free" \/ fin'["peer"].pc # "none" =>
                  up \/ peer # "free" \/ fin["peer"].pc # "none"
  BY <1>1, <1>2, <1>3, <1>4, <1>9
<1>10. (\E p \in Call : \/ PeerNegotiates(p) \/ PeerOffers(p) \/ PeerOfferFails(p)
                        \/ PeerAnswered(p) \/ PeerAnswerFails(p))
       => /\ UNCHANGED <<watchdog, frame, loop, shown>>
          /\ \A t \in Finisher : t # "peer" => fin'[t] = fin[t]
          /\ peer' # "free" \/ fin'["peer"].pc # "none" =>
               up \/ peer # "free" \/ fin["peer"].pc # "none"
  BY <1>9
<1> QED
  BY <1>5, <1>6, <1>7, <1>8, <1>10 DEF PeerStep

-----------------------------------------------------------------------------
(* Who is in stop(), and what that has left.                               *)

\* A step of the MQTT thread that is outside stop() before and after it.
LEMMA TurnsRest ==
  ASSUME Typed, TurnsInv, UNCHANGED <<stopping, consumer, up, pending, current, overlap>>,
         mqtt.pc \notin {"stopOld", "stopPlay", "stopHang"},
         mqtt'.pc \notin {"stopOld", "stopPlay", "stopHang", "hungUp", "failed", "build"},
         mqtt.pc # "audioId", mqtt'.pc = "publish" => mqtt.pc \in {"build", "publish"} /\ mqtt'.call = mqtt.call
  PROVE  TurnsInv'
BY DEF TurnsInv, Taken

LEMMA CommandTurns ==
  ASSUME Typed, TurnsInv, MqttCommand \/ MqttStep \/ StopFromOutside
  PROVE  TurnsInv'
<1> USE Names DEF sessionVars, lockedVars, mediaVars, threadVars,
        peerVars, boundVars, switchVars, stopVars, callVars, histVars
<1>0. /\ consumer \in [id : BOOLEAN, registered : BOOLEAN] /\ commands \in Nat
      /\ current \in [call : Call, quality : MaybeQuality]
      /\ {"idle", "publish", "watchdog", "play", "audio", "stopPlay", "audioId", "frame", "offer",
          "stopHang", "build", "failed", "hungUp"} \subseteq MqttPcs
  BY DEF Typed, MqttPcs
<1>1. CASE StopBegins("mqtt") /\ UNCHANGED <<consumer, up, pending, current>>
           /\ mqtt.pc \in {"idle", "play"} /\ mqtt'.pc \in {"stopOld", "stopPlay", "stopHang"}
           /\ (~overlap' => ~overlap)
           /\ (~overlap' /\ mqtt'.pc = "stopHang" => stopping["other"].pc = "none")
           /\ (mqtt'.pc = "stopOld" => mqtt'.call # NoCall)
  <2>1. stopping'["mqtt"].pc = "audio" /\ stopping'["other"] = stopping["other"]
    BY <1>1, StopMoves DEF StopBegins, StopPcs, Typed
  <2> QED
    BY <1>1, <2>1 DEF TurnsInv, Taken
<1>2. ASSUME NEW q \in StartQuality, StartLive(q) PROVE TurnsInv'
  <2>1. mqtt'.pc = "stopOld" /\ mqtt'.call # NoCall
    BY <1>0, <1>2 DEF StartLive, NoCall
  <2>2. ~overlap' => ~overlap
    BY ONLY <1>2, Zenon DEF StartLive, Met
  <2>3. mqtt.pc = "idle" /\ StopBegins("mqtt") /\ UNCHANGED <<consumer, up, pending, current>>
    BY <1>2 DEF StartLive, MqttIdle
  <2> QED
    BY <1>1, <2>1, <2>2, <2>3
<1>3. CASE Hangup
  <2>1. mqtt'.pc = "stopHang"
    BY <1>0, <1>3, MqttMoves DEF Hangup
  <2>2. ~overlap' => ~overlap /\ stopping["other"].pc = "none"
    BY ONLY <1>3, Zenon DEF Hangup, Met
  <2>3. mqtt.pc = "idle" /\ StopBegins("mqtt") /\ UNCHANGED <<consumer, up, pending, current>>
    BY <1>3 DEF Hangup, MqttIdle
  <2> QED
    BY <1>1, <2>1, <2>2, <2>3
<1>4. CASE StartPlay
  <2>1. CASE MqttPc("audio") /\ UNCHANGED <<boundVars, stopping>>
    <3>1. mqtt'.pc = "audio"
      BY <1>0, <2>1, MqttMoves
    <3> QED
      BY <1>4, <2>1, <3>1, TurnsRest DEF StartPlay
  <2>2. CASE MqttPc("stopPlay") /\ StopBegins("mqtt")
    <3>1. mqtt'.pc = "stopPlay"
      BY <1>0, <2>2, MqttMoves
    <3>2. UNCHANGED <<consumer, up, pending, current, overlap>> /\ mqtt.pc = "play"
      BY <1>4 DEF StartPlay
    <3> QED
      BY <1>1, <2>2, <3>1, <3>2
  <2> QED
    BY <1>4, <2>1, <2>2 DEF StartPlay
<1>5. CASE StopFromOutside
  <2>1. stopping'["other"].pc = "audio" /\ stopping'["mqtt"] = stopping["mqtt"]
    BY <1>5, StopMoves DEF StopFromOutside, StopBegins, StopPcs, Typed
  <2>2. UNCHANGED <<mqtt, pending, consumer, up, current>>
    BY <1>5 DEF StopFromOutside
  <2>3. ~overlap' => MqttIdle
    BY ONLY <1>5, Zenon DEF StopFromOutside
  <2> QED
    BY <2>1, <2>2, <2>3 DEF TurnsInv, Taken, MqttIdle
<1>6. CASE StartRejected \/ QualityUnchanged \/ HandleCandidate \/ \E c \in offered : HandleAnswer(c)
  <2>1. /\ UNCHANGED <<stopping, consumer, up, pending, current, overlap, mqtt>>
        /\ mqtt.pc = "idle"
    BY <1>6 DEF StartRejected, QualityUnchanged, HandleCandidate, HandleAnswer, Switchable, MqttIdle
  <2> QED
    BY <2>1, TurnsRest
<1>7. ASSUME NEW q \in Quality, SwitchQuality(q) PROVE TurnsInv'
  <2>1. mqtt'.pc = "branch" /\ mqtt.pc = "idle" /\ current'.call = current.call /\ up
    BY <1>0, <1>7 DEF SwitchQuality, Switchable, MqttIdle, Typed, Mqtts
  <2>2. UNCHANGED <<stopping, consumer, up, overlap>>
    BY <1>7 DEF SwitchQuality
  <2> QED
    BY <2>1, <2>2 DEF TurnsInv, Taken
<1>8. CASE StartPublish
  <2>1. /\ mqtt'.pc = "watchdog" /\ mqtt.pc = "publish"
        /\ current'.call = mqtt.call /\ pending' = NoSwitch /\ up' = TRUE
        /\ UNCHANGED <<stopping, consumer, overlap>>
    BY <1>0, <1>8, MqttMoves DEF StartPublish
  <2> QED
    BY <2>1 DEF TurnsInv, Taken
<1>9. CASE StartLoop
  <2>1. /\ mqtt'.pc = "publish" /\ mqtt.pc = "build" /\ mqtt'.call = mqtt.call
        /\ UNCHANGED <<stopping, consumer, up, pending, current, overlap>>
    BY <1>0, <1>9, MqttMoves DEF StartLoop
  <2> QED
    BY <2>1 DEF TurnsInv, Taken
<1>10. CASE StartFails \/ StartWatchdog \/ StartFrame \/ CommandOffers \/ HangupEnds \/ SwitchBranch
  <2>1. /\ MqttReturns \/ MqttPc("play") \/ MqttPc("offer")
        /\ mqtt.pc \in {"build", "failed", "watchdog", "frame", "offer", "hungUp", "branch"}
        /\ UNCHANGED <<stopping, pending, overlap, up, consumer, current>>
    BY <1>10 DEF StartFails, StartWatchdog, StartFrame, CommandOffers, HangupEnds, SwitchBranch
  <2>2. mqtt'.pc \in {"idle", "play", "offer"}
    BY <1>0, <2>1, MqttMoves, MqttEnds
  <2> QED
    BY <2>1, <2>2, TurnsRest
<1>11. CASE StartAudio \/ StartAudioId
  <2>1. /\ mqtt.pc \in {"audio", "audioId"} /\ mqtt'.pc \in {"audioId", "frame"}
        /\ consumer'.registered => consumer'.id \/ mqtt'.pc = "audioId"
    BY <1>0, <1>11, MqttMoves DEF StartAudio, StartAudioId
  <2>2. UNCHANGED <<stopping, pending, overlap, up, current>>
    BY <1>11 DEF StartAudio, StartAudioId
  <2> QED
    BY <2>1, <2>2 DEF TurnsInv, Taken
<1> QED
  BY <1>2, <1>3, <1>4, <1>5, <1>6, <1>7, <1>8, <1>9, <1>10, <1>11 DEF MqttCommand, MqttStep

LEMMA FinishTurns ==
  ASSUME Typed, TurnsInv, NEW t \in Finisher, Finish(t) PROVE TurnsInv'
<1>1. pending' \in {pending, NoSwitch} /\ current'.call = current.call
  BY DEF Finish, FinishTake, FinishRollback, FinishAnswer, lockedVars, Typed
<1> QED
  BY <1>1, FinishEffect DEF TurnsInv, Taken

LEMMA StopTurns ==
  ASSUME Typed, TurnsInv, NEW c \in Caller, Stop(c) PROVE TurnsInv'
<1> USE Names, StopStages, StopEffect DEF Taken
<1>1. /\ consumer \in [id : BOOLEAN, registered : BOOLEAN]
      /\ \A d \in Caller : d # c => stopping'[d] = stopping[d]
  BY DEF Typed
<1>2. up' => up
  OBVIOUS
<1>3. ~up' => pending' = NoSwitch
  <2>1. UNCHANGED <<up, pending>> \/ pending' = NoSwitch
    BY DEF Stop, StopAudio, StopTake, StopJoins, StopNull, StopQuits, StopTakesLoop, StopJoinsLoop,
       lockedVars
  <2> QED
    BY <2>1 DEF TurnsInv
<1>4. CASE StopAudio(c)
  <2>1. /\ consumer'.registered => consumer'.id \/ mqtt.pc = "audioId"
        /\ ~consumer.registered => ~consumer'.registered
        /\ mqtt.pc # "audioId" => ~consumer'.registered
    BY <1>1, <1>4 DEF StopAudio, TurnsInv
  <2>2. UNCHANGED <<up, mqtt>>
    BY <1>4 DEF StopAudio, lockedVars
  <2>3. stopping[c].pc = "audio" /\ stopping'[c].pc = "take"
    BY <1>4
  <2> QED
    BY <1>3, <2>1, <2>2, <2>3 DEF TurnsInv
<1>5. CASE ~StopAudio(c) /\ ~StopJoinsLoop(c)
  <2>1. /\ UNCHANGED <<consumer, mqtt>> /\ stopping'[c].pc \notin {"none", "audio"}
        /\ stopping[c].pc \notin {"none", "audio"}
    BY <1>5 DEF Stop, StopTake, StopJoins, StopNull, StopQuits, StopTakesLoop
  <2>2. stopping[c].pc = "take" => ~up'
    BY <1>5 DEF Stop, StopTake, StopJoins, StopNull, StopQuits, StopTakesLoop
  <2>3. stopping[c].pc \in {"take", "joins", "null", "quit", "takeLoop"}
    BY <1>5 DEF Stop
  <2> QED
    BY <1>2, <1>3, <2>1, <2>2, <2>3 DEF TurnsInv
<1>6. CASE StopJoinsLoop(c)
  <2>1. UNCHANGED <<consumer, up>> /\ stopping[c].pc = "loop" /\ stopping'[c].pc = "none"
    BY <1>6, Blank DEF StopJoinsLoop, lockedVars
  <2>2. CASE c = "mqtt"
    <3>1. /\ mqtt'.pc \in {"build", "failed", "hungUp"}
          /\ mqtt'.pc = "build" => mqtt.pc = "stopOld"
          /\ mqtt'.pc = "hungUp" => mqtt.pc = "stopHang"
          /\ mqtt'.call = mqtt.call
      BY <1>6, <2>2, StopReturned
    <3> QED
      BY <1>3, <2>1, <2>2, <3>1 DEF TurnsInv
  <2>3. CASE c # "mqtt"
    <3>1. UNCHANGED mqtt
      BY <1>6, <2>3 DEF StopJoinsLoop
    <3> QED
      BY <1>3, <2>1, <2>3, <3>1 DEF TurnsInv
  <2> QED
    BY <2>2, <2>3
<1> QED
  BY <1>4, <1>5, <1>6

LEMMA TurnsStep ==
  ASSUME Typed, TurnsInv, [Next]_vars PROVE TurnsInv'
<1>1. CASE UNCHANGED vars
  BY <1>1 DEF vars, TurnsInv, Taken, lockedVars, histVars, callVars, stopVars
<1>2. CASE Threads
  BY <1>2, ThreadsEffect DEF TurnsInv, Taken
<1> QED
  BY <1>1, <1>2, CommandTurns, FinishTurns, StopTurns DEF Next, Threads

-----------------------------------------------------------------------------
(* The switches.                                                           *)

\* A step that accepts no switch and moves none from its place.
LEMMA SwitchRests ==
  ASSUME Typed, SwitchInv, UNCHANGED <<pending, asked, answered, dropped>>,
         commands' \in {commands, commands + 1},
         \A t \in Finisher : /\ fin'[t].switch = fin[t].switch
                             /\ \/ fin'[t].pc = fin[t].pc
                                \/ fin'[t].pc = "take" /\ fin[t].pc \in {"none", "take"},
         mqtt'.pc # "idle" => fin'["mqtt"].pc = "none"
  PROVE  SwitchInv'
<1>1. 1..commands \subseteq 1..commands'
  BY DEF Typed
<1>2. FinishersInv'
  BY DEF SwitchInv, FinishersInv
<1>3. PlacesInv'
  <2>1. PlacesInv /\ \A t \in Finisher : fin'[t].switch = fin[t].switch
    BY DEF SwitchInv
  <2>2. asked' \subseteq 1..commands'
    BY <1>1, <2>1 DEF PlacesInv
  <2>3. /\ pending' = NoSwitch \/ pending'.id \in asked'
        /\ answered' \subseteq asked' /\ dropped' \subseteq asked' /\ answered' \cap dropped' = {}
        /\ pending'.id \notin answered' \cup dropped'
    BY <2>1 DEF PlacesInv
  <2>4. \A t \in Finisher : /\ fin'[t].switch.id \notin answered' \cup dropped'
                            /\ fin'[t].switch # NoSwitch => fin'[t].switch.id # pending'.id
    BY <2>1 DEF PlacesInv
  <2>5. \A t, u \in Finisher :
          fin'[t].switch.id = fin'[u].switch.id /\ t # u => fin'[t].switch = NoSwitch
    BY <2>1 DEF PlacesInv
  <2>6. \A i \in asked' : \/ i \in answered' \cup dropped' \cup {pending'.id}
                         \/ \E t \in Finisher : fin'[t].switch.id = i
    <3>1. TAKE i \in asked'
    <3>2. \/ i \in answered \cup dropped \cup {pending.id}
          \/ \E t \in Finisher : fin[t].switch.id = i
      BY <2>1 DEF PlacesInv
    <3> QED
      BY <2>1, <3>2
  <2> QED
    BY ONLY <2>2, <2>3, <2>4, <2>5, <2>6 DEF PlacesInv
<1> QED
  BY <1>2, <1>3 DEF SwitchInv

\* A switch has a number.
LEMMA SwitchNumbers ==
  ASSUME Typed, SwitchInv
  PROVE  /\ 0 \notin asked /\ commands + 1 \notin asked /\ commands + 1 # 0
         /\ \A t \in Finisher : fin[t].switch.id \in asked \/ fin[t].switch = NoSwitch
         /\ pending.id \in asked \/ pending = NoSwitch
BY DEF Typed, SwitchInv, PlacesInv, FinishersInv, Finishings, FinPcs

LEMMA CommandSwitches ==
  ASSUME Typed, SwitchInv, TurnsInv, MqttCommand \/ MqttStep \/ StopFromOutside PROVE SwitchInv'
<1> USE Names DEF sessionVars, lockedVars, mediaVars, threadVars, peerVars, boundVars, switchVars,
        stopVars, callVars, histVars
<1>0. FinishersInv /\ PlacesInv /\ commands \in Nat
  BY DEF Typed, SwitchInv
<1>1. CASE \/ StartRejected \/ (\E q \in StartQuality : StartLive(q)) \/ Hangup
           \/ HandleCandidate \/ StopFromOutside
  <2>1. /\ UNCHANGED <<pending, asked, answered, dropped, fin>>
        /\ commands' \in {commands, commands + 1}
    BY <1>1 DEF StartRejected, StartLive, Hangup, HandleCandidate, StopFromOutside, Command, Signal
  <2>2. mqtt'.pc # "idle" => fin["mqtt"].pc = "none"
    BY <1>0, <1>1 DEF StartRejected, StartLive, Hangup, HandleCandidate, StopFromOutside, MqttIdle,
       FinishersInv
  <2> QED
    BY <1>0, <2>1, <2>2, SwitchRests DEF FinishersInv
<1>2. ASSUME NEW c \in offered, HandleAnswer(c) PROVE SwitchInv'
  <2>1. UNCHANGED <<pending, asked, answered, dropped, mqtt, commands>> /\ MqttIdle
    BY <1>2 DEF HandleAnswer, Signal, Fault
  <2>2. UNCHANGED fin \/ Finishes("mqtt")
    BY <1>2 DEF HandleAnswer
  <2> QED
    BY <1>0, <2>1, <2>2, SwitchRests, FinishStarts DEF FinishersInv, MqttIdle
<1>3. CASE QualityUnchanged
  <2>1. /\ UNCHANGED <<pending, dropped, fin, mqtt>> /\ commands' = commands + 1
        /\ asked' = asked \cup {commands + 1} /\ answered' = answered \cup {commands + 1}
    BY <1>3 DEF QualityUnchanged, Command
  <2>2. FinishersInv'
    BY <1>0, <2>1 DEF FinishersInv
  <2>3. asked' \subseteq 1..commands'
    BY <1>0, <2>1 DEF PlacesInv
  <2>4. PlacesInv'
    BY <1>0, <2>1, <2>3, SwitchNumbers, Blank DEF PlacesInv
  <2> QED
    BY <2>2, <2>4 DEF SwitchInv
<1>4. ASSUME NEW q \in Quality, SwitchQuality(q) PROVE SwitchInv'
  <2>1. /\ UNCHANGED <<answered, dropped, fin>> /\ commands' = commands + 1
        /\ asked' = asked \cup {commands + 1}
        /\ pending' = [id |-> commands + 1, from |-> current.quality, to |-> q]
        /\ pending = NoSwitch /\ MqttIdle
    BY <1>4 DEF SwitchQuality, Command, Switchable
  <2>2. pending'.id = commands + 1
    BY <2>1
  <2>3. FinishersInv'
    BY <1>0, <2>1 DEF FinishersInv, MqttIdle
  <2>4. asked' \subseteq 1..commands'
    BY <1>0, <2>1 DEF PlacesInv
  <2>5. PlacesInv'
    BY <1>0, <2>1, <2>2, <2>4, SwitchNumbers, Blank DEF PlacesInv
  <2> QED
    BY <2>3, <2>5 DEF SwitchInv
<1>5. CASE SwitchBranch
  <2>1. /\ UNCHANGED <<pending, asked, answered, dropped, commands>>
        /\ mqtt.pc = "branch"
        /\ UNCHANGED fin \/ (Finishes("mqtt") /\ MqttReturns)
    BY <1>5 DEF SwitchBranch, Fault
  <2>2. UNCHANGED fin \/ (Finishes("mqtt") /\ mqtt'.pc = "idle")
    BY <2>1, MqttEnds
  <2> QED
    BY <1>0, <2>1, <2>2, SwitchRests, FinishStarts DEF FinishersInv
<1>6. CASE MqttStep /\ ~SwitchBranch
  <2>1. /\ UNCHANGED <<asked, answered, dropped, commands, fin>>
        /\ mqtt.pc # "idle"
    BY <1>6 DEF MqttStep, StartFails, Fault, StartLoop, StartPublish, StartWatchdog, StartPlay,
       StartAudio, StartAudioId, StartFrame, CommandOffers, HangupEnds
  <2>2. UNCHANGED pending
    <3>1. CASE StartPublish
      BY <3>1 DEF StartPublish, TurnsInv, Taken
    <3>2. CASE ~StartPublish
      BY <1>6, <3>2 DEF MqttStep, StartFails, StartLoop, StartWatchdog, StartPlay, StartAudio,
         StartAudioId, StartFrame, CommandOffers, HangupEnds
    <3> QED
      BY <3>1, <3>2
  <2> QED
    BY <1>0, <2>1, <2>2, SwitchRests DEF FinishersInv
<1> QED
  BY <1>1, <1>2, <1>3, <1>4, <1>5, <1>6 DEF MqttCommand

LEMMA ThreadsSwitches ==
  ASSUME Typed, SwitchInv, Threads PROVE SwitchInv'
<1>1. UNCHANGED <<pending, asked, answered, dropped, commands, mqtt>>
  BY ThreadsEffect
<1>2. FinishersInv
  BY DEF SwitchInv
<1>3. CASE UNCHANGED fin
  BY <1>1, <1>2, <1>3, SwitchRests DEF FinishersInv
<1>4. ASSUME NEW t \in Finisher, Finishes(t), t # "mqtt", fin[t].pc = "none" PROVE SwitchInv'
  <2>1. /\ fin'[t].pc = "take" /\ fin'[t].switch = fin[t].switch
        /\ \A u \in Finisher : u # t => fin'[u] = fin[u]
    BY <1>4, FinishStarts
  <2> QED
    BY <1>1, <1>2, <1>4, <2>1, Names, SwitchRests DEF FinishersInv
<1> QED
  BY <1>3, <1>4, ThreadsEffect

LEMMA FinishSwitches ==
  ASSUME Typed, SwitchInv, NEW t \in Finisher, Finish(t) PROVE SwitchInv'
<1> USE Names
<1>0. FinishersInv /\ PlacesInv
  BY DEF SwitchInv
<1>1. /\ \A u \in Finisher : u # t => fin'[u] = fin[u]
      /\ fin[t].pc # "none"
      /\ UNCHANGED <<mqtt, asked, dropped, commands>>
  BY FinishEffect
<1>2. /\ mqtt'.pc # "idle" => fin["mqtt"].pc = "none"
      /\ mqtt.pc # "idle" => t # "mqtt"
      /\ mqtt'.pc # "idle" => fin'["mqtt"].pc = "none"
  BY <1>0, <1>1 DEF FinishersInv
<1>3. CASE FinishTake(t) /\ pending = NoSwitch
  <2>1. /\ fin'[t] = NoFinish /\ UNCHANGED <<pending, answered>> /\ fin[t].pc = "take"
    BY <1>3 DEF FinishTake, lockedVars, histVars, callVars, switchVars, Typed
  <2>2. fin[t].switch = NoSwitch
    BY <1>0, <2>1 DEF FinishersInv
  <2>3. FinishersInv'
    BY <1>0, <1>1, <1>2, <2>1, Blank DEF FinishersInv
  <2>4. \A u \in Finisher : fin'[u].switch = fin[u].switch
    BY <1>1, <2>1, <2>2, Blank
  <2>5. PlacesInv'
    BY ONLY <1>0, <1>1, <2>1, <2>4 DEF PlacesInv
  <2> QED
    BY <2>3, <2>5 DEF SwitchInv
<1>4. CASE FinishTake(t) /\ pending # NoSwitch
  <2>1. /\ fin'[t].pc \in {"answer", "rollback"} /\ fin'[t].switch = pending
        /\ pending' = NoSwitch /\ UNCHANGED answered /\ fin[t].pc = "take"
    BY <1>4 DEF FinishTake, histVars, callVars, switchVars, Typed
  <2>2. fin[t].switch = NoSwitch /\ pending.id \in asked /\ 0 \notin asked
    BY <1>0, <1>4, <2>1, SwitchNumbers DEF FinishersInv
  <2>3. FinishersInv'
    BY <1>0, <1>1, <1>2, <2>1, <2>2 DEF FinishersInv
  <2>4. /\ asked' \subseteq 1..commands' /\ answered' \subseteq asked' /\ dropped' \subseteq asked'
        /\ answered' \cap dropped' = {} /\ pending'.id \notin answered' \cup dropped'
    BY <1>0, <1>1, <2>1, <2>2, Blank DEF PlacesInv
  <2>5. \A u \in Finisher :
          /\ fin'[u].switch.id \notin answered' \cup dropped'
          /\ fin'[u].switch # NoSwitch => fin'[u].switch.id # pending'.id
    BY <1>0, <1>1, <2>1, <2>2, SwitchNumbers, Blank DEF PlacesInv
  <2>6. ASSUME NEW u \in Finisher, NEW v \in Finisher, fin'[u].switch.id = fin'[v].switch.id, u # v
        PROVE  fin'[u].switch = NoSwitch
    <3>1. CASE u # t /\ v # t
      BY <1>0, <1>1, <2>6, <3>1 DEF PlacesInv
    <3>2. ASSUME NEW w \in Finisher, w # t PROVE fin'[w].switch.id # pending.id
      BY <1>0, <1>1, <1>4, <2>2, <3>2, Blank DEF PlacesInv
    <3> QED
      BY <2>1, <2>6, <3>1, <3>2
  <2>7. ASSUME NEW i \in asked
        PROVE  \/ i \in answered' \cup dropped' \cup {pending'.id}
               \/ \E u \in Finisher : fin'[u].switch.id = i
    <3>1. CASE i = pending.id
      BY <2>1, <3>1
    <3>2. CASE i # pending.id
      <4>1. i \in answered \cup dropped \/ \E u \in Finisher : fin[u].switch.id = i
        BY <1>0, <3>2 DEF PlacesInv
      <4>2. ASSUME NEW u \in Finisher, fin[u].switch.id = i PROVE fin'[u].switch.id = i
        BY <1>1, <2>2, <4>2, Blank
      <4> QED
        BY <1>1, <2>1, <4>1, <4>2
    <3> QED
      BY <3>1, <3>2
  <2>8. PlacesInv'
    BY ONLY <1>1, <2>1, <2>4, <2>5, <2>6, <2>7 DEF PlacesInv
  <2> QED
    BY <2>3, <2>8 DEF SwitchInv
<1>5. CASE FinishRollback(t)
  <2>1. /\ fin'[t].pc \in {"answer", "answerPaused"} /\ fin'[t].switch = fin[t].switch
        /\ UNCHANGED <<pending, answered>> /\ fin[t].pc = "rollback"
    BY <1>5, FinishMoves
       DEF FinishRollback, FinPcs, lockedVars, histVars, callVars, switchVars, Typed
  <2>2. FinishersInv'
    BY <1>0, <1>1, <1>2, <2>1 DEF FinishersInv
  <2>3. \A u \in Finisher : fin'[u].switch = fin[u].switch
    BY <1>1, <2>1
  <2>4. PlacesInv'
    BY ONLY <1>0, <1>1, <2>1, <2>3 DEF PlacesInv
  <2> QED
    BY <2>2, <2>4 DEF SwitchInv
<1>6. CASE FinishAnswer(t)
  <2>1. /\ fin'[t] = NoFinish /\ UNCHANGED pending /\ fin[t].pc \in {"answer", "answerPaused"}
        /\ answered' = answered \cup {fin[t].switch.id}
    BY <1>6 DEF FinishAnswer, lockedVars, Typed
  <2>2. fin[t].switch.id \in asked /\ 0 \notin asked /\ fin[t].switch.id \notin dropped
    BY <1>0, <2>1, SwitchNumbers DEF FinishersInv, PlacesInv
  <2>3. FinishersInv'
    BY <1>0, <1>1, <1>2, <2>1, Blank DEF FinishersInv
  <2>4. fin[t].switch # NoSwitch /\ fin[t].switch.id # pending.id
    BY <1>0, <2>2, Blank DEF PlacesInv
  <2>5. /\ asked' \subseteq 1..commands' /\ answered' \subseteq asked' /\ dropped' \subseteq asked'
        /\ answered' \cap dropped' = {} /\ pending'.id \notin answered' \cup dropped'
        /\ pending' = NoSwitch \/ pending'.id \in asked'
    <3>1. asked' \subseteq 1..commands'
      BY <1>0, <1>1 DEF PlacesInv
    <3>2. answered' \subseteq asked' /\ dropped' \subseteq asked' /\ answered' \cap dropped' = {}
      <4>1. answered \subseteq asked /\ dropped \subseteq asked /\ answered \cap dropped = {}
        BY <1>0 DEF PlacesInv
      <4>2. asked' = asked /\ dropped' = dropped
        BY <1>1
      <4> QED
        BY ONLY <2>1, <2>2, <4>1, <4>2
    <3>3. pending' = NoSwitch \/ pending'.id \in asked'
      BY <1>0, <1>1, <2>1 DEF PlacesInv
    <3>4. pending'.id \notin answered' \cup dropped'
      BY <1>0, <1>1, <2>1, <2>4 DEF PlacesInv
    <3> QED
      BY ONLY <3>1, <3>2, <3>3, <3>4
  <2>6. ASSUME NEW u \in Finisher PROVE fin'[u].switch.id \notin answered' \cup dropped'
    <3>1. CASE u = t
      BY <1>0, <1>1, <2>1, <2>2, <3>1, Blank DEF PlacesInv
    <3>2. CASE u # t
      BY <1>0, <1>1, <2>1, <2>2, <2>4, <3>2, Blank DEF PlacesInv
    <3> QED
      BY <3>1, <3>2
  <2>7. /\ \A u \in Finisher : fin'[u].switch # NoSwitch => fin'[u].switch.id # pending'.id
        /\ \A u, v \in Finisher :
             fin'[u].switch.id = fin'[v].switch.id /\ u # v => fin'[u].switch = NoSwitch
    <3>1. \A u \in Finisher : fin'[u].switch \in {fin[u].switch, NoSwitch}
      BY <1>1, <2>1, Blank
    <3>2. \A u \in Finisher : fin'[u].switch # NoSwitch => fin'[u].switch.id # 0
      BY <1>1, <2>1, <2>2, SwitchNumbers, Blank
    <3> QED
      BY <1>0, <2>1, <3>1, <3>2, Blank DEF PlacesInv
  <2>8. ASSUME NEW i \in asked
        PROVE  \/ i \in answered' \cup dropped' \cup {pending'.id}
               \/ \E u \in Finisher : fin'[u].switch.id = i
    <3>1. CASE i = fin[t].switch.id
      BY <2>1, <3>1
    <3>2. CASE i # fin[t].switch.id
      <4>1. i \in answered \cup dropped \cup {pending.id} \/ \E u \in Finisher : fin[u].switch.id = i
        BY <1>0 DEF PlacesInv
      <4>2. ASSUME NEW u \in Finisher, fin[u].switch.id = i PROVE fin'[u].switch.id = i
        BY <1>1, <3>2, <4>2
      <4> QED
        BY <1>1, <2>1, <4>1, <4>2
    <3> QED
      BY <3>1, <3>2
  <2>9. PlacesInv'
    BY ONLY <1>1, <2>1, <2>5, <2>6, <2>7, <2>8 DEF PlacesInv
  <2> QED
    BY <2>3, <2>9 DEF SwitchInv
<1> QED
  BY <1>3, <1>4, <1>5, <1>6 DEF Finish

LEMMA StopSwitches ==
  ASSUME Typed, SwitchInv, TurnsInv, NEW c \in Caller, Stop(c) PROVE SwitchInv'
<1> USE Names
<1>0. FinishersInv /\ PlacesInv
  BY DEF SwitchInv
<1>1. UNCHANGED <<fin, asked, answered, commands>>
  BY StopEffect
<1>2. mqtt'.pc # "idle" => mqtt.pc # "idle"
  BY StopEffect, StopReturned
<1>3. CASE StopTake(c)
  <2>1. /\ pending' = NoSwitch
        /\ dropped' = IF pending = NoSwitch THEN dropped ELSE dropped \cup {pending.id}
    BY <1>3 DEF StopTake
  <2>2. FinishersInv'
    BY <1>0, <1>1, <1>2, <2>1 DEF FinishersInv
  <2>3. CASE pending = NoSwitch
    <3>1. UNCHANGED <<pending, dropped>>
      BY <2>1, <2>3
    <3> QED
      BY <1>0, <1>1, <2>2, <3>1 DEF PlacesInv, SwitchInv
  <2>4. CASE pending # NoSwitch
    <3>1. pending.id \in asked /\ 0 \notin asked /\ dropped' = dropped \cup {pending.id}
      BY <2>1, <2>4, SwitchNumbers
    <3>2. /\ asked' \subseteq 1..commands' /\ answered' \subseteq asked' /\ dropped' \subseteq asked'
          /\ answered' \cap dropped' = {} /\ pending'.id \notin answered' \cup dropped'
      <4>1. /\ asked \subseteq 1..commands /\ answered \subseteq asked /\ dropped \subseteq asked
            /\ answered \cap dropped = {} /\ pending.id \notin answered
        BY <1>0 DEF PlacesInv
      <4>2. pending'.id = 0
        BY <2>1, Blank
      <4>3. asked' = asked /\ answered' = answered /\ commands' = commands
        BY <1>1
      <4>4. asked' \subseteq 1..commands' /\ answered' \subseteq asked'
        BY ONLY <4>1, <4>3
      <4>5. dropped' \subseteq asked' /\ answered' \cap dropped' = {}
        BY ONLY <3>1, <4>1, <4>3
      <4>6. pending'.id \notin answered' \cup dropped'
        BY ONLY <3>1, <4>1, <4>2, <4>4, <4>5, <4>3
      <4> QED
        BY <4>4, <4>5, <4>6
    <3>3. \A u \in Finisher :
            /\ fin'[u].switch.id \notin answered' \cup dropped'
            /\ fin'[u].switch # NoSwitch => fin'[u].switch.id # pending'.id
      <4>1. \A u \in Finisher : fin[u].switch.id # pending.id
        BY <1>0, <3>1, Blank DEF PlacesInv
      <4> QED
        BY <1>0, <1>1, <2>1, <3>1, <4>1, SwitchNumbers, Blank DEF PlacesInv
    <3>4. \A u, v \in Finisher :
            fin'[u].switch.id = fin'[v].switch.id /\ u # v => fin'[u].switch = NoSwitch
      BY <1>0, <1>1 DEF PlacesInv
    <3>5. \A i \in asked' : \/ i \in answered' \cup dropped' \cup {pending'.id}
                           \/ \E u \in Finisher : fin'[u].switch.id = i
      BY <1>0, <1>1, <3>1 DEF PlacesInv
    <3>6. PlacesInv'
      BY ONLY <2>1, <3>2, <3>3, <3>4, <3>5 DEF PlacesInv
    <3> QED
      BY <2>2, <3>6 DEF SwitchInv
  <2> QED
    BY <2>3, <2>4
<1>4. CASE ~StopTake(c)
  <2>1. UNCHANGED <<pending, dropped>>
    BY <1>4 DEF Stop, StopAudio, StopJoins, StopNull, StopQuits, StopTakesLoop, StopJoinsLoop,
       lockedVars, histVars, callVars, switchVars
  <2> QED
    BY <1>0, <1>1, <1>2, <2>1, SwitchRests DEF FinishersInv
<1> QED
  BY <1>3, <1>4

LEMMA SwitchStep ==
  ASSUME Typed, SwitchInv, TurnsInv, [Next]_vars PROVE SwitchInv'
<1>1. CASE UNCHANGED vars
  BY <1>1 DEF vars, SwitchInv, FinishersInv, PlacesInv, lockedVars, threadVars, histVars, callVars,
     boundVars, switchVars
<1> QED
  BY <1>1, CommandSwitches, ThreadsSwitches, FinishSwitches, StopSwitches DEF Next, Threads

\* A switch is in one place: one of the four sets has one member, the others none.
LEMMA SwitchIsOnce == ASSUME Typed, SwitchInv PROVE AnsweredOnce
<1>1. SUFFICES ASSUME NEW id \in asked
               PROVE  Cardinality({t \in Finisher : fin[t].switch.id = id})
                        + Cardinality({id} \cap answered) + Cardinality({id} \cap dropped)
                        + Cardinality({id} \cap {pending.id}) = 1
  BY DEF AnsweredOnce
<1> DEFINE F == {t \in Finisher : fin[t].switch.id = id}
           n == Cardinality(F)
           a == Cardinality({id} \cap answered)
           d == Cardinality({id} \cap dropped)
           p == Cardinality({id} \cap {pending.id})
<1>6. SUFFICES n + a + d + p = 1
  OBVIOUS
<1>2. PlacesInv /\ id # 0
  BY SwitchNumbers DEF SwitchInv
<1>3. Cardinality({}) = 0 /\ Cardinality({id}) = 1
  BY FS_EmptySet, FS_Singleton
<1>4. CASE \E t \in Finisher : fin[t].switch.id = id
  <2>1. PICK t \in Finisher : fin[t].switch.id = id
    BY <1>4
  <2>2. F = {t}
    BY <1>2, <2>1, Blank DEF PlacesInv
  <2>3. {id} \cap answered = {} /\ {id} \cap dropped = {}
    BY <1>2, <2>1 DEF PlacesInv
  <2>4. {id} \cap {pending.id} = {}
    BY <1>2, <2>1, Blank DEF PlacesInv
  <2>5. Cardinality(F) = 1
    BY <2>2, FS_Singleton
  <2> QED
    <3>1. n = 1 /\ a = 0 /\ d = 0 /\ p = 0
      BY <1>3, <2>3, <2>4, <2>5
    <3> QED
      BY ONLY <3>1
<1>5. CASE ~ \E t \in Finisher : fin[t].switch.id = id
  <2>1. F = {}
    BY <1>5
  <2>2. id \in answered \/ id \in dropped \/ id = pending.id
    BY <1>2, <1>5 DEF PlacesInv
  <2>3. CASE id \in answered
    <3>1. {id} \cap answered = {id} /\ {id} \cap dropped = {} /\ {id} \cap {pending.id} = {}
      BY <1>2, <2>3 DEF PlacesInv
    <3>2. n = 0 /\ a = 1 /\ d = 0 /\ p = 0
      BY <1>3, <2>1, <3>1
    <3> QED
      BY ONLY <3>2
  <2>4. CASE id \in dropped
    <3>1. {id} \cap answered = {} /\ {id} \cap dropped = {id} /\ {id} \cap {pending.id} = {}
      BY <1>2, <2>4 DEF PlacesInv
    <3>2. n = 0 /\ a = 0 /\ d = 1 /\ p = 0
      BY <1>3, <2>1, <3>1
    <3> QED
      BY ONLY <3>2
  <2>5. CASE id = pending.id
    <3>1. {id} \cap answered = {} /\ {id} \cap dropped = {} /\ {id} \cap {pending.id} = {id}
      BY <1>2, <2>5 DEF PlacesInv
    <3>2. n = 0 /\ a = 0 /\ d = 0 /\ p = 1
      BY <1>3, <2>1, <3>1
    <3> QED
      BY ONLY <3>2
  <2> QED
    BY <2>2, <2>3, <2>4, <2>5
<1> QED
  BY <1>4, <1>5

-----------------------------------------------------------------------------
(* Who holds the threads, and who is working.                              *)

\* From where to where a command goes, and which step starts what.
LEMMA CommandGoes ==
  ASSUME Typed, TurnsInv, MqttCommand \/ MqttStep \/ StopFromOutside
  PROVE  /\ \/ mqtt' = mqtt /\ (MqttIdle \/ StopFromOutside)
            \/ MqttIdle /\ mqtt'.pc \in {"stopOld", "stopHang", "branch"}
            \/ mqtt.pc \in {"build", "failed", "offer", "branch", "hungUp"} /\ mqtt'.pc = "idle"
            \/ mqtt.pc = "build" /\ mqtt'.pc = "publish" /\ StartLoop
            \/ mqtt.pc = "publish" /\ mqtt'.pc = "watchdog" /\ StartPublish
            \/ mqtt.pc = "watchdog" /\ mqtt'.pc = "play" /\ StartWatchdog
            \/ mqtt.pc = "play" /\ mqtt'.pc \in {"audio", "stopPlay"}
            \/ mqtt.pc = "audio" /\ mqtt'.pc = "audioId"
            \/ mqtt.pc = "audioId" /\ mqtt'.pc = "frame"
            \/ mqtt.pc = "frame" /\ mqtt'.pc = "offer" /\ StartFrame
            \/ mqtt.pc = "branch" /\ mqtt'.pc = "offer"
         /\ mqtt'.pc = "stopHang" => mqtt.pc = "idle" \/ mqtt' = mqtt
<1> USE DEF MqttIdle
<1>0. {"idle", "publish", "watchdog", "play", "audio", "stopPlay", "audioId", "frame", "offer",
       "stopHang"} \subseteq MqttPcs
  BY DEF MqttPcs
<1>1. CASE StartRejected \/ QualityUnchanged \/ HandleCandidate \/ \E c \in offered : HandleAnswer(c)
  BY <1>1 DEF StartRejected, QualityUnchanged, Switchable, HandleCandidate, HandleAnswer
<1>2. CASE Hangup
  BY <1>0, <1>2, MqttMoves DEF Hangup
<1>3. CASE \E q \in StartQuality : StartLive(q)
  BY <1>3 DEF StartLive
<1>4. CASE \E q \in Quality : SwitchQuality(q)
  <2>1. PICK q \in Quality : SwitchQuality(q)
    BY <1>4
  <2>2. mqtt' = [mqtt EXCEPT !.pc = "branch", !.quality = q, !.switch = commands + 1] /\ MqttIdle
    BY <2>1 DEF SwitchQuality, Switchable
  <2>3. mqtt'.pc = "branch"
    BY <2>2 DEF Typed, Mqtts
  <2> QED
    BY <2>2, <2>3
<1>5. CASE StopFromOutside
  BY <1>5 DEF StopFromOutside
<1>6. CASE StartFails \/ CommandOffers \/ HangupEnds
  BY <1>6, MqttEnds DEF StartFails, CommandOffers, HangupEnds
<1>7. CASE StartLoop \/ StartPublish \/ StartWatchdog \/ StartFrame
  BY <1>0, <1>7, MqttMoves DEF StartLoop, StartPublish, StartWatchdog, StartFrame
<1>8. CASE StartPlay \/ StartAudio \/ StartAudioId
  BY <1>0, <1>8, MqttMoves DEF StartPlay, StartAudio, StartAudioId
<1>9. CASE SwitchBranch
  BY <1>0, <1>9, MqttMoves, MqttEnds DEF SwitchBranch
<1> QED
  BY <1>1, <1>2, <1>3, <1>4, <1>5, <1>6, <1>7, <1>8, <1>9 DEF MqttCommand, MqttStep

\* What a command changes of the threads and of the other callers.
LEMMA CommandEffect ==
  ASSUME Typed, TurnsInv, MqttCommand \/ MqttStep \/ StopFromOutside
  PROVE  /\ \A c \in Caller :
              \/ stopping'[c] = stopping[c]
              \/ /\ stopping[c].pc = "none" /\ stopping'[c].pc = "audio"
                 /\ stopping'[c].session = stopping[c].session
         /\ StartLoop \/ UNCHANGED loop
         /\ StartFrame \/ UNCHANGED frame
         /\ StartWatchdog \/ watchdog' \in {watchdog, Notified}
         /\ StartPublish \/ UNCHANGED up
         /\ UNCHANGED peer /\ \A t \in Finisher : t # "mqtt" => fin'[t] = fin[t]
         /\ ~overlap' => ~overlap
         /\ ~renewed' => ~renewed
<1> USE DEF sessionVars, lockedVars, mediaVars, threadVars, peerVars, boundVars, switchVars,
        stopVars, callVars, histVars
<1>1. /\ StopBegins("mqtt") /\ stopping["mqtt"].pc = "none" =>
           \A c \in Caller : \/ stopping'[c] = stopping[c]
                             \/ /\ stopping[c].pc = "none" /\ stopping'[c].pc = "audio"
                                /\ stopping'[c].session = stopping[c].session
      /\ StopBegins("other") /\ stopping["other"].pc = "none" =>
           \A c \in Caller : \/ stopping'[c] = stopping[c]
                             \/ /\ stopping[c].pc = "none" /\ stopping'[c].pc = "audio"
                                /\ stopping'[c].session = stopping[c].session
      /\ Finishes("mqtt") => \A t \in Finisher : t # "mqtt" => fin'[t] = fin[t]
  BY Names, StopMoves, FinishStarts DEF StopBegins, StopPcs, Typed
<1>2. CASE StartRejected \/ QualityUnchanged \/ HandleCandidate \/ \E c \in offered : HandleAnswer(c)
  BY <1>1, <1>2 DEF StartRejected, QualityUnchanged, HandleCandidate, HandleAnswer
<1>3. CASE Hangup
  <2>1. ~overlap' => ~overlap
    BY ONLY <1>3, Zenon DEF Hangup, Met
  <2> QED
    BY <1>1, <1>3, <2>1 DEF Hangup, MqttIdle
<1>4. ASSUME NEW q \in StartQuality, StartLive(q)
      PROVE  /\ UNCHANGED <<loop, frame, watchdog, up, peer, fin, renewed>> /\ (~overlap' => ~overlap)
             /\ StopBegins("mqtt") /\ stopping["mqtt"].pc = "none"
  <2>1. ~overlap' => ~overlap
    BY ONLY <1>4, Zenon DEF StartLive, Met
  <2> QED
    BY <1>4, <2>1 DEF StartLive, MqttIdle
<1>5. ASSUME NEW q \in Quality, SwitchQuality(q)
      PROVE  UNCHANGED <<loop, frame, up, peer, fin, renewed, overlap, stopping>> /\ watchdog' = Notified
  BY <1>5 DEF SwitchQuality
<1>6. CASE StopFromOutside
  <2>1. ~overlap' => ~overlap
    BY ONLY <1>6, Zenon DEF StopFromOutside
  <2> QED
    BY <1>1, <1>6, <2>1 DEF StopFromOutside
<1>7. CASE StartFails \/ CommandOffers \/ HangupEnds \/ StartWatchdog \/ StartFrame
           \/ StartAudio \/ StartAudioId
  BY <1>7 DEF StartFails, CommandOffers, HangupEnds, StartWatchdog, StartFrame, StartAudio,
     StartAudioId
<1>8. CASE StartLoop \/ StartPublish
  <2>1. ~renewed' => ~renewed
    BY ONLY <1>8, Zenon DEF StartLoop, StartPublish, Renewed
  <2> QED
    BY <1>8, <2>1 DEF StartLoop, StartPublish
<1>9. CASE StartPlay
  <2>1. stopping["mqtt"].pc = "none"
    BY <1>9 DEF StartPlay, TurnsInv
  <2>2. UNCHANGED stopping \/ StopBegins("mqtt")
    BY <1>9 DEF StartPlay
  <2>3. UNCHANGED <<loop, frame, watchdog, up, peer, fin, renewed, overlap>>
    BY <1>9 DEF StartPlay
  <2> QED
    BY <1>1, <2>1, <2>2, <2>3
<1>10. CASE SwitchBranch
  BY <1>1, <1>10 DEF SwitchBranch
<1> QED
  BY <1>1, <1>2, <1>3, <1>4, <1>5, <1>6, <1>7, <1>8, <1>9, <1>10 DEF MqttCommand, MqttStep

LEMMA CommandHolders ==
  ASSUME Typed, TurnsInv, HoldersInv, MqttCommand \/ MqttStep \/ StopFromOutside
  PROVE  HoldersInv'
<1> USE Names, CommandGoes, CommandEffect DEF Taken
<1>2. CASE StartLoop
  <2>1. /\ UNCHANGED <<watchdog, frame, stopping>> /\ mqtt.pc = "build" /\ mqtt'.pc = "publish"
        /\ \A c \in Caller : loop'[c] = loop[c]
    <3>1. loop' = [loop EXCEPT !["session"] = [pc |-> "spawn", id |-> mqtt.call]]
      BY <1>2 DEF StartLoop
    <3>2. UNCHANGED <<watchdog, frame, stopping>> /\ mqtt.pc = "build"
      BY <1>2 DEF StartLoop
    <3>3. mqtt'.pc = "publish"
      BY <1>2, MqttMoves DEF StartLoop, MqttPcs
    <3> QED
      BY <3>1, <3>2, <3>3 DEF Typed
  <2> QED
    BY <2>1 DEF HoldersInv, TurnsInv
<1>3. CASE StartWatchdog
  <2>1. /\ UNCHANGED <<loop, frame, stopping>> /\ mqtt.pc = "watchdog" /\ mqtt'.pc = "play"
        /\ \A c \in Caller : watchdog'[c] = watchdog[c]
    <3>1. watchdog' = [watchdog EXCEPT !["session"] = "test"]
      BY <1>3 DEF StartWatchdog
    <3>2. UNCHANGED <<loop, frame, stopping>> /\ mqtt.pc = "watchdog"
      BY <1>3 DEF StartWatchdog
    <3>3. mqtt'.pc = "play"
      BY <1>3, MqttMoves DEF StartWatchdog, MqttPcs
    <3> QED
      BY <3>1, <3>2, <3>3 DEF Typed
  <2> QED
    BY <2>1 DEF HoldersInv, TurnsInv
<1>4. CASE StartFrame
  <2>1. /\ UNCHANGED <<loop, watchdog, stopping>> /\ mqtt.pc = "frame" /\ mqtt'.pc = "offer"
        /\ \A c \in Caller : frame'[c] = frame[c]
    <3>1. frame' = [frame EXCEPT !["session"] = "run"]
      BY <1>4 DEF StartFrame
    <3>2. UNCHANGED <<loop, watchdog, stopping>> /\ mqtt.pc = "frame"
      BY <1>4 DEF StartFrame
    <3>3. mqtt'.pc = "offer"
      BY <1>4, MqttMoves DEF StartFrame, MqttPcs
    <3> QED
      BY <3>1, <3>2, <3>3 DEF Typed
  <2> QED
    BY <2>1 DEF HoldersInv, TurnsInv
<1>5. CASE ~StartLoop /\ ~StartWatchdog /\ ~StartFrame
  <2>1. /\ UNCHANGED <<loop, frame>>
        /\ \A h \in Holder : watchdog'[h] = "none" <=> watchdog[h] = "none"
    BY <1>5, NotifiedKeeps
  <2>2. \A c \in Caller : /\ watchdog'[c] = "none" <=> watchdog[c] = "none"
                          /\ \/ stopping'[c].pc = stopping[c].pc
                             \/ stopping[c].pc = "none" /\ stopping'[c].pc = "audio"
                          /\ stopping'[c].session = stopping[c].session
    BY <2>1
  <2>3. watchdog'["session"] = "none" <=> watchdog["session"] = "none"
    BY <2>1
  <2>4. Taken' => Taken
    BY <1>5, <2>2
  <2>5. /\ mqtt'.pc = "watchdog" => mqtt.pc \in {"watchdog", "publish"}
        /\ mqtt'.pc \in {"watchdog", "play", "audio", "audioId", "frame"} =>
             mqtt.pc \in {"publish", "watchdog", "play", "audio", "audioId", "frame"}
        /\ mqtt'.pc \in {"build", "failed", "hungUp"} => mqtt.pc = mqtt'.pc
        /\ stopping'["mqtt"].pc = "loop" => stopping["mqtt"].pc = "loop"
    BY <1>5, <2>2
  <2> QED
    BY <2>1, <2>2, <2>3, <2>4, <2>5 DEF HoldersInv
<1> QED
  BY <1>2, <1>3, <1>4, <1>5

LEMMA StopHolders ==
  ASSUME Typed, TurnsInv, HoldersInv, NEW c \in Caller, Stop(c) PROVE HoldersInv'
<1> USE Names, StopStages, StopEffect DEF Taken
<1>1. /\ watchdog \in [Holder -> WatchdogPcs] /\ frame \in [Holder -> FramePcs]
      /\ loop \in [Holder -> Loops] /\ stopping \in [Caller -> Stops]
      /\ \A d \in Caller : d # c => stopping'[d] = stopping[d]
  BY DEF Typed
<1>2. CASE StopTake(c)
  <2>1. /\ stopping[c].pc = "take" /\ stopping'[c].pc = "joins"
        /\ UNCHANGED <<loop, mqtt>>
        /\ \A d \in Caller : d # c => /\ watchdog'[d] = Notified[d] /\ frame'[d] = frame[d]
        /\ watchdog'["session"] = "none" /\ frame'["session"] = "none"
    <3>1. Notified \in [Holder -> WatchdogPcs]
      BY <1>1 DEF Notified, WatchdogPcs
    <3>2. /\ watchdog' = [Notified EXCEPT ![c] = Notified["session"], !["session"] = "none"]
          /\ frame' = [frame EXCEPT ![c] = frame["session"], !["session"] = "none"]
          /\ UNCHANGED <<loop, mqtt>>
      BY <1>2 DEF StopTake
    <3> QED
      BY <1>1, <1>2, <3>1, <3>2
  <2>2. \A d \in Caller : d # c => (watchdog'[d] = "none" <=> watchdog[d] = "none")
    BY <2>1, NotifiedKeeps
  <2> QED
    BY <1>1, <2>1, <2>2 DEF HoldersInv
<1>3. CASE StopJoins(c)
  <2>1. /\ stopping[c].pc = "joins" /\ stopping'[c].pc = "null" /\ stopping'[c].session = stopping[c].session
        /\ UNCHANGED <<loop, mqtt>>
        /\ watchdog'[c] = "none" /\ frame'[c] = "none"
        /\ \A h \in Holder : h # c => watchdog'[h] = watchdog[h] /\ frame'[h] = frame[h]
    BY <1>1, <1>3 DEF StopJoins
  <2> QED
    BY <1>1, <2>1 DEF HoldersInv
<1>4. CASE StopAudio(c) \/ StopNull(c)
  <2>1. /\ UNCHANGED <<loop, mqtt, watchdog, frame>>
        /\ stopping'[c].session = stopping[c].session
    BY <1>4 DEF StopAudio, StopNull, threadVars
  <2>2. CASE StopAudio(c)
    <3>1. stopping[c].pc = "audio" /\ stopping'[c].pc = "take"
      BY <2>2
    <3> QED
      BY <1>1, <2>1, <3>1 DEF HoldersInv
  <2>3. CASE StopNull(c)
    <3>1. stopping[c].pc = "null" /\ stopping'[c].pc = "quit"
      BY <2>3
    <3> QED
      BY <1>1, <2>1, <3>1 DEF HoldersInv
  <2> QED
    BY <1>4, <2>2, <2>3
<1>5. CASE StopQuits(c)
  <2>1. \A h \in Holder : loop[h] = NoLoop => loop'[h] = NoLoop
    BY <1>1, <1>5, Blank DEF StopQuits, NoLoop
  <2>2. /\ UNCHANGED <<mqtt, watchdog, frame>>
        /\ stopping[c].pc = "quit" /\ stopping'[c].pc = "takeLoop"
        /\ stopping'[c].session = stopping[c].session
    BY <1>5 DEF StopQuits
  <2> QED
    BY <1>1, <2>1, <2>2 DEF HoldersInv
<1>6. CASE StopTakesLoop(c)
  <2>1. /\ UNCHANGED <<mqtt, watchdog, frame>>
        /\ stopping[c].pc = "takeLoop" /\ stopping'[c].pc = "loop"
        /\ stopping'[c].session = stopping[c].session
    BY <1>6 DEF StopTakesLoop
  <2>2. loop'["session"] = NoLoop /\ \A d \in Caller : d # c => loop'[d] = loop[d]
    BY <1>1, <1>6 DEF StopTakesLoop
  <2> QED
    BY <1>1, <2>1, <2>2 DEF HoldersInv
<1>7. CASE StopJoinsLoop(c)
  <2>1. /\ UNCHANGED <<watchdog, frame>>
        /\ stopping[c].pc = "loop" /\ stopping'[c] = NoStop
        /\ loop'[c] = NoLoop /\ \A h \in Holder : h # c => loop'[h] = loop[h]
    BY <1>1, <1>7 DEF StopJoinsLoop
  <2>2. stopping'[c].pc = "none" /\ stopping'[c].session = NoCall
    BY <2>1, Blank
  <2>3. mqtt' = mqtt \/ (c = "mqtt" /\ mqtt'.pc \in {"build", "failed", "hungUp"})
    BY <1>7, StopReturned
  <2> QED
    BY <1>1, <2>1, <2>2, <2>3 DEF HoldersInv
<1> QED
  BY <1>2, <1>3, <1>4, <1>5, <1>6, <1>7 DEF Stop

LEMMA HoldersStep ==
  ASSUME Typed, TurnsInv, HoldersInv, [Next]_vars PROVE HoldersInv'
<1> USE Names DEF Taken
<1>1. CASE UNCHANGED vars
  BY <1>1 DEF vars, HoldersInv, threadVars
<1>2. CASE Threads
  <2>1. \A h \in Holder : /\ watchdog'[h] = "none" <=> watchdog[h] = "none"
                          /\ frame'[h] = "none" <=> frame[h] = "none"
                          /\ loop'[h] = NoLoop <=> loop[h] = NoLoop
    BY <1>2, ThreadEffect, BusyEffect DEF Threads
  <2> QED
    BY <1>2, <2>1, ThreadsEffect DEF HoldersInv
<1>3. ASSUME NEW t \in Finisher, Finish(t) PROVE HoldersInv'
  <2>1. \A h \in Holder : watchdog'[h] = "none" <=> watchdog[h] = "none"
    BY <1>3, FinishEffect, NotifiedKeeps
  <2> QED
    BY <1>3, <2>1, FinishEffect DEF HoldersInv
<1> QED
  BY <1>1, <1>2, <1>3, CommandHolders, StopHolders DEF Next, Threads

\* Whoever is at work goes on: what WorkersInv says of one of the threads.
LEMMA CommandWorkers ==
  ASSUME Typed, TurnsInv, HoldersInv, WorkersInv, MqttCommand \/ MqttStep \/ StopFromOutside
  PROVE  WorkersInv'
<1> USE Names, CommandEffect
<1>1. fin'["watchdog"].pc # "none" => \E h \in Holder : watchdog'[h] = "test"
  <2>1. CASE StartWatchdog
    <3>1. watchdog'["session"] = "test"
      BY <2>1 DEF StartWatchdog, Typed
    <3> QED
      BY <3>1
  <2>2. CASE ~StartWatchdog
    BY <2>2, NotifiedTests DEF WorkersInv
  <2> QED
    BY <2>1, <2>2
<1>2. fin'["frame"].pc # "none" => \E h \in Holder : frame'[h] = "run"
  <2>1. CASE StartFrame
    <3>1. frame'["session"] = "run"
      BY <2>1 DEF StartFrame, Typed
    <3> QED
      BY <3>1
  <2>2. CASE ~StartFrame
    BY <2>2 DEF WorkersInv
  <2> QED
    BY <2>1, <2>2
<1>3. /\ fin'["loop"].pc # "none" => \E h \in Holder : loop'[h].pc \in {"run", "quit"}
      /\ mqtt'.pc = "publish" /\ ~renewed' => fin'["loop"].pc = "none"
  <2>1. CASE StartLoop
    <3>1. \A h \in Holder : h # "session" => loop'[h] = loop[h]
      BY <2>1 DEF StartLoop, Typed
    <3>2. loop["session"] = NoLoop /\ stopping["mqtt"].pc = "none"
      BY <2>1 DEF StartLoop, HoldersInv, TurnsInv
    <3>3. fin["loop"].pc # "none" => \E h \in Holder : loop'[h].pc \in {"run", "quit"}
      BY <3>1, <3>2, Blank DEF WorkersInv
    <3>4. ~renewed' => stopping["other"].pc = "none"
      BY ONLY <2>1, Zenon DEF StartLoop, Renewed
    <3>5. ~renewed' => \A h \in Holder : loop[h] = NoLoop
      BY <3>2, <3>4 DEF HoldersInv
    <3>6. ~renewed' => fin["loop"].pc = "none"
      BY <3>5, Blank DEF WorkersInv
    <3> QED
      BY <3>3, <3>6
  <2>2. CASE ~StartLoop
    BY <2>2, CommandGoes DEF WorkersInv, MqttIdle
  <2> QED
    BY <2>1, <2>2
<1>4. peer' # "free" \/ fin'["peer"].pc # "none" \/ fin'["rtp"].pc # "none" => up' \/ Dying'
  <2>1. up => up'
    BY DEF StartPublish
  <2>2. Dying => Dying'
    BY DEF Dying
  <2> QED
    BY <2>1, <2>2 DEF WorkersInv
<1> QED
  BY <1>1, <1>2, <1>3, <1>4 DEF WorkersInv

LEMMA ThreadsWorkers ==
  ASSUME Typed, TurnsInv, WorkersInv, Threads PROVE WorkersInv'
<1> USE Names
<1>1. /\ UNCHANGED <<up, stopping, mqtt, renewed>>
      /\ Dying' <=> Dying
  BY ThreadsEffect DEF Dying
<1>2. mqtt.pc = "publish" => ~up
  BY DEF TurnsInv, Taken
<1>3. CASE PeerStep \/ PeerIceChanges \/ RtpPacket \/ FrameFails \/ BusError
  BY <1>1, <1>2, <1>3, BusyEffect DEF WorkersInv
<1>4. ASSUME NEW h \in Holder, Thread(h) PROVE WorkersInv'
  <2>1. \A g \in Holder : g # h => /\ watchdog'[g] = watchdog[g]
                                   /\ frame'[g] = frame[g] /\ loop'[g] = loop[g]
    BY <1>4, ThreadEffect
  <2>2. fin'["watchdog"].pc # "none" => \E g \in Holder : watchdog'[g] = "test"
    BY <1>4, ThreadEffect DEF WorkersInv
  <2>3. fin'["frame"].pc # "none" => \E g \in Holder : frame'[g] = "run"
    BY <1>4, ThreadEffect DEF WorkersInv
  <2>4. fin'["loop"].pc # "none" => \E g \in Holder : loop'[g].pc \in {"run", "quit"}
    BY <1>4, <2>1, ThreadEffect DEF WorkersInv
  <2> QED
    BY <1>1, <1>4, <2>2, <2>3, <2>4, ThreadEffect DEF WorkersInv
<1> QED
  BY <1>3, <1>4 DEF Threads

LEMMA StopWorkers ==
  ASSUME Typed, TurnsInv, HoldersInv, WorkersInv, NEW c \in Caller, Stop(c) PROVE WorkersInv'
<1> USE Names, StopStages, StopEffect
<1>1. /\ watchdog \in [Holder -> WatchdogPcs] /\ frame \in [Holder -> FramePcs]
      /\ loop \in [Holder -> Loops] /\ c \in Holder /\ c # "session"
      /\ UNCHANGED <<fin, peer, renewed>>
      /\ \A d \in Caller : d # c => stopping'[d] = stopping[d]
  BY DEF Typed
<1>2. fin["watchdog"].pc # "none" => \E h \in Holder : watchdog'[h] = "test"
  <2>1. ASSUME NEW h \in Holder, watchdog[h] = "test" PROVE \E g \in Holder : watchdog'[g] = "test"
    <3>1. CASE StopTake(c)
      <4>1. watchdog' = [Notified EXCEPT ![c] = Notified["session"], !["session"] = "none"]
        BY <3>1 DEF StopTake
      <4>2. Notified \in [Holder -> WatchdogPcs] /\ Notified[h] = "test"
        BY <1>1, <2>1, NotifiedTests DEF Notified, WatchdogPcs
      <4>3. h # c
        BY <2>1, <3>1 DEF HoldersInv
      <4>4. h = "session" => watchdog'[c] = "test"
        BY <1>1, <4>1, <4>2
      <4>5. h # "session" => watchdog'[h] = "test"
        BY <1>1, <4>1, <4>2, <4>3
      <4> QED
        BY <1>1, <2>1, <4>4, <4>5
    <3>2. CASE StopJoins(c)
      <4>1. watchdog' = [watchdog EXCEPT ![c] = "none"] /\ watchdog[c] \in {"none", "ended"}
        BY <3>2 DEF StopJoins
      <4>2. watchdog'[h] = "test"
        BY <1>1, <2>1, <4>1
      <4> QED
        BY <4>2
    <3>3. CASE ~StopTake(c) /\ ~StopJoins(c)
      <4>1. UNCHANGED watchdog
        BY <3>3 DEF Stop, StopAudio, StopNull, StopQuits, StopTakesLoop, StopJoinsLoop, threadVars
      <4> QED
        BY <2>1, <4>1
    <3> QED
      BY <3>1, <3>2, <3>3
  <2> QED
    BY <2>1 DEF WorkersInv
<1>3. fin["frame"].pc # "none" => \E h \in Holder : frame'[h] = "run"
  <2>1. ASSUME NEW h \in Holder, frame[h] = "run" PROVE \E g \in Holder : frame'[g] = "run"
    <3>1. CASE StopTake(c)
      <4>1. frame' = [frame EXCEPT ![c] = frame["session"], !["session"] = "none"]
        BY <3>1 DEF StopTake
      <4>2. h # c
        BY <2>1, <3>1 DEF HoldersInv
      <4>3. h = "session" => frame'[c] = "run"
        BY <1>1, <2>1, <4>1
      <4>4. h # "session" => frame'[h] = "run"
        BY <1>1, <2>1, <4>1, <4>2
      <4> QED
        BY <1>1, <2>1, <4>3, <4>4
    <3>2. CASE StopJoins(c)
      <4>1. frame' = [frame EXCEPT ![c] = "none"] /\ frame[c] \in {"none", "ended"}
        BY <3>2 DEF StopJoins
      <4>2. frame'[h] = "run"
        BY <1>1, <2>1, <4>1
      <4> QED
        BY <4>2
    <3>3. CASE ~StopTake(c) /\ ~StopJoins(c)
      <4>1. UNCHANGED frame
        BY <3>3 DEF Stop, StopAudio, StopNull, StopQuits, StopTakesLoop, StopJoinsLoop, threadVars
      <4> QED
        BY <2>1, <4>1
    <3> QED
      BY <3>1, <3>2, <3>3
  <2> QED
    BY <2>1 DEF WorkersInv
<1>4. fin["loop"].pc # "none" => \E h \in Holder : loop'[h].pc \in {"run", "quit"}
  <2>1. ASSUME NEW h \in Holder, loop[h].pc \in {"run", "quit"}
        PROVE  \E g \in Holder : loop'[g].pc \in {"run", "quit"}
    <3>1. CASE StopQuits(c)
      <4>1. [loop[h] EXCEPT !.pc = "quit"].pc = "quit"
        BY <1>1 DEF Loops
      <4>2. loop'[h].pc \in {"run", "quit"}
        BY <1>1, <2>1, <3>1, <4>1 DEF StopQuits
      <4> QED
        BY <4>2
    <3>2. CASE StopTakesLoop(c)
      <4>1. loop' = [loop EXCEPT ![c] = loop["session"], !["session"] = NoLoop]
        BY <3>2 DEF StopTakesLoop
      <4>2. h # c
        BY <2>1, <3>2, Blank DEF HoldersInv
      <4>3. h = "session" => loop'[c].pc \in {"run", "quit"}
        BY <1>1, <2>1, <4>1
      <4>4. h # "session" => loop'[h].pc \in {"run", "quit"}
        BY <1>1, <2>1, <4>1, <4>2
      <4> QED
        BY <1>1, <2>1, <4>3, <4>4
    <3>3. CASE StopJoinsLoop(c)
      <4>1. loop' = [loop EXCEPT ![c] = NoLoop] /\ loop[c].pc \in {"none", "ended"}
        BY <3>3 DEF StopJoinsLoop
      <4>2. loop'[h] = loop[h]
        BY <1>1, <2>1, <4>1
      <4> QED
        BY <2>1, <4>2
    <3>4. CASE ~StopQuits(c) /\ ~StopTakesLoop(c) /\ ~StopJoinsLoop(c)
      <4>1. UNCHANGED loop
        BY <3>4 DEF Stop, StopAudio, StopTake, StopJoins, StopNull, threadVars
      <4> QED
        BY <2>1, <4>1
    <3> QED
      BY <3>1, <3>2, <3>3, <3>4
  <2> QED
    BY <2>1 DEF WorkersInv
<1>5. peer # "free" \/ fin["peer"].pc # "none" \/ fin["rtp"].pc # "none" => up' \/ Dying'
  <2>1. SUFFICES ASSUME peer # "free" \/ fin["peer"].pc # "none" \/ fin["rtp"].pc # "none"
                 PROVE  up' \/ Dying'
    OBVIOUS
  <2>2. up \/ Dying
    BY <2>1 DEF WorkersInv
  <2>3. CASE StopTake(c)
    <3>1. up => stopping'[c].pc = "joins" /\ stopping'[c].session # NoCall
      BY <2>3 DEF TurnsInv
    <3>2. stopping[c].pc = "take"
      BY <2>3
    <3> QED
      BY <1>1, <2>2, <3>1, <3>2 DEF Dying
  <2>4. CASE StopNull(c)
    <3>1. stopping[c].session = NoCall
      BY <2>1, <2>4 DEF StopNull
    <3>2. UNCHANGED up
      BY <2>4 DEF StopNull, lockedVars
    <3> QED
      BY <1>1, <2>2, <3>1, <3>2 DEF Dying
  <2>5. CASE ~StopTake(c) /\ ~StopNull(c)
    <3>1. UNCHANGED up
      BY <2>5 DEF Stop, StopAudio, StopJoins, StopQuits, StopTakesLoop, StopJoinsLoop, lockedVars
    <3>2. /\ StopAudio(c) => stopping[c].pc = "audio"
          /\ StopQuits(c) => stopping[c].pc = "quit"
          /\ StopTakesLoop(c) => stopping[c].pc = "takeLoop"
          /\ StopJoinsLoop(c) => stopping[c].pc = "loop"
          /\ StopJoins(c) => stopping'[c].pc = "null" /\ stopping'[c].session = stopping[c].session
      OBVIOUS
    <3>3. Dying => Dying'
      BY <1>1, <2>5, <3>2 DEF Stop, Dying
    <3> QED
      BY <2>2, <3>1, <3>3
  <2> QED
    BY <2>3, <2>4, <2>5
<1>6. mqtt'.pc = "publish" /\ ~renewed' => fin'["loop"].pc = "none"
  BY <1>1, StopReturned DEF WorkersInv
<1> QED
  BY <1>1, <1>2, <1>3, <1>4, <1>5, <1>6 DEF WorkersInv

LEMMA WorkersStep ==
  ASSUME Typed, TurnsInv, HoldersInv, WorkersInv, [Next]_vars PROVE WorkersInv'
<1>1. CASE UNCHANGED vars
  BY <1>1 DEF vars, WorkersInv, Dying, threadVars, peerVars, lockedVars, histVars, callVars, stopVars
<1>2. ASSUME NEW t \in Finisher, Finish(t) PROVE WorkersInv'
  <2>1. \A u \in Finisher : fin'[u].pc # "none" => fin[u].pc # "none"
    BY <1>2, FinishEffect
  <2>2. \A h \in Holder : watchdog[h] = "test" => watchdog'[h] = "test"
    BY <1>2, FinishEffect, NotifiedTests
  <2>3. /\ UNCHANGED <<mqtt, stopping, loop, frame, up, peer, renewed>>
        /\ Dying' <=> Dying
    BY <1>2, FinishEffect DEF Dying
  <2> QED
    BY <2>1, <2>2, <2>3, Names DEF WorkersInv
<1> QED
  BY <1>1, <1>2, CommandWorkers, ThreadsWorkers, StopWorkers DEF Next, Threads

-----------------------------------------------------------------------------
(* After a hangup.                                                         *)

\* Without a pipeline no thread of one is at work.
LEMMA NothingDies ==
  ASSUME WorkersInv, ~up, ~Dying
  PROVE  peer = "free" /\ fin["peer"].pc = "none" /\ fin["rtp"].pc = "none"
BY DEF WorkersInv

LEMMA CommandHangs ==
  ASSUME Typed, TurnsInv, HoldersInv, WorkersInv, HangupInv,
         MqttCommand \/ MqttStep \/ StopFromOutside
  PROVE  HangupInv'
<1> USE Names
<1>1. CASE HangupEnds
  <2>1. /\ mqtt.pc = "hungUp" /\ mqtt'.pc = "idle" /\ shown' = "idle"
        /\ UNCHANGED <<up, consumer, watchdog, frame, loop, peer, stopping, overlap>>
    BY <1>1, MqttEnds DEF HangupEnds, lockedVars, threadVars, peerVars
  <2>2. /\ ~up /\ ~consumer.registered /\ stopping["mqtt"].pc = "none"
        /\ watchdog["session"] = "none" /\ frame["session"] = "none" /\ loop["session"] = NoLoop
    BY <2>1 DEF TurnsInv, HoldersInv, Taken
  <2>3. ~overlap => peer = "free" /\ \A c \in Caller : stopping[c].session = NoCall
    <3>1. ~overlap => \A c \in Caller : stopping[c].pc = "none"
      BY <2>1, <2>2 DEF TurnsInv
    <3>2. ~overlap => ~Dying /\ \A c \in Caller : stopping[c].session = NoCall
      BY <3>1 DEF Dying, HoldersInv
    <3> QED
      BY <2>2, <3>2, NothingDies
  <2> QED
    BY <2>1, <2>2, <2>3 DEF HangupInv
<1>2. CASE hungUp' /\ ~HangupEnds
  <2>1. hungUp /\ UNCHANGED shown
    <3>1. ASSUME NEW q \in StartQuality, StartLive(q) PROVE ~hungUp'
      BY <3>1 DEF StartLive
    <3>2. ASSUME NEW q \in Quality, SwitchQuality(q) PROVE UNCHANGED <<hungUp, shown>>
      BY <3>2 DEF SwitchQuality, stopVars, sessionVars
    <3>3. CASE StartRejected
      BY <1>2, <3>3 DEF StartRejected
    <3>4. CASE \/ QualityUnchanged \/ Hangup \/ HandleCandidate \/ StopFromOutside
               \/ (\E c \in offered : HandleAnswer(c))
      BY <1>2, <3>4 DEF QualityUnchanged, Hangup, HandleCandidate, StopFromOutside, HandleAnswer,
         stopVars, callVars, sessionVars
    <3>5. CASE StartFails
      <4>1. UNCHANGED hungUp /\ mqtt.pc \in {"build", "failed"}
        BY <3>5 DEF StartFails, callVars, stopVars
      <4> QED
        BY <1>2, <4>1 DEF HangupInv
    <3>6. CASE MqttStep /\ ~HangupEnds /\ ~StartFails
      BY <1>2, <3>6 DEF MqttStep, StartLoop, StartPublish, StartWatchdog, StartPlay, StartAudio,
         StartAudioId, StartFrame, CommandOffers, SwitchBranch, histVars, callVars, stopVars,
         sessionVars
    <3> QED
      BY <1>2, <3>1, <3>2, <3>3, <3>4, <3>5, <3>6 DEF MqttCommand
  <2>2. /\ ~up /\ ~consumer.registered /\ mqtt.pc \in {"idle", "stopHang", "hungUp"}
        /\ watchdog["session"] = "none" /\ frame["session"] = "none" /\ loop["session"] = NoLoop
        /\ ~overlap => shown = "idle" /\ peer = "free" /\ \A c \in Caller : stopping[c].session = NoCall
    BY <2>1 DEF HangupInv
  <2>3. mqtt'.pc \in {"idle", "stopHang", "hungUp"}
    <3>1. ASSUME NEW q \in Quality PROVE ~SwitchQuality(q)
      BY <2>2 DEF SwitchQuality, Switchable
    <3>2. ASSUME NEW q \in StartQuality PROVE ~StartLive(q)
      BY <1>2 DEF StartLive
    <3>3. CASE Hangup
      BY <3>3, MqttMoves DEF Hangup, MqttPcs
    <3>4. CASE MqttStep
      BY <1>2, <2>2, <3>4 DEF MqttStep, StartFails, StartLoop, StartPublish, StartWatchdog, StartPlay,
         StartAudio, StartAudioId, StartFrame, CommandOffers, SwitchBranch
    <3>5. CASE \/ StartRejected \/ QualityUnchanged \/ HandleCandidate \/ StopFromOutside
               \/ (\E c \in offered : HandleAnswer(c))
      BY <2>2, <3>5 DEF StartRejected, QualityUnchanged, HandleCandidate, StopFromOutside, HandleAnswer
    <3> QED
      BY <3>1, <3>2, <3>3, <3>4, <3>5 DEF MqttCommand
  <2>4. ~StartLoop /\ ~StartFrame /\ ~StartWatchdog /\ ~StartPublish /\ ~StartAudio /\ ~StartAudioId
    BY <2>2 DEF StartLoop, StartFrame, StartWatchdog, StartPublish, StartAudio, StartAudioId
  <2>5. /\ UNCHANGED <<up, loop, frame, peer>> /\ watchdog' \in {watchdog, Notified}
        /\ ~overlap' => ~overlap
        /\ \A c \in Caller : stopping'[c].session = stopping[c].session
    BY <2>4, CommandEffect
  <2>6. watchdog'["session"] = "none"
    BY <2>2, <2>5, NotifiedKeeps
  <2>7. UNCHANGED consumer
    BY <2>4 DEF MqttCommand, MqttStep, StartRejected, StartLive, QualityUnchanged, SwitchQuality,
       Hangup, HandleCandidate, HandleAnswer, StopFromOutside, StartFails, StartPlay, CommandOffers,
       SwitchBranch, HangupEnds
  <2> QED
    BY <2>1, <2>2, <2>3, <2>5, <2>6, <2>7 DEF HangupInv
<1> QED
  BY <1>1, <1>2 DEF HangupInv

LEMMA StopHangs ==
  ASSUME Typed, TurnsInv, HangupInv, NEW c \in Caller, Stop(c) PROVE HangupInv'
<1> USE Names
<1>1. UNCHANGED <<peer, hungUp, overlap, shown>>
  BY StopEffect
<1>2. CASE hungUp
  <2>1. /\ ~up /\ ~consumer.registered /\ mqtt.pc \in {"idle", "stopHang", "hungUp"}
        /\ watchdog["session"] = "none" /\ frame["session"] = "none" /\ loop["session"] = NoLoop
        /\ ~overlap => shown = "idle" /\ peer = "free" /\ \A d \in Caller : stopping[d].session = NoCall
    BY <1>2 DEF HangupInv
  <2>2. ~up' /\ mqtt'.pc \in {"idle", "stopHang", "hungUp"}
    BY <2>1, StopEffect, StopReturned
  <2>3. ~consumer'.registered
    <3>1. UNCHANGED consumer \/ consumer' = [id |-> FALSE, registered |-> FALSE]
      BY DEF Stop, StopAudio, StopTake, StopJoins, StopNull, StopQuits, StopTakesLoop, StopJoinsLoop
    <3> QED
      BY <2>1, <3>1
  <2>4. watchdog'["session"] = "none" /\ frame'["session"] = "none"
    <3>1. CASE StopTake(c)
      <4>1. /\ watchdog' = [Notified EXCEPT ![c] = Notified["session"], !["session"] = "none"]
            /\ frame' = [frame EXCEPT ![c] = frame["session"], !["session"] = "none"]
        BY <3>1 DEF StopTake
      <4>2. Notified \in [Holder -> WatchdogPcs] /\ frame \in [Holder -> FramePcs]
        BY DEF Notified, WatchdogPcs, Typed
      <4> QED
        BY <4>1, <4>2
    <3>2. CASE StopJoins(c)
      BY <2>1, <3>2 DEF StopJoins, Typed
    <3>3. CASE ~StopTake(c) /\ ~StopJoins(c)
      BY <2>1, <3>3 DEF Stop, StopAudio, StopNull, StopQuits, StopTakesLoop, StopJoinsLoop, threadVars
    <3> QED
      BY <3>1, <3>2, <3>3
  <2>5. loop'["session"] = NoLoop
    <3>1. CASE StopQuits(c)
      BY <2>1, <3>1, Blank DEF StopQuits, Typed, NoLoop
    <3>2. CASE StopTakesLoop(c) \/ StopJoinsLoop(c)
      BY <2>1, <3>2 DEF StopTakesLoop, StopJoinsLoop, Typed
    <3>3. CASE ~StopQuits(c) /\ ~StopTakesLoop(c) /\ ~StopJoinsLoop(c)
      BY <2>1, <3>3 DEF Stop, StopAudio, StopTake, StopJoins, StopNull, threadVars
    <3> QED
      BY <3>1, <3>2, <3>3
  <2>6. ~overlap => \A d \in Caller : stopping'[d].session = NoCall
    <3>1. ~overlap => stopping'[c].session = NoCall
      BY <2>1, StopStages, Blank DEF Stop
    <3> QED
      BY <2>1, <3>1, StopStages
  <2> QED
    BY <1>1, <2>1, <2>2, <2>3, <2>4, <2>5, <2>6 DEF HangupInv
<1> QED
  BY <1>1, <1>2 DEF HangupInv

LEMMA HangupStep ==
  ASSUME Typed, TurnsInv, HoldersInv, WorkersInv, HangupInv, [Next]_vars PROVE HangupInv'
<1> USE Names
<1>1. CASE UNCHANGED vars
  BY <1>1 DEF vars, HangupInv, threadVars, peerVars, lockedVars, sessionVars, histVars, callVars,
     stopVars
<1>2. CASE Threads
  <2>1. UNCHANGED <<mqtt, stopping, consumer, up, overlap, hungUp>>
    BY <1>2, ThreadsEffect
  <2>2. \A h \in Holder : /\ watchdog'[h] = "none" <=> watchdog[h] = "none"
                          /\ frame'[h] = "none" <=> frame[h] = "none"
                          /\ loop'[h] = NoLoop <=> loop[h] = NoLoop
    BY <1>2, ThreadEffect, BusyEffect DEF Threads
  <2>3. hungUp /\ ~overlap => peer' = "free" /\ shown' = "idle"
    <3>1. hungUp /\ ~overlap => ~up /\ ~Dying /\ shown = "idle"
      BY DEF HangupInv, Dying
    <3>2. hungUp /\ ~overlap => peer = "free" /\ fin["peer"].pc = "none"
      BY <3>1, NothingDies
    <3> QED
      BY <1>2, <3>1, <3>2, ThreadEffect, BusyEffect DEF Threads
  <2> QED
    BY <2>1, <2>2, <2>3 DEF HangupInv
<1>3. ASSUME NEW t \in Finisher, Finish(t) PROVE HangupInv'
  <2>1. watchdog'["session"] = "none" <=> watchdog["session"] = "none"
    BY <1>3, FinishEffect, NotifiedKeeps
  <2> QED
    BY <1>3, <2>1, FinishEffect DEF HangupInv
<1> QED
  BY <1>1, <1>2, <1>3, CommandHangs, StopHangs DEF Next, Threads

\* What the property says: nobody is left who could be at work.
LEMMA HungUpRests ==
  ASSUME HoldersInv, WorkersInv, HangupInv, hungUp, MqttIdle, stopping["other"].pc = "none"
  PROVE  /\ peer = "free" /\ \A t \in Finisher : fin[t].pc = "none"
         /\ \A h \in Holder : watchdog[h] = "none" /\ frame[h] = "none" /\ loop[h] = NoLoop
<1> USE Names
<1>1. \A c \in Caller : stopping[c].pc = "none"
  BY DEF MqttIdle
<1>2. \A h \in Holder : watchdog[h] = "none" /\ frame[h] = "none" /\ loop[h] = NoLoop
  BY <1>1 DEF HoldersInv, HangupInv
<1>3. peer = "free" /\ fin["peer"].pc = "none" /\ fin["rtp"].pc = "none"
  BY <1>1, NothingDies DEF HangupInv, Dying
<1>4. fin["watchdog"].pc = "none" /\ fin["frame"].pc = "none" /\ fin["loop"].pc = "none"
  BY <1>2, Blank DEF WorkersInv
<1>5. \A t \in Finisher : fin[t].pc = "none"
  BY <1>3, <1>4 DEF MqttIdle, Finisher
<1> QED
  BY <1>2, <1>3, <1>5

-----------------------------------------------------------------------------
(* The elements of the video branch.                                       *)

LEMMA SwitchIdStep ==
  ASSUME Typed, TurnsInv, SwitchIdInv, [Next]_vars PROVE SwitchIdInv'
<1> USE Names DEF SwitchIdInv
<1>1. ASSUME NEW q \in Quality, SwitchQuality(q) PROVE SwitchIdInv'
  <2>1. mqtt'.switch = commands + 1 /\ commands + 1 # 0
    BY <1>1 DEF SwitchQuality, Typed, Mqtts
  <2> QED
    BY <2>1
<1>2. ASSUME NEW q \in StartQuality, StartLive(q) PROVE SwitchIdInv'
  BY <1>2 DEF StartLive
<1>3. CASE UNCHANGED mqtt
  BY <1>3
<1>4. ASSUME NEW p \in MqttPcs \ {"branch"}, MqttPc(p) PROVE SwitchIdInv'
  BY <1>4, MqttMoves
<1>5. {"idle", "publish", "watchdog", "play", "audio", "stopPlay", "audioId", "frame", "offer",
       "stopHang", "build", "failed", "hungUp"} \subseteq MqttPcs \ {"branch"}
  BY DEF MqttPcs
<1>6. CASE MqttStep
  BY <1>4, <1>5, <1>6, MqttEnds DEF MqttStep, StartFails, StartLoop, StartPublish, StartWatchdog, StartPlay,
     StartAudio, StartAudioId, StartFrame, CommandOffers, SwitchBranch, HangupEnds
<1>7. CASE MqttCommand
  BY <1>1, <1>2, <1>3, <1>4, <1>5, <1>7 DEF MqttCommand, StartRejected, QualityUnchanged, Hangup,
     HandleCandidate, HandleAnswer
<1>8. CASE StopFromOutside \/ UNCHANGED vars
  BY <1>3, <1>8 DEF StopFromOutside, vars
<1>9. CASE Threads
  BY <1>3, <1>9, ThreadsEffect
<1>10. ASSUME NEW t \in Finisher, Finish(t) PROVE SwitchIdInv'
  BY <1>3, <1>10, FinishEffect
<1>11. ASSUME NEW c \in Caller, Stop(c) PROVE SwitchIdInv'
  BY <1>3, <1>11, StopEffect, StopReturned
<1> QED
  BY <1>6, <1>7, <1>8, <1>9, <1>10, <1>11 DEF Next, Threads

\* A step that leaves the elements and the switches alone.
LEMMA BranchRests ==
  ASSUME BranchInv, UNCHANGED <<branch, current, pending>>, up' => up,
         ~overtaken' /\ ~renewed' => ~overtaken /\ ~renewed,
         \A t \in Finisher : /\ fin'[t].pc = "rollback" <=> fin[t].pc = "rollback"
                             /\ fin'[t].pc = "rollback" => fin'[t].switch = fin[t].switch,
         mqtt' = mqtt \/ (mqtt'.pc # "branch" /\ mqtt.pc # "branch")
  PROVE  BranchInv'
BY DEF BranchInv

\* No switch is being rolled back while one is pending.
LEMMA PendingIsAlone ==
  ASSUME BranchInv, ~overtaken, ~renewed, pending # NoSwitch
  PROVE  \A t \in Finisher : fin[t].pc # "rollback"
BY DEF BranchInv

\* A session that start() publishes while no stop() is under way finds nobody at work.
LEMMA StartsAlone ==
  ASSUME FinishersInv, TurnsInv, HoldersInv, WorkersInv,
         mqtt.pc = "publish", ~renewed, stopping["other"].pc = "none"
  PROVE  \A t \in Finisher : fin[t].pc = "none"
<1> USE Names
<1>1. \A c \in Caller : stopping[c].pc = "none"
  BY DEF TurnsInv
<1>2. fin["peer"].pc = "none" /\ fin["rtp"].pc = "none"
  BY <1>1, NothingDies DEF TurnsInv, Taken, Dying
<1>3. \A h \in Holder : watchdog[h] = "none" /\ frame[h] = "none"
  BY <1>1 DEF HoldersInv, Taken
<1>4. fin["watchdog"].pc = "none" /\ fin["frame"].pc = "none" /\ fin["loop"].pc = "none"
  BY <1>3 DEF WorkersInv
<1>5. fin["mqtt"].pc = "none"
  BY DEF FinishersInv
<1> QED
  BY <1>2, <1>4, <1>5 DEF Finisher

LEMMA CommandBranch ==
  ASSUME Typed, SwitchInv, DownInv, SwitchIdInv, BranchInv,
         MqttCommand \/ MqttStep \/ StopFromOutside
  PROVE  BranchInv'
<1> USE Names
<1>0. /\ \A q \in MqttPcs : [mqtt EXCEPT !.pc = q].pc = q
      /\ {"idle", "publish", "watchdog", "play", "audio", "stopPlay", "audioId", "frame", "offer",
          "stopHang"} \subseteq MqttPcs
  BY DEF Typed, Mqtts, MqttPcs
<1>1. SUFFICES ASSUME ~overtaken', ~renewed' PROVE BranchInv'
  BY DEF BranchInv
<1>10. ~renewed
  BY <1>1, CommandEffect DEF DownInv
<1>2. ASSUME NEW q \in Quality, SwitchQuality(q) PROVE BranchInv'
  <2>1. \A t \in Finisher : fin[t].pc # "rollback"
    BY ONLY <1>1, <1>2, Zenon DEF SwitchQuality
  <2>2. /\ UNCHANGED fin /\ mqtt'.pc = "branch" /\ mqtt'.quality = q /\ current'.quality = q
    BY <1>2 DEF SwitchQuality, Typed, Mqtts
  <2> QED
    BY <2>1, <2>2 DEF BranchInv
<1>3. CASE StartPublish
  <2>1. /\ mqtt.pc = "publish" /\ UNCHANGED fin /\ mqtt'.pc = "watchdog"
    BY <1>0, <1>3 DEF StartPublish, MqttPc
  <2>2. branch' = current'.quality
    BY <1>3 DEF StartPublish
  <2>3. stopping["other"].pc = "none"
    BY ONLY <1>1, <1>3, Zenon DEF StartPublish, Renewed
  <2>4. \A t \in Finisher : fin[t].pc = "none"
    BY <1>10, <2>1, <2>3, StartsAlone DEF SwitchInv, DownInv
  <2> QED
    BY <2>1, <2>2, <2>4 DEF BranchInv
<1>4. CASE SwitchBranch
  <2>1. pending.id = mqtt.switch /\ ~overtaken
    BY ONLY <1>1, <1>4, Zenon DEF SwitchBranch
  <2>2. /\ UNCHANGED <<pending, current, up>> /\ mqtt.pc = "branch"
        /\ \/ branch' = mqtt.quality \/ branch' = None \/ ~up
        /\ UNCHANGED fin \/ Finishes("mqtt")
        /\ mqtt'.pc \in {"offer", "idle"}
    BY <1>0, <1>4, MqttEnds DEF SwitchBranch, MqttPc, lockedVars
  <2>3. pending # NoSwitch /\ mqtt.quality = current.quality
    BY <1>10, <2>1, <2>2, Blank DEF SwitchIdInv, BranchInv
  <2>4. \A t \in Finisher : fin[t].pc # "rollback"
    BY <1>10, <2>1, <2>2, <2>3, PendingIsAlone
  <2>5. \A t \in Finisher : fin'[t].pc # "rollback"
    BY <2>2, <2>4, FinishStarts
  <2> QED
    BY <2>2, <2>3, <2>5 DEF BranchInv
<1>5. CASE StopFromOutside
  <2>1. UNCHANGED <<branch, current, pending, up, fin, mqtt, overtaken, renewed>>
    BY <1>5 DEF StopFromOutside, mediaVars, lockedVars
  <2> QED
    BY <2>1, BranchRests
<1>6. ASSUME NEW c \in offered, HandleAnswer(c) PROVE BranchInv'
  <2>1. /\ UNCHANGED <<branch, current, pending, up, mqtt, overtaken, renewed>>
        /\ UNCHANGED fin \/ (Finishes("mqtt") /\ fin["mqtt"].pc = "none")
    BY <1>6 DEF HandleAnswer, MqttIdle, mediaVars, lockedVars, callVars, stopVars
  <2>2. \A t \in Finisher : /\ fin'[t].pc = "rollback" <=> fin[t].pc = "rollback"
                            /\ fin'[t].pc = "rollback" => fin'[t].switch = fin[t].switch
    BY <2>1, FinishStarts
  <2> QED
    BY <2>1, <2>2, BranchRests
<1>7. CASE StartRejected \/ QualityUnchanged \/ HandleCandidate
  <2>1. UNCHANGED <<branch, current, pending, up, mqtt, fin, overtaken, renewed>>
    BY <1>7 DEF StartRejected, QualityUnchanged, HandleCandidate, mediaVars, lockedVars, callVars,
       stopVars
  <2> QED
    BY <2>1, BranchRests
<1>8. CASE (\E q \in StartQuality : StartLive(q)) \/ Hangup
  <2>1. /\ UNCHANGED <<branch, current, pending, up, fin, overtaken, renewed>>
        /\ mqtt.pc = "idle"
    BY <1>8 DEF StartLive, Hangup, MqttIdle, mediaVars, lockedVars, callVars, stopVars
  <2>2. mqtt'.pc \in {"stopOld", "stopHang"}
    <3>1. (\E q \in StartQuality : StartLive(q)) => mqtt'.pc = "stopOld"
      BY DEF StartLive
    <3>2. Hangup => mqtt'.pc = "stopHang"
      BY <1>0 DEF Hangup, MqttPc
    <3> QED
      BY <1>8, <3>1, <3>2
  <2> QED
    BY <2>1, <2>2, BranchRests
<1>9. CASE MqttStep /\ ~StartPublish /\ ~SwitchBranch
  <2>1. /\ UNCHANGED <<branch, current, pending, up, fin, overtaken>>
        /\ mqtt.pc \notin {"branch", "idle"}
    BY <1>9 DEF MqttStep, StartFails, StartLoop, StartWatchdog, StartPlay, StartAudio, StartAudioId,
       StartFrame, CommandOffers, HangupEnds, mediaVars, lockedVars, histVars, callVars, stopVars
  <2>2. mqtt'.pc # "branch" \/ mqtt' = mqtt
    BY <2>1, CommandGoes DEF MqttIdle, DownInv
  <2> QED
    BY <1>1, <1>10, <2>1, <2>2, BranchRests
<1> QED
  BY <1>2, <1>3, <1>4, <1>5, <1>6, <1>7, <1>8, <1>9 DEF MqttCommand

LEMMA ThreadsBranch ==
  ASSUME Typed, SwitchInv, BranchInv, Threads PROVE BranchInv'
<1>1. /\ UNCHANGED <<mqtt, up, current, pending, branch, renewed>>
      /\ overtaken => overtaken'
  BY ThreadsEffect
<1>2. UNCHANGED fin \/ \E t \in Finisher : Finishes(t) /\ fin[t].pc = "none"
  BY ThreadsEffect
<1>3. \A t \in Finisher : /\ fin'[t].pc = "rollback" <=> fin[t].pc = "rollback"
                          /\ fin'[t].pc = "rollback" => fin'[t].switch = fin[t].switch
  BY <1>1, <1>2, FinishStarts
<1> QED
  BY <1>1, <1>3, BranchRests

LEMMA FinishBranch ==
  ASSUME Typed, SwitchInv, SwitchIdInv, BranchInv, NEW t \in Finisher, Finish(t) PROVE BranchInv'
<1>1. /\ \A u \in Finisher : u # t => fin'[u] = fin[u]
      /\ UNCHANGED <<mqtt, up, renewed, overtaken>>
  BY FinishEffect
<1>2. SUFFICES ASSUME ~overtaken, ~renewed PROVE BranchInv'
  BY <1>1 DEF BranchInv
<1>3. CASE FinishTake(t) /\ pending = NoSwitch
  <2>1. fin'[t].pc = "none" /\ fin[t].pc = "take" /\ UNCHANGED <<pending, current, branch>>
    BY <1>3, Blank DEF FinishTake, lockedVars, mediaVars, Typed
  <2> QED
    BY <1>1, <2>1, BranchRests
<1>4. CASE FinishTake(t) /\ pending # NoSwitch
  <2>1. /\ pending' = NoSwitch /\ UNCHANGED branch
        /\ fin'[t].pc \in {"answer", "rollback"} /\ fin'[t].switch = pending
        /\ fin'[t].pc = "answer" => UNCHANGED current
        /\ fin'[t].pc = "rollback" => current'.quality = pending.from
    BY <1>4 DEF FinishTake, mediaVars, Typed
  <2>2. \A u \in Finisher : fin[u].pc # "rollback"
    BY <1>2, <1>4, PendingIsAlone
  <2>3. mqtt.pc = "branch" => pending'.id # mqtt.switch
    BY <2>1, Blank DEF SwitchIdInv
  <2> QED
    BY <1>1, <1>2, <2>1, <2>2, <2>3 DEF BranchInv
<1>5. CASE FinishRollback(t)
  <2>1. /\ UNCHANGED <<pending, current>> /\ fin[t].pc = "rollback" /\ fin'[t].pc # "rollback"
        /\ branch' \in {fin[t].switch.from, None} \/ ~up
    BY <1>5, FinishMoves DEF FinishRollback, FinPcs, lockedVars, Typed
  <2>2. pending = NoSwitch /\ (up => current.quality = fin[t].switch.from)
    BY <1>2, <2>1 DEF BranchInv
  <2>3. mqtt.pc = "branch" => pending'.id # mqtt.switch
    BY <2>1, <2>2, Blank DEF SwitchIdInv
  <2> QED
    BY <1>1, <1>2, <2>1, <2>2, <2>3 DEF BranchInv
<1>6. CASE FinishAnswer(t)
  <2>1. /\ UNCHANGED <<pending, current, branch>> /\ fin'[t].pc = "none"
        /\ fin[t].pc \in {"answer", "answerPaused"}
    BY <1>6, Blank DEF FinishAnswer, lockedVars, Typed
  <2> QED
    BY <1>1, <2>1, BranchRests
<1> QED
  BY <1>3, <1>4, <1>5, <1>6 DEF Finish

LEMMA StopBranch ==
  ASSUME Typed, TurnsInv, SwitchIdInv, BranchInv, NEW c \in Caller, Stop(c) PROVE BranchInv'
<1>1. UNCHANGED <<fin, current, branch, overtaken, renewed>>
  BY StopEffect
<1>2. mqtt' = mqtt \/ (mqtt'.pc # "branch" /\ mqtt.pc # "branch")
  BY StopEffect, StopReturned
<1>3. CASE StopTake(c)
  <2>1. up' = FALSE /\ pending' = NoSwitch /\ UNCHANGED mqtt
    BY <1>3 DEF StopTake
  <2> QED
    BY <1>1, <2>1, Blank DEF BranchInv, SwitchIdInv
<1>4. CASE ~StopTake(c)
  <2>1. UNCHANGED <<up, pending>>
    BY <1>4 DEF Stop, StopAudio, StopJoins, StopNull, StopQuits, StopTakesLoop, StopJoinsLoop, lockedVars
  <2> QED
    BY <1>1, <1>2, <2>1, BranchRests
<1> QED
  BY <1>3, <1>4

LEMMA BranchStep ==
  ASSUME Typed, SwitchInv, DownInv, SwitchIdInv, BranchInv, [Next]_vars PROVE BranchInv'
<1>1. CASE UNCHANGED vars
  BY <1>1 DEF vars, BranchInv, lockedVars, histVars, callVars, stopVars, mediaVars
<1> QED
  BY <1>1, CommandBranch, ThreadsBranch, FinishBranch, StopBranch DEF Next, Threads, DownInv

-----------------------------------------------------------------------------
(* Theorems.                                                               *)

\* Every conjunct of the inductive invariant needs the others: what stop() leaves is known
\* from who is in it, a rollback's quality from the place of its switch.
LEMMA LiveStep == ASSUME LiveInv, [Next]_vars PROVE LiveInv'
<1>1. Typed /\ SwitchInv /\ DownInv /\ SwitchIdInv /\ BranchInv
  BY DEF LiveInv
<1>2. TurnsInv /\ HoldersInv /\ WorkersInv /\ HangupInv
  BY <1>1 DEF DownInv
<1>3. Typed' /\ TurnsInv' /\ HoldersInv' /\ WorkersInv' /\ HangupInv'
  BY <1>1, <1>2, TypedStep, TurnsStep, HoldersStep, WorkersStep, HangupStep
<1>4. SwitchInv' /\ SwitchIdInv' /\ BranchInv'
  BY <1>1, <1>2, SwitchStep, SwitchIdStep, BranchStep
<1> QED
  BY <1>3, <1>4 DEF LiveInv, DownInv

\* The inductive invariant of the live view: where every switch is, who is in stop(), who
\* holds and who uses which thread, and what the elements are set to.
THEOREM LiveIsKept == Spec => []LiveInv
<1>1. Init => LiveInv
  BY LiveInitInv
<1>2. LiveInv /\ [Next]_vars => LiveInv'
  BY LiveStep
<1> QED
  BY <1>1, <1>2, PTL DEF Spec

\* Of the packet, the watchdog, the errors of three threads, a bad answer and stop(), in
\* any order, exactly one ends a quality switch that was accepted.
THEOREM SwitchesEndOnce == Spec => []AnsweredOnce
<1>1. LiveInv => AnsweredOnce
  BY SwitchIsOnce DEF LiveInv
<1> QED
  BY <1>1, LiveIsKept, PTL

\* A candidate of the other side that came since the last offer is either waiting for the
\* answer or with webrtcbin, and none waits once the answer is set.
THEOREM CandidatesAreKept == Spec => []CandidatesReachPeer
<1>1. Init => CandidatesReachPeer
  BY LiveInitInv
<1>2. CandidatesReachPeer /\ [Next]_vars => CandidatesReachPeer'
  BY CandidatesStep
<1> QED
  BY <1>1, <1>2, PTL DEF Spec

\* Unless two switches overtook each other, or start() made a session during a stop() from
\* outside, the elements of the video branch encode the quality of the session when no
\* switch is under way, however the last one ended.
THEOREM BranchIsInStep == Spec => []BranchFollowsQuality
<1>1. LiveInv => BranchFollowsQuality
  BY DEF LiveInv, BranchInv, BranchFollowsQuality
<1> QED
  BY <1>1, LiveIsKept, PTL

\* After a hangup, also one that another stop() met, no pipeline, no thread, no microphone
\* and no callback is left once both have returned, and none of it comes back before the
\* next call; the media_state is idle when they did not meet.
THEOREM HangupEndsAll == Spec => []HungUpIsDown
<1>1. ASSUME LiveInv, hungUp, MqttIdle, stopping["other"].pc = "none"
      PROVE  /\ ~up /\ ~consumer.registered /\ peer = "free"
             /\ \A t \in Finisher : fin[t].pc = "none"
             /\ \A h \in Holder : watchdog[h] = "none" /\ frame[h] = "none" /\ loop[h].pc = "none"
             /\ ~overlap => shown = "idle"
  <2>1. HoldersInv /\ WorkersInv /\ HangupInv
    BY <1>1 DEF LiveInv, DownInv
  <2>2. /\ peer = "free" /\ \A t \in Finisher : fin[t].pc = "none"
        /\ \A h \in Holder : watchdog[h] = "none" /\ frame[h] = "none" /\ loop[h] = NoLoop
    BY <1>1, <2>1, HungUpRests
  <2>3. ~up /\ ~consumer.registered /\ (~overlap => shown = "idle")
    BY <1>1, <2>1 DEF HangupInv
  <2> QED
    BY <2>2, <2>3, Blank
<1>2. LiveInv => HungUpIsDown
  BY <1>1 DEF HungUpIsDown
<1> QED
  BY <1>2, LiveIsKept, PTL
=============================================================================
