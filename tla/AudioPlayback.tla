---------------------------- MODULE AudioPlayback ----------------------------
(***************************************************************************)
(* What the doorbell plays: the mixer of src/utils/audio_capture_manager   *)
(* .cpp, fed with the voice of the visitor's peer and with the chime, and  *)
(* the player of src/utils/doorbell_chime_player.cpp that is asked for the *)
(* chime by every press.                                                   *)
(*                                                                         *)
(* Threads: playback_loop, the worker of the player, the threads of the    *)
(* live session that push the remote voice, and the main thread, which     *)
(* presses and at the end stops the player and then the manager.  The two  *)
(* waits are on condition variables: the predicate is evaluated and the    *)
(* thread put to sleep under the mutex, while the two stop functions set   *)
(* their flag and notify without it.                                       *)
(*                                                                         *)
(* Samples are counted in blocks of one playback frame.                    *)
(***************************************************************************)
EXTENDS Integers

CONSTANTS
  MaxPresses,  \* bound: presses of the button
  ChimeBlocks, \* kChimePlaybackQueueMaxSamples
  RemoteBlocks \* kRemotePlaybackQueueMaxSamples

ASSUME PlaybackAssumption ==
  /\ MaxPresses \in Nat
  /\ ChimeBlocks \in Nat \ {0} /\ RemoteBlocks \in Nat \ {0}

VARIABLES
  mixer,     \* AudioCaptureManager: playback_appsrc_, its flags, its two queues
  playback,  \* playback_loop
  player,    \* worker_loop and play_file_once
  requested, \* requested_play_sequence_
  closing,   \* the main thread in the two stops
  heard      \* history: the last press whose chime was begun

playbackVars == <<mixer, playback, player, requested, closing, heard>>

PlaybackInit ==
  /\ mixer = [open |-> TRUE, stop |-> FALSE, chimeActive |-> FALSE, remote |-> 0, chime |-> 0]
  /\ playback = "top"
  /\ player = [pc |-> "top", stop |-> FALSE, handled |-> 0, repeat |-> 0, ok |-> TRUE]
  /\ requested = 0
  /\ closing = "no"
  /\ heard = 0

\* playback_mtx_ and the mutex of the player are held across a step only by the
\* thread that is about to sleep
MixerFree  == playback # "doze"
PlayerFree == player.pc # "doze"

\* Notifying moves a thread that sleeps; one that has not yet slept is not reached
Woken       == IF playback = "asleep" THEN "check" ELSE playback
PlayerWoken == IF player.pc = "asleep" THEN [player EXCEPT !.pc = "check"] ELSE player

-----------------------------------------------------------------------------
(* The mixer: enqueue_playback_frame and playback_loop.                    *)

\* One block more; in a full queue the oldest samples make room for it
Longer(queue, room) == IF queue < room THEN queue + 1 ELSE room
Shorter(queue)      == IF queue > 0 THEN queue - 1 ELSE 0

Accepts == mixer.open /\ ~mixer.stop

\* The live session is closed before the stops begin
PushRemote ==
  /\ closing = "no" /\ MixerFree /\ Accepts
  /\ mixer' = [mixer EXCEPT !.remote = Longer(@, RemoteBlocks)]
  /\ playback' = Woken
  /\ UNCHANGED <<player, requested, closing, heard>>

Empty == mixer.remote = 0 /\ mixer.chime = 0

LoopTop ==
  /\ playback = "top"
  /\ playback' = IF mixer.stop THEN "exited" ELSE "check"
  /\ UNCHANGED <<mixer, player, requested, closing, heard>>

\* The predicate of playback_cv_, and with samples the mix of one frame from
\* both queues
Mix ==
  /\ playback = "check"
  /\ IF mixer.stop
     THEN playback' = "exited" /\ UNCHANGED mixer
     ELSE IF Empty
     THEN playback' = "doze" /\ UNCHANGED mixer
     ELSE /\ playback' = "push"
          /\ mixer' = [mixer EXCEPT !.remote = Shorter(@), !.chime = Shorter(@)]
  /\ UNCHANGED <<player, requested, closing, heard>>

FallAsleep ==
  /\ playback = "doze"
  /\ playback' = "asleep"
  /\ UNCHANGED <<mixer, player, requested, closing, heard>>

\* appsrc takes the buffer or refuses it; a refusal ends the loop only when stopping
PushMixed ==
  /\ playback = "push"
  /\ \E taken \in BOOLEAN : playback' = IF ~taken /\ mixer.stop THEN "exited" ELSE "pace"
  /\ UNCHANGED <<mixer, player, requested, closing, heard>>

\* wait_until the frame has been played, or the stop
Pace ==
  /\ playback = "pace"
  /\ playback' = "top"
  /\ UNCHANGED <<mixer, player, requested, closing, heard>>

-----------------------------------------------------------------------------
(* DoorbellChimePlayer.                                                    *)

\* Mutant of PlayOnce: the request is counted without the mutex
PlayOnceUnlocked ==
  /\ closing = "no" /\ requested < MaxPresses
  /\ requested' = requested + 1
  /\ player' = PlayerWoken
  /\ UNCHANGED <<mixer, playback, closing, heard>>

\* play_once, from the thread of the button
PlayOnce ==
  /\ closing = "no" /\ requested < MaxPresses
  /\ PlayerFree
  /\ requested' = requested + 1
  /\ player' = PlayerWoken
  /\ UNCHANGED <<mixer, playback, closing, heard>>

WorkerTop ==
  /\ player.pc = "top"
  /\ player' = [player EXCEPT !.pc = IF player.stop THEN "exited" ELSE "check"]
  /\ UNCHANGED <<mixer, playback, requested, closing, heard>>

\* The predicate of cv_, and the newest request taken
TakeRequest ==
  /\ player.pc = "check"
  /\ player' = IF player.stop THEN [player EXCEPT !.pc = "exited"]
               ELSE IF requested = player.handled THEN [player EXCEPT !.pc = "doze"]
               ELSE [player EXCEPT !.pc = "activate", !.handled = requested]
  /\ UNCHANGED <<mixer, playback, requested, closing, heard>>

WorkerSleeps ==
  /\ player.pc = "doze"
  /\ player' = [player EXCEPT !.pc = "asleep"]
  /\ UNCHANGED <<mixer, playback, requested, closing, heard>>

\* The constructor of ChimeMixScope: a new round begins with an empty queue
BeginRound ==
  /\ player.pc = "activate" /\ MixerFree
  /\ mixer' = IF ~mixer.open THEN mixer
              ELSE [mixer EXCEPT !.chimeActive = TRUE, !.chime = IF mixer.chimeActive THEN @ ELSE 0]
  /\ playback' = IF mixer.open THEN Woken ELSE playback
  /\ player' = [player EXCEPT !.pc = "open", !.repeat = 1, !.ok = TRUE]
  /\ heard' = player.handled
  /\ UNCHANGED <<requested, closing>>

Interrupted == player.stop \/ requested # player.handled

\* play_file_once opens the file, unless it is interrupted or fails
OpenFile ==
  /\ player.pc = "open"
  /\ \/ player' = [player EXCEPT !.pc = "leave"]
     \/ ~Interrupted /\ player' = [player EXCEPT !.pc = "pull"]
  /\ UNCHANGED <<mixer, playback, requested, closing, heard>>

\* The loop of play_file_once: a sample or, after 50 ms, none
PullSample ==
  /\ player.pc = "pull"
  /\ IF Interrupted THEN player' = [player EXCEPT !.pc = "result"]
     ELSE \E next \in {"push", "bus"} : player' = [player EXCEPT !.pc = next]
  /\ UNCHANGED <<mixer, playback, requested, closing, heard>>

PushChime ==
  /\ player.pc = "push" /\ MixerFree
  /\ IF Accepts
     THEN /\ mixer' = [mixer EXCEPT !.chime = Longer(@, ChimeBlocks)]
          /\ playback' = Woken
          /\ player' = [player EXCEPT !.pc = "bus"]
     ELSE /\ player' = [player EXCEPT !.pc = "bus", !.ok = FALSE]
          /\ UNCHANGED <<mixer, playback>>
  /\ UNCHANGED <<requested, closing, heard>>

\* No message, the end of the file, or an error of its pipeline
FileBus ==
  /\ player.pc = "bus"
  /\ \/ player' = [player EXCEPT !.pc = "pull"]
     \/ \E error \in BOOLEAN :
          player' = [player EXCEPT !.pc = "result", !.ok = @ /\ ~error]
  /\ UNCHANGED <<mixer, playback, requested, closing, heard>>

\* Twice, unless interrupted or failed
RoundResult ==
  /\ player.pc = "result"
  /\ player' = IF ~Interrupted /\ player.ok /\ player.repeat = 1
               THEN [player EXCEPT !.pc = "open", !.repeat = 2]
               ELSE [player EXCEPT !.pc = "leave"]
  /\ UNCHANGED <<mixer, playback, requested, closing, heard>>

\* The destructor of ChimeMixScope: what is queued is left to be played
LeaveRound ==
  /\ player.pc = "leave" /\ MixerFree
  /\ mixer' = IF mixer.open THEN [mixer EXCEPT !.chimeActive = FALSE] ELSE mixer
  /\ playback' = IF mixer.open THEN Woken ELSE playback
  /\ player' = [player EXCEPT !.pc = "top", !.repeat = 0]
  /\ UNCHANGED <<requested, closing, heard>>

-----------------------------------------------------------------------------
(* The end of main: DoorbellChimePlayer::stop, then                        *)
(* AudioCaptureManager::stop.                                              *)

Closes(at, next) == closing = at /\ closing' = next /\ UNCHANGED <<requested, heard>>

ChimeStop ==
  /\ Closes("no", "chimeNotify")
  /\ player' = [player EXCEPT !.stop = TRUE]
  /\ UNCHANGED <<mixer, playback>>

ChimeNotify ==
  /\ Closes("chimeNotify", "chimeJoin")
  /\ player' = PlayerWoken
  /\ UNCHANGED <<mixer, playback>>

ChimeJoin ==
  /\ player.pc = "exited" /\ Closes("chimeJoin", "audioStop")
  /\ UNCHANGED <<mixer, playback, player>>

AudioStop ==
  /\ Closes("audioStop", "audioNotify")
  /\ mixer' = [mixer EXCEPT !.stop = TRUE]
  /\ UNCHANGED <<playback, player>>

AudioNotify ==
  /\ Closes("audioNotify", "audioJoin")
  /\ playback' = Woken
  /\ UNCHANGED <<mixer, player>>

AudioClose ==
  /\ playback = "exited" /\ Closes("audioJoin", "closed")
  /\ mixer' = [mixer EXCEPT !.open = FALSE, !.remote = 0, !.chime = 0]
  /\ UNCHANGED <<playback, player>>

-----------------------------------------------------------------------------
PlaybackThread == LoopTop \/ Mix \/ FallAsleep \/ PushMixed \/ Pace

\* the steps of the player that need the mutex of the mixer, and the others
PlayerMixes == BeginRound \/ PushChime \/ LeaveRound

PlayerAlone ==
  \/ WorkerTop \/ TakeRequest \/ WorkerSleeps \/ OpenFile \/ PullSample \/ FileBus \/ RoundResult

MainCloses ==
  \/ ChimeStop \/ ChimeNotify \/ ChimeJoin \/ AudioStop \/ AudioNotify \/ AudioClose

PlaybackNext == PushRemote \/ PlayOnce \/ PlaybackThread \/ PlayerMixes \/ PlayerAlone \/ MainCloses

\* The threads run, and the mutex of the mixer, which is never held for long, is
\* not always taken by another; nobody has to press, to speak or to stop.
PlaybackFairness ==
  WF_playbackVars(PlaybackThread) /\ WF_playbackVars(PlayerAlone) /\ SF_playbackVars(PlayerMixes)

PlaybackSpec == PlaybackInit /\ [][PlaybackNext]_playbackVars /\ PlaybackFairness

-----------------------------------------------------------------------------
\* A press is answered with a chime, its own or that of a later press, whatever
\* the player was doing when the button was pressed, unless the application ends.
PressIsHeard ==
  \A n \in 1..MaxPresses : requested >= n ~> (heard >= n \/ closing # "no")
=============================================================================
