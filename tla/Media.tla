-------------------------------- MODULE Media --------------------------------
(***************************************************************************)
(* The four parts that handle pictures and sound, side by side.  They      *)
(* share no state but the camera's frames, which RingSnapshot and          *)
(* RecorderPipeline see as frames of any kind, so that their interleavings *)
(* tell nothing more: a behaviour of this module is one of one part, the   *)
(* "scene", while the others rest in their initial states.                 *)
(***************************************************************************)
EXTENDS CameraFrames, RecorderPipeline, AudioPlayback, RingSnapshot

VARIABLE scene

mediaVars == <<cameraVars, recorderVars, playbackVars, snapshotVars, scene>>

MediaInit ==
  /\ scene \in {"camera", "recorder", "playback", "snapshot"}
  /\ CameraInit /\ RecorderInit /\ PlaybackInit /\ SnapshotInit

MediaNext ==
  /\ UNCHANGED scene
  /\ \/ /\ scene = "camera" /\ CameraNext
        /\ UNCHANGED <<recorderVars, playbackVars, snapshotVars>>
     \/ /\ scene = "recorder" /\ RecorderNext
        /\ UNCHANGED <<cameraVars, playbackVars, snapshotVars>>
     \/ /\ scene = "playback" /\ PlaybackNext
        /\ UNCHANGED <<cameraVars, recorderVars, snapshotVars>>
     \/ /\ scene = "snapshot" /\ SnapshotNext
        /\ UNCHANGED <<cameraVars, recorderVars, playbackVars>>

\* The fairness of PlaybackSpec and SnapshotSpec, in their scenes
MediaFairness ==
  /\ WF_playbackVars(scene = "playback" /\ PlaybackThread)
  /\ WF_playbackVars(scene = "playback" /\ PlayerAlone)
  /\ SF_playbackVars(scene = "playback" /\ PlayerMixes)
  /\ WF_snapshotVars(scene = "snapshot" /\ Tick)
  /\ WF_snapshotVars(scene = "snapshot" /\ Sampler)
  /\ WF_snapshotVars(scene = "snapshot" /\ (ArmSelects \/ ArmRequests))

MediaSpec == MediaInit /\ [][MediaNext]_mediaVars /\ MediaFairness
=============================================================================
