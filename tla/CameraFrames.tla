---------------------------- MODULE CameraFrames ----------------------------
(***************************************************************************)
(* The frames of the camera: the capture thread of src/camera.cpp, which   *)
(* writes two pairs of buffers in turn and publishes the index of the one  *)
(* that is ready, its readers in src/main.cpp, and restart_camera.         *)
(*                                                                         *)
(* No lock joins the writer and a reader: camera_mtx only keeps a restart  *)
(* away from a reader.  A picture is two halves, each with the number of   *)
(* the capture it shows, so a torn picture is a pair of different numbers; *)
(* the number is at the same time the timestamp stored with the picture.   *)
(* The atomic variables are sequentially consistent here.                  *)
(***************************************************************************)
EXTENDS Integers

CONSTANTS
  MaxFrames,     \* bound: captures
  CameraRestarts \* bound: restarts from the settings panel

ASSUME CameraAssumption == MaxFrames \in Nat /\ CameraRestarts \in Nat

VARIABLES
  camera,     \* the object ctx->camera points to
  capture,    \* its capture_loop
  captures,   \* bound: number of captures, of all cameras
  ui,         \* the LVGL thread in restart_camera
  restarted,  \* bound: number of restarts
  reader,     \* a thread that reads a frame
  lastSeen    \* last_seen_seq of recorder_worker, last_seq of frame_push_loop

cameraVars == <<camera, capture, captures, ui, restarted, reader, lastSeen>>

Buffer  == {0, 1}
Nothing == -1
Blank   == <<0, 0>>

\* published: how often latest_ was stored; relic: latest_ is that of an
\* earlier start, whose buffers are gone (both history)
NewCamera == [running |-> TRUE, mapped |-> TRUE, mapping |-> 0, latest |-> Nothing,
              counter |-> 0, published |-> 0, relic |-> FALSE,
              rgb |-> [b \in Buffer |-> Blank], media |-> [b \in Buffer |-> Blank],
              stamp |-> [b \in Buffer |-> [seq |-> 0, ts |-> 0]]]
Capturing == [pc |-> "select", write |-> 0]

\* Readers change nothing, so what one of them sees does not depend on the
\* others: there is one at a time.  "copy" is ring_snapshot_worker or
\* camera_timer_cb; the others take a MediaFrame.
Borrower == {"recorder", "live"}
NoReader == [pc |-> "idle", by |-> "copy", attempt |-> 0, buffer |-> Nothing,
             mapping |-> 0, picture |-> Blank, stamp |-> [seq |-> 0, ts |-> 0],
             since |-> 0, relic |-> FALSE, givenUp |-> FALSE]

CameraInit ==
  /\ camera = NewCamera
  /\ capture = Capturing
  /\ captures = 0 /\ restarted = 0
  /\ ui = "idle"
  /\ reader = NoReader
  /\ lastSeen = [w \in Borrower |-> 0]

\* camera_mtx: held through copy_latest_frame, copy_latest_media_frame and the
\* whole of restart_camera, but not by a borrower that uses its frame.
Locked == \/ ui # "idle"
          \/ reader.pc \in {"load", "check", "stamp"}
          \/ reader.pc \in {"first", "second"} /\ reader.by = "copy"

Ready == camera.latest >= 0

-----------------------------------------------------------------------------
(* capture_loop and dequeue_and_convert.                                   *)

Half(picture, h, n) == [picture EXCEPT ![h] = n]

CaptureMoves(from, to) ==
  capture.pc = from /\ capture' = [capture EXCEPT !.pc = to]

Untouched == UNCHANGED <<ui, restarted, reader, lastSeen>>

\* select, DQBUF, and the first half of the conversion to NV12
Dequeue ==
  /\ camera.running /\ captures < MaxFrames
  /\ CaptureMoves("select", "media")
  /\ captures' = captures + 1
  /\ camera' = [camera EXCEPT !.media[capture.write] = Half(@, 1, captures')]
  /\ Untouched

FillMedia ==
  /\ CaptureMoves("media", "rgb")
  /\ camera' = [camera EXCEPT !.media[capture.write] = Half(@, 2, captures)]
  /\ UNCHANGED captures /\ Untouched

MediaToRgb ==
  \/ /\ CaptureMoves("rgb", "rgb2")
     /\ camera' = [camera EXCEPT !.rgb[capture.write] = Half(@, 1, captures)]
     /\ UNCHANGED captures /\ Untouched
  \/ /\ CaptureMoves("rgb2", "count")
     /\ camera' = [camera EXCEPT !.rgb[capture.write] = Half(@, 2, captures)]
     /\ UNCHANGED captures /\ Untouched

\* The RGA or the QBUF behind it fails: the same buffer is written next time.
ConvertFails ==
  /\ capture.pc \in {"media", "rgb", "rgb2", "count"}
  /\ capture' = [capture EXCEPT !.pc = "select"]
  /\ UNCHANGED <<camera, captures>> /\ Untouched

Count ==
  /\ CaptureMoves("count", "publish")
  /\ camera' = [camera EXCEPT !.counter = @ + 1,
                              !.stamp[capture.write] = [seq |-> camera.counter + 1,
                                                        ts |-> captures]]
  /\ UNCHANGED captures /\ Untouched

\* Mutant of Publish: the next frame is written over the one that was just published.
PublishWithoutTurn ==
  /\ capture.pc = "publish"
  /\ camera' = [camera EXCEPT !.latest = capture.write, !.published = @ + 1,
                              !.relic = FALSE]
  /\ capture' = [capture EXCEPT !.pc = "select"]
  /\ UNCHANGED captures /\ Untouched

Publish ==
  /\ capture.pc = "publish"
  /\ camera' = [camera EXCEPT !.latest = capture.write, !.published = @ + 1,
                              !.relic = FALSE]
  /\ capture' = [pc |-> "select", write |-> 1 - capture.write]
  /\ UNCHANGED captures /\ Untouched

\* select fails with something other than EINTR: the thread ends, and running_ stays
CaptureBreaks ==
  /\ camera.running /\ CaptureMoves("select", "ended")
  /\ UNCHANGED <<camera, captures>> /\ Untouched

-----------------------------------------------------------------------------
(* restart_camera, on the LVGL thread.                                     *)

\* alloc_output_buffers of the same object: the buffers are new and blank, while
\* latest_, the counter and the stamps stay as they were.
Remapped(c) ==
  [c EXCEPT !.mapped = TRUE, !.mapping = restarted, !.relic = c.latest >= 0,
            !.rgb = [b \in Buffer |-> Blank], !.media = [b \in Buffer |-> Blank]]

\* cleanup_buffers
Unmapped(c) == [c EXCEPT !.mapped = FALSE]

\* The three ends of start(): open_device or set_format fails; request_buffers,
\* verify_rga_pipeline or start_stream fails behind the buffers; none does.
DeviceFails(c)   == c
StreamFails(c)   == Remapped(c)
CaptureStarts(c) == [Remapped(c) EXCEPT !.running = TRUE]

\* camera_mtx is taken, and old->stop() begins; camera_timer_cb is on this
\* thread too.
RestartBegin ==
  /\ ~Locked /\ restarted < CameraRestarts
  /\ ui' = "join"
  /\ restarted' = restarted + 1
  /\ camera' = [camera EXCEPT !.running = FALSE]
  /\ UNCHANGED <<capture, captures, reader, lastSeen>>

\* The capture thread has left its loop; cleanup_buffers closes and unmaps.
StopCamera ==
  /\ ui = "join" /\ capture.pc \in {"select", "ended"}
  /\ ui' = "start"
  /\ capture' = [pc |-> "ended", write |-> 0]
  /\ camera' = Unmapped(camera)
  /\ UNCHANGED <<captures, restarted, reader, lastSeen>>

\* The new camera starts and replaces the old one.
StartNew ==
  /\ ui = "start"
  /\ ui' = "idle"
  /\ camera' = [NewCamera EXCEPT !.mapping = restarted,
                                 !.published = camera.published]
  /\ capture' = Capturing
  /\ UNCHANGED <<captures, restarted, reader, lastSeen>>

\* It does not, is deleted, and the old one is started again.  Nobody looks at
\* that result.
StartOldAgain ==
  /\ ui = "start"
  /\ ui' = "idle"
  /\ \/ camera' = CaptureStarts(camera) /\ capture' = Capturing
     \/ camera' \in {StreamFails(camera), DeviceFails(camera)} /\ UNCHANGED capture
  /\ UNCHANGED <<captures, restarted, reader, lastSeen>>

-----------------------------------------------------------------------------
(* The readers: copy_latest_frame and copy_latest_media_frame.             *)

ReaderMoves(w, from) ==
  /\ reader.pc = from /\ (reader.by \in w)
  /\ UNCHANGED <<camera, capture, captures, ui, restarted>>

Load(w, attempt) ==
  /\ reader' = IF camera.mapped
                 THEN [NoReader EXCEPT !.by = w, !.attempt = attempt,
                         !.pc = IF w = "copy" THEN "first" ELSE "check",
                         !.buffer = camera.latest, !.mapping = camera.mapping,
                         !.since = camera.published, !.relic = camera.relic]
                 ELSE NoReader
  /\ UNCHANGED <<camera, capture, captures, ui, restarted, lastSeen>>

ReaderLoad ==
  \/ /\ reader.pc \in {"idle", "done"} /\ ~Locked /\ Ready
     /\ \E w \in Borrower \union {"copy"} : Load(w, 1)
  \/ /\ reader.pc = "load"
     /\ Load(reader.by, reader.attempt + 1)

\* The copy, or the RGA copy a borrower makes unlocked through the file
\* descriptor: after a restart that is closed, or belongs to something else.
ReadHalf(h) ==
  LET from == IF reader.by = "copy" THEN camera.rgb ELSE camera.media
      n    == IF camera.mapped /\ camera.mapping = reader.mapping
                THEN from[reader.buffer][h] ELSE Nothing
  IN  [reader EXCEPT !.picture[h] = n]

ReaderCopy ==
  /\ ReaderMoves({"copy"} \union Borrower, reader.pc)
  /\ \/ reader.pc = "first" /\ reader' = [ReadHalf(1) EXCEPT !.pc = "second"]
     \/ /\ reader.pc = "second"
        /\ reader' = IF reader.by = "copy" THEN [ReadHalf(2) EXCEPT !.pc = "check"]
                     ELSE [ReadHalf(2) EXCEPT !.pc = "done",
                             !.since = camera.published - @]
  /\ UNCHANGED lastSeen

\* Three attempts.  Behind the third a copy is given away as it is, with the
\* stamp of the buffer that is latest now; a MediaFrame is not.
ReaderCheck ==
  /\ ReaderMoves({"copy"} \union Borrower, "check")
  /\ reader' =
       IF camera.latest = reader.buffer THEN [reader EXCEPT !.pc = "stamp"]
       ELSE IF reader.attempt < 3 THEN [reader EXCEPT !.pc = "load"]
       ELSE IF reader.by = "copy"
         THEN [reader EXCEPT !.pc = "stamp", !.buffer = camera.latest, !.givenUp = TRUE]
       ELSE NoReader
  /\ UNCHANGED lastSeen

CopyStamp ==
  /\ ReaderMoves({"copy"}, "stamp")
  /\ reader' = [reader EXCEPT !.pc = "done", !.stamp = camera.stamp[reader.buffer],
                              !.since = camera.published - @]
  /\ UNCHANGED lastSeen

\* What the borrower thinks of the number: the recorder drops a frame that is
\* not newer than the last, the live view only the last one again.
BorrowerStamp ==
  /\ ReaderMoves(Borrower, "stamp")
  /\ LET stamp == camera.stamp[reader.buffer]
         known == IF reader.by = "recorder" THEN stamp.seq <= lastSeen[reader.by]
                  ELSE stamp.seq \in {0, lastSeen[reader.by]}
     IN  IF known THEN reader' = NoReader /\ UNCHANGED lastSeen
         ELSE /\ reader' = [reader EXCEPT !.pc = "first", !.stamp = stamp]
              /\ lastSeen' = [lastSeen EXCEPT ![reader.by] = stamp.seq]

-----------------------------------------------------------------------------

CameraNext ==
  \/ Dequeue \/ FillMedia \/ MediaToRgb \/ ConvertFails \/ Count \/ Publish
  \/ CaptureBreaks
  \/ RestartBegin \/ StopCamera \/ StartNew \/ StartOldAgain
  \/ ReaderLoad \/ ReaderCopy \/ ReaderCheck \/ CopyStamp \/ BorrowerStamp

CameraSpec == CameraInit /\ [][CameraNext]_cameraVars

-----------------------------------------------------------------------------
(* Properties.                                                             *)

Whole(picture) == picture[1] = picture[2]

\* A picture that copy_latest_frame calls good is whole unless two frames were
\* published while it was copied, and has its own timestamp unless one was.
\* A MediaFrame is whole as long as no frame was published and the camera was
\* not restarted: its borrower must be faster than one frame.  Not promised:
\* the picture after three vain attempts, and one taken when a restart has
\* failed and latest_ is that of the buffers before.
CopiesAreWhole ==
  reader.pc = "done" /\ ~reader.givenUp /\ ~reader.relic /\ reader.picture[2] # Nothing =>
    /\ reader.since < (IF reader.by = "copy" THEN 2 ELSE 1) => Whole(reader.picture)
    /\ reader.since = 0 => reader.picture[1] = reader.stamp.ts

=============================================================================
