----------------------------- MODULE RingSnapshot -----------------------------
(***************************************************************************)
(* The picture of a ring: for one second after the first press the worker  *)
(* of src/main.cpp (ring_snapshot_worker) keeps the sharpest frame of the  *)
(* camera (events/snapshot_candidate_selector.cpp) and then hands it to    *)
(* the event processor, or hands over that there is none.                  *)
(*                                                                         *)
(* Three threads meet: the button arms a selection in three critical       *)
(* sections, the capture thread announces frames, the worker waits,        *)
(* copies a frame under the mutex of the camera, considers it and, past    *)
(* the deadline, takes the best.  The selection is guarded by              *)
(* ring_snapshot_mtx, the wake-ups by ring_snapshot_wake_mtx, and no step  *)
(* holds both.  A ring that has been closed may be followed by a new one   *)
(* within the second: its selection replaces the first one.                *)
(*                                                                         *)
(* Time is counted in sample intervals (kRingSnapshotSampleIntervalNs).    *)
(***************************************************************************)
EXTENDS Integers

CONSTANTS
  Window,   \* kRingSnapshotWindow
  MaxRings, \* bound: rings
  MaxTime   \* bound: the clock

ASSUME SnapshotAssumption == Window \in Nat \ {0} /\ MaxRings \in Nat /\ MaxTime \in Nat

VARIABLES
  clock,     \* steady_clock
  frames,    \* ring_snapshot_frame_gen and ring_snapshot_latest_ts_ns
  arming,    \* the handler of the button, between its critical sections
  request,   \* ring_snapshot_request_gen and ring_snapshot_start_frame_gen
  selection, \* the pending event, its window, and the candidate selector
  sampler,   \* the locals of ring_snapshot_worker
  exiting,   \* ring_snapshot_exit
  rings      \* history: for each ring its start and what was submitted

snapshotVars == <<clock, frames, arming, request, selection, sampler, exiting, rings>>

Ring    == 1..MaxRings
NoRing  == 0
NoFrame == -1
Unsubmitted == -2  \* nothing submitted; NoFrame: submitted without a picture

Unarmed  == [event |-> NoRing, startedAt |-> 0, deadline |-> 0, active |-> FALSE, best |-> NoFrame]
Sleeping == [pc |-> "await", event |-> NoRing, request |-> 0, frame |-> 0,
             startedAt |-> 0, deadline |-> 0, last |-> NoFrame, finish |-> FALSE, seen |-> NoFrame]

SnapshotInit ==
  /\ clock = 1
  /\ frames = [gen |-> 0, ts |-> 0]
  /\ arming = [pc |-> "idle", event |-> NoRing, startedAt |-> 0, frame |-> 0]
  /\ request = [gen |-> 0, frame |-> 0]
  /\ selection = Unarmed
  /\ sampler = Sleeping
  /\ exiting = FALSE
  /\ rings = [r \in Ring |-> [startedAt |-> 0, submitted |-> Unsubmitted]]

Tick ==
  /\ clock < MaxTime
  /\ clock' = clock + 1
  /\ UNCHANGED <<frames, arming, request, selection, sampler, exiting, rings>>

\* notify_camera_new_frame
NewFrame ==
  /\ frames.ts < clock
  /\ frames' = [gen |-> frames.gen + 1, ts |-> clock]
  /\ UNCHANGED <<clock, arming, request, selection, sampler, exiting, rings>>

-----------------------------------------------------------------------------
(* The handler of the button, after the first press of a ring.             *)

ArmReads ==
  /\ arming.pc = "idle" /\ arming.event < MaxRings
  /\ clock + Window <= MaxTime
  /\ arming' = [pc |-> "select", event |-> arming.event + 1, startedAt |-> clock, frame |-> frames.gen]
  /\ UNCHANGED <<clock, frames, request, selection, sampler, exiting, rings>>

\* The pending event, its window, and SnapshotCandidateSelector::start
Armed(event, at, best) ==
  [event |-> event, startedAt |-> at, deadline |-> at + Window, active |-> TRUE, best |-> best]

ArmsWith(best) ==
  /\ arming.pc = "select"
  /\ selection' = Armed(arming.event, arming.startedAt, best)
  /\ rings' = [rings EXCEPT ![arming.event].startedAt = arming.startedAt]
  /\ arming' = [arming EXCEPT !.pc = "request"]
  /\ UNCHANGED <<clock, frames, request, sampler, exiting>>

\* Mutant of ArmSelects: the best candidate so far is kept
ArmSelectsKeeping == ArmsWith(selection.best)

ArmSelects == ArmsWith(NoFrame)

ArmRequests ==
  /\ arming.pc = "request"
  /\ request' = [gen |-> request.gen + 1, frame |-> arming.frame]
  /\ arming' = [arming EXCEPT !.pc = "idle"]
  /\ UNCHANGED <<clock, frames, selection, sampler, exiting, rings>>

-----------------------------------------------------------------------------
(* ring_snapshot_worker.                                                   *)

Samples(next) ==
  /\ sampler' = next
  /\ UNCHANGED <<clock, frames, arming, request, selection, exiting, rings>>

\* selection_active is false: wait for a request
AwaitRequest ==
  /\ sampler.pc = "await"
  /\ exiting \/ request.gen # sampler.request
  /\ Samples(IF exiting THEN [sampler EXCEPT !.pc = "exited"]
             ELSE [sampler EXCEPT !.pc = "adopt", !.request = request.gen, !.frame = request.frame])

\* The selection that is pending now, which may be a later one than was requested
Adopt ==
  /\ sampler.pc = "adopt"
  /\ Samples(IF ~selection.active \/ selection.event = NoRing
             THEN [sampler EXCEPT !.pc = "await"]
             ELSE [sampler EXCEPT !.pc = "window", !.event = selection.event,
                                  !.startedAt = selection.startedAt,
                                  !.deadline = selection.deadline, !.last = NoFrame])

\* The next round of the same selection reads the window anew
ReadWindow ==
  /\ sampler.pc = "again"
  /\ Samples([sampler EXCEPT !.pc = "window", !.startedAt = selection.startedAt,
                             !.deadline = selection.deadline])

\* A frame of the window that is newer than the last sample
Fits(ts, startedAt, deadline) == startedAt <= ts /\ ts <= deadline /\ ts > sampler.last

\* Mutant of AwaitFrame: the change of the request is noted before it is adopted
AwaitFrameConsumes ==
  /\ sampler.pc = "window"
  /\ \/ exiting \/ request.gen # sampler.request
     \/ frames.gen # sampler.frame \/ clock >= sampler.deadline
  /\ IF exiting THEN Samples([sampler EXCEPT !.pc = "exited"])
     ELSE IF request.gen # sampler.request
     THEN Samples([sampler EXCEPT !.pc = "await", !.request = request.gen])
     ELSE LET late == clock >= sampler.deadline
              copy == /\ frames.gen # sampler.frame
                      /\ Fits(frames.ts, sampler.startedAt, sampler.deadline)
          IN  Samples([sampler EXCEPT !.frame = frames.gen, !.finish = late,
                         !.pc = IF copy THEN "copy" ELSE IF late THEN "take" ELSE "again"])

\* Wait for a frame, a new request or the deadline
AwaitFrame ==
  /\ sampler.pc = "window"
  /\ \/ exiting \/ request.gen # sampler.request
     \/ frames.gen # sampler.frame \/ clock >= sampler.deadline
  /\ IF exiting THEN Samples([sampler EXCEPT !.pc = "exited"])
     ELSE IF request.gen # sampler.request THEN Samples([sampler EXCEPT !.pc = "await"])
     ELSE LET late == clock >= sampler.deadline
              copy == /\ frames.gen # sampler.frame
                      /\ Fits(frames.ts, sampler.startedAt, sampler.deadline)
          IN  Samples([sampler EXCEPT !.frame = frames.gen, !.finish = late,
                         !.pc = IF copy THEN "copy" ELSE IF late THEN "take" ELSE "again"])

\* Camera::copy_latest_frame fails, or gives the latest frame: a newer one than
\* was announced, or an old one of a camera that did not restart
CopyFrame ==
  /\ sampler.pc = "copy"
  /\ \/ Samples([sampler EXCEPT !.pc = IF sampler.finish THEN "take" ELSE "again"])
     \/ \E ts \in 0..clock : Samples([sampler EXCEPT !.pc = "consider", !.seen = ts])

Mine == selection.active /\ selection.event = sampler.event

\* SnapshotCandidateSelector::consider: the first frame is the best, a later one
\* if its score is higher; what the scores are is left open
Sharper == IF selection.best = NoFrame THEN {TRUE} ELSE BOOLEAN

\* The frame is checked against the selection as it is now
Consider ==
  /\ sampler.pc = "consider"
  /\ IF Mine
     THEN LET fits == Fits(sampler.seen, selection.startedAt, selection.deadline)
              late == sampler.finish \/ clock >= sampler.deadline
          IN  /\ \E sharper \in Sharper :
                   selection' = IF fits /\ sharper THEN [selection EXCEPT !.best = sampler.seen]
                                ELSE selection
              /\ sampler' = [sampler EXCEPT !.last = IF fits THEN sampler.seen ELSE @,
                               !.seen = NoFrame, !.pc = IF late THEN "take" ELSE "again"]
     ELSE /\ sampler' = [sampler EXCEPT !.seen = NoFrame, !.pc = "await"]
          /\ UNCHANGED selection
  /\ UNCHANGED <<clock, frames, arming, request, exiting, rings>>

\* take_if_ready, past the deadline of the same selection
Take ==
  /\ sampler.pc = "take"
  /\ IF Mine /\ clock >= selection.deadline
     THEN /\ sampler' = [sampler EXCEPT !.pc = "submit", !.seen = selection.best]
          /\ selection' = Unarmed
     ELSE /\ sampler' = [sampler EXCEPT !.pc = IF selection.event = sampler.event
                                               THEN "again" ELSE "await"]
          /\ UNCHANGED selection
  /\ UNCHANGED <<clock, frames, arming, request, exiting, rings>>

\* submit_ring_snapshot, with the picture or without
Submit ==
  /\ sampler.pc = "submit"
  /\ rings' = [rings EXCEPT ![sampler.event].submitted = sampler.seen]
  /\ sampler' = [sampler EXCEPT !.pc = "await", !.event = NoRing, !.seen = NoFrame]
  /\ UNCHANGED <<clock, frames, arming, request, selection, exiting>>

\* The end of main
StopSampling ==
  /\ ~exiting
  /\ exiting' = TRUE
  /\ UNCHANGED <<clock, frames, arming, request, selection, sampler, rings>>

-----------------------------------------------------------------------------
Arm == ArmReads \/ ArmSelects \/ ArmRequests

Sampler ==
  \/ AwaitRequest \/ Adopt \/ ReadWindow \/ AwaitFrame \/ CopyFrame \/ Consider \/ Take \/ Submit

SnapshotNext == Tick \/ NewFrame \/ Arm \/ Sampler \/ StopSampling

\* Time passes, the handler of the button returns and the worker runs; frames
\* need not come.
SnapshotFairness ==
  /\ WF_snapshotVars(Tick) /\ WF_snapshotVars(Sampler)
  /\ WF_snapshotVars(ArmSelects \/ ArmRequests)

SnapshotSpec == SnapshotInit /\ [][SnapshotNext]_snapshotVars /\ SnapshotFairness

-----------------------------------------------------------------------------
\* The picture submitted for a ring was taken in the second after its own first
\* press: never before it, and never one that was chosen for an earlier ring
\* that it replaced (main.cpp:307, where the frame is checked once more).
SnapshotFitsRing ==
  \A r \in Ring : rings[r].submitted >= 0 =>
    /\ rings[r].startedAt <= rings[r].submitted
    /\ rings[r].submitted <= rings[r].startedAt + Window

\* Every selection is ended by a submission, with a picture or without, though
\* no frame comes, unless a later ring takes its place or the application ends.
SelectionIsAnswered ==
  \A r \in Ring :
    selection.event = r ~> \/ rings[r].submitted # Unsubmitted
                           \/ arming.event > r
                           \/ exiting
=============================================================================
