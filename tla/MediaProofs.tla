----------------------------- MODULE MediaProofs -----------------------------
(***************************************************************************)
(* Proofs about the parts of Media, for any window, number of rings and    *)
(* size of the DMA pool, and any number of frames, restarts, recordings,   *)
(* fragments and faults: the picture of a ring is one of its own second,   *)
(* no buffer of the pool is lost or written while the encoder reads it, no *)
(* audio enters a stream that has ended, every segment is told once, and a *)
(* picture of the camera that is called good shows one frame.              *)
(***************************************************************************)
EXTENDS Media, FiniteSetTheorems, TLAPS

-----------------------------------------------------------------------------
(* The picture of a ring.                                                  *)

ArmingPc  == {"idle", "select", "request"}
SamplerPc == {"await", "adopt", "window", "again", "copy", "consider", "take", "submit",
              "exited"}
MaybeTime == Nat \cup {NoFrame}

Armings    == [pc : ArmingPc, event : 0..MaxRings, startedAt : Nat, frame : Nat]
Selections == [event : 0..MaxRings, startedAt : Nat, deadline : Nat, active : BOOLEAN,
               best : MaybeTime]
Samplers   == [pc : SamplerPc, event : 0..MaxRings, request : Nat, frame : Nat,
               startedAt : Nat, deadline : Nat, last : MaybeTime, finish : BOOLEAN,
               seen : MaybeTime]

SnapshotTyped ==
  /\ clock \in Nat
  /\ frames \in [gen : Nat, ts : Nat] /\ request \in [gen : Nat, frame : Nat]
  /\ arming \in Armings /\ selection \in Selections /\ sampler \in Samplers
  /\ rings \in [Ring -> [startedAt : Nat, submitted : Nat \cup {NoFrame, Unsubmitted}]]

\* The last ring that has been given its selection.
Selected == IF arming.pc = "select" THEN arming.event - 1 ELSE arming.event

\* A picture of the window that starts at "at", or none.
InWindow(at, ts) == ts = NoFrame \/ (at <= ts /\ ts <= at + Window)

\* Nothing is submitted for a ring before it is selected, the pending selection has
\* the window of its ring, and what is about to be submitted is a picture of its ring.
SnapshotInv ==
  /\ SnapshotTyped
  /\ arming.pc = "select" => arming.event \in Ring
  /\ \A r \in Ring : r > Selected => rings[r].submitted = Unsubmitted
  /\ sampler.event <= Selected
  /\ selection.active =>
       /\ selection.event \in 1..Selected
       /\ selection.startedAt = rings[selection.event].startedAt
       /\ selection.deadline = selection.startedAt + Window
       /\ InWindow(selection.startedAt, selection.best)
  /\ sampler.pc = "submit" =>
       sampler.event \in 1..Selected /\ InWindow(rings[sampler.event].startedAt, sampler.seen)
  /\ SnapshotFitsRing

-----------------------------------------------------------------------------
(* The pool of the recorder and the audio stream.                          *)

ThreadPc == {"idle", "register", "bus", "acquire", "copy", "push", "stop", "unregister",
             "takeAudio", "audioEos", "videoEos", "wait", "drain", "null"}

Recorders == [recording : Nat, running : BOOLEAN, audioSrc : Nat, consumer : Nat,
              nextIndex : Nat, lastEnd : Int, started : [Fragment -> Int],
              index : [Fragment -> Int]]
Threads   == [pc : ThreadPc, lease : Slot \cup {NoLease}, eos : BOOLEAN, whole : BOOLEAN]
Pipelines == [opened : 0..MaxFragments, closed : SUBSET Fragment, videoEos : BOOLEAN,
              audioEos : BOOLEAN, ended : BOOLEAN, late : BOOLEAN]
Messages  == [type : {"opened", "closed"}, fragment : Fragment, time : Nat]
             \cup {Eos, BusError}
Segments  == [fragment : Fragment, index : Int, from : Int, to : Int]

RecorderTyped ==
  /\ recorder \in Recorders /\ thread \in Threads /\ pipeline \in Pipelines
  /\ inUse \in [Recording -> SUBSET Slot] /\ held \in [Recording -> SUBSET Slot]
  /\ bus \in Seq(Messages) /\ told \in Seq(Segments)

\* The thread has a slot in its hands only while it copies a frame into it.
LeaseInv ==
  /\ thread.pc = "copy" <=> thread.lease # NoLease
  /\ recorder.running \/ thread.pc # "idle" => recorder.recording \in Recording
  /\ thread.pc # "idle" => recorder.running

\* From the end of the audio on the recorder has no audio source.
AudioInv ==
  /\ thread.pc \in {"audioEos", "videoEos", "wait", "drain", "null"} \/ pipeline.audioEos =>
       recorder.audioSrc = 0

RecorderInv == RecorderTyped /\ LeaseInv /\ AudioInv /\ SlotsAreAccounted /\ AudioEndsAtEos

-----------------------------------------------------------------------------
(* The messages of the bus and the segments the callback is given.         *)

\* Where on the bus a message of this type for this fragment is.
OnBus(type, f, i) == bus[i].type = type /\ bus[i].fragment = f

ToldOf(f) == \E i \in 1..Len(told) : told[i].fragment = f

\* The openings on the bus are those the recorder has not seen, in their order.
OpeningsInv ==
  /\ recorder.nextIndex <= pipeline.opened
  /\ \A i \in 1..Len(bus) : bus[i].type = "opened" =>
       /\ bus[i].fragment \in (recorder.nextIndex + 1)..pipeline.opened
       /\ bus[i].time = bus[i].fragment - 1
  /\ \A i, j \in 1..Len(bus) :
       i < j /\ bus[i].type = "opened" /\ bus[j].type = "opened" =>
         bus[i].fragment < bus[j].fragment
  /\ \A f \in (recorder.nextIndex + 1)..pipeline.opened : \E i \in 1..Len(bus) : OnBus("opened", f, i)

\* The ends on the bus are those the recorder has not seen, each behind its opening.
EndingsInv ==
  /\ pipeline.closed \subseteq 1..pipeline.opened
  /\ \A i \in 1..Len(bus) : bus[i].type = "closed" =>
       /\ bus[i].fragment \in pipeline.closed /\ ~ToldOf(bus[i].fragment)
       /\ bus[i].time = bus[i].fragment
       /\ \/ bus[i].fragment <= recorder.nextIndex
          \/ \E j \in 1..(i-1) : OnBus("opened", bus[i].fragment, j)
  /\ \A i, j \in 1..Len(bus) :
       bus[i].type = "closed" /\ bus[j].type = "closed" /\ bus[i].fragment = bus[j].fragment =>
         i = j
  /\ \A f \in pipeline.closed : ToldOf(f) \/ \E i \in 1..Len(bus) : OnBus("closed", f, i)

\* What the recorder knows of the fragments that it has seen opened and not closed.
NumbersInv ==
  /\ \A f \in Fragment : f <= recorder.nextIndex /\ ~ToldOf(f) =>
       recorder.index[f] = f - 1 /\ recorder.started[f] = f - 1
  /\ \A f \in Fragment : ToldOf(f) => f <= recorder.nextIndex
  /\ recorder.lastEnd = IF told = <<>> THEN 0 ELSE told[Len(told)].to

\* The end of the stream comes behind the end of every fragment.
EosInv ==
  /\ thread.eos \/ (\E i \in 1..Len(bus) : bus[i].type = "eos") =>
       pipeline.ended /\ pipeline.closed = 1..pipeline.opened
  /\ thread.whole => thread.pc = "null" \/ ~recorder.running
  /\ thread.eos => thread.pc \in {"drain", "null"} \/ ~recorder.running

SegmentInv ==
  /\ recorder.running => OpeningsInv /\ EndingsInv /\ NumbersInv
  /\ \A i \in 1..Len(told) : told[i].fragment \in pipeline.closed
  /\ EosInv /\ SegmentsAreTold

-----------------------------------------------------------------------------
(* The pictures of the camera.                                             *)

CapturePc == {"select", "media", "rgb", "rgb2", "count", "publish", "ended"}
ReaderPc  == {"idle", "load", "first", "second", "check", "stamp", "done"}
MaybeBuffer == Buffer \cup {Nothing}
Picture     == [{1, 2} -> Nat]
Stamp       == [seq : Nat, ts : Nat]
Cameras  == [running : BOOLEAN, mapped : BOOLEAN, mapping : Nat, latest : MaybeBuffer,
             counter : Nat, published : Nat, relic : BOOLEAN,
             rgb : [Buffer -> Picture], media : [Buffer -> Picture], stamp : [Buffer -> Stamp]]
Captures == [pc : CapturePc, write : Buffer]
Readers  == [pc : ReaderPc, by : Borrower \cup {"copy"}, attempt : Nat, buffer : MaybeBuffer,
             mapping : Nat, picture : [{1, 2} -> Int], stamp : Stamp, since : Int,
             relic : BOOLEAN, givenUp : BOOLEAN]

CameraTyped ==
  /\ camera \in Cameras /\ capture \in Captures /\ reader \in Readers
  /\ captures \in Nat /\ restarted \in Nat /\ ui \in {"idle", "join", "start"}

Shows(picture, n) == picture[1] = n /\ picture[2] = n

\* The capture thread in the pair of buffers that it fills.
WriterInv ==
  /\ capture.pc = "media" => camera.media[capture.write][1] = captures
  /\ capture.pc \in {"rgb", "rgb2", "count", "publish"} =>
       Shows(camera.media[capture.write], captures)
  /\ capture.pc = "rgb2" => camera.rgb[capture.write][1] = captures
  /\ capture.pc \in {"count", "publish"} => Shows(camera.rgb[capture.write], captures)
  /\ capture.pc = "publish" => camera.stamp[capture.write].ts = captures

\* The pair that was published last is not the one that is filled, and shows the
\* capture of its stamp.
LatestInv ==
  camera.mapped /\ ~camera.relic /\ camera.latest # Nothing =>
    /\ capture.write # camera.latest
    /\ Shows(camera.rgb[camera.latest], camera.stamp[camera.latest].ts)
    /\ Shows(camera.media[camera.latest], camera.stamp[camera.latest].ts)

\* A restart leaves no capture behind, and the buffers of each are counted upwards.
RestartInv ==
  /\ camera.mapping <= restarted
  /\ ui # "idle" => camera.mapping < restarted
  /\ ui = "start" => capture.pc = "ended" /\ ~camera.mapped

\* The buffers the reader has seen are still there; nothing was published since.
Live  == camera.mapped /\ camera.mapping = reader.mapping
Still == Live /\ ~reader.relic /\ camera.published = reader.since

Holding  == reader.pc \in {"load", "check", "stamp"} \/ reader.by = "copy"
InFlight == reader.pc \in {"load", "first", "second", "check", "stamp"}

\* What a reader in flight, with camera_mtx or without, knows of the camera.
FlightInv ==
  InFlight =>
    /\ Holding => ui = "idle" /\ Live /\ camera.latest # Nothing
    /\ reader.mapping <= camera.mapping /\ reader.since <= camera.published
    /\ reader.buffer \in Buffer
    /\ reader.givenUp => reader.by = "copy" /\ reader.pc = "stamp"
    /\ Live /\ ~reader.relic => ~camera.relic
    /\ Still /\ ~reader.givenUp => camera.latest = reader.buffer
    /\ Live /\ ~reader.relic /\ ~reader.givenUp /\ camera.published = reader.since + 1 =>
         camera.latest = 1 - reader.buffer

\* What it has read so far is the picture of its buffer.
PictureInv ==
  ~reader.givenUp =>
    /\ reader.by = "copy" /\ Still =>
         /\ reader.pc \in {"second", "check", "stamp"} =>
              reader.picture[1] = camera.stamp[reader.buffer].ts
         /\ reader.pc \in {"check", "stamp"} =>
              reader.picture[2] = camera.stamp[reader.buffer].ts
    /\ reader.by = "copy" /\ reader.pc = "stamp" /\ ~reader.relic =>
         (camera.published < reader.since + 2 => Whole(reader.picture))
    /\ reader.by # "copy" /\ Still =>
         /\ reader.pc \in {"first", "second"} =>
              reader.stamp.ts = camera.stamp[reader.buffer].ts
         /\ reader.pc = "second" => reader.picture[1] = reader.stamp.ts

CameraInv ==
  /\ CameraTyped /\ WriterInv /\ LatestInv /\ RestartInv
  /\ FlightInv /\ PictureInv /\ CopiesAreWhole

-----------------------------------------------------------------------------
(* RingSnapshot.                                                           *)

LEMMA SnapshotInitInv == SnapshotInit => SnapshotInv
<1> SUFFICES ASSUME SnapshotInit PROVE SnapshotInv
  OBVIOUS
<1> USE SnapshotAssumption DEF SnapshotInit
<1>1. clock \in Nat /\ frames \in [gen : Nat, ts : Nat] /\ request \in [gen : Nat, frame : Nat]
  OBVIOUS
<1>2. arming \in Armings /\ arming.pc = "idle"
  BY DEF Armings, ArmingPc, NoRing
<1>3. selection \in Selections /\ ~selection.active
  BY DEF Selections, Unarmed, NoRing, MaybeTime
<1>4. sampler \in Samplers /\ sampler.event = 0 /\ sampler.pc = "await"
  BY DEF Samplers, SamplerPc, Sleeping, NoRing, MaybeTime
<1>5. /\ rings \in [Ring -> [startedAt : Nat, submitted : Nat \cup {NoFrame, Unsubmitted}]]
      /\ \A r \in Ring : rings[r].submitted = Unsubmitted
  OBVIOUS
<1>6. arming.event = 0
  BY DEF NoRing
<1> QED
  BY <1>1, <1>2, <1>3, <1>4, <1>5, <1>6 DEF SnapshotInv, SnapshotTyped, SnapshotFitsRing,
     Selected, Unsubmitted

\* One step of the worker that changes nothing but its own locals.
LEMMA SamplerTypes ==
  ASSUME NEW s \in Samplers, NEW pc \in SamplerPc
  PROVE  /\ [s EXCEPT !.pc = pc] \in Samplers
         /\ \A t \in MaybeTime : [s EXCEPT !.pc = pc, !.seen = t] \in Samplers
         /\ \A n, f \in Nat : [s EXCEPT !.pc = pc, !.request = n, !.frame = f] \in Samplers
         /\ \A e \in 0..MaxRings, a, d \in Nat :
              [s EXCEPT !.pc = pc, !.event = e, !.startedAt = a, !.deadline = d,
                        !.last = NoFrame] \in Samplers
         /\ \A a, d \in Nat : [s EXCEPT !.pc = pc, !.startedAt = a, !.deadline = d] \in Samplers
         /\ \A f \in Nat, b \in BOOLEAN :
              [s EXCEPT !.frame = f, !.finish = b, !.pc = pc] \in Samplers
         /\ \A l \in MaybeTime :
              [s EXCEPT !.last = l, !.seen = NoFrame, !.pc = pc] \in Samplers
         /\ [s EXCEPT !.pc = pc, !.event = NoRing, !.seen = NoFrame] \in Samplers
         /\ [s EXCEPT !.seen = NoFrame, !.pc = pc] \in Samplers
<1>1. NoFrame \in MaybeTime /\ NoRing \in 0..MaxRings
  BY SnapshotAssumption DEF MaybeTime, NoRing
<1> QED
  BY <1>1 DEF Samplers

LEMMA SnapshotTypesStep ==
  ASSUME SnapshotInv, [SnapshotNext]_snapshotVars PROVE SnapshotTyped'
<1>0. SnapshotTyped /\ (arming.pc = "select" => arming.event \in Ring)
  BY DEF SnapshotInv
<1>1. clock' \in Nat /\ frames' \in [gen : Nat, ts : Nat] /\ request' \in [gen : Nat, frame : Nat]
  <2>1. CASE Tick \/ NewFrame
    BY <1>0, <2>1 DEF SnapshotTyped, Tick, NewFrame
  <2>2. CASE ArmRequests
    BY <1>0, <2>2 DEF SnapshotTyped, ArmRequests, Armings
  <2>3. CASE ArmReads \/ ArmSelects \/ Sampler \/ StopSampling \/ UNCHANGED snapshotVars
    BY <1>0, <2>3 DEF SnapshotTyped, ArmReads, ArmSelects, ArmsWith, Sampler, AwaitRequest,
       Adopt, ReadWindow, AwaitFrame, CopyFrame, Consider, Take, Submit, StopSampling, Samples,
       snapshotVars
  <2> QED
    BY <2>1, <2>2, <2>3 DEF SnapshotNext, Arm
<1>2. arming' \in Armings
  <2>1. CASE ArmReads
    BY <1>0, <2>1, SnapshotAssumption DEF SnapshotTyped, ArmReads, Armings, ArmingPc
  <2>2. CASE ArmSelects \/ ArmRequests
    BY <1>0, <2>2 DEF SnapshotTyped, ArmSelects, ArmsWith, ArmRequests, Armings, ArmingPc
  <2>3. CASE Tick \/ NewFrame \/ Sampler \/ StopSampling \/ UNCHANGED snapshotVars
    BY <1>0, <2>3 DEF SnapshotTyped, Tick, NewFrame, Sampler, AwaitRequest,
       Adopt, ReadWindow, AwaitFrame, CopyFrame, Consider, Take, Submit, StopSampling, Samples,
       snapshotVars
  <2> QED
    BY <2>1, <2>2, <2>3 DEF SnapshotNext, Arm
<1>3. selection' \in Selections
  <2>1. CASE ArmSelects
    <3>1. /\ arming.event \in 0..MaxRings /\ arming.startedAt \in Nat
          /\ arming.startedAt + Window \in Nat
      BY <1>0, SnapshotAssumption DEF SnapshotTyped, Armings
    <3> QED
      BY <2>1, <3>1 DEF ArmSelects, ArmsWith, Armed, Selections, MaybeTime
  <2>2. CASE Consider
    <3>1. sampler.seen \in MaybeTime /\ selection \in Selections
      BY <1>0 DEF SnapshotTyped, Samplers
    <3> QED
      BY <2>2, <3>1 DEF Consider, Selections
  <2>3. CASE Take
    <3>1. Unarmed \in Selections
      BY SnapshotAssumption DEF Unarmed, Selections, NoRing, MaybeTime
    <3> QED
      BY <1>0, <2>3, <3>1 DEF SnapshotTyped, Take
  <2>4. CASE UNCHANGED selection
    BY <1>0, <2>4 DEF SnapshotTyped
  <2> QED
    BY <2>1, <2>2, <2>3, <2>4 DEF SnapshotNext, Arm, Tick, NewFrame, ArmReads, ArmRequests,
       Sampler, AwaitRequest, Adopt, ReadWindow, AwaitFrame, CopyFrame, Submit, StopSampling,
       Samples, snapshotVars
<1>4. sampler' \in Samplers
  <2>0. /\ sampler \in Samplers /\ selection \in Selections
        /\ request.gen \in Nat /\ request.frame \in Nat /\ frames.gen \in Nat
    BY <1>0 DEF SnapshotTyped
  <2>1. /\ "await" \in SamplerPc /\ "adopt" \in SamplerPc /\ "window" \in SamplerPc
        /\ "again" \in SamplerPc /\ "copy" \in SamplerPc /\ "consider" \in SamplerPc
        /\ "take" \in SamplerPc /\ "submit" \in SamplerPc /\ "exited" \in SamplerPc
    BY DEF SamplerPc
  <2>2. CASE AwaitRequest
    BY <2>0, <2>1, <2>2, SamplerTypes DEF AwaitRequest, Samples
  <2>3. CASE Adopt
    <3>1. /\ selection.event \in 0..MaxRings
          /\ selection.startedAt \in Nat /\ selection.deadline \in Nat
      BY <2>0 DEF Selections
    <3> QED
      BY <2>0, <2>1, <2>3, <3>1, SamplerTypes DEF Adopt, Samples
  <2>4. CASE ReadWindow
    <3>1. selection.startedAt \in Nat /\ selection.deadline \in Nat
      BY <2>0 DEF Selections
    <3> QED
      BY <2>0, <2>1, <2>4, <3>1, SamplerTypes DEF ReadWindow, Samples
  <2>5. CASE AwaitFrame
    <3>1. ASSUME NEW pc \in SamplerPc, NEW late \in BOOLEAN
          PROVE  [sampler EXCEPT !.frame = frames.gen, !.finish = late, !.pc = pc] \in Samplers
      BY <2>0, <2>1, <3>1, SamplerTypes
    <3>2. ASSUME NEW copy \in BOOLEAN, NEW late \in BOOLEAN
          PROVE  (IF copy THEN "copy" ELSE IF late THEN "take" ELSE "again") \in SamplerPc
      BY <2>1
    <3>3. (clock >= sampler.deadline) \in BOOLEAN
      OBVIOUS
    <3>4. \/ sampler' = [sampler EXCEPT !.pc = "exited"]
          \/ sampler' = [sampler EXCEPT !.pc = "await"]
          \/ \E copy \in BOOLEAN, late \in BOOLEAN :
               sampler' = [sampler EXCEPT !.frame = frames.gen, !.finish = late,
                             !.pc = IF copy THEN "copy" ELSE IF late THEN "take" ELSE "again"]
      BY <2>5, <3>3 DEF AwaitFrame, Samples, Fits
    <3> QED
      BY <2>0, <2>1, <3>1, <3>2, <3>4, SamplerTypes
  <2>6. CASE CopyFrame
    <3>1. \A ts \in 0..clock : ts \in MaybeTime
      BY <1>0 DEF SnapshotTyped, MaybeTime
    <3>2. \/ sampler' = [sampler EXCEPT !.pc = "take"] \/ sampler' = [sampler EXCEPT !.pc = "again"]
          \/ \E ts \in 0..clock : sampler' = [sampler EXCEPT !.pc = "consider", !.seen = ts]
      BY <2>6 DEF CopyFrame, Samples
    <3>3. ASSUME NEW ts \in 0..clock
          PROVE  [sampler EXCEPT !.pc = "consider", !.seen = ts] \in Samplers
      BY <2>0, <2>1, <3>1, SamplerTypes
    <3> QED
      BY <2>0, <2>1, <3>2, <3>3, SamplerTypes
  <2>7. CASE Consider
    <3>1. sampler.seen \in MaybeTime /\ sampler.last \in MaybeTime
      BY <2>0 DEF Samplers
    <3>2. \/ sampler' = [sampler EXCEPT !.seen = NoFrame, !.pc = "await"]
          \/ \E l \in {sampler.seen, sampler.last}, pc \in {"take", "again"} :
               sampler' = [sampler EXCEPT !.last = l, !.seen = NoFrame, !.pc = pc]
      BY <2>7 DEF Consider
    <3>3. ASSUME NEW l \in {sampler.seen, sampler.last}, NEW pc \in {"take", "again"}
          PROVE  [sampler EXCEPT !.last = l, !.seen = NoFrame, !.pc = pc] \in Samplers
      BY <2>0, <2>1, <3>1, <3>3, SamplerTypes
    <3>4. [sampler EXCEPT !.seen = NoFrame, !.pc = "await"] \in Samplers
      BY <2>0, <2>1, SamplerTypes
    <3> QED
      BY <3>2, <3>3, <3>4
  <2>8. CASE Take
    <3>1. selection.best \in MaybeTime
      BY <2>0 DEF Selections
    <3>2. \/ sampler' = [sampler EXCEPT !.pc = "submit", !.seen = selection.best]
          \/ sampler' = [sampler EXCEPT !.pc = "again"] \/ sampler' = [sampler EXCEPT !.pc = "await"]
      BY <2>8 DEF Take
    <3>3. /\ [sampler EXCEPT !.pc = "submit", !.seen = selection.best] \in Samplers
          /\ [sampler EXCEPT !.pc = "again"] \in Samplers
          /\ [sampler EXCEPT !.pc = "await"] \in Samplers
      BY <2>0, <2>1, <3>1, SamplerTypes
    <3> QED
      BY <3>2, <3>3
  <2>9. CASE Submit
    BY <2>0, <2>1, <2>9, SamplerTypes DEF Submit
  <2> QED
    BY <2>0, <2>2, <2>3, <2>4, <2>5, <2>6, <2>7, <2>8, <2>9 DEF SnapshotNext, Arm, Tick, NewFrame,
       ArmReads, ArmSelects, ArmsWith, ArmRequests, Sampler, StopSampling, snapshotVars
<1>5. rings' \in [Ring -> [startedAt : Nat, submitted : Nat \cup {NoFrame, Unsubmitted}]]
  <2>1. CASE ArmSelects
    <3>1. arming.startedAt \in Nat
      BY <1>0 DEF SnapshotTyped, Armings
    <3> QED
      BY <1>0, <2>1, <3>1 DEF SnapshotTyped, ArmSelects, ArmsWith
  <2>2. CASE Submit
    <3>1. sampler.seen \in Nat \cup {NoFrame, Unsubmitted}
      BY <1>0 DEF SnapshotTyped, Samplers, MaybeTime
    <3> QED
      BY <1>0, <2>2, <3>1 DEF SnapshotTyped, Submit
  <2>3. CASE UNCHANGED rings
    BY <1>0, <2>3 DEF SnapshotTyped
  <2> QED
    BY <2>1, <2>2, <2>3 DEF SnapshotNext, Arm, Tick, NewFrame, ArmReads, ArmRequests,
       Sampler, AwaitRequest, Adopt, ReadWindow, AwaitFrame, CopyFrame, Consider, Take,
       StopSampling, Samples, snapshotVars
<1> QED
  BY <1>1, <1>2, <1>3, <1>4, <1>5 DEF SnapshotTyped

LEMMA SnapshotStep ==
  ASSUME SnapshotInv, [SnapshotNext]_snapshotVars PROVE SnapshotInv'
<1>0. SnapshotTyped'
  BY SnapshotTypesStep
<1>1. /\ arming \in Armings /\ selection \in Selections /\ sampler \in Samplers
      /\ rings \in [Ring -> [startedAt : Nat, submitted : Nat \cup {NoFrame, Unsubmitted}]]
      /\ Window \in Nat /\ MaxRings \in Nat
      /\ Selected \in Int
  BY SnapshotAssumption DEF SnapshotInv, SnapshotTyped, Selected, Armings
<1>2. SnapshotInv
  OBVIOUS
\* The worker is not past its selection, and the rings are as they were.
<1>3. ASSUME UNCHANGED <<rings, selection>>, Selected' = Selected,
             arming'.pc = "select" => arming'.event \in Ring,
             sampler'.event <= Selected,
             sampler'.pc = "submit" => sampler.pc = "submit" /\ sampler'.event = sampler.event
                                                            /\ sampler'.seen = sampler.seen
      PROVE  SnapshotInv'
  BY <1>0, <1>2, <1>3 DEF SnapshotInv, InWindow, SnapshotFitsRing
<1>4. CASE Tick \/ NewFrame \/ StopSampling \/ UNCHANGED snapshotVars
  BY <1>2, <1>3, <1>4 DEF Tick, NewFrame, StopSampling, snapshotVars, SnapshotInv, Selected
<1>5. CASE ArmReads
  <2>1. arming'.pc = "select" /\ arming'.event = arming.event + 1 /\ arming.event < MaxRings
        /\ arming.pc = "idle"
    BY <1>5 DEF ArmReads
  <2>2. Selected' = Selected /\ arming'.event \in Ring
    BY <1>1, <2>1 DEF Selected, Armings, Ring
  <2> QED
    BY <1>2, <1>3, <1>5, <2>2 DEF ArmReads, SnapshotInv
<1>6. CASE ArmRequests
  <2>1. Selected' = Selected /\ arming'.pc = "idle"
    BY <1>1, <1>6 DEF ArmRequests, Selected, Armings
  <2> QED
    BY <1>2, <1>3, <1>6, <2>1 DEF ArmRequests, SnapshotInv
<1>7. CASE ArmSelects
  <2>1. /\ arming.pc = "select" /\ arming.event \in Ring /\ Selected = arming.event - 1
        /\ Selected' = arming.event /\ arming'.pc = "request"
    BY <1>1, <1>2, <1>7 DEF ArmSelects, ArmsWith, SnapshotInv, Selected, Armings
  <2>2. /\ rings' = [rings EXCEPT ![arming.event].startedAt = arming.startedAt]
        /\ rings[arming.event].submitted = Unsubmitted
        /\ selection'.event = arming.event /\ selection'.startedAt = arming.startedAt
        /\ selection'.deadline = arming.startedAt + Window /\ selection'.best = NoFrame
        /\ UNCHANGED sampler
    BY <1>1, <1>2, <1>7, <2>1 DEF ArmSelects, ArmsWith, Armed, SnapshotInv, Ring
  <2>3. /\ \A r \in Ring : rings'[r].submitted = rings[r].submitted
        /\ \A r \in Ring : r # arming.event => rings'[r].startedAt = rings[r].startedAt
        /\ rings'[arming.event].startedAt = arming.startedAt
    BY <1>1, <2>1, <2>2
  <2>4. \A r \in Ring : r > Selected' => rings'[r].submitted = Unsubmitted
    BY <1>1, <1>2, <2>1, <2>3 DEF SnapshotInv, Ring
  <2>5. sampler'.event <= Selected'
    BY <1>1, <1>2, <2>1, <2>2 DEF SnapshotInv, Samplers, Ring
  <2>6. selection'.event \in 1..Selected' /\ InWindow(selection'.startedAt, selection'.best)
    BY <2>1, <2>2, <2>3 DEF InWindow, Ring
  <2>7. sampler'.pc = "submit" =>
          sampler'.event \in 1..Selected'
          /\ InWindow(rings'[sampler'.event].startedAt, sampler'.seen)
    <3> SUFFICES ASSUME sampler.pc = "submit"
                 PROVE  /\ sampler.event \in 1..Selected'
                        /\ InWindow(rings'[sampler.event].startedAt, sampler.seen)
      BY <2>2
    <3>1. sampler.event \in 1..Selected /\ InWindow(rings[sampler.event].startedAt, sampler.seen)
      BY <1>2 DEF SnapshotInv
    <3>2. sampler.event \in Ring /\ sampler.event # arming.event
      BY <1>1, <2>1, <3>1 DEF Ring
    <3> QED
      BY <1>1, <2>1, <2>2, <2>3, <3>1, <3>2 DEF InWindow, Ring
  <2>8. SnapshotFitsRing'
    BY <1>2, <2>2, <2>3 DEF SnapshotInv, SnapshotFitsRing, Unsubmitted
  <2> QED
    BY <1>0, <2>1, <2>2, <2>3, <2>4, <2>5, <2>6, <2>7, <2>8 DEF SnapshotInv
<1>8. CASE AwaitRequest \/ ReadWindow \/ AwaitFrame \/ CopyFrame
  <2>1. UNCHANGED <<rings, selection, arming>> /\ sampler'.event = sampler.event
        /\ sampler'.pc # "submit"
    BY <1>1, <1>8 DEF AwaitRequest, ReadWindow, AwaitFrame, CopyFrame, Samples, Samplers
  <2> QED
    BY <1>2, <1>3, <2>1 DEF SnapshotInv, Selected
<1>9. CASE Adopt
  <2>1. /\ UNCHANGED <<rings, selection, arming>> /\ sampler'.pc # "submit"
        /\ \/ sampler'.event = sampler.event
           \/ selection.active /\ sampler'.event = selection.event
    BY <1>1, <1>9 DEF Adopt, Samples, Samplers
  <2>2. Selected' = Selected /\ (arming'.pc = "select" => arming'.event \in Ring)
    BY <1>2, <2>1 DEF SnapshotInv, Selected
  <2>3. sampler'.event <= Selected
    BY <1>1, <1>2, <2>1 DEF SnapshotInv
  <2>4. UNCHANGED <<rings, selection>> /\ sampler'.pc # "submit"
    BY <2>1
  <2> QED
    BY <1>3, <2>2, <2>3, <2>4
<1>10. CASE Consider
  <2>1. UNCHANGED <<rings, arming>> /\ sampler'.pc # "submit" /\ sampler'.event = sampler.event
        /\ Selected' = Selected
    BY <1>1, <1>10 DEF Consider, Samplers, Selected
  <2>2. CASE UNCHANGED selection
    BY <1>2, <1>3, <2>1, <2>2 DEF SnapshotInv
  <2>3. CASE /\ selection.active /\ Fits(sampler.seen, selection.startedAt, selection.deadline)
             /\ selection' = [selection EXCEPT !.best = sampler.seen]
    <3>1. /\ selection'.event = selection.event /\ selection'.startedAt = selection.startedAt
          /\ selection'.deadline = selection.deadline /\ selection'.active
          /\ selection'.best = sampler.seen
      BY <1>1, <2>3 DEF Selections
    <3>2. InWindow(selection.startedAt, sampler.seen)
      BY <1>2, <2>3 DEF SnapshotInv, InWindow, Fits
    <3>3. selection.event \in 1..Selected /\ InWindow(selection.startedAt, sampler.seen)
          /\ selection.startedAt = rings[selection.event].startedAt
          /\ selection.deadline = selection.startedAt + Window
      BY <1>2, <2>3, <3>1, <3>2 DEF SnapshotInv
    <3>4. SnapshotFitsRing'
      BY <1>2, <2>1 DEF SnapshotInv, SnapshotFitsRing
    <3> HIDE <2>3
    <3> QED
      BY <1>0, <1>2, <2>1, <3>1, <3>3, <3>4 DEF SnapshotInv, InWindow
  <2>4. CASE ~Mine
    BY <1>10, <2>2, <2>4 DEF Consider
  <2>5. CASE Mine
    <3>1. PICK sharper \in Sharper :
            selection' = IF Fits(sampler.seen, selection.startedAt, selection.deadline) /\ sharper
                         THEN [selection EXCEPT !.best = sampler.seen] ELSE selection
      BY <1>10, <2>5 DEF Consider
    <3> QED
      BY <2>2, <2>3, <2>5, <3>1 DEF Mine
  <2> QED
    BY <2>4, <2>5
<1>11. CASE Take
  <2>1. UNCHANGED <<rings, arming>> /\ sampler'.event = sampler.event /\ Selected' = Selected
    BY <1>1, <1>11 DEF Take, Samplers, Selected
  <2>2. CASE UNCHANGED selection /\ sampler'.pc # "submit"
    BY <1>2, <1>3, <2>1, <2>2 DEF SnapshotInv
  <2>3. CASE /\ selection.active /\ selection.event = sampler.event
             /\ sampler' = [sampler EXCEPT !.pc = "submit", !.seen = selection.best]
             /\ selection' = Unarmed
    <3>1. sampler'.seen = selection.best /\ ~selection'.active
      BY <1>1, <2>3 DEF Samplers, Unarmed
    <3> QED
      BY <1>0, <1>2, <2>1, <2>3, <3>1 DEF SnapshotInv, InWindow, SnapshotFitsRing
  <2> QED
    BY <1>1, <1>11, <2>2, <2>3 DEF Take, Mine, Samplers
<1>12. CASE Submit
  <2>1. /\ UNCHANGED <<selection, arming>> /\ Selected' = Selected
        /\ rings' = [rings EXCEPT ![sampler.event].submitted = sampler.seen]
        /\ sampler'.event = 0 /\ sampler'.pc = "await"
    BY <1>1, <1>12 DEF Submit, Samplers, Selected, NoRing
  <2>2. sampler.event \in 1..Selected /\ InWindow(rings[sampler.event].startedAt, sampler.seen)
    BY <1>2, <1>12 DEF SnapshotInv, Submit
  <2>3. /\ \A r \in Ring : rings'[r].startedAt = rings[r].startedAt
        /\ \A r \in Ring : r # sampler.event => rings'[r].submitted = rings[r].submitted
        /\ sampler.event \in Ring => rings'[sampler.event].submitted = sampler.seen
    BY <1>1, <2>1
  <2>4. \A r \in Ring : r > Selected' => rings'[r].submitted = Unsubmitted
    BY <1>1, <1>2, <2>1, <2>2, <2>3 DEF SnapshotInv, Ring
  <2>5. SnapshotFitsRing'
    BY <1>2, <2>2, <2>3 DEF SnapshotInv, SnapshotFitsRing, InWindow, NoFrame
  <2>6. 0 <= Selected
    BY <1>1, <2>2
  <2>7. selection.active => selection.startedAt = rings'[selection.event].startedAt
    <3>1. selection.active => selection.event \in Ring
      BY <1>1 DEF Selections, Ring, SnapshotInv
    <3> QED
      BY <1>2, <2>3, <3>1 DEF SnapshotInv
  <2> QED
    BY <1>0, <1>2, <2>1, <2>4, <2>5, <2>6, <2>7 DEF SnapshotInv
<1> QED
  BY <1>4, <1>5, <1>6, <1>7, <1>8, <1>9, <1>10, <1>11, <1>12 DEF SnapshotNext, Arm, Sampler

-----------------------------------------------------------------------------
(* RecorderPipeline: the pool and the audio stream.                        *)

LEMMA RecorderInitInv == RecorderInit => RecorderInv /\ SegmentInv
<1> SUFFICES ASSUME RecorderInit PROVE RecorderInv /\ SegmentInv
  OBVIOUS
<1> USE RecorderAssumption DEF RecorderInit
<1>1. recorder \in Recorders /\ ~recorder.running /\ recorder.audioSrc = 0
  BY DEF Recorders, Idle, None, Fragment
<1>2. thread \in Threads /\ thread.pc = "idle" /\ thread.lease = NoLease /\ ~thread.eos /\ ~thread.whole
  BY DEF Threads, Resting, ThreadPc, NoLease
<1>3. pipeline \in Pipelines /\ ~pipeline.audioEos /\ ~pipeline.late
  BY DEF Pipelines, NoStream
<1>4. bus \in Seq(Messages) /\ told \in Seq(Segments) /\ Len(bus) = 0 /\ Len(told) = 0
  OBVIOUS
<1>5. inUse \in [Recording -> SUBSET Slot] /\ held \in [Recording -> SUBSET Slot]
  OBVIOUS
<1>6. SlotsAreAccounted
  BY <1>2 DEF SlotsAreAccounted
<1>7. RecorderInv
  BY <1>1, <1>2, <1>3, <1>4, <1>5, <1>6 DEF RecorderInv, RecorderTyped, LeaseInv, AudioInv,
     AudioEndsAtEos
<1> QED
  BY <1>1, <1>2, <1>4, <1>7 DEF SegmentInv, EosInv, SegmentsAreTold

\* What the recorder keeps of a message.
LEMMA ProcessBusTypes ==
  ASSUME RecorderTyped, ProcessBusMessage
  PROVE  /\ recorder' \in Recorders /\ told' \in Seq(Segments) /\ bus' \in Seq(Messages)
         /\ thread' \in Threads /\ thread'.lease = thread.lease
         /\ recorder'.recording = recorder.recording /\ recorder'.running = recorder.running
         /\ recorder'.audioSrc = recorder.audioSrc
         /\ \/ thread'.pc = thread.pc
            \/ thread'.pc = "stop" /\ thread.pc = "bus"
            \/ thread'.pc \in {"null", "drain"} /\ thread.pc \in {"wait", "drain"}
<1> DEFINE m == Head(bus)
<1>1. /\ recorder \in Recorders /\ thread \in Threads /\ bus \in Seq(Messages)
      /\ told \in Seq(Segments) /\ bus # <<>> /\ thread.pc \in {"bus", "wait", "drain"}
  BY DEF RecorderTyped, ProcessBusMessage
<1>2. m \in Messages /\ bus' \in Seq(Messages)
  BY <1>1 DEF ProcessBusMessage
<1>3. m.type \in {"opened", "closed"} => m.time \in Int /\ m.fragment \in Fragment
  BY <1>2 DEF Messages, Eos, BusError
<1> HIDE DEF m
<1>4. /\ recorder' \in Recorders /\ told' \in Seq(Segments)
      /\ recorder'.recording = recorder.recording /\ recorder'.running = recorder.running
      /\ recorder'.audioSrc = recorder.audioSrc
  <2>0. /\ recorder.started \in [Fragment -> Int] /\ recorder.index \in [Fragment -> Int]
        /\ recorder.nextIndex \in Nat /\ recorder.lastEnd \in Int
    BY <1>1 DEF Recorders
  <2>1. CASE m.type = "opened" /\ FragmentOpened(m)
    <3>1. /\ [recorder.started EXCEPT ![m.fragment] = m.time] \in [Fragment -> Int]
          /\ [recorder.index EXCEPT ![m.fragment] = recorder.nextIndex] \in [Fragment -> Int]
          /\ recorder.nextIndex + 1 \in Nat
      BY <1>3, <2>0, <2>1
    <3> QED
      BY <1>1, <2>1, <3>1 DEF FragmentOpened, Recorders
  <2>2. CASE m.type = "closed" /\ FragmentClosed(m)
    <3>0. m.fragment \in Fragment /\ m.time \in Int
      BY <1>3, <2>2
    <3>1. PICK index \in Int, from \in Int, to \in Int, n \in Nat :
            /\ recorder' = [recorder EXCEPT !.nextIndex = n, !.lastEnd = to,
                                            !.started[m.fragment] = None,
                                            !.index[m.fragment] = None]
            /\ told' = Append(told, [fragment |-> m.fragment, index |-> index,
                                     from |-> from, to |-> to])
      <4> DEFINE known == recorder.index[m.fragment] # None
                 index == IF known THEN recorder.index[m.fragment] ELSE recorder.nextIndex
                 from  == IF index = 0 /\ known THEN recorder.started[m.fragment]
                          ELSE recorder.lastEnd
                 to    == IF m.time > from THEN m.time ELSE from
                 n     == IF known THEN recorder.nextIndex ELSE recorder.nextIndex + 1
      <4>1. index \in Int /\ n \in Nat
        BY <2>0, <3>0
      <4>2. from \in Int
        BY <2>0, <3>0
      <4>3. to \in Int
        BY <3>0, <4>2
      <4>4. /\ recorder' = [recorder EXCEPT !.nextIndex = n, !.lastEnd = to,
                                            !.started[m.fragment] = None,
                                            !.index[m.fragment] = None]
            /\ told' = Append(told, [fragment |-> m.fragment, index |-> index,
                                     from |-> from, to |-> to])
        BY <2>2 DEF FragmentClosed
      <4> HIDE DEF index, from, to, n
      <4> QED
        BY <4>1, <4>2, <4>3, <4>4
    <3>2. /\ [recorder.started EXCEPT ![m.fragment] = None] \in [Fragment -> Int]
          /\ [recorder.index EXCEPT ![m.fragment] = None] \in [Fragment -> Int]
      BY <2>0, <3>0 DEF None
    <3>3. [fragment |-> m.fragment, index |-> index, from |-> from, to |-> to] \in Segments
      BY <3>0 DEF Segments
    <3>4. told' \in Seq(Segments)
      BY <1>1, <3>1, <3>3
    <3>5. recorder' = [recorder EXCEPT !.nextIndex = n, !.lastEnd = to,
                         !.started = [recorder.started EXCEPT ![m.fragment] = None],
                         !.index = [recorder.index EXCEPT ![m.fragment] = None]]
      BY <1>1, <3>1 DEF Recorders
    <3> QED
      BY <1>1, <3>2, <3>4, <3>5 DEF Recorders
  <2>3. CASE UNCHANGED <<recorder, told>>
    BY <1>1, <2>3
  <2> QED
    BY <2>1, <2>2, <2>3 DEF ProcessBusMessage, m
<1>5. \E pc \in ThreadPc, eos \in BOOLEAN :
        /\ thread' = [thread EXCEPT !.eos = eos, !.pc = pc]
        /\ \/ pc = thread.pc
           \/ pc = "stop" /\ thread.pc = "bus"
           \/ pc \in {"null", "drain"} /\ thread.pc \in {"wait", "drain"}
  BY <1>1 DEF ProcessBusMessage, Threads, ThreadPc
<1> QED
  BY <1>1, <1>2, <1>4, <1>5 DEF Threads

\* A message of the pipeline.
LEMMA MessageTypes ==
  ASSUME NEW f \in Fragment
  PROVE  /\ Opened(f) \in Messages /\ Closed(f) \in Messages
         /\ Opened(f).type = "opened" /\ Opened(f).fragment = f /\ Opened(f).time = f - 1
         /\ Closed(f).type = "closed" /\ Closed(f).fragment = f /\ Closed(f).time = f
<1>1. f \in Nat /\ f - 1 \in Nat
  BY RecorderAssumption DEF Fragment
<1> QED
  BY <1>1 DEF Messages, Opened, Closed

\* The records of the thread and of the recorder that a step writes.
LEMMA ThreadTypes ==
  ASSUME NEW t \in Threads, NEW pc \in ThreadPc
  PROVE  /\ [t EXCEPT !.pc = pc] \in Threads
         /\ [t EXCEPT !.pc = pc].pc = pc /\ [t EXCEPT !.pc = pc].lease = t.lease
         /\ [t EXCEPT !.pc = pc].eos = t.eos /\ [t EXCEPT !.pc = pc].whole = t.whole
         /\ [t EXCEPT !.pc = pc, !.whole = TRUE] \in Threads
         /\ \A s \in Slot \cup {NoLease} : [t EXCEPT !.pc = pc, !.lease = s] \in Threads
         /\ [Resting EXCEPT !.pc = pc] \in Threads /\ [Resting EXCEPT !.pc = pc].pc = pc
         /\ [Resting EXCEPT !.pc = pc].lease = NoLease
         /\ ~[Resting EXCEPT !.pc = pc].eos /\ ~[Resting EXCEPT !.pc = pc].whole
         /\ Resting \in Threads
BY DEF Threads, Resting, NoLease, ThreadPc

LEMMA RecorderTypes ==
  ASSUME NEW r \in Nat
  PROVE  /\ Fresh(r) \in Recorders /\ [Idle EXCEPT !.recording = r] \in Recorders
         /\ \A o \in Recorders : [o EXCEPT !.consumer = r] \in Recorders
         /\ \A o \in Recorders : [o EXCEPT !.audioSrc = r] \in Recorders
<1>1. /\ [f \in Fragment |-> None] \in [Fragment -> Int]
  BY DEF None
<1> HIDE DEF None
<1>2. Idle \in Recorders
  <2> DEFINE none == [f \in Fragment |-> None]
  <2>1. none \in [Fragment -> Int]
    BY <1>1
  <2>2. Idle = [recording |-> 0, running |-> FALSE, audioSrc |-> 0, consumer |-> 0,
                nextIndex |-> 0, lastEnd |-> 0, started |-> none, index |-> none]
    BY DEF Idle
  <2> HIDE DEF none
  <2> QED
    BY <2>1, <2>2 DEF Recorders
<1> QED
  BY <1>2 DEF Recorders, Fresh

LEMMA RecorderTypesStep ==
  ASSUME RecorderInv, [RecorderNext]_recorderVars PROVE RecorderTyped'
<1>0. /\ recorder \in Recorders /\ thread \in Threads /\ pipeline \in Pipelines
      /\ inUse \in [Recording -> SUBSET Slot] /\ held \in [Recording -> SUBSET Slot]
      /\ bus \in Seq(Messages) /\ told \in Seq(Segments)
  BY DEF RecorderInv, RecorderTyped
<1>1. recorder' \in Recorders /\ told' \in Seq(Segments)
  <2>1. CASE StartSegmented
    <3>1. recorder.recording + 1 \in Nat
      BY <1>0 DEF Recorders
    <3>2. recorder' = Fresh(recorder.recording + 1) /\ told' = <<>>
      BY <2>1 DEF StartSegmented
    <3>3. Fresh(recorder.recording + 1) \in Recorders
      BY <3>1, RecorderTypes
    <3> QED
      BY <3>2, <3>3
  <2>2. CASE RegisterConsumer \/ UnregisterConsumer \/ TakeAudioSource
    <3>1. recorder.recording \in Nat /\ 0 \in Nat
      BY <1>0 DEF Recorders
    <3> QED
      BY <1>0, <2>2, <3>1, RecorderTypes DEF RegisterConsumer, UnregisterConsumer,
         TakeAudioSource, StopMoves
  <2>3. CASE ProcessBusMessage
    BY <2>3, ProcessBusTypes DEF RecorderInv
  <2>4. CASE PipelineToNull
    <3>1. recorder.recording \in Nat
      BY <1>0 DEF Recorders
    <3> QED
      BY <1>0, <2>4, <3>1, RecorderTypes DEF PipelineToNull
  <2>5. CASE UNCHANGED <<recorder, told>>
    BY <1>0, <2>5
  <2> QED
    BY <2>1, <2>2, <2>3, <2>4, <2>5 DEF RecorderNext, BusEmpty, EosTimeout, WriteFrame,
       AcquireDmaBuffer, WriteFails, WrapFrame, PushFrame, DmaBufferReleased, StopRecorder, EndAudio,
       EndVideo, DispatchAudio, PushAudioFrame, OpenFragment, CloseFragment, EndOfStream,
       PipelineFails, PipelineMoves, StopMoves, Unmoved, recorderVars
<1>2. thread' \in Threads
  <2>0. ThreadPc = {"idle", "register", "bus", "acquire", "copy", "push", "stop", "unregister",
                    "takeAudio", "audioEos", "videoEos", "wait", "drain", "null"}
        /\ NoLease \in Slot \cup {NoLease}
    BY DEF ThreadPc
  <2>1. CASE ProcessBusMessage
    BY <2>1, ProcessBusTypes DEF RecorderInv
  <2>2. CASE AcquireDmaBuffer
    <3>1. "copy" \in ThreadPc /\ "stop" \in ThreadPc
      BY DEF ThreadPc
    <3>2. \/ \E s \in Slot : thread' = [thread EXCEPT !.pc = "copy", !.lease = s]
          \/ thread' = Resting \/ thread' = [thread EXCEPT !.pc = "stop"]
      BY <2>2 DEF AcquireDmaBuffer
    <3>3. Resting \in Threads /\ [thread EXCEPT !.pc = "stop"] \in Threads
      BY <1>0, <3>1, ThreadTypes
    <3>4. ASSUME NEW s \in Slot PROVE [thread EXCEPT !.pc = "copy", !.lease = s] \in Threads
      BY <1>0, <3>1, ThreadTypes
    <3> QED
      BY <3>2, <3>3, <3>4
  <2>3. CASE UNCHANGED thread
    BY <1>0, <2>3
  <2>4. CASE StartSegmented \/ RegisterConsumer \/ BusEmpty \/ EosTimeout \/ WriteFrame
             \/ WriteFails \/ WrapFrame \/ PushFrame
    <3>1. \E pc \in ThreadPc :
            \/ thread' = [Resting EXCEPT !.pc = pc] \/ thread' = Resting
            \/ thread' = [thread EXCEPT !.pc = pc]
            \/ thread' = [thread EXCEPT !.pc = pc, !.whole = TRUE]
            \/ thread' = [thread EXCEPT !.pc = pc, !.lease = NoLease]
      BY <2>0, <2>4 DEF StartSegmented, RegisterConsumer, BusEmpty, EosTimeout, WriteFrame,
         WriteFails, WrapFrame, PushFrame
    <3>2. ASSUME NEW pc \in ThreadPc
          PROVE  /\ [Resting EXCEPT !.pc = pc] \in Threads /\ Resting \in Threads
                 /\ [thread EXCEPT !.pc = pc] \in Threads
                 /\ [thread EXCEPT !.pc = pc, !.whole = TRUE] \in Threads
                 /\ [thread EXCEPT !.pc = pc, !.lease = NoLease] \in Threads
      <4>1. NoLease \in Slot \cup {NoLease}
        OBVIOUS
      <4> QED
        BY <1>0, <4>1, ThreadTypes
    <3> QED
      BY <3>1, <3>2
  <2>5. CASE StopRecorder \/ UnregisterConsumer \/ TakeAudioSource \/ EndAudio \/ EndVideo
             \/ PipelineToNull
    BY <1>0, <2>5 DEF StopRecorder, UnregisterConsumer, TakeAudioSource, EndAudio,
       EndVideo, PipelineToNull, StopMoves, Threads, ThreadPc
  <2> QED
    BY <2>1, <2>2, <2>3, <2>4, <2>5 DEF RecorderNext, DmaBufferReleased, DispatchAudio,
       PushAudioFrame, OpenFragment, CloseFragment, EndOfStream, PipelineFails, PipelineMoves,
       recorderVars
<1>3. inUse' \in [Recording -> SUBSET Slot] /\ held' \in [Recording -> SUBSET Slot]
  <2>1. CASE AcquireDmaBuffer
    <3>1. \/ UNCHANGED <<inUse, held>>
          \/ \E s \in Slot : /\ inUse' = [inUse EXCEPT ![recorder.recording] = @ \union {s}]
                             /\ UNCHANGED held
      BY <2>1 DEF AcquireDmaBuffer
    <3> QED
      BY <1>0, <3>1
  <2>2. CASE WriteFails \/ DmaBufferReleased
    BY <1>0, <2>2 DEF WriteFails, DmaBufferReleased, Released
  <2>3. CASE WrapFrame
    <3>1. thread.lease \in Slot
      BY <1>0, <2>3 DEF WrapFrame, RecorderInv, LeaseInv, Threads
    <3> QED
      BY <1>0, <2>3, <3>1 DEF WrapFrame
  <2>4. CASE UNCHANGED <<inUse, held>>
    BY <1>0, <2>4
  <2> QED
    BY <2>1, <2>2, <2>3, <2>4 DEF RecorderNext, StartSegmented, RegisterConsumer,
       ProcessBusMessage, BusEmpty, EosTimeout, WriteFrame, PushFrame, StopRecorder,
       UnregisterConsumer, TakeAudioSource, EndAudio, EndVideo, PipelineToNull, DispatchAudio,
       PushAudioFrame, OpenFragment, CloseFragment, EndOfStream, PipelineFails, PipelineMoves,
       StopMoves, recorderVars
<1>4. pipeline' \in Pipelines /\ bus' \in Seq(Messages)
  <2>0. /\ pipeline.opened \in 0..MaxFragments /\ pipeline.closed \in SUBSET Fragment
        /\ MaxFragments \in Nat
    BY <1>0, RecorderAssumption DEF Pipelines
  <2>1. CASE StartSegmented
    BY <1>0, <2>0, <2>1 DEF StartSegmented, NoStream, Pipelines
  <2>2. CASE ProcessBusMessage
    BY <1>0, <2>2, ProcessBusTypes DEF RecorderInv, ProcessBusMessage
  <2>3. CASE OpenFragment
    <3>1. pipeline.opened + 1 \in Fragment /\ pipeline.opened + 1 \in 0..MaxFragments
      BY <2>0, <2>3 DEF OpenFragment, Fragment
    <3>2. Opened(pipeline.opened + 1) \in Messages
      BY <3>1, MessageTypes
    <3>3. /\ pipeline' = [pipeline EXCEPT !.opened = pipeline.opened + 1]
          /\ bus' = Append(bus, Opened(pipeline.opened + 1))
      BY <2>3 DEF OpenFragment, PipelineMoves
    <3>4. bus' \in Seq(Messages)
      BY <1>0, <3>2, <3>3
    <3> QED
      BY <1>0, <3>1, <3>3, <3>4 DEF Pipelines
  <2>4. CASE CloseFragment
    <3>1. PICK f \in (1..pipeline.opened) \ pipeline.closed :
            /\ PipelineMoves(Closed(f))
            /\ pipeline' = [pipeline EXCEPT !.closed = @ \union {f}]
      BY <2>4 DEF CloseFragment
    <3>2. f \in Fragment
      BY <2>0 DEF Fragment
    <3>3. Closed(f) \in Messages /\ pipeline.closed \cup {f} \in SUBSET Fragment
      BY <2>0, <3>2, MessageTypes
    <3> QED
      <4>1. bus' \in Seq(Messages)
        BY <1>0, <3>1, <3>3 DEF PipelineMoves
      <4> QED
        BY <1>0, <3>1, <3>3, <4>1 DEF Pipelines
  <2>5. CASE EndOfStream \/ PipelineFails
    <3>1. Eos \in Messages /\ BusError \in Messages
      BY DEF Messages
    <3> QED
      <4>1. bus' = Append(bus, Eos) \/ bus' = Append(bus, BusError)
        BY <2>5 DEF EndOfStream, PipelineFails, PipelineMoves
      <4>2. pipeline' = [pipeline EXCEPT !.ended = TRUE]
        BY <2>5 DEF EndOfStream, PipelineFails
      <4>3. \A m \in Messages : Append(bus, m) \in Seq(Messages)
        BY <1>0
      <4>4. bus' \in Seq(Messages)
        BY <3>1, <4>1, <4>3
      <4> QED
        BY <1>0, <4>2, <4>4 DEF Pipelines
  <2>6. CASE EndAudio \/ EndVideo \/ PushAudioFrame
    BY <1>0, <2>6 DEF EndAudio, EndVideo, PushAudioFrame, StopMoves, Pipelines
  <2>7. CASE PipelineToNull
    BY <1>0, <2>7 DEF PipelineToNull
  <2>8. CASE UNCHANGED <<pipeline, bus>>
    BY <1>0, <2>8
  <2> QED
    BY <2>1, <2>2, <2>3, <2>4, <2>5, <2>6, <2>7, <2>8 DEF RecorderNext, RegisterConsumer,
       BusEmpty, EosTimeout, WriteFrame, AcquireDmaBuffer, WriteFails, WrapFrame, PushFrame,
       DmaBufferReleased, StopRecorder, UnregisterConsumer, TakeAudioSource, DispatchAudio,
       StopMoves, Unmoved, recorderVars
<1> QED
  BY <1>1, <1>2, <1>3, <1>4 DEF RecorderTyped

\* The recorder thread, step by step.
LEMMA LeaseStep ==
  ASSUME RecorderInv, [RecorderNext]_recorderVars PROVE LeaseInv' /\ AudioInv' /\ AudioEndsAtEos'
<1>0. /\ recorder \in Recorders /\ thread \in Threads /\ pipeline \in Pipelines
      /\ LeaseInv /\ AudioInv /\ AudioEndsAtEos
  BY DEF RecorderInv, RecorderTyped
<1>1. CASE StartSegmented
  <2>1. recorder.recording + 1 \in Recording
    BY <1>0, <1>1, RecorderAssumption DEF StartSegmented, Recorders, Recording
  <2>2. /\ recorder' = Fresh(recorder.recording + 1) /\ pipeline' = NoStream
        /\ thread' = [Resting EXCEPT !.pc = "register"]
    BY <1>1 DEF StartSegmented
  <2>3. recorder'.running /\ recorder'.recording \in Recording
    BY <2>1, <2>2 DEF Fresh, Idle
  <2>4. thread'.pc = "register" /\ thread'.lease = NoLease
    BY <2>2 DEF Resting
  <2>5. ~pipeline'.audioEos /\ ~pipeline'.late
    BY <2>2 DEF NoStream
  <2> QED
    BY <2>3, <2>4, <2>5 DEF LeaseInv, AudioInv, AudioEndsAtEos
<1>2. CASE ProcessBusMessage
  <2>1. UNCHANGED pipeline
    BY <1>2 DEF ProcessBusMessage
  <2>2. /\ thread'.lease = thread.lease
        /\ recorder'.recording = recorder.recording /\ recorder'.running = recorder.running
        /\ recorder'.audioSrc = recorder.audioSrc
        /\ \/ thread'.pc = thread.pc
           \/ thread'.pc = "stop" /\ thread.pc = "bus"
           \/ thread'.pc \in {"null", "drain"} /\ thread.pc \in {"wait", "drain"}
    BY <1>2, ProcessBusTypes DEF RecorderInv
  <2> QED
    BY <1>0, <2>1, <2>2 DEF LeaseInv, AudioInv, AudioEndsAtEos
<1>3. CASE RegisterConsumer \/ BusEmpty \/ EosTimeout \/ WriteFrame
  <2>1. /\ UNCHANGED pipeline /\ recorder'.recording = recorder.recording
        /\ recorder'.running = recorder.running /\ recorder'.audioSrc = recorder.audioSrc
    BY <1>0, <1>3 DEF RegisterConsumer, BusEmpty, EosTimeout, WriteFrame, Unmoved, Recorders
  <2>2. /\ thread.pc # "copy" /\ thread'.lease = NoLease
        /\ thread'.pc = "idle" \/ recorder.running
        /\ thread'.pc # "copy"
        /\ \/ thread'.pc \notin {"audioEos", "videoEos", "wait", "drain", "null"}
           \/ thread.pc \in {"wait", "drain"}
    BY <1>0, <1>3 DEF RegisterConsumer, BusEmpty, EosTimeout, WriteFrame, Unmoved, Resting,
       NoLease, LeaseInv, Threads
  <2> QED
    BY <1>0, <2>1, <2>2 DEF LeaseInv, AudioInv, AudioEndsAtEos
<1>4. CASE AcquireDmaBuffer
  <2>1. NoLease \notin Slot
    BY DEF Slot, NoLease
  <2>2. thread.pc = "acquire" /\ UNCHANGED <<recorder, pipeline>>
    BY <1>4 DEF AcquireDmaBuffer, Unmoved
  <2>3. \/ \E s \in Slot : thread' = [thread EXCEPT !.pc = "copy", !.lease = s]
        \/ thread' = Resting \/ thread' = [thread EXCEPT !.pc = "stop"]
    BY <1>4 DEF AcquireDmaBuffer
  <2>4. /\ thread'.pc \in {"copy", "idle", "stop"}
        /\ thread'.pc = "copy" <=> thread'.lease # NoLease
    <3>1. thread.lease = NoLease /\ Resting.pc = "idle" /\ Resting.lease = NoLease
      BY <1>0, <2>2 DEF LeaseInv, Resting
    <3>2. CASE thread' = Resting
      BY <3>1, <3>2
    <3>3. CASE thread' = [thread EXCEPT !.pc = "stop"]
      BY <1>0, <3>1, <3>3 DEF Threads
    <3>4. ASSUME NEW s \in Slot, thread' = [thread EXCEPT !.pc = "copy", !.lease = s]
          PROVE  thread'.pc = "copy" /\ thread'.lease # NoLease
      BY <1>0, <2>1, <3>4 DEF Threads
    <3> QED
      BY <2>3, <3>2, <3>3, <3>4
  <2> QED
    BY <1>0, <2>2, <2>4 DEF LeaseInv, AudioInv, AudioEndsAtEos
<1>5. CASE WriteFails \/ WrapFrame \/ PushFrame
  <2>1. thread.pc \in {"copy", "push"} /\ UNCHANGED <<recorder, pipeline>>
    BY <1>5 DEF WriteFails, WrapFrame, PushFrame, Unmoved
  <2>2. thread'.pc \in {"push", "idle", "stop"} /\ thread'.lease = NoLease
    <3>1. /\ Resting.pc = "idle" /\ Resting.lease = NoLease
          /\ [Resting EXCEPT !.pc = "stop"].pc = "stop"
          /\ [Resting EXCEPT !.pc = "stop"].lease = NoLease
      BY DEF Resting
    <3>2. CASE WriteFails \/ PushFrame
      BY <3>1, <3>2 DEF WriteFails, PushFrame
    <3>3. CASE WrapFrame
      BY <1>0, <3>3 DEF WrapFrame, Threads
    <3> QED
      BY <1>5, <3>2, <3>3
  <2> QED
    BY <1>0, <2>1, <2>2 DEF LeaseInv, AudioInv, AudioEndsAtEos
<1>6. CASE StopRecorder \/ UnregisterConsumer \/ TakeAudioSource
  BY <1>0, <1>6 DEF StopRecorder, UnregisterConsumer, TakeAudioSource, StopMoves, LeaseInv,
     AudioInv, AudioEndsAtEos, Recorders, Threads
<1>7. CASE EndAudio \/ EndVideo
  BY <1>0, <1>7 DEF EndAudio, EndVideo, StopMoves, LeaseInv, AudioInv, AudioEndsAtEos, Threads,
     Pipelines
<1>8. CASE PipelineToNull
  BY <1>0, <1>8 DEF PipelineToNull, Idle, LeaseInv, AudioInv, AudioEndsAtEos, Threads
<1>9. CASE PushAudioFrame
  BY <1>0, <1>9 DEF PushAudioFrame, LeaseInv, AudioInv, AudioEndsAtEos, Pipelines
<1>10. CASE OpenFragment \/ CloseFragment \/ EndOfStream \/ PipelineFails
  BY <1>0, <1>10 DEF OpenFragment, CloseFragment, EndOfStream, PipelineFails, PipelineMoves,
     LeaseInv, AudioInv, AudioEndsAtEos, Pipelines
<1>11. CASE UNCHANGED <<recorder, thread, pipeline>>
  BY <1>0, <1>11 DEF LeaseInv, AudioInv, AudioEndsAtEos
<1> QED
  BY <1>1, <1>2, <1>3, <1>4, <1>5, <1>6, <1>7, <1>8, <1>9, <1>10, <1>11 DEF RecorderNext,
     DmaBufferReleased, DispatchAudio, Unmoved, recorderVars

LEMMA SlotsStep ==
  ASSUME RecorderInv, [RecorderNext]_recorderVars PROVE SlotsAreAccounted'
<1>0. /\ recorder \in Recorders /\ thread \in Threads /\ LeaseInv /\ SlotsAreAccounted
      /\ inUse \in [Recording -> SUBSET Slot] /\ held \in [Recording -> SUBSET Slot]
  BY DEF RecorderInv, RecorderTyped
\* No slot changes hands.
<1>1. ASSUME UNCHANGED <<inUse, held>>, thread'.lease = thread.lease,
             recorder'.recording = recorder.recording \/ thread.lease = NoLease
      PROVE  SlotsAreAccounted'
  BY <1>0, <1>1 DEF SlotsAreAccounted
<1>2. CASE StartSegmented \/ RegisterConsumer \/ BusEmpty \/ EosTimeout \/ WriteFrame \/ PushFrame
  <2>0. thread.pc # "copy" /\ thread.lease = NoLease
    BY <1>0, <1>2 DEF StartSegmented, RegisterConsumer, BusEmpty, EosTimeout, WriteFrame,
       PushFrame, LeaseInv
  <2>1. UNCHANGED <<inUse, held>> /\ thread'.lease = thread.lease
    <3>1. /\ [Resting EXCEPT !.pc = "register"].lease = NoLease /\ Resting.lease = NoLease
          /\ [Resting EXCEPT !.pc = "bus"].lease = NoLease
          /\ [Resting EXCEPT !.pc = "stop"].lease = NoLease
      BY DEF Resting
    <3>2. CASE StartSegmented \/ WriteFrame \/ PushFrame
      BY <2>0, <3>1, <3>2 DEF StartSegmented, WriteFrame, PushFrame
    <3>3. CASE RegisterConsumer \/ BusEmpty \/ EosTimeout
      BY <1>0, <3>3 DEF RegisterConsumer, BusEmpty, EosTimeout, Threads
    <3> QED
      BY <1>2, <3>2, <3>3
  <2>2. recorder'.recording = recorder.recording \/ thread.lease = NoLease
    BY <1>0, <1>2 DEF StartSegmented, RegisterConsumer, BusEmpty, EosTimeout, WriteFrame,
       PushFrame, Recorders, LeaseInv, Unmoved
  <2> QED
    BY <1>1, <2>1, <2>2
<1>3. CASE ProcessBusMessage
  <2>1. UNCHANGED <<inUse, held>>
    BY <1>3 DEF ProcessBusMessage
  <2> QED
    BY <1>1, <1>3, <2>1, ProcessBusTypes DEF RecorderInv
<1>4. CASE StopRecorder \/ UnregisterConsumer \/ TakeAudioSource \/ EndAudio \/ EndVideo
           \/ PipelineToNull
  <2>1. /\ UNCHANGED <<inUse, held>> /\ thread'.lease = thread.lease
        /\ recorder'.recording = recorder.recording
    BY <1>0, <1>4 DEF StopRecorder, UnregisterConsumer, TakeAudioSource, EndAudio, EndVideo,
       PipelineToNull, StopMoves, Threads, Recorders, Idle
  <2> QED
    BY <1>1, <2>1
<1>5. CASE UNCHANGED <<recorder, thread, inUse, held>>
  BY <1>1, <1>5
<1>6. CASE AcquireDmaBuffer
  <2>1. CASE UNCHANGED inUse
    <3>1. thread'.lease = thread.lease
      <4>1. thread.lease = NoLease
        BY <1>0, <1>6 DEF AcquireDmaBuffer, LeaseInv
      <4>2. thread' = Resting \/ thread' = [thread EXCEPT !.pc = "stop"]
        <5>1. ASSUME NEW s \in Slot \ Pool,
                     inUse' = [inUse EXCEPT ![recorder.recording] = @ \union {s}]
              PROVE  FALSE
          BY <1>0, <1>6, <2>1, <5>1 DEF AcquireDmaBuffer, LeaseInv, Pool
        <5> QED
          BY <1>6, <5>1 DEF AcquireDmaBuffer
      <4> QED
        BY <1>0, <4>1, <4>2 DEF Resting, Threads
    <3> QED
      BY <1>1, <1>6, <2>1, <3>1 DEF AcquireDmaBuffer, Unmoved
  <2>2. ASSUME NEW s \in Slot \ Pool,
               inUse' = [inUse EXCEPT ![recorder.recording] = @ \union {s}],
               thread' = [thread EXCEPT !.pc = "copy", !.lease = s]
        PROVE  SlotsAreAccounted'
    <3>0. thread.pc = "acquire"
      BY <1>6 DEF AcquireDmaBuffer
    <3>1. thread.lease = NoLease /\ recorder.recording \in Recording /\ s # NoLease
      BY <1>0, <3>0 DEF LeaseInv, Slot, NoLease
    <3>2. UNCHANGED <<recorder, held>> /\ thread'.lease = s
      BY <1>0, <1>6, <2>2 DEF AcquireDmaBuffer, Unmoved, Threads
    <3> QED
      BY <1>0, <2>2, <3>1, <3>2 DEF SlotsAreAccounted, Pool
  <2> QED
    BY <1>6, <2>1, <2>2 DEF AcquireDmaBuffer
<1>7. CASE WriteFails
  <2>1. /\ thread.lease # NoLease /\ recorder.recording \in Recording /\ thread'.lease = NoLease
        /\ UNCHANGED <<recorder, held>>
        /\ inUse' = [inUse EXCEPT ![recorder.recording] = @ \ {thread.lease}]
    BY <1>0, <1>7 DEF WriteFails, LeaseInv, Resting, Unmoved, Released
  <2> QED
    BY <1>0, <2>1 DEF SlotsAreAccounted
<1>8. CASE WrapFrame
  <2>1. /\ thread.lease # NoLease /\ recorder.recording \in Recording /\ thread'.lease = NoLease
        /\ UNCHANGED <<recorder, inUse>>
        /\ held' = [held EXCEPT ![recorder.recording] = @ \union {thread.lease}]
    BY <1>0, <1>8 DEF WrapFrame, LeaseInv, Unmoved, Threads
  <2> QED
    BY <1>0, <2>1 DEF SlotsAreAccounted
<1>9. CASE DmaBufferReleased
  <2>1. PICK r \in Recording, s \in Slot :
          /\ s \in held[r]
          /\ held' = [held EXCEPT ![r] = @ \ {s}] /\ inUse' = [inUse EXCEPT ![r] = @ \ {s}]
          /\ UNCHANGED <<recorder, thread>>
    BY <1>0, <1>9 DEF DmaBufferReleased, Released, Unmoved
  <2> QED
    BY <1>0, <2>1 DEF SlotsAreAccounted
<1> QED
  BY <1>2, <1>3, <1>4, <1>5, <1>6, <1>7, <1>8, <1>9 DEF RecorderNext, DispatchAudio,
     PushAudioFrame, OpenFragment, CloseFragment, EndOfStream, PipelineFails, PipelineMoves,
     recorderVars

LEMMA RecorderStep ==
  ASSUME RecorderInv, [RecorderNext]_recorderVars PROVE RecorderInv'
BY RecorderTypesStep, LeaseStep, SlotsStep DEF RecorderInv

-----------------------------------------------------------------------------
(* The bus.                                                                *)

\* A step that leaves the bus and the segments alone.
LEMMA SegmentsRest ==
  ASSUME SegmentInv, UNCHANGED <<bus, told>>, EosInv',
         recorder'.running = recorder.running, recorder'.nextIndex = recorder.nextIndex,
         recorder'.lastEnd = recorder.lastEnd, recorder'.started = recorder.started,
         recorder'.index = recorder.index,
         pipeline'.opened = pipeline.opened, pipeline'.closed = pipeline.closed,
         thread'.eos /\ thread'.whole => Len(told) = pipeline.opened
  PROVE  SegmentInv'
<1>1. /\ OpeningsInv => OpeningsInv'
      /\ EndingsInv => EndingsInv'
      /\ NumbersInv => NumbersInv'
  BY DEF OpeningsInv, EndingsInv, NumbersInv, OnBus, ToldOf
<1>2. SegmentsAreTold'
  BY DEF SegmentInv, SegmentsAreTold, Ordered
<1> QED
  BY <1>1, <1>2 DEF SegmentInv

\* One more message: what was there stays where it was.
LEMMA Appended ==
  ASSUME NEW m \in Messages, RecorderTyped, bus' = Append(bus, m)
  PROVE  /\ Len(bus) \in Nat /\ Len(bus') = Len(bus) + 1
         /\ \A i \in 1..Len(bus) : bus'[i] = bus[i]
         /\ bus'[Len(bus) + 1] = m
         /\ \A i \in 1..Len(bus') : i \in 1..Len(bus) \/ i = Len(bus) + 1
BY DEF RecorderTyped

LEMMA PipelineStep ==
  ASSUME RecorderInv, SegmentInv,
         OpenFragment \/ CloseFragment \/ EndOfStream \/ PipelineFails
  PROVE  SegmentInv'
<1>0. /\ recorder.running /\ UNCHANGED <<recorder, thread, told>>
      /\ OpeningsInv /\ EndingsInv /\ NumbersInv
  BY DEF OpenFragment, CloseFragment, EndOfStream, PipelineFails, PipelineMoves, SegmentInv
<1>1. /\ RecorderTyped /\ pipeline \in Pipelines /\ recorder.nextIndex \in Nat
      /\ pipeline.opened \in Nat /\ pipeline.opened <= MaxFragments /\ MaxFragments \in Nat
      /\ pipeline.closed \subseteq 1..pipeline.opened
      /\ recorder.nextIndex <= pipeline.opened
  BY <1>0, RecorderAssumption DEF RecorderInv, RecorderTyped, Pipelines, Recorders, OpeningsInv,
     EndingsInv
<1>2. NumbersInv'
  BY <1>0 DEF NumbersInv, ToldOf
<1>3. CASE OpenFragment
  <2> DEFINE f == pipeline.opened + 1
  <2>1. /\ f \in Fragment /\ bus' = Append(bus, Opened(f)) /\ ~pipeline.ended
        /\ pipeline' = [pipeline EXCEPT !.opened = f]
    BY <1>1, <1>3 DEF OpenFragment, PipelineMoves, Fragment
  <2>2. pipeline'.opened = f /\ pipeline'.closed = pipeline.closed
    BY <1>1, <2>1 DEF Pipelines
  <2>3. /\ Opened(f) \in Messages /\ Opened(f).type = "opened" /\ Opened(f).fragment = f
        /\ Opened(f).time = f - 1
    BY <2>1, MessageTypes
  <2>4. /\ Len(bus) \in Nat /\ Len(bus') = Len(bus) + 1
        /\ \A i \in 1..Len(bus) : bus'[i] = bus[i]
        /\ bus'[Len(bus) + 1].type = "opened" /\ bus'[Len(bus) + 1].fragment = f
        /\ bus'[Len(bus) + 1].time = f - 1
        /\ \A i \in 1..Len(bus') : i \in 1..Len(bus) \/ i = Len(bus) + 1
    BY <1>1, <2>1, <2>3, Appended
  <2>5. OpeningsInv'
    <3>1. \A i \in 1..Len(bus') : bus'[i].type = "opened" =>
            /\ bus'[i].fragment \in (recorder'.nextIndex + 1)..pipeline'.opened
            /\ bus'[i].time = bus'[i].fragment - 1
      BY <1>0, <1>1, <2>2, <2>4 DEF OpeningsInv
    <3>2. ASSUME NEW i \in 1..Len(bus'), NEW j \in 1..Len(bus'),
                 i < j, bus'[i].type = "opened", bus'[j].type = "opened"
          PROVE  bus'[i].fragment < bus'[j].fragment
      <4>1. i \in 1..Len(bus) /\ bus'[i] = bus[i] /\ bus[i].fragment \in (recorder.nextIndex + 1)..pipeline.opened
        BY <1>0, <2>4, <3>2 DEF OpeningsInv
      <4>2. CASE j = Len(bus) + 1
        BY <1>1, <2>4, <4>1, <4>2
      <4>3. CASE j \in 1..Len(bus)
        BY <1>0, <2>4, <3>2, <4>1, <4>3 DEF OpeningsInv
      <4> QED
        BY <2>4, <4>2, <4>3
    <3>3. ASSUME NEW g \in (recorder'.nextIndex + 1)..pipeline'.opened
          PROVE  \E i \in 1..Len(bus') : OnBus("opened", g, i)'
      <4>1. CASE g = f
        BY <2>4, <4>1 DEF OnBus
      <4>2. CASE g # f
        <5>1. PICK i \in 1..Len(bus) : OnBus("opened", g, i)
          BY <1>0, <1>1, <2>2, <4>2 DEF OpeningsInv
        <5> QED
          BY <2>4, <5>1 DEF OnBus
      <4> QED
        BY <4>1, <4>2
    <3> QED
      BY <1>0, <1>1, <2>2, <3>1, <3>2, <3>3 DEF OpeningsInv
  <2>6. EndingsInv'
    <3>1. ASSUME NEW i \in 1..Len(bus'), bus'[i].type = "closed"
          PROVE  /\ i \in 1..Len(bus) /\ bus'[i] = bus[i]
                 /\ \A j \in 1..(i-1) : bus'[j] = bus[j]
      BY <2>4, <3>1
    <3>2. \A i \in 1..Len(bus') : bus'[i].type = "closed" =>
            /\ bus'[i].fragment \in pipeline'.closed /\ ~ToldOf(bus[i].fragment)'
            /\ bus'[i].time = bus'[i].fragment
            /\ \/ bus'[i].fragment <= recorder'.nextIndex
               \/ \E j \in 1..(i-1) : bus'[j].type = "opened" /\ bus'[j].fragment = bus'[i].fragment
      BY <1>0, <2>2, <3>1 DEF EndingsInv, ToldOf, OnBus
    <3>3. \A g \in pipeline'.closed : ToldOf(g)' \/ \E i \in 1..Len(bus') : OnBus("closed", g, i)'
      BY <1>0, <2>2, <2>4 DEF EndingsInv, ToldOf, OnBus
    <3>4. pipeline'.closed \subseteq 1..pipeline'.opened
      BY <1>1, <2>2
    <3> QED
      BY <1>0, <2>2, <3>1, <3>2, <3>3, <3>4 DEF EndingsInv, ToldOf, OnBus
  <2>7. EosInv' /\ SegmentsAreTold' /\ (\A i \in 1..Len(told') : told'[i].fragment \in pipeline'.closed)
    <3>1. ~thread.eos /\ \A i \in 1..Len(bus) : bus[i].type # "eos"
      BY <2>1 DEF SegmentInv, EosInv
    <3>2. ~thread'.eos /\ \A i \in 1..Len(bus') : bus'[i].type # "eos"
      BY <1>0, <2>4, <3>1
    <3> QED
      BY <1>0, <2>2, <3>2 DEF SegmentInv, EosInv, SegmentsAreTold, Ordered
  <2> QED
    BY <1>0, <1>2, <2>5, <2>6, <2>7 DEF SegmentInv
<1>4. CASE CloseFragment
  <2>1. PICK f \in 1..pipeline.opened :
          /\ f \notin pipeline.closed /\ bus' = Append(bus, Closed(f))
          /\ pipeline' = [pipeline EXCEPT !.closed = pipeline.closed \union {f}]
    BY <1>4 DEF CloseFragment, PipelineMoves
  <2>2. pipeline'.opened = pipeline.opened /\ pipeline'.closed = pipeline.closed \union {f}
        /\ pipeline'.ended = pipeline.ended
    BY <1>1, <2>1 DEF Pipelines
  <2>3. f \in Fragment
    BY <1>1 DEF Fragment
  <2>4. /\ Closed(f) \in Messages /\ Closed(f).type = "closed" /\ Closed(f).fragment = f
        /\ Closed(f).time = f
    BY <2>3, MessageTypes
  <2>5. /\ Len(bus) \in Nat /\ Len(bus') = Len(bus) + 1
        /\ \A i \in 1..Len(bus) : bus'[i] = bus[i]
        /\ bus'[Len(bus) + 1].type = "closed" /\ bus'[Len(bus) + 1].fragment = f
        /\ bus'[Len(bus) + 1].time = f
        /\ \A i \in 1..Len(bus') : i \in 1..Len(bus) \/ i = Len(bus) + 1
    BY <1>1, <2>1, <2>4, Appended
  <2>6. OpeningsInv'
    <3>1. \A i \in 1..Len(bus') : bus'[i].type = "opened" => i \in 1..Len(bus) /\ bus'[i] = bus[i]
      BY <2>5
    <3>2. \A g \in (recorder.nextIndex + 1)..pipeline.opened : \E i \in 1..Len(bus') :
            bus'[i].type = "opened" /\ bus'[i].fragment = g
      BY <1>0, <2>5 DEF OpeningsInv, OnBus
    <3> QED
      BY <1>0, <2>2, <3>1, <3>2 DEF OpeningsInv, OnBus
  <2>7. ~ToldOf(f)
    BY <2>1 DEF SegmentInv, ToldOf
  <2>8. EndingsInv'
    <3>1. \A g : ToldOf(g)' <=> ToldOf(g)
      BY <1>0 DEF ToldOf
    <3>2. f <= recorder.nextIndex \/ \E j \in 1..Len(bus) : OnBus("opened", f, j)
      BY <1>0, <1>1 DEF OpeningsInv
    <3>3. ASSUME NEW i \in 1..Len(bus'), bus'[i].type = "closed"
          PROVE  /\ bus'[i].fragment \in pipeline'.closed
                 /\ \A k \in 1..Len(told') : told'[k].fragment # bus'[i].fragment
                 /\ bus'[i].time = bus'[i].fragment
                 /\ \/ bus'[i].fragment <= recorder'.nextIndex
                    \/ \E j \in 1..(i-1) : bus'[j].type = "opened" /\ bus'[j].fragment = bus'[i].fragment
      <4>1. CASE i = Len(bus) + 1
        <5>1. i - 1 = Len(bus)
          BY <2>5, <4>1
        <5> QED
          BY <1>0, <2>2, <2>5, <2>7, <3>2, <4>1, <5>1 DEF ToldOf, OnBus
      <4>2. CASE i \in 1..Len(bus)
        <5>1. bus'[i] = bus[i] /\ \A j \in 1..(i-1) : bus'[j] = bus[j]
          BY <2>5, <4>2
        <5> QED
          BY <1>0, <2>2, <3>3, <4>2, <5>1 DEF EndingsInv, ToldOf, OnBus
      <4> QED
        BY <2>5, <4>1, <4>2
    <3>4. ASSUME NEW i \in 1..Len(bus'), NEW j \in 1..Len(bus'), bus'[i].type = "closed",
                 bus'[j].type = "closed", bus'[i].fragment = bus'[j].fragment
          PROVE  i = j
      <4>1. \A k \in 1..Len(bus) : bus[k].type = "closed" => bus[k].fragment # f
        BY <1>0, <2>1 DEF EndingsInv
      <4> QED
        BY <1>0, <2>5, <3>4, <4>1 DEF EndingsInv
    <3>5. \A g \in pipeline'.closed : ToldOf(g)' \/ \E i \in 1..Len(bus') : OnBus("closed", g, i)'
      BY <1>0, <2>2, <2>5, <3>1 DEF EndingsInv, OnBus
    <3>6. pipeline'.closed \subseteq 1..pipeline'.opened
      BY <1>1, <2>2
    <3> QED
      BY <3>3, <3>4, <3>5, <3>6 DEF EndingsInv, ToldOf, OnBus
  <2>9. EosInv' /\ SegmentsAreTold' /\ (\A i \in 1..Len(told') : told'[i].fragment \in pipeline'.closed)
    <3>1. ~thread.eos /\ \A i \in 1..Len(bus) : bus[i].type # "eos"
      BY <2>1 DEF SegmentInv, EosInv
    <3>2. ~thread'.eos /\ \A i \in 1..Len(bus') : bus'[i].type # "eos"
      BY <1>0, <2>5, <3>1
    <3> QED
      BY <1>0, <2>2, <3>2 DEF SegmentInv, EosInv, SegmentsAreTold, Ordered
  <2> QED
    BY <1>0, <1>2, <2>6, <2>8, <2>9 DEF SegmentInv
<1>5. CASE EndOfStream \/ PipelineFails
  <2>1. PICK m \in {Eos, BusError} :
          /\ bus' = Append(bus, m) /\ ~pipeline.ended
          /\ m = Eos => pipeline.closed = 1..pipeline.opened
          /\ pipeline' = [pipeline EXCEPT !.ended = TRUE]
    <3>1. BusError # Eos
      BY DEF Eos, BusError
    <3>2. CASE EndOfStream
      BY <3>2 DEF EndOfStream, PipelineMoves
    <3>3. CASE PipelineFails
      BY <3>1, <3>3 DEF PipelineFails, PipelineMoves
    <3> QED
      BY <1>5, <3>2, <3>3
  <2>2. pipeline'.opened = pipeline.opened /\ pipeline'.closed = pipeline.closed
        /\ pipeline'.ended
    BY <1>1, <2>1 DEF Pipelines
  <2>3. m \in Messages /\ m.type \notin {"opened", "closed"} /\ (m.type = "eos" => m = Eos)
    BY DEF Messages, Eos, BusError
  <2>4. /\ Len(bus) \in Nat /\ Len(bus') = Len(bus) + 1
        /\ \A i \in 1..Len(bus) : bus'[i] = bus[i]
        /\ bus'[Len(bus) + 1] = m
        /\ \A i \in 1..Len(bus') : i \in 1..Len(bus) \/ i = Len(bus) + 1
    BY <1>1, <2>1, <2>3, Appended
  <2>5. \A i \in 1..Len(bus') : bus'[i].type \in {"opened", "closed"} =>
          i \in 1..Len(bus) /\ bus'[i] = bus[i] /\ \A j \in 1..(i-1) : bus'[j] = bus[j]
    BY <2>3, <2>4
  <2>6. OpeningsInv'
    <3>1. \A g \in (recorder.nextIndex + 1)..pipeline.opened : \E i \in 1..Len(bus') :
            bus'[i].type = "opened" /\ bus'[i].fragment = g
      BY <1>0, <2>4 DEF OpeningsInv, OnBus
    <3> QED
      BY <1>0, <2>2, <2>5, <3>1 DEF OpeningsInv, OnBus
  <2>7. EndingsInv'
    <3>1. \A g \in pipeline'.closed : ToldOf(g)' \/ \E i \in 1..Len(bus') : OnBus("closed", g, i)'
      BY <1>0, <2>2, <2>4 DEF EndingsInv, ToldOf, OnBus
    <3>2. \A i \in 1..Len(bus') : bus'[i].type = "closed" =>
            /\ bus'[i].fragment \in pipeline'.closed
            /\ \A k \in 1..Len(told') : told'[k].fragment # bus'[i].fragment
            /\ bus'[i].time = bus'[i].fragment
            /\ \/ bus'[i].fragment <= recorder'.nextIndex
               \/ \E j \in 1..(i-1) : bus'[j].type = "opened" /\ bus'[j].fragment = bus'[i].fragment
      BY <1>0, <2>2, <2>5 DEF EndingsInv, ToldOf, OnBus
    <3> QED
      BY <1>0, <2>2, <2>5, <3>1, <3>2 DEF EndingsInv, ToldOf, OnBus
  <2>8. EosInv' /\ SegmentsAreTold' /\ (\A i \in 1..Len(told') : told'[i].fragment \in pipeline'.closed)
    <3>1. ~thread.eos /\ \A i \in 1..Len(bus) : bus[i].type # "eos"
      BY <2>1 DEF SegmentInv, EosInv
    <3>2. ~thread'.eos /\ \A i \in 1..Len(bus') : bus'[i].type = "eos" => m = Eos
      BY <1>0, <2>3, <2>4, <3>1
    <3> QED
      BY <1>0, <2>1, <2>2, <3>2 DEF SegmentInv, EosInv, SegmentsAreTold, Ordered
  <2> QED
    BY <1>0, <1>2, <2>6, <2>7, <2>8 DEF SegmentInv
<1> QED
  BY <1>3, <1>4, <1>5

\* The first message is taken: the others move up.
LEMMA Moved ==
  ASSUME RecorderTyped, bus # <<>>, bus' = Tail(bus)
  PROVE  /\ Len(bus) \in Nat \ {0} /\ Len(bus') = Len(bus) - 1 /\ Head(bus) = bus[1]
         /\ bus[1] \in Messages
         /\ \A i \in 1..Len(bus') : i + 1 \in 2..Len(bus) /\ bus'[i] = bus[i + 1]
         /\ \A i \in 2..Len(bus) : i - 1 \in 1..Len(bus') /\ bus'[i - 1] = bus[i]
BY DEF RecorderTyped

\* The openings and the ends, when the message says neither.
LEMMA ErrorOrEos ==
  ASSUME RecorderInv, SegmentInv, recorder.running, bus # <<>>, bus' = Tail(bus),
         Head(bus).type \notin {"opened", "closed"}, UNCHANGED <<recorder, pipeline, told>>
  PROVE  OpeningsInv' /\ EndingsInv' /\ NumbersInv'
<1>1. /\ RecorderTyped /\ OpeningsInv /\ EndingsInv /\ NumbersInv
  BY DEF RecorderInv, SegmentInv
<1>2. /\ Len(bus) \in Nat \ {0} /\ Len(bus') = Len(bus) - 1
      /\ bus[1].type \notin {"opened", "closed"}
      /\ \A i \in 1..Len(bus') : i + 1 \in 2..Len(bus) /\ bus'[i] = bus[i + 1]
      /\ \A i \in 2..Len(bus) : i - 1 \in 1..Len(bus') /\ bus'[i - 1] = bus[i]
  BY <1>1, Moved
<1>3. OpeningsInv'
  <2>1. ASSUME NEW i \in 1..Len(bus'), NEW j \in 1..Len(bus'),
               i < j, bus'[i].type = "opened", bus'[j].type = "opened"
        PROVE  bus'[i].fragment < bus'[j].fragment
    <3>1. i + 1 \in 1..Len(bus) /\ j + 1 \in 1..Len(bus) /\ i + 1 < j + 1
      BY <1>2, <2>1
    <3> QED
      BY <1>1, <1>2, <2>1, <3>1 DEF OpeningsInv
  <2>2. ASSUME NEW g \in (recorder.nextIndex + 1)..pipeline.opened
        PROVE  \E i \in 1..Len(bus') : bus'[i].type = "opened" /\ bus'[i].fragment = g
    <3>1. PICK i \in 1..Len(bus) : bus[i].type = "opened" /\ bus[i].fragment = g
      BY <1>1 DEF OpeningsInv, OnBus
    <3>2. i \in 2..Len(bus)
      BY <1>2, <3>1
    <3> QED
      BY <1>2, <3>1, <3>2
  <2>3. \A i \in 1..Len(bus') : i + 1 \in 1..Len(bus)
    BY <1>2
  <2> QED
    BY <1>1, <1>2, <2>1, <2>2, <2>3 DEF OpeningsInv, OnBus
<1>4. EndingsInv'
  <2>1. ASSUME NEW i \in 1..Len(bus'), bus'[i].type = "closed"
        PROVE  /\ bus'[i].fragment \in pipeline.closed
               /\ \A k \in 1..Len(told) : told[k].fragment # bus'[i].fragment
               /\ bus'[i].time = bus'[i].fragment
               /\ \/ bus'[i].fragment <= recorder.nextIndex
                  \/ \E j \in 1..(i-1) : bus'[j].type = "opened" /\ bus'[j].fragment = bus'[i].fragment
    <3>1. i + 1 \in 1..Len(bus) /\ bus'[i] = bus[i + 1] /\ (i + 1) - 1 = i
      BY <1>2
    <3>2. /\ bus'[i].fragment \in pipeline.closed /\ ~ToldOf(bus[i + 1].fragment)
          /\ bus'[i].time = bus'[i].fragment
          /\ \/ bus'[i].fragment <= recorder.nextIndex
             \/ \E j \in 1..i : OnBus("opened", bus[i + 1].fragment, j)
      BY <1>1, <2>1, <3>1 DEF EndingsInv
    <3>3. ASSUME NEW j \in 1..i, OnBus("opened", bus[i + 1].fragment, j)
          PROVE  \E l \in 1..(i-1) : bus'[l].type = "opened" /\ bus'[l].fragment = bus'[i].fragment
      <4>1. j \in 2..Len(bus) /\ j - 1 \in 1..(i-1)
        BY <1>2, <3>3 DEF OnBus
      <4> QED
        BY <1>2, <3>1, <3>3, <4>1 DEF OnBus
    <3> QED
      BY <3>1, <3>2, <3>3 DEF ToldOf
  <2>2. ASSUME NEW i \in 1..Len(bus'), NEW j \in 1..Len(bus'), bus'[i].type = "closed",
               bus'[j].type = "closed", bus'[i].fragment = bus'[j].fragment
        PROVE  i = j
    <3>1. i + 1 \in 1..Len(bus) /\ j + 1 \in 1..Len(bus)
      BY <1>2
    <3>2. i + 1 = j + 1
      BY <1>1, <1>2, <2>2, <3>1 DEF EndingsInv
    <3> QED
      BY <3>2
  <2>3. ASSUME NEW g \in pipeline.closed, ~ToldOf(g)
        PROVE  \E i \in 1..Len(bus') : bus'[i].type = "closed" /\ bus'[i].fragment = g
    <3>1. PICK i \in 1..Len(bus) : bus[i].type = "closed" /\ bus[i].fragment = g
      BY <1>1, <2>3 DEF EndingsInv, OnBus
    <3>2. i \in 2..Len(bus)
      BY <1>2, <3>1
    <3> QED
      BY <1>2, <3>1, <3>2
  <2>4. pipeline.closed \subseteq 1..pipeline.opened
    BY <1>1 DEF EndingsInv
  <2>5. /\ \A i \in 1..Len(bus') : bus'[i].type = "closed" =>
             /\ bus'[i].fragment \in pipeline'.closed /\ ~ToldOf(bus[i].fragment)'
             /\ bus'[i].time = bus'[i].fragment
             /\ \/ bus'[i].fragment <= recorder'.nextIndex
                \/ \E j \in 1..(i-1) : OnBus("opened", bus[i].fragment, j)'
    BY <2>1 DEF ToldOf, OnBus
  <2> QED
    BY <2>2, <2>3, <2>4, <2>5 DEF EndingsInv, ToldOf, OnBus
<1>5. NumbersInv'
  BY <1>1 DEF NumbersInv, ToldOf
<1> QED
  BY <1>3, <1>4, <1>5

\* splitmuxsink-fragment-opened: the fragments are opened in their order, so that this is
\* the next one.
LEMMA OpenedStep ==
  ASSUME RecorderInv, SegmentInv, recorder.running, bus # <<>>, bus' = Tail(bus),
         Head(bus).type = "opened", FragmentOpened(Head(bus)), UNCHANGED pipeline
  PROVE  OpeningsInv' /\ EndingsInv' /\ NumbersInv' /\ UNCHANGED told
<1> DEFINE f == bus[1].fragment
<1>1. /\ RecorderTyped /\ OpeningsInv /\ EndingsInv /\ NumbersInv
      /\ recorder \in Recorders /\ recorder.nextIndex \in Nat
      /\ recorder.started \in [Fragment -> Int] /\ recorder.index \in [Fragment -> Int]
      /\ pipeline.opened \in Nat
  BY DEF RecorderInv, SegmentInv, RecorderTyped, Recorders, Pipelines
<1>2. /\ Len(bus) \in Nat \ {0} /\ Len(bus') = Len(bus) - 1
      /\ bus[1].type = "opened" /\ Head(bus) = bus[1] /\ bus[1] \in Messages
      /\ \A i \in 1..Len(bus') : i + 1 \in 2..Len(bus) /\ bus'[i] = bus[i + 1]
      /\ \A i \in 2..Len(bus) : i - 1 \in 1..Len(bus') /\ bus'[i - 1] = bus[i]
  BY <1>1, Moved
<1>3. f \in Fragment
  BY <1>2 DEF Messages, Eos, BusError
<1>4. f = recorder.nextIndex + 1 /\ bus[1].time = f - 1 /\ f <= pipeline.opened
  <2>1. 1 \in 1..Len(bus)
    BY <1>2
  <2>2. f \in (recorder.nextIndex + 1)..pipeline.opened /\ bus[1].time = f - 1
    BY <1>1, <1>2, <2>1 DEF OpeningsInv
  <2>3. recorder.nextIndex + 1 \in (recorder.nextIndex + 1)..pipeline.opened
    BY <1>1, <2>2
  <2>4. PICK i \in 1..Len(bus) : bus[i].type = "opened" /\ bus[i].fragment = recorder.nextIndex + 1
    BY <1>1, <2>3 DEF OpeningsInv, OnBus
  <2>5. CASE i = 1
    BY <1>1, <2>2, <2>4, <2>5
  <2>6. CASE 1 < i
    <3>1. f < bus[i].fragment
      BY <1>1, <1>2, <2>1, <2>4, <2>6 DEF OpeningsInv
    <3> QED
      BY <1>1, <2>2, <2>4, <3>1
  <2> QED
    BY <1>2, <2>4, <2>5, <2>6
<1>5. /\ recorder'.nextIndex = f /\ recorder'.lastEnd = recorder.lastEnd
      /\ recorder'.started = [recorder.started EXCEPT ![f] = f - 1]
      /\ recorder'.index = [recorder.index EXCEPT ![f] = f - 1]
      /\ UNCHANGED told
  <2>1. recorder' = [recorder EXCEPT !.started[f] = f - 1, !.index[f] = f - 1, !.nextIndex = f]
    <3>1. recorder.nextIndex = f - 1
      BY <1>1, <1>4
    <3> QED
      BY <1>2, <1>4, <3>1 DEF FragmentOpened
  <2>2. UNCHANGED told
    BY DEF FragmentOpened
  <2> QED
    BY <1>1, <2>1, <2>2 DEF Recorders
<1>6. OpeningsInv'
  <2>1. ASSUME NEW i \in 1..Len(bus'), bus'[i].type = "opened"
        PROVE  /\ bus'[i].fragment \in (f + 1)..pipeline.opened
               /\ bus'[i].time = bus'[i].fragment - 1
    <3>1. 1 \in 1..Len(bus) /\ i + 1 \in 1..Len(bus) /\ 1 < i + 1 /\ bus'[i] = bus[i + 1]
      BY <1>2
    <3>2. f < bus[i + 1].fragment
      BY <1>1, <1>2, <2>1, <3>1 DEF OpeningsInv
    <3>3. /\ bus[i + 1].fragment \in (recorder.nextIndex + 1)..pipeline.opened
          /\ bus[i + 1].time = bus[i + 1].fragment - 1
      BY <1>1, <2>1, <3>1 DEF OpeningsInv
    <3> QED
      BY <1>1, <1>4, <3>1, <3>2, <3>3
  <2>2. ASSUME NEW i \in 1..Len(bus'), NEW j \in 1..Len(bus'),
               i < j, bus'[i].type = "opened", bus'[j].type = "opened"
        PROVE  bus'[i].fragment < bus'[j].fragment
    <3>1. i + 1 \in 1..Len(bus) /\ j + 1 \in 1..Len(bus) /\ i + 1 < j + 1
      BY <1>2, <2>2
    <3> QED
      BY <1>1, <1>2, <2>2, <3>1 DEF OpeningsInv
  <2>3. ASSUME NEW g \in (f + 1)..pipeline.opened
        PROVE  \E i \in 1..Len(bus') : bus'[i].type = "opened" /\ bus'[i].fragment = g
    <3>1. g \in (recorder.nextIndex + 1)..pipeline.opened /\ g # f
      BY <1>1, <1>4
    <3>2. PICK i \in 1..Len(bus) : bus[i].type = "opened" /\ bus[i].fragment = g
      BY <1>1, <3>1 DEF OpeningsInv, OnBus
    <3>3. i \in 2..Len(bus)
      BY <1>2, <3>1, <3>2
    <3> QED
      BY <1>2, <3>2, <3>3
  <2> QED
    BY <1>4, <1>5, <2>1, <2>2, <2>3 DEF OpeningsInv, OnBus
<1>7. EndingsInv'
  <2>1. ASSUME NEW i \in 1..Len(bus'), bus'[i].type = "closed"
        PROVE  /\ bus'[i].fragment \in pipeline.closed
               /\ \A k \in 1..Len(told) : told[k].fragment # bus'[i].fragment
               /\ bus'[i].time = bus'[i].fragment
               /\ \/ bus'[i].fragment <= f
                  \/ \E j \in 1..(i-1) : bus'[j].type = "opened" /\ bus'[j].fragment = bus'[i].fragment
    <3>1. i + 1 \in 1..Len(bus) /\ bus'[i] = bus[i + 1] /\ (i + 1) - 1 = i
      BY <1>2
    <3>2. /\ bus'[i].fragment \in pipeline.closed /\ ~ToldOf(bus[i + 1].fragment)
          /\ bus'[i].time = bus'[i].fragment
          /\ \/ bus'[i].fragment <= recorder.nextIndex
             \/ \E j \in 1..i : OnBus("opened", bus[i + 1].fragment, j)
      BY <1>1, <2>1, <3>1 DEF EndingsInv
    <3>3. bus'[i].fragment \in Nat
      BY <1>1, <3>2 DEF EndingsInv
    <3>4. ASSUME NEW j \in 1..i, OnBus("opened", bus[i + 1].fragment, j)
          PROVE  \/ bus'[i].fragment <= f
                 \/ \E l \in 1..(i-1) : bus'[l].type = "opened" /\ bus'[l].fragment = bus'[i].fragment
      <4>1. CASE j = 1
        <5>1. bus'[i].fragment = f
          BY <3>1, <3>4, <4>1 DEF OnBus
        <5> QED
          BY <3>3, <5>1
      <4>2. CASE j # 1
        <5>1. j \in 2..Len(bus) /\ j - 1 \in 1..(i-1)
          BY <1>2, <4>2
        <5>2. bus'[j - 1].type = "opened" /\ bus'[j - 1].fragment = bus'[i].fragment
          BY <1>2, <3>1, <3>4, <5>1 DEF OnBus
        <5> QED
          BY <5>1, <5>2
      <4> QED
        BY <4>1, <4>2
    <3>5. bus'[i].fragment <= recorder.nextIndex => bus'[i].fragment <= f
      BY <1>1, <1>4, <3>3
    <3> QED
      BY <3>1, <3>2, <3>4, <3>5 DEF ToldOf
  <2>2. ASSUME NEW i \in 1..Len(bus'), NEW j \in 1..Len(bus'), bus'[i].type = "closed",
               bus'[j].type = "closed", bus'[i].fragment = bus'[j].fragment
        PROVE  i = j
    <3>1. i + 1 \in 1..Len(bus) /\ j + 1 \in 1..Len(bus)
      BY <1>2
    <3>2. i + 1 = j + 1
      BY <1>1, <1>2, <2>2, <3>1 DEF EndingsInv
    <3> QED
      BY <3>2
  <2>3. ASSUME NEW g \in pipeline.closed, ~ToldOf(g)
        PROVE  \E i \in 1..Len(bus') : bus'[i].type = "closed" /\ bus'[i].fragment = g
    <3>1. PICK i \in 1..Len(bus) : bus[i].type = "closed" /\ bus[i].fragment = g
      BY <1>1, <2>3 DEF EndingsInv, OnBus
    <3>2. i \in 2..Len(bus)
      BY <1>2, <3>1
    <3> QED
      BY <1>2, <3>1, <3>2
  <2>4. pipeline.closed \subseteq 1..pipeline.opened
    BY <1>1 DEF EndingsInv
  <2> QED
    BY <1>5, <2>1, <2>2, <2>3, <2>4 DEF EndingsInv, ToldOf, OnBus
<1>8. NumbersInv'
  <2>1. \A g : ToldOf(g)' <=> ToldOf(g)
    BY <1>5 DEF ToldOf
  <2>2. ASSUME NEW g \in Fragment, g <= f, ~ToldOf(g)
        PROVE  recorder'.index[g] = g - 1 /\ recorder'.started[g] = g - 1
    <3>1. CASE g = f
      BY <1>1, <1>3, <1>5, <3>1
    <3>2. CASE g # f
      <4>1. g <= recorder.nextIndex
        BY <1>1, <1>4, <2>2, <3>2 DEF Fragment
      <4> QED
        BY <1>1, <1>5, <2>2, <3>2, <4>1 DEF NumbersInv
    <3> QED
      BY <3>1, <3>2
  <2>3. \A g \in Fragment : ToldOf(g) => g <= f
    BY <1>1, <1>4 DEF NumbersInv, Fragment
  <2> QED
    BY <1>1, <1>5, <2>1, <2>2, <2>3 DEF NumbersInv
<1> QED
  BY <1>5, <1>6, <1>7, <1>8

\* splitmuxsink-fragment-closed: the fragment has a number, and its segment is the first
\* with it.
LEMMA ClosedStep ==
  ASSUME RecorderInv, SegmentInv, recorder.running, bus # <<>>, bus' = Tail(bus),
         Head(bus).type = "closed", FragmentClosed(Head(bus)), UNCHANGED pipeline
  PROVE  /\ OpeningsInv' /\ EndingsInv' /\ NumbersInv'
         /\ \A i \in 1..Len(told') : told'[i].fragment \in pipeline.closed
         /\ \A i \in 1..Len(told') :
              /\ told'[i].index = told'[i].fragment - 1
              /\ \A j \in 1..Len(told') : told'[i].fragment = told'[j].fragment => i = j
         /\ Ordered' => \A i \in 1..Len(told') :
              told'[i].from = (IF i = 1 THEN 0 ELSE told'[i-1].to) /\ told'[i].to = i
<1> DEFINE f == bus[1].fragment
           from == IF f = 1 THEN 0 ELSE recorder.lastEnd
           to == IF f > from THEN f ELSE from
           n == Len(told)
<1>1. /\ RecorderTyped /\ OpeningsInv /\ EndingsInv /\ NumbersInv
      /\ recorder \in Recorders /\ recorder.nextIndex \in Nat /\ recorder.lastEnd \in Int
      /\ recorder.started \in [Fragment -> Int] /\ recorder.index \in [Fragment -> Int]
      /\ pipeline.opened \in Nat /\ told \in Seq(Segments) /\ n \in Nat
  BY DEF RecorderInv, SegmentInv, RecorderTyped, Recorders, Pipelines
<1>2. /\ Len(bus) \in Nat \ {0} /\ Len(bus') = Len(bus) - 1
      /\ bus[1].type = "closed" /\ Head(bus) = bus[1] /\ bus[1] \in Messages
      /\ \A i \in 1..Len(bus') : i + 1 \in 2..Len(bus) /\ bus'[i] = bus[i + 1]
      /\ \A i \in 2..Len(bus) : i - 1 \in 1..Len(bus') /\ bus'[i - 1] = bus[i]
  BY <1>1, Moved
<1>3. f \in Fragment /\ f \in Nat \ {0}
  BY <1>2, RecorderAssumption DEF Messages, Eos, BusError, Fragment
<1>4. /\ f \in pipeline.closed /\ ~ToldOf(f) /\ bus[1].time = f /\ f <= recorder.nextIndex
  <2>1. 1 \in 1..Len(bus) /\ ~(\E j \in 1..(1-1) : OnBus("opened", bus[1].fragment, j))
    BY <1>2
  <2> QED
    BY <1>1, <1>2, <2>1 DEF EndingsInv
<1>5. recorder.index[f] = f - 1 /\ recorder.started[f] = f - 1 /\ recorder.index[f] # None
  BY <1>1, <1>3, <1>4 DEF NumbersInv, None
<1>6. from \in Int /\ to \in Int
  BY <1>1, <1>3
<1>7. /\ recorder' = [recorder EXCEPT !.nextIndex = recorder.nextIndex, !.lastEnd = to,
                                      !.started[f] = None, !.index[f] = None]
      /\ told' = Append(told, [fragment |-> f, index |-> f - 1, from |-> from, to |-> to])
  <2>1. recorder.index[f] = 0 <=> f = 1
    BY <1>3, <1>5
  <2>2. f = 1 => recorder.started[f] = 0
    BY <1>5
  <2>3. PICK m \in Messages :
          m = Head(bus) /\ m.fragment = f /\ m.time = f /\ FragmentClosed(m)
    BY <1>2, <1>4
  <2>4. (IF f - 1 = 0 /\ TRUE THEN recorder.started[f] ELSE recorder.lastEnd) = from
    BY <1>3, <2>2
  <2> DEFINE known == recorder.index[m.fragment] # None
             index == IF known THEN recorder.index[m.fragment] ELSE recorder.nextIndex
             since == IF index = 0 /\ known THEN recorder.started[m.fragment] ELSE recorder.lastEnd
             upto  == IF m.time > since THEN m.time ELSE since
  <2>5. known /\ index = f - 1
    BY <1>5, <2>3
  <2>6. since = from
    BY <2>3, <2>4, <2>5
  <2>7. upto = to
    BY <2>3, <2>6
  <2>8. /\ recorder' = [recorder EXCEPT
              !.nextIndex = IF known THEN recorder.nextIndex ELSE recorder.nextIndex + 1,
              !.lastEnd = upto, !.started[m.fragment] = None, !.index[m.fragment] = None]
        /\ told' = Append(told, [fragment |-> m.fragment, index |-> index,
                                 from |-> since, to |-> upto])
    BY <2>3 DEF FragmentClosed
  <2> HIDE DEF known, index, since, upto, from, to
  <2> QED
    BY <2>3, <2>5, <2>6, <2>7, <2>8
<1> HIDE DEF from, to
<1>8. /\ recorder'.nextIndex = recorder.nextIndex /\ recorder'.lastEnd = to
      /\ recorder'.started = [recorder.started EXCEPT ![f] = None]
      /\ recorder'.index = [recorder.index EXCEPT ![f] = None]
  BY <1>1, <1>7 DEF Recorders
<1>9. /\ Len(told') = n + 1 /\ \A i \in 1..n : told'[i] = told[i]
      /\ told'[n + 1].fragment = f /\ told'[n + 1].index = f - 1
      /\ told'[n + 1].from = from /\ told'[n + 1].to = to
      /\ \A i \in 1..Len(told') : i \in 1..n \/ i = n + 1
  BY <1>1, <1>7
<1>10. ASSUME NEW g
       PROVE  ToldOf(g)' <=> (ToldOf(g) \/ g = f)
  <2>1. n + 1 \in 1..Len(told') /\ \A i \in 1..n : i \in 1..Len(told')
    BY <1>1, <1>9
  <2>2. ToldOf(g) \/ g = f => \E i \in 1..Len(told') : told'[i].fragment = g
    BY <1>9, <2>1 DEF ToldOf
  <2>3. ASSUME NEW i \in 1..Len(told'), told'[i].fragment = g
        PROVE  ToldOf(g) \/ g = f
    BY <1>9, <2>3 DEF ToldOf
  <2> QED
    BY <2>2, <2>3 DEF ToldOf
<1>11. OpeningsInv'
  <2>1. ASSUME NEW i \in 1..Len(bus'), NEW j \in 1..Len(bus'),
               i < j, bus'[i].type = "opened", bus'[j].type = "opened"
        PROVE  bus'[i].fragment < bus'[j].fragment
    <3>1. i + 1 \in 1..Len(bus) /\ j + 1 \in 1..Len(bus) /\ i + 1 < j + 1
      BY <1>2, <2>1
    <3> QED
      BY <1>1, <1>2, <2>1, <3>1 DEF OpeningsInv
  <2>2. ASSUME NEW g \in (recorder.nextIndex + 1)..pipeline.opened
        PROVE  \E i \in 1..Len(bus') : bus'[i].type = "opened" /\ bus'[i].fragment = g
    <3>1. PICK i \in 1..Len(bus) : bus[i].type = "opened" /\ bus[i].fragment = g
      BY <1>1 DEF OpeningsInv, OnBus
    <3>2. i \in 2..Len(bus)
      BY <1>2, <3>1
    <3> QED
      BY <1>2, <3>1, <3>2
  <2>3. \A i \in 1..Len(bus') : i + 1 \in 1..Len(bus)
    BY <1>2
  <2> QED
    BY <1>1, <1>2, <1>8, <2>1, <2>2, <2>3 DEF OpeningsInv, OnBus
<1>12. EndingsInv'
  <2>0. ASSUME NEW i \in 1..Len(bus'), bus'[i].type = "closed"
        PROVE  bus'[i].fragment # f
    <3>1. 1 \in 1..Len(bus) /\ i + 1 \in 1..Len(bus) /\ bus'[i] = bus[i + 1] /\ i + 1 # 1
      BY <1>2
    <3> QED
      BY <1>1, <1>2, <2>0, <3>1 DEF EndingsInv
  <2>1. ASSUME NEW i \in 1..Len(bus'), bus'[i].type = "closed"
        PROVE  /\ bus'[i].fragment \in pipeline.closed
               /\ ~ToldOf(bus[i].fragment)'
               /\ bus'[i].time = bus'[i].fragment
               /\ \/ bus'[i].fragment <= recorder.nextIndex
                  \/ \E j \in 1..(i-1) : bus'[j].type = "opened" /\ bus'[j].fragment = bus'[i].fragment
    <3>1. i + 1 \in 1..Len(bus) /\ bus'[i] = bus[i + 1] /\ (i + 1) - 1 = i
      BY <1>2
    <3>2. /\ bus'[i].fragment \in pipeline.closed /\ ~ToldOf(bus[i + 1].fragment)
          /\ bus'[i].time = bus'[i].fragment
          /\ \/ bus'[i].fragment <= recorder.nextIndex
             \/ \E j \in 1..i : OnBus("opened", bus[i + 1].fragment, j)
      BY <1>1, <2>1, <3>1 DEF EndingsInv
    <3>3. ASSUME NEW j \in 1..i, OnBus("opened", bus[i + 1].fragment, j)
          PROVE  \E l \in 1..(i-1) : bus'[l].type = "opened" /\ bus'[l].fragment = bus'[i].fragment
      <4>1. j \in 2..Len(bus) /\ j - 1 \in 1..(i-1)
        BY <1>2, <3>3 DEF OnBus
      <4>2. bus'[j - 1].type = "opened" /\ bus'[j - 1].fragment = bus'[i].fragment
        BY <1>2, <3>1, <3>3, <4>1 DEF OnBus
      <4> QED
        BY <4>1, <4>2
    <3>4. ~ToldOf(bus[i].fragment)'
      <4>1. ASSUME NEW k \in 1..Len(told') PROVE told'[k].fragment # bus'[i].fragment
        <5>1. bus'[i].fragment # f /\ \A l \in 1..n : told[l].fragment # bus'[i].fragment
          BY <2>0, <2>1, <3>1, <3>2 DEF ToldOf
        <5> QED
          BY <1>9, <5>1
      <4> QED
        BY <4>1 DEF ToldOf
    <3> QED
      BY <3>1, <3>2, <3>3, <3>4
  <2>2. ASSUME NEW i \in 1..Len(bus'), NEW j \in 1..Len(bus'), bus'[i].type = "closed",
               bus'[j].type = "closed", bus'[i].fragment = bus'[j].fragment
        PROVE  i = j
    <3>1. i + 1 \in 1..Len(bus) /\ j + 1 \in 1..Len(bus)
      BY <1>2
    <3>2. \A k, l \in 1..Len(bus) : bus[k].type = "closed" /\ bus[l].type = "closed"
            /\ bus[k].fragment = bus[l].fragment => k = l
      BY <1>1 DEF EndingsInv
    <3>3. i + 1 = j + 1
      BY <1>2, <2>2, <3>1, <3>2
    <3> QED
      BY <3>3
  <2>3. ASSUME NEW g \in pipeline.closed, ~ToldOf(g), g # f
        PROVE  \E i \in 1..Len(bus') : OnBus("closed", g, i)'
    <3>1. PICK i \in 1..Len(bus) : bus[i].type = "closed" /\ bus[i].fragment = g
      BY <1>1, <2>3 DEF EndingsInv, OnBus
    <3>2. i \in 2..Len(bus)
      BY <1>2, <2>3, <3>1
    <3> QED
      BY <1>2, <3>1, <3>2 DEF OnBus
  <2>4. pipeline.closed \subseteq 1..pipeline.opened
    BY <1>1 DEF EndingsInv
  <2>5. \A i \in 1..Len(bus') : bus'[i].type = "closed" =>
          /\ bus'[i].fragment \in pipeline'.closed /\ ~ToldOf(bus[i].fragment)'
          /\ bus'[i].time = bus'[i].fragment
          /\ \/ bus'[i].fragment <= recorder'.nextIndex
             \/ \E j \in 1..(i-1) : OnBus("opened", bus[i].fragment, j)'
    BY <1>8, <2>1 DEF OnBus
  <2>6. \A g \in pipeline'.closed : ToldOf(g)' \/ \E i \in 1..Len(bus') : OnBus("closed", g, i)'
    BY <1>10, <2>3
  <2> QED
    BY <2>2, <2>4, <2>5, <2>6 DEF EndingsInv, OnBus
<1>13. NumbersInv'
  <2>1. ASSUME NEW g \in Fragment, g <= recorder.nextIndex, ~ToldOf(g)'
        PROVE  recorder'.index[g] = g - 1 /\ recorder'.started[g] = g - 1
    BY <1>1, <1>8, <1>10, <2>1 DEF NumbersInv
  <2>2. \A g \in Fragment : ToldOf(g)' => g <= recorder.nextIndex
    BY <1>1, <1>4, <1>10 DEF NumbersInv
  <2>3. told' # <<>> /\ recorder'.lastEnd = told'[Len(told')].to
    BY <1>1, <1>7, <1>8, <1>9
  <2> QED
    BY <1>8, <2>1, <2>2, <2>3 DEF NumbersInv
<1>14. \A i \in 1..Len(told') : told'[i].fragment \in pipeline.closed
  BY <1>4, <1>9 DEF SegmentInv
<1>15. ASSUME NEW i \in 1..Len(told')
       PROVE  /\ told'[i].index = told'[i].fragment - 1
              /\ \A j \in 1..Len(told') : told'[i].fragment = told'[j].fragment => i = j
  <2>1. \A j \in 1..n : told[j].fragment # f
    BY <1>4 DEF ToldOf
  <2>2. \A k \in 1..n : /\ told[k].index = told[k].fragment - 1
                        /\ \A j \in 1..n : told[k].fragment = told[j].fragment => k = j
    BY DEF SegmentInv, SegmentsAreTold
  <2> QED
    BY <1>9, <2>1, <2>2
<1>16. ASSUME Ordered', NEW i \in 1..Len(told')
       PROVE  told'[i].from = (IF i = 1 THEN 0 ELSE told'[i-1].to) /\ told'[i].to = i
  <2>1. f = n + 1
    BY <1>1, <1>9, <1>16 DEF Ordered
  <2>2. Ordered
    BY <1>1, <1>9, <1>16 DEF Ordered
  <2>3. \A k \in 1..n : told[k].from = (IF k = 1 THEN 0 ELSE told[k-1].to) /\ told[k].to = k
    BY <2>2 DEF SegmentInv, SegmentsAreTold
  <2>4. CASE i \in 1..n
    <3>1. i # 1 => i - 1 \in 1..n
      BY <1>1, <2>4
    <3> QED
      BY <1>9, <2>3, <2>4, <3>1
  <2>5. CASE i = n + 1
    <3>1. CASE n = 0
      BY <1>9, <2>1, <2>5, <3>1 DEF from, to
    <3>2. CASE n # 0
      <4>1. n \in 1..n /\ told # <<>> /\ f # 1 /\ i - 1 = n
        BY <1>1, <2>1, <2>5, <3>2
      <4>2. recorder.lastEnd = n /\ told'[n].to = n
        BY <1>1, <1>9, <2>3, <4>1 DEF NumbersInv
      <4>3. from = n /\ to = n + 1
        BY <1>1, <2>1, <4>1, <4>2 DEF from, to
      <4> QED
        BY <1>9, <2>5, <4>1, <4>2, <4>3
    <3> QED
      BY <3>1, <3>2
  <2> QED
    BY <1>9, <2>4, <2>5
<1> QED
  BY <1>11, <1>12, <1>13, <1>14, <1>15, <1>16

LEMMA ProcessStep ==
  ASSUME RecorderInv, SegmentInv, ProcessBusMessage PROVE SegmentInv'
<1>1. /\ RecorderTyped /\ thread \in Threads /\ thread.pc \in {"bus", "wait", "drain"}
      /\ recorder.running /\ bus # <<>> /\ bus' = Tail(bus) /\ UNCHANGED pipeline
      /\ recorder'.running = recorder.running
  BY ProcessBusTypes DEF RecorderInv, RecorderTyped, LeaseInv, ProcessBusMessage
<1>2. /\ Head(bus) = bus[1] /\ 1 \in 1..Len(bus)
      /\ \A i \in 1..Len(bus') : i + 1 \in 1..Len(bus) /\ bus'[i] = bus[i + 1]
  BY <1>1, Moved
<1>3. ~thread.whole /\ (thread.eos => thread.pc = "drain")
  BY <1>1 DEF SegmentInv, EosInv
<1>4. /\ ~thread'.whole
      /\ thread'.eos => thread'.pc \in {"drain", "null"}
      /\ thread'.eos => thread.eos \/ bus[1].type = "eos"
  <2>1. CASE UNCHANGED thread
    BY <1>3, <2>1
  <2>2. CASE thread' = [thread EXCEPT !.pc = IF thread.pc # "bus" THEN "null" ELSE "stop"]
    BY <1>1, <1>3, <2>2 DEF Threads
  <2>3. CASE /\ bus[1].type = "eos"
             /\ thread' = [thread EXCEPT !.eos = thread.pc # "bus",
                             !.pc = IF thread.pc # "bus" THEN "drain" ELSE thread.pc]
    BY <1>1, <1>3, <2>3 DEF Threads
  <2> QED
    BY <1>2, <2>1, <2>2, <2>3 DEF ProcessBusMessage
<1>5. EosInv'
  <2>1. (\E i \in 1..Len(bus') : bus'[i].type = "eos") => \E i \in 1..Len(bus) : bus[i].type = "eos"
    BY <1>2
  <2>2. thread'.eos \/ (\E i \in 1..Len(bus') : bus'[i].type = "eos") =>
          pipeline.ended /\ pipeline.closed = 1..pipeline.opened
    BY <1>2, <1>4, <2>1 DEF SegmentInv, EosInv
  <2> QED
    BY <1>1, <1>4, <2>2 DEF EosInv
<1>6. CASE bus[1].type = "closed"
  <2>1. FragmentClosed(Head(bus))
    BY <1>2, <1>6 DEF ProcessBusMessage
  <2>2. /\ OpeningsInv' /\ EndingsInv' /\ NumbersInv'
        /\ \A i \in 1..Len(told') : told'[i].fragment \in pipeline.closed
        /\ \A i \in 1..Len(told') :
             /\ told'[i].index = told'[i].fragment - 1
             /\ \A j \in 1..Len(told') : told'[i].fragment = told'[j].fragment => i = j
        /\ Ordered' => \A i \in 1..Len(told') :
             told'[i].from = (IF i = 1 THEN 0 ELSE told'[i-1].to) /\ told'[i].to = i
    BY <1>1, <1>2, <1>6, <2>1, ClosedStep
  <2>3. SegmentsAreTold'
    BY <1>4, <2>2 DEF SegmentsAreTold
  <2> QED
    BY <1>1, <1>5, <2>2, <2>3 DEF SegmentInv
<1>7. CASE bus[1].type # "closed"
  <2>1. OpeningsInv' /\ EndingsInv' /\ NumbersInv' /\ UNCHANGED told
    <3>1. CASE bus[1].type = "opened"
      BY <1>1, <1>2, <3>1, OpenedStep DEF ProcessBusMessage
    <3>2. CASE bus[1].type # "opened"
      <4>1. UNCHANGED <<recorder, told>> /\ Head(bus).type \notin {"opened", "closed"}
        BY <1>2, <1>7, <3>2 DEF ProcessBusMessage
      <4> QED
        BY <1>1, <4>1, ErrorOrEos
    <3> QED
      BY <3>1, <3>2
  <2>2. SegmentsAreTold'
    BY <1>4, <2>1 DEF SegmentInv, SegmentsAreTold, Ordered
  <2> QED
    BY <1>1, <1>5, <2>1, <2>2 DEF SegmentInv
<1> QED
  BY <1>6, <1>7

\* Every fragment has been told, and none twice.
LEMMA AllAreTold ==
  ASSUME RecorderInv, SegmentInv, recorder.running, bus = <<>>,
         pipeline.closed = 1..pipeline.opened
  PROVE  Len(told) = pipeline.opened
<1> DEFINE n == Len(told)
           F == [i \in 1..n |-> told[i].fragment]
<1>1. n \in Nat /\ pipeline.opened \in Nat /\ Len(bus) = 0
  BY DEF RecorderInv, RecorderTyped, Pipelines
<1>2. F \in [1..n -> 1..pipeline.opened]
  BY DEF SegmentInv
<1>3. \A i, j \in 1..n : F[i] = F[j] => i = j
  BY DEF SegmentInv, SegmentsAreTold
<1>4. ASSUME NEW f \in 1..pipeline.opened PROVE \E i \in 1..n : F[i] = f
  <2>1. EndingsInv
    BY DEF SegmentInv
  <2>2. ToldOf(f)
    BY <1>1, <2>1 DEF EndingsInv
  <2> QED
    BY <2>2 DEF ToldOf
<1>5. F \in Bijection(1..n, 1..pipeline.opened)
  BY <1>2, <1>3, <1>4 DEF Bijection, Injection, Surjection, IsInjective
<1>6. Cardinality(1..pipeline.opened) = Cardinality(1..n)
  <2>1. IsFiniteSet(1..n)
    BY <1>1, FS_Interval
  <2>2. ExistsBijection(1..n, 1..pipeline.opened)
    BY <1>5 DEF ExistsBijection
  <2> HIDE DEF n
  <2> QED
    BY <2>1, <2>2, FS_Bijection
<1>7. Cardinality(1..n) = n /\ Cardinality(1..pipeline.opened) = pipeline.opened
  <2>1. ASSUME NEW k \in Nat PROVE Cardinality(1..k) = k
    <3>1. 1 \in Int /\ k \in Int
      OBVIOUS
    <3>2. Cardinality(1..k) = IF 1 > k THEN 0 ELSE k - 1 + 1
      BY <3>1, FS_Interval
    <3> QED
      BY <3>2
  <2> HIDE DEF n
  <2> QED
    BY <1>1, <2>1
<1> QED
  BY <1>6, <1>7

LEMMA SegmentStep ==
  ASSUME RecorderInv, SegmentInv, [RecorderNext]_recorderVars PROVE SegmentInv'
<1>0. /\ recorder \in Recorders /\ thread \in Threads /\ pipeline \in Pipelines /\ LeaseInv
      /\ EosInv /\ (thread.eos /\ thread.whole => Len(told) = pipeline.opened)
  BY DEF RecorderInv, RecorderTyped, SegmentInv, SegmentsAreTold
<1>1. CASE StartSegmented
  <2>1. /\ recorder' = Fresh(recorder.recording + 1) /\ pipeline' = NoStream
        /\ thread' = [Resting EXCEPT !.pc = "register"] /\ bus' = <<>> /\ told' = <<>>
    BY <1>1 DEF StartSegmented
  <2>2. /\ recorder'.nextIndex = 0 /\ recorder'.lastEnd = 0
        /\ pipeline'.opened = 0 /\ pipeline'.closed = {}
        /\ ~thread'.eos /\ ~thread'.whole /\ Len(bus') = 0 /\ Len(told') = 0
    BY <2>1 DEF Fresh, Idle, NoStream, Resting
  <2>3. \A f \in Fragment : ~(f <= 0)
    BY RecorderAssumption DEF Fragment
  <2>4. OpeningsInv' /\ EndingsInv' /\ NumbersInv'
    BY <2>1, <2>2, <2>3 DEF OpeningsInv, EndingsInv, NumbersInv, ToldOf
  <2> QED
    BY <2>2, <2>4 DEF SegmentInv, EosInv, SegmentsAreTold
<1>2. CASE ProcessBusMessage
  BY <1>2, ProcessStep
<1>3. CASE OpenFragment \/ CloseFragment \/ EndOfStream \/ PipelineFails
  BY <1>3, PipelineStep
<1>4. CASE BusEmpty /\ thread.pc = "drain"
  <2>1. /\ bus = <<>> /\ thread' = [thread EXCEPT !.pc = "null", !.whole = TRUE]
        /\ UNCHANGED <<recorder, pipeline, bus, told>>
    BY <1>4 DEF BusEmpty
  <2>2. thread'.pc = "null" /\ thread'.eos = thread.eos /\ recorder.running
    BY <1>0, <1>4, <2>1 DEF Threads, LeaseInv
  <2>3. EosInv'
    BY <1>0, <2>1, <2>2 DEF EosInv
  <2>4. thread'.eos => Len(told) = pipeline.opened
    BY <1>0, <2>1, <2>2, AllAreTold DEF EosInv
  <2> QED
    BY <2>1, <2>3, <2>4, SegmentsRest
<1>5. CASE PipelineToNull
  <2>1. /\ thread' = [thread EXCEPT !.pc = "idle"] /\ bus' = <<>>
        /\ recorder' = [Idle EXCEPT !.recording = recorder.recording]
        /\ UNCHANGED <<pipeline, told>>
    BY <1>5 DEF PipelineToNull
  <2>2. /\ ~recorder'.running /\ thread'.eos = thread.eos /\ thread'.whole = thread.whole
        /\ Len(bus') = 0
    BY <1>0, <2>1 DEF Threads, Idle
  <2>3. EosInv'
    BY <1>0, <2>1, <2>2 DEF EosInv
  <2> QED
    BY <2>1, <2>2, <2>3 DEF SegmentInv, SegmentsAreTold, Ordered
\* The thread goes on, or a frame goes through.
<1>6. ASSUME UNCHANGED <<bus, told>>, recorder'.running = recorder.running,
             recorder'.nextIndex = recorder.nextIndex, recorder'.lastEnd = recorder.lastEnd,
             recorder'.started = recorder.started, recorder'.index = recorder.index,
             pipeline'.opened = pipeline.opened, pipeline'.closed = pipeline.closed,
             pipeline'.ended = pipeline.ended,
             \/ UNCHANGED thread
             \/ ~thread'.eos /\ ~thread'.whole
      PROVE  SegmentInv'
  <2>1. EosInv'
    BY <1>0, <1>6 DEF EosInv
  <2>2. thread'.eos /\ thread'.whole => Len(told) = pipeline.opened
    BY <1>0, <1>6
  <2> QED
    BY <1>6, <2>1, <2>2, SegmentsRest
<1>7. CASE RegisterConsumer \/ (BusEmpty /\ thread.pc = "bus") \/ EosTimeout
  <2>1. ~thread.eos /\ ~thread.whole
    BY <1>0, <1>7 DEF RegisterConsumer, BusEmpty, EosTimeout, EosInv, LeaseInv
  <2>2. /\ UNCHANGED <<pipeline, bus, told>> /\ thread'.eos = thread.eos
        /\ thread'.whole = thread.whole
    BY <1>0, <1>7 DEF RegisterConsumer, BusEmpty, EosTimeout, Threads
  <2>3. /\ recorder'.running = recorder.running
        /\ recorder'.nextIndex = recorder.nextIndex /\ recorder'.lastEnd = recorder.lastEnd
        /\ recorder'.started = recorder.started /\ recorder'.index = recorder.index
    BY <1>0, <1>7 DEF RegisterConsumer, BusEmpty, EosTimeout, Recorders
  <2> QED
    BY <1>6, <2>1, <2>2, <2>3
<1>8. CASE WriteFrame \/ AcquireDmaBuffer \/ WriteFails \/ WrapFrame \/ PushFrame
  <2>1. UNCHANGED <<recorder, pipeline, bus, told>>
    BY <1>8 DEF WriteFrame, AcquireDmaBuffer, WriteFails, WrapFrame, PushFrame, Unmoved
  <2>2. ~thread'.eos /\ ~thread'.whole
    <3>1. /\ ~Resting.eos /\ ~Resting.whole
          /\ ~[Resting EXCEPT !.pc = "bus"].eos /\ ~[Resting EXCEPT !.pc = "bus"].whole
          /\ ~[Resting EXCEPT !.pc = "stop"].eos /\ ~[Resting EXCEPT !.pc = "stop"].whole
      BY DEF Resting
    <3>2. CASE WriteFrame \/ WriteFails \/ PushFrame
      BY <3>1, <3>2 DEF WriteFrame, WriteFails, PushFrame
    <3>3. CASE AcquireDmaBuffer \/ WrapFrame
      <4>1. ~thread.eos /\ ~thread.whole
        BY <1>0, <3>3 DEF AcquireDmaBuffer, WrapFrame, EosInv, LeaseInv
      <4>2. \/ thread' = Resting \/ thread' = [thread EXCEPT !.pc = "stop"]
            \/ thread' = [thread EXCEPT !.pc = "push", !.lease = NoLease]
            \/ \E s \in Slot : thread' = [thread EXCEPT !.pc = "copy", !.lease = s]
        BY <3>3 DEF AcquireDmaBuffer, WrapFrame
      <4> QED
        BY <1>0, <3>1, <4>1, <4>2 DEF Threads
    <3> QED
      BY <1>8, <3>2, <3>3
  <2> QED
    BY <1>6, <2>1, <2>2
<1>9. CASE StopRecorder \/ UnregisterConsumer \/ TakeAudioSource \/ EndAudio \/ EndVideo
  <2>1. ~thread.eos /\ ~thread.whole
    BY <1>0, <1>9 DEF StopRecorder, UnregisterConsumer, TakeAudioSource, EndAudio, EndVideo,
       StopMoves, EosInv, LeaseInv
  <2>2. UNCHANGED <<bus, told>> /\ thread'.eos = thread.eos /\ thread'.whole = thread.whole
    BY <1>0, <1>9 DEF StopRecorder, UnregisterConsumer, TakeAudioSource, EndAudio, EndVideo,
       StopMoves, Threads
  <2>3. /\ recorder'.running = recorder.running
        /\ recorder'.nextIndex = recorder.nextIndex /\ recorder'.lastEnd = recorder.lastEnd
        /\ recorder'.started = recorder.started /\ recorder'.index = recorder.index
    BY <1>0, <1>9 DEF StopRecorder, UnregisterConsumer, TakeAudioSource, EndAudio, EndVideo,
       Recorders
  <2>4. /\ pipeline'.opened = pipeline.opened /\ pipeline'.closed = pipeline.closed
        /\ pipeline'.ended = pipeline.ended
    BY <1>0, <1>9 DEF StopRecorder, UnregisterConsumer, TakeAudioSource, EndAudio, EndVideo,
       Pipelines
  <2> QED
    BY <1>6, <2>1, <2>2, <2>3, <2>4
<1>10. CASE DmaBufferReleased \/ DispatchAudio \/ PushAudioFrame \/ UNCHANGED recorderVars
  <2>1. UNCHANGED <<recorder, thread, bus, told>>
    BY <1>10 DEF DmaBufferReleased, DispatchAudio, PushAudioFrame, Unmoved, recorderVars
  <2>2. /\ pipeline'.opened = pipeline.opened /\ pipeline'.closed = pipeline.closed
        /\ pipeline'.ended = pipeline.ended
    BY <1>0, <1>10 DEF DmaBufferReleased, DispatchAudio, PushAudioFrame, Unmoved, Pipelines,
       recorderVars
  <2> QED
    BY <1>6, <2>1, <2>2
<1>11. BusEmpty => thread.pc \in {"bus", "drain"}
  BY DEF BusEmpty
<1> QED
  BY <1>1, <1>2, <1>3, <1>4, <1>5, <1>7, <1>8, <1>9, <1>10, <1>11 DEF RecorderNext

-----------------------------------------------------------------------------
(* CameraFrames.                                                           *)

LEMMA BlankPicture == Blank \in Picture /\ Blank \in [{1, 2} -> Int] /\ Shows(Blank, 0)
<1>1. Blank[1] = 0 /\ Blank[2] = 0 /\ DOMAIN Blank = {1, 2}
  BY DEF Blank
<1>2. Blank = [h \in {1, 2} |-> 0]
  BY DEF Blank
<1> QED
  BY <1>1, <1>2 DEF Picture, Shows

\* One half of a picture is written.
LEMMA HalfOf ==
  ASSUME NEW p \in Picture, NEW n \in Nat
  PROVE  /\ Half(p, 1, n) \in Picture /\ Half(p, 1, n)[1] = n
         /\ Half(p, 2, n) \in Picture /\ Half(p, 2, n)[2] = n /\ Half(p, 2, n)[1] = p[1]
BY DEF Half, Picture

LEMMA CameraInitInv == CameraInit => CameraInv
<1> SUFFICES ASSUME CameraInit PROVE CameraInv
  OBVIOUS
<1> DEFINE pictures == [b \in Buffer |-> Blank]
           stamps   == [b \in Buffer |-> [seq |-> 0, ts |-> 0]]
<1>1. /\ camera = NewCamera /\ capture = Capturing /\ reader = NoReader
      /\ captures = 0 /\ restarted = 0 /\ ui = "idle"
  BY DEF CameraInit
<1>2. pictures \in [Buffer -> Picture] /\ stamps \in [Buffer -> Stamp]
  BY BlankPicture DEF Stamp
<1>3. NewCamera = [running |-> TRUE, mapped |-> TRUE, mapping |-> 0, latest |-> Nothing,
                   counter |-> 0, published |-> 0, relic |-> FALSE, rgb |-> pictures,
                   media |-> pictures, stamp |-> stamps]
  BY DEF NewCamera
<1> HIDE DEF pictures, stamps
<1>4. NewCamera \in Cameras /\ NewCamera.latest = Nothing /\ NewCamera.mapping = 0
  BY <1>2, <1>3 DEF Cameras, MaybeBuffer
<1>5. Capturing \in Captures /\ Capturing.pc = "select"
  BY DEF Capturing, Captures, CapturePc, Buffer
<1>6. NoReader \in Readers /\ NoReader.pc = "idle"
  BY BlankPicture DEF NoReader, Readers, ReaderPc, MaybeBuffer, Stamp
<1>7. CameraTyped
  BY <1>1, <1>4, <1>5, <1>6 DEF CameraTyped
<1>8. WriterInv /\ LatestInv /\ RestartInv
  BY <1>1, <1>4, <1>5 DEF WriterInv, LatestInv, RestartInv
<1>9. FlightInv /\ PictureInv /\ CopiesAreWhole
  BY <1>1, <1>6 DEF FlightInv, PictureInv, CopiesAreWhole, InFlight
<1> QED
  BY <1>7, <1>8, <1>9 DEF CameraInv

\* What a step of the capture thread does to the pair of buffers w that it fills.
CaptureStep == Dequeue \/ FillMedia \/ MediaToRgb \/ ConvertFails \/ Count \/ Publish \/ CaptureBreaks

LEMMA CaptureEffect ==
  ASSUME CameraTyped, CaptureStep
  PROVE  /\ camera' \in Cameras /\ capture' \in Captures /\ captures' \in Nat
         /\ UNCHANGED <<ui, restarted, reader>>
         /\ camera'.mapped = camera.mapped /\ camera'.mapping = camera.mapping
         /\ camera'.running = camera.running
<1> DEFINE w == capture.write
<1>1. /\ camera \in Cameras /\ capture \in Captures /\ captures \in Nat /\ w \in Buffer
      /\ camera.media \in [Buffer -> Picture] /\ camera.rgb \in [Buffer -> Picture]
      /\ camera.stamp \in [Buffer -> Stamp] /\ camera.counter \in Nat /\ camera.published \in Nat
      /\ camera.media[w] \in Picture /\ camera.rgb[w] \in Picture
  BY DEF CameraTyped, Cameras, Captures
<1>2. UNCHANGED <<ui, restarted, reader>>
  BY DEF CaptureStep, Dequeue, FillMedia, MediaToRgb, ConvertFails, Count, Publish, CaptureBreaks,
     Untouched
<1>3. capture' \in Captures
  <2>1. CASE Publish
    <3>1. 1 - w \in Buffer
      BY <1>1 DEF Buffer
    <3> QED
      BY <2>1, <3>1 DEF Publish, Captures, CapturePc
  <2>2. CASE ~Publish
    BY <1>1, <2>2 DEF CaptureStep, Dequeue, FillMedia, MediaToRgb, ConvertFails, Count,
       CaptureBreaks, CaptureMoves, Captures, CapturePc
  <2> QED
    BY <2>1, <2>2
<1>4. captures' \in Nat
  BY <1>1 DEF CaptureStep, Dequeue, FillMedia, MediaToRgb, ConvertFails, Count, Publish, CaptureBreaks
<1>5. ASSUME NEW p \in Picture
      PROVE  /\ [camera EXCEPT !.media[w] = p] \in Cameras
             /\ [camera EXCEPT !.rgb[w] = p] \in Cameras
             /\ [camera EXCEPT !.media[w] = p].mapped = camera.mapped
             /\ [camera EXCEPT !.media[w] = p].mapping = camera.mapping
             /\ [camera EXCEPT !.media[w] = p].running = camera.running
             /\ [camera EXCEPT !.rgb[w] = p].mapped = camera.mapped
             /\ [camera EXCEPT !.rgb[w] = p].mapping = camera.mapping
             /\ [camera EXCEPT !.rgb[w] = p].running = camera.running
  BY <1>1 DEF Cameras
<1>6. /\ camera' \in Cameras
      /\ camera'.mapped = camera.mapped /\ camera'.mapping = camera.mapping
      /\ camera'.running = camera.running
  <2>1. CASE Dequeue \/ FillMedia \/ MediaToRgb
    <3>1. \E p \in Picture : \/ camera' = [camera EXCEPT !.media[w] = p]
                             \/ camera' = [camera EXCEPT !.rgb[w] = p]
      <4>1. Half(camera.media[w], 1, captures') \in Picture
        BY <1>1, <1>4, HalfOf
      <4>2. Half(camera.media[w], 2, captures) \in Picture
        BY <1>1, HalfOf
      <4>3. Half(camera.rgb[w], 1, captures) \in Picture /\ Half(camera.rgb[w], 2, captures) \in Picture
        BY <1>1, HalfOf
      <4> QED
        BY <2>1, <4>1, <4>2, <4>3 DEF Dequeue, FillMedia, MediaToRgb
    <3>2. ASSUME NEW p \in Picture,
                 \/ camera' = [camera EXCEPT !.media[w] = p]
                 \/ camera' = [camera EXCEPT !.rgb[w] = p]
          PROVE  /\ camera' \in Cameras
                 /\ camera'.mapped = camera.mapped /\ camera'.mapping = camera.mapping
                 /\ camera'.running = camera.running
      <4>1. CASE camera' = [camera EXCEPT !.media[w] = p]
        BY <1>5, <4>1
      <4>2. CASE camera' = [camera EXCEPT !.rgb[w] = p]
        BY <1>5, <4>2
      <4> QED
        BY <3>2, <4>1, <4>2
    <3> QED
      BY <3>1, <3>2
  <2>2. CASE Count
    <3>1. [seq |-> camera.counter + 1, ts |-> captures] \in Stamp /\ camera.counter + 1 \in Nat
      BY <1>1 DEF Stamp
    <3>2. PICK s \in [Buffer -> Stamp] :
            camera' = [camera EXCEPT !.counter = camera.counter + 1, !.stamp = s]
      <4>1. [camera.stamp EXCEPT ![w] = [seq |-> camera.counter + 1, ts |-> captures]]
              \in [Buffer -> Stamp]
        BY <1>1, <3>1
      <4>2. camera' = [camera EXCEPT !.counter = camera.counter + 1,
              !.stamp = [camera.stamp EXCEPT ![w] = [seq |-> camera.counter + 1, ts |-> captures]]]
        BY <1>1, <2>2 DEF Count, Cameras
      <4> QED
        BY <4>1, <4>2
    <3> QED
      BY <1>1, <3>1, <3>2 DEF Cameras
  <2>3. CASE Publish
    <3>1. w \in MaybeBuffer /\ camera.published + 1 \in Nat
      BY <1>1 DEF MaybeBuffer
    <3>2. camera' = [camera EXCEPT !.latest = w, !.published = camera.published + 1,
                                   !.relic = FALSE]
      BY <2>3 DEF Publish
    <3> QED
      BY <1>1, <3>1, <3>2 DEF Cameras
  <2>4. CASE ConvertFails \/ CaptureBreaks
    BY <1>1, <2>4 DEF ConvertFails, CaptureBreaks
  <2> QED
    BY <2>1, <2>2, <2>3, <2>4 DEF CaptureStep
<1> QED
  BY <1>2, <1>3, <1>4, <1>6

LEMMA CaptureStepInv ==
  ASSUME CameraInv, CaptureStep
  PROVE  /\ WriterInv' /\ LatestInv' /\ RestartInv'
         /\ \/ /\ camera'.latest = camera.latest /\ camera'.published = camera.published
               /\ camera'.relic = camera.relic
               /\ camera.mapped /\ ~camera.relic /\ camera.latest # Nothing =>
                    camera'.stamp[camera.latest] = camera.stamp[camera.latest]
            \/ /\ camera'.latest = capture.write /\ camera'.published = camera.published + 1
               /\ ~camera'.relic
<1> DEFINE w == capture.write
<1>1. /\ CameraTyped /\ WriterInv /\ LatestInv /\ RestartInv
      /\ camera \in Cameras /\ capture \in Captures /\ captures \in Nat /\ w \in Buffer
      /\ camera.media \in [Buffer -> Picture] /\ camera.rgb \in [Buffer -> Picture]
      /\ camera.stamp \in [Buffer -> Stamp]
      /\ camera.media[w] \in Picture /\ camera.rgb[w] \in Picture
      /\ camera.latest \in MaybeBuffer
  BY DEF CameraInv, CameraTyped, Cameras, Captures
<1>2. /\ camera'.mapped = camera.mapped /\ camera'.mapping = camera.mapping
      /\ UNCHANGED <<ui, restarted>> /\ captures' \in Nat
  BY <1>1, CaptureEffect
<1>3. RestartInv'
  <2>1. ui # "start" \/ ~CaptureStep
    BY <1>1 DEF RestartInv, CaptureStep, Dequeue, FillMedia, MediaToRgb, ConvertFails, Count,
       Publish, CaptureBreaks, CaptureMoves
  <2> QED
    BY <1>1, <1>2, <2>1 DEF RestartInv
<1>4. CASE Dequeue
  <2>1. /\ capture' = [capture EXCEPT !.pc = "media"]
        /\ camera' = [camera EXCEPT !.media[w] = Half(camera.media[w], 1, captures')]
    BY <1>4 DEF Dequeue, CaptureMoves
  <2>2. capture'.pc = "media" /\ capture'.write = w
    BY <1>1, <2>1 DEF Captures
  <2>3. /\ camera'.media = [camera.media EXCEPT ![w] = Half(camera.media[w], 1, captures')]
        /\ camera'.rgb = camera.rgb /\ camera'.stamp = camera.stamp
        /\ camera'.latest = camera.latest /\ camera'.published = camera.published
        /\ camera'.relic = camera.relic
    BY <1>1, <2>1 DEF Cameras
  <2>4. camera'.media[w][1] = captures' /\ \A b \in Buffer : b # w => camera'.media[b] = camera.media[b]
    <3>1. Half(camera.media[w], 1, captures')[1] = captures'
      BY <1>1, <1>2, HalfOf
    <3> QED
      BY <1>1, <2>3, <3>1
  <2>5. LatestInv'
    BY <1>1, <1>2, <2>2, <2>3, <2>4 DEF LatestInv, MaybeBuffer
  <2> QED
    BY <1>3, <2>2, <2>3, <2>4, <2>5 DEF WriterInv
<1>5. CASE FillMedia
  <2>1. /\ capture' = [capture EXCEPT !.pc = "rgb"] /\ capture.pc = "media" /\ UNCHANGED captures
        /\ camera' = [camera EXCEPT !.media[w] = Half(camera.media[w], 2, captures)]
    BY <1>5 DEF FillMedia, CaptureMoves
  <2>2. capture'.pc = "rgb" /\ capture'.write = w
    BY <1>1, <2>1 DEF Captures
  <2>3. /\ camera'.media = [camera.media EXCEPT ![w] = Half(camera.media[w], 2, captures)]
        /\ camera'.rgb = camera.rgb /\ camera'.stamp = camera.stamp
        /\ camera'.latest = camera.latest /\ camera'.published = camera.published
        /\ camera'.relic = camera.relic
    BY <1>1, <2>1 DEF Cameras
  <2>4. /\ Shows(camera'.media[w], captures)
        /\ \A b \in Buffer : b # w => camera'.media[b] = camera.media[b]
    BY <1>1, <2>1, <2>3, HalfOf DEF WriterInv, Shows
  <2>5. LatestInv'
    BY <1>1, <1>2, <2>2, <2>3, <2>4 DEF LatestInv, MaybeBuffer
  <2> QED
    BY <1>3, <2>1, <2>2, <2>3, <2>4, <2>5 DEF WriterInv, Shows
<1>6. CASE MediaToRgb
  <2>1. /\ \/ /\ capture.pc = "rgb" /\ capture' = [capture EXCEPT !.pc = "rgb2"]
              /\ camera' = [camera EXCEPT !.rgb[w] = Half(camera.rgb[w], 1, captures)]
           \/ /\ capture.pc = "rgb2" /\ capture' = [capture EXCEPT !.pc = "count"]
              /\ camera' = [camera EXCEPT !.rgb[w] = Half(camera.rgb[w], 2, captures)]
        /\ UNCHANGED captures
    BY <1>6 DEF MediaToRgb, CaptureMoves
  <2>2. /\ capture'.write = w
        /\ \/ capture.pc = "rgb" /\ capture'.pc = "rgb2"
           \/ capture.pc = "rgb2" /\ capture'.pc = "count"
    BY <1>1, <2>1 DEF Captures
  <2>3. /\ camera'.media = camera.media /\ camera'.stamp = camera.stamp
        /\ camera'.latest = camera.latest /\ camera'.published = camera.published
        /\ camera'.relic = camera.relic
        /\ \A b \in Buffer : b # w => camera'.rgb[b] = camera.rgb[b]
    BY <1>1, <2>1 DEF Cameras
  <2>4. /\ capture'.pc = "rgb2" => camera'.rgb[w][1] = captures
        /\ capture'.pc = "count" => Shows(camera'.rgb[w], captures)
    <3>1. CASE capture.pc = "rgb"
      <4>1. camera'.rgb[w] = Half(camera.rgb[w], 1, captures)
        BY <1>1, <2>1, <3>1 DEF Cameras
      <4> QED
        BY <1>1, <2>2, <3>1, <4>1, HalfOf
    <3>2. CASE capture.pc = "rgb2"
      <4>1. camera'.rgb[w] = Half(camera.rgb[w], 2, captures)
        BY <1>1, <2>1, <3>2 DEF Cameras
      <4>2. camera.rgb[w][1] = captures
        BY <1>1, <3>2 DEF WriterInv
      <4>3. Half(camera.rgb[w], 2, captures)[1] = captures /\ Half(camera.rgb[w], 2, captures)[2] = captures
        BY <1>1, <4>2, HalfOf
      <4> QED
        BY <2>2, <3>2, <4>1, <4>3 DEF Shows
    <3> QED
      BY <2>2, <3>1, <3>2
  <2>5. LatestInv'
    BY <1>1, <1>2, <2>2, <2>3 DEF LatestInv, MaybeBuffer
  <2>6. Shows(camera'.media[w], captures)
    BY <1>1, <2>2, <2>3 DEF WriterInv
  <2> QED
    BY <1>3, <2>1, <2>2, <2>3, <2>4, <2>5, <2>6 DEF WriterInv, Shows
<1>7. CASE ConvertFails \/ CaptureBreaks
  <2>1. UNCHANGED <<camera, captures>> /\ capture'.pc \in {"select", "ended"} /\ capture'.write = w
    BY <1>1, <1>7 DEF ConvertFails, CaptureBreaks, CaptureMoves, Captures
  <2>2. LatestInv'
    BY <1>1, <2>1 DEF LatestInv, Shows
  <2> QED
    BY <1>3, <2>1, <2>2 DEF WriterInv
<1>8. CASE Count
  <2>1. /\ capture.pc = "count" /\ capture' = [capture EXCEPT !.pc = "publish"] /\ UNCHANGED captures
        /\ camera' = [camera EXCEPT !.counter = camera.counter + 1,
                        !.stamp[w] = [seq |-> camera.counter + 1, ts |-> captures]]
    BY <1>8 DEF Count, CaptureMoves
  <2>2. capture'.pc = "publish" /\ capture'.write = w
    BY <1>1, <2>1 DEF Captures
  <2>3. /\ camera'.media = camera.media /\ camera'.rgb = camera.rgb
        /\ camera'.latest = camera.latest /\ camera'.published = camera.published
        /\ camera'.relic = camera.relic
        /\ camera'.stamp[w].ts = captures
        /\ \A b \in Buffer : b # w => camera'.stamp[b] = camera.stamp[b]
    BY <1>1, <2>1 DEF Cameras
  <2>4. LatestInv'
    BY <1>1, <1>2, <2>2, <2>3 DEF LatestInv, MaybeBuffer, Shows
  <2>5. WriterInv'
    BY <1>1, <2>1, <2>2, <2>3 DEF WriterInv, Shows
  <2>6. camera.mapped /\ ~camera.relic /\ camera.latest # Nothing =>
          camera'.stamp[camera.latest] = camera.stamp[camera.latest]
    BY <1>1, <2>3 DEF LatestInv, MaybeBuffer
  <2> QED
    BY <1>3, <2>3, <2>4, <2>5, <2>6
<1>9. CASE Publish
  <2>1. /\ capture.pc = "publish" /\ capture'.pc = "select" /\ capture'.write = 1 - w
        /\ camera'.latest = w /\ camera'.published = camera.published + 1 /\ ~camera'.relic
        /\ camera'.media = camera.media /\ camera'.rgb = camera.rgb
        /\ camera'.stamp = camera.stamp
    BY <1>1, <1>9 DEF Publish, Cameras
  <2>2. 1 - w # w
    BY <1>1 DEF Buffer
  <2>3. LatestInv'
    BY <1>1, <2>1, <2>2 DEF LatestInv, WriterInv, Shows
  <2> QED
    BY <1>3, <2>1, <2>3 DEF WriterInv
<1> QED
  BY <1>4, <1>5, <1>6, <1>7, <1>8, <1>9 DEF CaptureStep

\* A reader in flight, when the capture thread makes a step.
LEMMA CaptureBesideReader ==
  ASSUME CameraInv, CaptureStep PROVE FlightInv' /\ PictureInv' /\ CopiesAreWhole'
<1>1. /\ FlightInv /\ PictureInv /\ CopiesAreWhole /\ LatestInv
      /\ camera.published \in Nat /\ reader.since \in Int /\ capture.write \in Buffer
      /\ camera.latest \in MaybeBuffer
  BY DEF CameraInv, CameraTyped, Cameras, Readers, Captures
<1>2. /\ UNCHANGED <<ui, reader>> /\ (Live' <=> Live) /\ (InFlight' <=> InFlight)
      /\ (Holding' <=> Holding) /\ camera'.mapping = camera.mapping
      /\ camera'.mapped = camera.mapped
  BY CaptureEffect DEF CameraInv, Live, InFlight, Holding
<1>3. CopiesAreWhole'
  BY <1>1, <1>2 DEF CopiesAreWhole, Whole
<1>4. CASE /\ camera'.latest = camera.latest /\ camera'.published = camera.published
           /\ camera'.relic = camera.relic
           /\ camera.mapped /\ ~camera.relic /\ camera.latest # Nothing =>
                camera'.stamp[camera.latest] = camera.stamp[camera.latest]
  <2>1. Still' <=> Still
    BY <1>2, <1>4 DEF Still
  <2>2. FlightInv'
    BY <1>1, <1>2, <1>4, <2>1 DEF FlightInv
  <2>3. Still /\ InFlight /\ ~reader.givenUp =>
          camera'.stamp[reader.buffer] = camera.stamp[reader.buffer]
    BY <1>1, <1>4 DEF FlightInv, Still, Live, Buffer, Nothing
  <2>4. PictureInv'
    BY <1>1, <1>2, <1>4, <2>1, <2>3 DEF PictureInv, InFlight, Whole
  <2> QED
    BY <1>3, <2>2, <2>4
<1>5. CASE /\ camera'.latest = capture.write /\ camera'.published = camera.published + 1
           /\ ~camera'.relic
  <2>1. InFlight => ~Still'
    BY <1>1, <1>2, <1>5 DEF Still, FlightInv
  <2>2. Still /\ InFlight /\ ~reader.givenUp => capture.write = 1 - reader.buffer
    BY <1>1 DEF FlightInv, LatestInv, Still, Live, Buffer, Nothing
  <2>3. ASSUME InFlight
        PROVE  FlightInv'
    <3>1. reader.since <= camera'.published
      BY <1>1, <1>5, <2>3 DEF FlightInv
    <3>2. camera'.latest # Nothing
      BY <1>1, <1>5 DEF Buffer, Nothing
    <3>3. Live' /\ ~reader.relic /\ ~reader.givenUp /\ camera'.published = reader.since + 1 =>
            camera'.latest = 1 - reader.buffer
      BY <1>1, <1>2, <1>5, <2>2, <2>3 DEF Still
    <3> QED
      BY <1>1, <1>2, <1>5, <2>1, <2>3, <3>1, <3>2, <3>3 DEF FlightInv
  <2>4. ~InFlight => FlightInv'
    BY <1>2 DEF FlightInv
  <2>5. PictureInv'
    <3>1. reader.pc \in {"first", "second", "check", "stamp"} => ~Still'
      BY <2>1 DEF InFlight
    <3>2. camera'.published < reader.since + 2 => camera.published < reader.since + 2
      BY <1>1, <1>5
    <3> QED
      BY <1>1, <1>2, <3>1, <3>2 DEF PictureInv, Whole
  <2> QED
    BY <1>3, <2>3, <2>4, <2>5
<1> QED
  BY <1>4, <1>5, CaptureStepInv

\* restart_camera: what a reader has seen before is not there any more.
RestartStep == RestartBegin \/ StopCamera \/ StartNew \/ StartOldAgain

LEMMA RestartTypes ==
  ASSUME CameraTyped
  PROVE  /\ [camera EXCEPT !.running = FALSE] \in Cameras /\ Unmapped(camera) \in Cameras
         /\ [NewCamera EXCEPT !.mapping = restarted, !.published = camera.published] \in Cameras
         /\ Remapped(camera) \in Cameras /\ CaptureStarts(camera) \in Cameras
         /\ Capturing \in Captures /\ [pc |-> "ended", write |-> 0] \in Captures
<1> DEFINE pictures == [b \in Buffer |-> Blank]
           stamps   == [b \in Buffer |-> [seq |-> 0, ts |-> 0]]
<1>1. camera \in Cameras /\ restarted \in Nat /\ camera.published \in Nat
  BY DEF CameraTyped, Cameras
<1>2. pictures \in [Buffer -> Picture] /\ stamps \in [Buffer -> Stamp]
  BY BlankPicture DEF Stamp
<1>3. /\ NewCamera = [running |-> TRUE, mapped |-> TRUE, mapping |-> 0, latest |-> Nothing,
                      counter |-> 0, published |-> 0, relic |-> FALSE, rgb |-> pictures,
                      media |-> pictures, stamp |-> stamps]
      /\ Remapped(camera) = [camera EXCEPT !.mapped = TRUE, !.mapping = restarted,
                               !.relic = camera.latest >= 0, !.rgb = pictures, !.media = pictures]
  BY DEF NewCamera, Remapped
<1> HIDE DEF pictures, stamps
<1>4. NewCamera \in Cameras
  BY <1>2, <1>3 DEF Cameras, MaybeBuffer
<1>5. [NewCamera EXCEPT !.mapping = restarted, !.published = camera.published] \in Cameras
  BY <1>1, <1>4 DEF Cameras
<1>6. PICK r \in BOOLEAN :
        Remapped(camera) = [camera EXCEPT !.mapped = TRUE, !.mapping = restarted,
                              !.relic = r, !.rgb = pictures, !.media = pictures]
  <2> DEFINE old == camera.latest >= 0
  <2>1. old \in BOOLEAN
    OBVIOUS
  <2>2. Remapped(camera) = [camera EXCEPT !.mapped = TRUE, !.mapping = restarted,
                              !.relic = old, !.rgb = pictures, !.media = pictures]
    BY <1>3
  <2> HIDE DEF old
  <2> QED
    BY <2>1, <2>2
<1>7. Remapped(camera) \in Cameras
  BY <1>1, <1>2, <1>6 DEF Cameras
<1>8. [Remapped(camera) EXCEPT !.running = TRUE] \in Cameras
  BY <1>7 DEF Cameras
<1>9. [camera EXCEPT !.running = FALSE] \in Cameras /\ Unmapped(camera) \in Cameras
  BY <1>1 DEF Unmapped, Cameras
<1>10. Capturing \in Captures /\ [pc |-> "ended", write |-> 0] \in Captures
  BY DEF Capturing, Captures, CapturePc, Buffer
<1> QED
  BY <1>5, <1>7, <1>8, <1>9, <1>10 DEF CaptureStarts

LEMMA RestartStepInv ==
  ASSUME CameraInv, RestartStep PROVE CameraInv'
<1>1. /\ CameraTyped /\ WriterInv /\ LatestInv /\ RestartInv /\ FlightInv /\ PictureInv
      /\ CopiesAreWhole /\ camera \in Cameras /\ capture \in Captures /\ reader \in Readers
      /\ captures \in Nat /\ restarted \in Nat /\ ui \in {"idle", "join", "start"}
      /\ camera.mapping \in Nat /\ reader.mapping \in Nat
  BY DEF CameraInv, CameraTyped, Cameras, Readers
<1>2. UNCHANGED <<reader, captures>> /\ (InFlight' <=> InFlight) /\ (Holding' <=> Holding)
  BY DEF RestartStep, RestartBegin, StopCamera, StartNew, StartOldAgain, InFlight, Holding
<1>3. CopiesAreWhole'
  BY <1>1, <1>2 DEF CopiesAreWhole, Whole
\* A reader without the lock, of buffers that are gone
<1>4. ASSUME ~Live', InFlight => ~Holding, InFlight => reader.mapping <= camera'.mapping,
             camera'.published = camera.published
      PROVE  FlightInv' /\ PictureInv'
  <2>1. ~Still'
    BY <1>4 DEF Still
  <2>2. FlightInv'
    BY <1>1, <1>2, <1>4, <2>1 DEF FlightInv
  <2>3. reader.pc = "stamp" => InFlight /\ Holding
    BY DEF InFlight, Holding
  <2>4. PictureInv'
    BY <1>2, <1>4, <2>1, <2>3 DEF PictureInv
  <2> QED
    BY <2>2, <2>4
<1>5. CASE RestartBegin
  <2>1. /\ ui = "idle" /\ ui' = "join" /\ restarted' = restarted + 1 /\ ~Locked
        /\ UNCHANGED capture /\ camera' = [camera EXCEPT !.running = FALSE]
    BY <1>5 DEF RestartBegin, Locked
  <2>2. /\ camera'.mapped = camera.mapped /\ camera'.mapping = camera.mapping
        /\ camera'.latest = camera.latest /\ camera'.relic = camera.relic
        /\ camera'.published = camera.published /\ camera'.rgb = camera.rgb
        /\ camera'.media = camera.media /\ camera'.stamp = camera.stamp
    BY <1>1, <2>1 DEF Cameras
  <2>3. CameraTyped'
    BY <1>1, <1>2, <2>1, RestartTypes DEF CameraTyped
  <2>4. WriterInv' /\ LatestInv'
    BY <1>1, <1>2, <2>1, <2>2 DEF WriterInv, LatestInv, Shows
  <2>5. RestartInv'
    BY <1>1, <2>1, <2>2 DEF RestartInv
  <2>6. InFlight => ~Holding
    BY <2>1 DEF InFlight, Holding, Locked
  <2>7. (Live' <=> Live) /\ (Still' <=> Still)
    BY <1>2, <2>2 DEF Live, Still
  <2>8. FlightInv'
    BY <1>1, <1>2, <2>2, <2>6, <2>7 DEF FlightInv
  <2>9. PictureInv'
    BY <1>1, <1>2, <2>2, <2>7 DEF PictureInv, Whole
  <2> QED
    BY <1>3, <2>3, <2>4, <2>5, <2>8, <2>9 DEF CameraInv
<1>6. InFlight /\ ui # "idle" => ~Holding
  BY <1>1 DEF FlightInv
<1>7. CASE StopCamera
  <2>1. /\ ui = "join" /\ ui' = "start" /\ UNCHANGED restarted
        /\ capture' = [pc |-> "ended", write |-> 0] /\ camera' = Unmapped(camera)
    BY <1>7 DEF StopCamera
  <2>2. /\ ~camera'.mapped /\ camera'.mapping = camera.mapping
        /\ camera'.published = camera.published /\ capture'.pc = "ended"
    BY <1>1, <2>1 DEF Cameras, Unmapped
  <2>3. CameraTyped'
    BY <1>1, <1>2, <2>1, RestartTypes DEF CameraTyped
  <2>4. WriterInv' /\ LatestInv' /\ RestartInv'
    BY <1>1, <2>1, <2>2 DEF WriterInv, LatestInv, RestartInv
  <2>5. InFlight => reader.mapping <= camera'.mapping
    BY <1>1, <2>2 DEF FlightInv
  <2>6. FlightInv' /\ PictureInv'
    BY <1>4, <1>6, <2>1, <2>2, <2>5 DEF Live
  <2> QED
    BY <1>3, <2>3, <2>4, <2>6 DEF CameraInv
<1>8. CASE StartNew \/ StartOldAgain
  <2>1. /\ ui = "start" /\ ui' = "idle" /\ UNCHANGED restarted
        /\ ~camera.mapped /\ capture.pc = "ended" /\ camera.mapping < restarted
    BY <1>1, <1>8 DEF StartNew, StartOldAgain, RestartInv
  <2>2. /\ capture' \in Captures /\ capture'.pc \in {"select", "ended"}
    BY <1>1, <1>8, <2>1, RestartTypes DEF StartNew, StartOldAgain, Capturing
  <2>3. /\ camera' \in Cameras /\ camera'.published = camera.published
        /\ \/ ~camera'.mapped /\ camera'.mapping = camera.mapping
           \/ camera'.mapping = restarted /\ (camera'.relic \/ camera'.latest = Nothing)
    <3>1. CASE camera' = [NewCamera EXCEPT !.mapping = restarted, !.published = camera.published]
      BY <1>1, <3>1, RestartTypes DEF NewCamera
    <3>2. CASE camera' = camera
      BY <1>1, <2>1, <3>2
    <3>3. CASE camera' = Remapped(camera) \/ camera' = CaptureStarts(camera)
      <4>1. camera'.mapping = restarted /\ camera'.relic = (camera.latest >= 0)
            /\ camera'.latest = camera.latest /\ camera'.published = camera.published
        BY <1>1, <3>3 DEF Remapped, CaptureStarts, Cameras
      <4>2. camera.latest >= 0 \/ camera.latest = Nothing
        BY <1>1 DEF Cameras, MaybeBuffer, Buffer
      <4> QED
        BY <1>1, <3>3, <4>1, <4>2, RestartTypes
    <3> QED
      BY <1>8, <3>1, <3>2, <3>3 DEF StartNew, StartOldAgain, DeviceFails, StreamFails
  <2>4. CameraTyped'
    BY <1>1, <1>2, <2>1, <2>2, <2>3 DEF CameraTyped
  <2>5. WriterInv' /\ LatestInv' /\ RestartInv'
    BY <1>1, <2>1, <2>2, <2>3 DEF WriterInv, LatestInv, RestartInv
  <2>6. InFlight => reader.mapping <= camera'.mapping
    BY <1>1, <2>1, <2>3 DEF FlightInv
  <2>7. InFlight => ~Live'
    BY <1>1, <1>2, <2>1, <2>3 DEF FlightInv, Live
  <2>8. CASE InFlight
    BY <1>3, <1>4, <1>6, <2>1, <2>3, <2>4, <2>5, <2>6, <2>7, <2>8 DEF CameraInv
  <2>9. CASE ~InFlight
    <3>1. FlightInv'
      BY <1>2, <2>9 DEF FlightInv
    <3>2. PictureInv'
      BY <1>2, <2>9 DEF PictureInv, InFlight
    <3> QED
      BY <1>3, <2>4, <2>5, <3>1, <3>2 DEF CameraInv
  <2> QED
    BY <2>8, <2>9
<1> QED
  BY <1>5, <1>7, <1>8 DEF RestartStep

\* Typed fields make a typed reader.
LEMMA ReaderOf ==
  ASSUME NEW r \in Readers, NEW q \in ReaderPc, NEW n \in Int,
         NEW p \in [{1, 2} -> Int], NEW s \in Stamp
  PROVE  /\ [r EXCEPT !.picture = p, !.pc = q, !.since = n] \in Readers
         /\ [r EXCEPT !.pc = q, !.stamp = s, !.since = n] \in Readers
BY DEF Readers

LEMMA ReaderLoaded ==
  ASSUME NEW r \in Readers, NEW w \in Borrower \cup {"copy"}, NEW a \in Nat,
         NEW q \in ReaderPc, NEW b \in MaybeBuffer, NEW m \in Nat, NEW n \in Nat,
         NEW d \in BOOLEAN
  PROVE  [r EXCEPT !.by = w, !.attempt = a, !.pc = q, !.buffer = b, !.mapping = m,
                   !.since = n, !.relic = d] \in Readers
<1>1. PICK r1 \in Readers : r1 = [r EXCEPT !.by = w, !.attempt = a, !.pc = q]
  BY DEF Readers
<1>2. PICK r2 \in Readers : r2 = [r1 EXCEPT !.buffer = b, !.mapping = m]
  BY DEF Readers
<1>3. PICK r3 \in Readers : r3 = [r2 EXCEPT !.since = n]
  BY n \in Int DEF Readers
<1>4. PICK r4 \in Readers : r4 = [r3 EXCEPT !.relic = d]
  BY DEF Readers
<1>5. r4 = [r EXCEPT !.by = w, !.attempt = a, !.pc = q, !.buffer = b, !.mapping = m,
                     !.since = n, !.relic = d]
  BY <1>1, <1>2, <1>3, <1>4 DEF Readers
<1> QED
  BY <1>5

\* What a step of a reader has to show: the camera is as it was.
LEMMA ReaderKeepsCamera ==
  ASSUME CameraInv, UNCHANGED <<camera, capture, captures, ui, restarted>>, reader' \in Readers,
         FlightInv', PictureInv', CopiesAreWhole'
  PROVE  CameraInv'
BY DEF CameraInv, CameraTyped, WriterInv, LatestInv, RestartInv, Shows

LEMMA ReaderLoadStep ==
  ASSUME CameraInv, ReaderLoad PROVE CameraInv'
<1>1. /\ camera \in Cameras /\ reader \in Readers /\ FlightInv /\ LatestInv
      /\ camera.mapping \in Nat /\ camera.published \in Nat /\ camera.relic \in BOOLEAN
      /\ camera.latest \in MaybeBuffer /\ UNCHANGED <<camera, capture, captures, ui, restarted>>
  BY DEF CameraInv, CameraTyped, Cameras, ReaderLoad, Load
<1>2. ui = "idle" /\ camera.latest \in Buffer
  <2>1. CASE ~Locked /\ Ready
    BY <1>1, <2>1 DEF Locked, Ready, MaybeBuffer, Nothing
  <2>2. CASE reader.pc = "load"
    BY <1>1, <2>2 DEF FlightInv, InFlight, Holding, MaybeBuffer
  <2> QED
    BY <2>1, <2>2 DEF ReaderLoad
<1>3. /\ NoReader \in Readers /\ NoReader.pc = "idle"
  BY BlankPicture DEF NoReader, Readers, ReaderPc, MaybeBuffer, Stamp
<1>4. PICK w \in Borrower \cup {"copy"}, n \in Nat : Load(w, n)
  <2>1. reader.by \in Borrower \cup {"copy"} /\ reader.attempt + 1 \in Nat /\ 1 \in Nat
    BY <1>1 DEF Readers
  <2> QED
    BY <2>1 DEF ReaderLoad
<1>5. CASE ~camera.mapped
  <2>1. reader' = NoReader
    BY <1>4, <1>5 DEF Load
  <2> QED
    BY <1>1, <1>3, <2>1, ReaderKeepsCamera DEF FlightInv, PictureInv, InFlight, CopiesAreWhole,
       NoReader
<1>6. CASE camera.mapped
  <2> DEFINE pc == IF w = "copy" THEN "first" ELSE "check"
  <2>0. pc \in ReaderPc /\ (w = "copy" => pc = "first") /\ (w # "copy" => pc = "check")
    BY DEF ReaderPc
  <2> HIDE DEF pc
  <2>1. reader' = [NoReader EXCEPT !.by = w, !.attempt = n, !.pc = pc,
                     !.buffer = camera.latest, !.mapping = camera.mapping,
                     !.since = camera.published, !.relic = camera.relic]
    BY <1>4, <1>6 DEF Load, pc
  <2>2. reader' \in Readers
    BY <1>1, <1>3, <2>0, <2>1, ReaderLoaded
  <2>3. /\ reader'.by = w /\ reader'.pc = pc /\ reader'.buffer = camera.latest
        /\ reader'.mapping = camera.mapping /\ reader'.since = camera.published
        /\ reader'.relic = camera.relic /\ ~reader'.givenUp
    BY <2>1 DEF NoReader
  <2>4. FlightInv'
    BY <1>1, <1>2, <1>6, <2>0, <2>3 DEF FlightInv, Live, Still, Buffer, Nothing
  <2>5. PictureInv'
    BY <2>0, <2>3 DEF PictureInv
  <2>6. CopiesAreWhole'
    BY <2>0, <2>3 DEF CopiesAreWhole
  <2> QED
    BY <1>1, <2>2, <2>4, <2>5, <2>6, ReaderKeepsCamera
<1> QED
  BY <1>5, <1>6

\* The half h of the picture, as ReaderCopy sees it.
LEMMA ReadHalfIs ==
  ASSUME CameraTyped, NEW h \in {1, 2}, reader.buffer \in Buffer
  PROVE  /\ ReadHalf(h) = [reader EXCEPT !.picture = ReadHalf(h).picture]
         /\ ReadHalf(h).picture \in [{1, 2} -> Int]
         /\ \A k \in {1, 2} : k # h => ReadHalf(h).picture[k] = reader.picture[k]
         /\ Live => ReadHalf(h).picture[h] =
                      (IF reader.by = "copy" THEN camera.rgb ELSE camera.media)[reader.buffer][h]
         /\ ~Live => ReadHalf(h).picture[h] = Nothing
<1> DEFINE from == IF reader.by = "copy" THEN camera.rgb ELSE camera.media
           n == IF Live THEN from[reader.buffer][h] ELSE Nothing
<1>1. reader \in Readers /\ reader.picture \in [{1, 2} -> Int] /\ from \in [Buffer -> Picture]
  BY DEF CameraTyped, Cameras, Readers
<1>2. n \in Int
  BY <1>1 DEF Picture, Nothing
<1>3. ReadHalf(h) = [reader EXCEPT !.picture[h] = n]
  BY DEF ReadHalf, Live
<1>4. ReadHalf(h).picture = [reader.picture EXCEPT ![h] = n]
  BY <1>1, <1>3 DEF Readers
<1>5. /\ Live => n = from[reader.buffer][h]
      /\ ~Live => n = Nothing
  OBVIOUS
<1> HIDE DEF n, from
<1>6. ReadHalf(h) = [reader EXCEPT !.picture = ReadHalf(h).picture]
  BY <1>1, <1>3, <1>4 DEF Readers
<1>7. /\ ReadHalf(h).picture \in [{1, 2} -> Int] /\ ReadHalf(h).picture[h] = n
      /\ \A k \in {1, 2} : k # h => ReadHalf(h).picture[k] = reader.picture[k]
  BY <1>1, <1>2, <1>4
<1> QED
  BY <1>5, <1>6, <1>7 DEF from

LEMMA ReaderCopyStep ==
  ASSUME CameraInv, ReaderCopy PROVE CameraInv'
<1>1. /\ CameraTyped /\ reader \in Readers /\ FlightInv /\ LatestInv /\ PictureInv
      /\ UNCHANGED <<camera, capture, captures, ui, restarted>>
      /\ camera.published \in Nat /\ reader.since \in Int
      /\ reader.pc \in {"first", "second"} /\ InFlight /\ reader.buffer \in Buffer
      /\ ~reader.givenUp /\ reader.since <= camera.published
  BY DEF CameraInv, CameraTyped, Cameras, Readers, ReaderCopy, ReaderMoves, FlightInv, InFlight
<1>2. Still => /\ camera.latest = reader.buffer
               /\ Shows(camera.rgb[reader.buffer], camera.stamp[reader.buffer].ts)
               /\ Shows(camera.media[reader.buffer], camera.stamp[reader.buffer].ts)
  BY <1>1 DEF FlightInv, LatestInv, Still, Live, Buffer, Nothing
<1>3. CASE reader.pc = "first"
  <2>1. reader' = [ReadHalf(1) EXCEPT !.pc = "second"]
    BY <1>3 DEF ReaderCopy
  <2>2. /\ reader' = [reader EXCEPT !.picture = ReadHalf(1).picture, !.pc = "second"]
        /\ ReadHalf(1).picture \in [{1, 2} -> Int]
    BY <1>1, <2>1, ReadHalfIs
  <2>3. /\ reader' \in Readers /\ reader'.pc = "second" /\ reader'.by = reader.by
        /\ reader'.buffer = reader.buffer /\ reader'.mapping = reader.mapping
        /\ reader'.since = reader.since /\ reader'.relic = reader.relic
        /\ reader'.givenUp = reader.givenUp /\ reader'.stamp = reader.stamp
        /\ reader'.picture = ReadHalf(1).picture
    BY <1>1, <2>2 DEF Readers, ReaderPc
  <2>4. (Live' <=> Live) /\ (Still' <=> Still) /\ InFlight' /\ (Holding' <=> Holding)
    BY <1>1, <1>3, <2>3 DEF Live, Still, InFlight, Holding
  <2>5. FlightInv'
    BY <1>1, <2>3, <2>4 DEF FlightInv
  <2>6. Still => reader'.picture[1] = camera.stamp[reader.buffer].ts
    <3>1. Live => ReadHalf(1).picture[1] =
            (IF reader.by = "copy" THEN camera.rgb ELSE camera.media)[reader.buffer][1]
      BY <1>1, ReadHalfIs
    <3> QED
      BY <1>2, <2>3, <3>1 DEF Still, Shows
  <2>7. PictureInv'
    BY <1>1, <1>3, <2>3, <2>4, <2>6 DEF PictureInv
  <2>8. CopiesAreWhole'
    BY <2>3 DEF CopiesAreWhole
  <2> QED
    BY <1>1, <2>3, <2>5, <2>7, <2>8, ReaderKeepsCamera
<1>4. /\ ReadHalf(2) = [reader EXCEPT !.picture = ReadHalf(2).picture]
      /\ ReadHalf(2).picture \in [{1, 2} -> Int]
      /\ ReadHalf(2).picture[1] = reader.picture[1]
      /\ Live => ReadHalf(2).picture[2] =
                   (IF reader.by = "copy" THEN camera.rgb ELSE camera.media)[reader.buffer][2]
      /\ ~Live => ReadHalf(2).picture[2] = Nothing
  BY <1>1, ReadHalfIs
<1>5. Still => ReadHalf(2).picture[2] = camera.stamp[reader.buffer].ts
  BY <1>2, <1>4 DEF Still, Shows
<1>6. CASE reader.pc = "second" /\ reader.by = "copy"
  <2>1. reader' = [reader EXCEPT !.picture = ReadHalf(2).picture, !.pc = "check"]
    BY <1>4, <1>6 DEF ReaderCopy
  <2>2. /\ reader' \in Readers /\ reader'.pc = "check" /\ reader'.by = reader.by
        /\ reader'.buffer = reader.buffer /\ reader'.mapping = reader.mapping
        /\ reader'.since = reader.since /\ reader'.relic = reader.relic
        /\ reader'.givenUp = reader.givenUp
        /\ reader'.picture = ReadHalf(2).picture
    BY <1>1, <1>4, <2>1 DEF Readers, ReaderPc
  <2>3. (Live' <=> Live) /\ (Still' <=> Still) /\ InFlight' /\ (Holding' <=> Holding)
    BY <1>1, <1>6, <2>2 DEF Live, Still, InFlight, Holding
  <2>4. FlightInv'
    BY <1>1, <2>2, <2>3 DEF FlightInv
  <2>5. Still => reader.picture[1] = camera.stamp[reader.buffer].ts
    BY <1>1, <1>6 DEF PictureInv
  <2>6. PictureInv'
    BY <1>1, <1>4, <1>5, <1>6, <2>2, <2>3, <2>5 DEF PictureInv
  <2>7. CopiesAreWhole'
    BY <2>2 DEF CopiesAreWhole
  <2> QED
    BY <1>1, <2>2, <2>4, <2>6, <2>7, ReaderKeepsCamera
<1>7. CASE reader.pc = "second" /\ reader.by # "copy"
  <2>1. reader' = [reader EXCEPT !.picture = ReadHalf(2).picture, !.pc = "done",
                                 !.since = camera.published - reader.since]
    BY <1>1, <1>4, <1>7 DEF ReaderCopy, Readers
  <2>0. "done" \in ReaderPc /\ camera.published - reader.since \in Int
    BY <1>1 DEF ReaderPc
  <2>updates. \A p \in [{1, 2} -> Int], n \in Int :
           [reader EXCEPT !.picture = p, !.pc = "done", !.since = n] \in Readers
    BY <1>1, <2>0, ReaderOf DEF Readers
  <2>typed. reader' \in Readers
    BY <1>4, <2>0, <2>updates, <2>1
  <2>2. /\ reader' \in Readers /\ reader'.pc = "done" /\ reader'.by = reader.by
        /\ reader'.since = camera.published - reader.since /\ reader'.relic = reader.relic
        /\ reader'.stamp = reader.stamp /\ reader'.picture = ReadHalf(2).picture
    BY <1>1, <1>4, <2>1, <2>typed DEF Readers
  <2>3. FlightInv' /\ PictureInv'
    BY <1>7, <2>2 DEF FlightInv, PictureInv, InFlight
  <2>4. reader'.since < 1 => camera.published = reader.since
    BY <1>1, <2>2
  <2>5. Still => reader.picture[1] = reader.stamp.ts /\ reader.stamp.ts = camera.stamp[reader.buffer].ts
    BY <1>1, <1>7 DEF PictureInv
  <2>6. CopiesAreWhole'
    BY <1>1, <1>4, <1>5, <1>7, <2>2, <2>4, <2>5 DEF CopiesAreWhole, Whole, Still
  <2> QED
    BY <1>1, <2>2, <2>3, <2>6, ReaderKeepsCamera
<1> QED
  BY <1>1, <1>3, <1>6, <1>7

LEMMA ReaderCheckStep ==
  ASSUME CameraInv, ReaderCheck PROVE CameraInv'
<1>1. /\ CameraTyped /\ reader \in Readers /\ FlightInv /\ PictureInv
      /\ UNCHANGED <<camera, capture, captures, ui, restarted>>
      /\ camera.published \in Nat /\ reader.since \in Int /\ camera.latest \in MaybeBuffer
      /\ reader.pc = "check" /\ InFlight /\ Holding /\ Live /\ reader.buffer \in Buffer
      /\ camera.latest # Nothing /\ ~reader.givenUp /\ reader.since <= camera.published
  BY DEF CameraInv, CameraTyped, Cameras, Readers, ReaderCheck, ReaderMoves, FlightInv, InFlight,
     Holding
<1>2. CASE camera.latest = reader.buffer
  <2>1. reader' = [reader EXCEPT !.pc = "stamp"]
    BY <1>2 DEF ReaderCheck
  <2>2. /\ reader' \in Readers /\ reader'.pc = "stamp" /\ reader'.by = reader.by
        /\ reader'.buffer = reader.buffer /\ reader'.mapping = reader.mapping
        /\ reader'.since = reader.since /\ reader'.relic = reader.relic
        /\ reader'.givenUp = reader.givenUp /\ reader'.picture = reader.picture
    BY <1>1, <2>1 DEF Readers, ReaderPc
  <2>3. (Live' <=> Live) /\ (Still' <=> Still) /\ InFlight' /\ (Holding' <=> Holding)
    BY <1>1, <2>2 DEF Live, Still, InFlight, Holding
  <2>4. FlightInv'
    BY <1>1, <2>2, <2>3 DEF FlightInv
  <2>5. ~reader.relic /\ camera.published < reader.since + 2 => Still
    <3>1. camera.published = reader.since + 1 => reader.relic \/ camera.latest = 1 - reader.buffer
      BY <1>1 DEF FlightInv
    <3>2. reader.buffer # 1 - reader.buffer
      BY <1>1 DEF Buffer
    <3> QED
      BY <1>1, <1>2, <3>1, <3>2 DEF Still
  <2>6. PictureInv'
    BY <1>1, <2>2, <2>3, <2>5 DEF PictureInv, Whole
  <2>7. CopiesAreWhole'
    BY <2>2 DEF CopiesAreWhole
  <2> QED
    BY <1>1, <2>2, <2>4, <2>6, <2>7, ReaderKeepsCamera
<1>3. CASE reader' = [reader EXCEPT !.pc = "load"]
  <2>1. /\ reader' \in Readers /\ reader'.pc = "load" /\ reader'.by = reader.by
        /\ reader'.buffer = reader.buffer /\ reader'.mapping = reader.mapping
        /\ reader'.since = reader.since /\ reader'.relic = reader.relic
        /\ reader'.givenUp = reader.givenUp
    BY <1>1, <1>3 DEF Readers, ReaderPc
  <2>2. (Live' <=> Live) /\ (Still' <=> Still) /\ InFlight' /\ (Holding' <=> Holding)
    BY <1>1, <2>1 DEF Live, Still, InFlight, Holding
  <2>3. FlightInv'
    BY <1>1, <2>1, <2>2 DEF FlightInv
  <2>4. PictureInv' /\ CopiesAreWhole'
    BY <2>1 DEF PictureInv, CopiesAreWhole
  <2> QED
    BY <1>1, <2>1, <2>3, <2>4, ReaderKeepsCamera
<1>4. CASE reader.by = "copy" /\ reader' = [reader EXCEPT !.pc = "stamp", !.buffer = camera.latest,
                                                          !.givenUp = TRUE]
  <2>1. /\ reader' \in Readers /\ reader'.pc = "stamp" /\ reader'.by = reader.by
        /\ reader'.buffer = camera.latest /\ reader'.mapping = reader.mapping
        /\ reader'.since = reader.since /\ reader'.relic = reader.relic /\ reader'.givenUp
    BY <1>1, <1>4 DEF Readers, ReaderPc
  <2>2. (Live' <=> Live) /\ (Still' <=> Still) /\ InFlight'
    BY <1>1, <2>1 DEF Live, Still, InFlight
  <2>3. camera.latest \in Buffer
    BY <1>1 DEF MaybeBuffer
  <2>4. FlightInv'
    BY <1>1, <1>4, <2>1, <2>2, <2>3 DEF FlightInv
  <2>5. PictureInv' /\ CopiesAreWhole'
    BY <2>1 DEF PictureInv, CopiesAreWhole
  <2> QED
    BY <1>1, <2>1, <2>4, <2>5, ReaderKeepsCamera
<1>5. CASE reader' = NoReader
  <2>1. NoReader \in Readers /\ NoReader.pc = "idle"
    BY BlankPicture DEF NoReader, Readers, ReaderPc, MaybeBuffer, Stamp
  <2> QED
    BY <1>1, <1>5, <2>1, ReaderKeepsCamera DEF FlightInv, PictureInv, InFlight, CopiesAreWhole
<1> QED
  BY <1>2, <1>3, <1>4, <1>5 DEF ReaderCheck

LEMMA ReaderStampStep ==
  ASSUME CameraInv, CopyStamp \/ BorrowerStamp PROVE CameraInv'
<1>1. /\ CameraTyped /\ reader \in Readers /\ FlightInv /\ PictureInv
      /\ UNCHANGED <<camera, capture, captures, ui, restarted>>
      /\ camera.published \in Nat /\ reader.since \in Int
      /\ reader.pc = "stamp" /\ InFlight /\ Holding /\ Live /\ reader.buffer \in Buffer
      /\ camera.stamp[reader.buffer] \in Stamp /\ reader.since <= camera.published
  BY DEF CameraInv, CameraTyped, Cameras, Readers, CopyStamp, BorrowerStamp, ReaderMoves,
     FlightInv, InFlight, Holding
<1>2. CASE CopyStamp
  <2>1. /\ reader.by = "copy"
        /\ reader' = [reader EXCEPT !.pc = "done", !.stamp = camera.stamp[reader.buffer],
                        !.since = camera.published - reader.since]
    BY <1>1, <1>2 DEF CopyStamp, ReaderMoves, Readers
  <2>0. "done" \in ReaderPc /\ camera.published - reader.since \in Int
    BY <1>1 DEF ReaderPc
  <2>updates. \A s \in Stamp, n \in Int :
           [reader EXCEPT !.pc = "done", !.stamp = s, !.since = n] \in Readers
    BY <1>1, <2>0, ReaderOf DEF Readers
  <2>typed. reader' \in Readers
    BY <1>1, <2>0, <2>updates, <2>1
  <2>2. /\ reader' \in Readers /\ reader'.pc = "done" /\ reader'.by = reader.by
        /\ reader'.since = camera.published - reader.since /\ reader'.relic = reader.relic
        /\ reader'.stamp = camera.stamp[reader.buffer] /\ reader'.picture = reader.picture
        /\ reader'.givenUp = reader.givenUp
    BY <1>1, <2>1, <2>typed DEF Readers
  <2>3. FlightInv' /\ PictureInv'
    BY <2>1, <2>2 DEF FlightInv, PictureInv, InFlight
  <2>4. /\ reader'.since < 2 => camera.published < reader.since + 2
        /\ reader'.since = 0 => camera.published = reader.since
    BY <1>1, <2>2
  <2>5. CopiesAreWhole'
    BY <1>1, <2>1, <2>2, <2>4 DEF CopiesAreWhole, PictureInv, Whole, Still
  <2> QED
    BY <1>1, <2>2, <2>3, <2>5, ReaderKeepsCamera
<1>3. CASE BorrowerStamp /\ reader' = NoReader
  <2>1. NoReader \in Readers /\ NoReader.pc = "idle"
    BY BlankPicture DEF NoReader, Readers, ReaderPc, MaybeBuffer, Stamp
  <2> QED
    BY <1>1, <1>3, <2>1, ReaderKeepsCamera DEF FlightInv, PictureInv, InFlight, CopiesAreWhole
<1>4. CASE /\ reader.by # "copy"
           /\ reader' = [reader EXCEPT !.pc = "first", !.stamp = camera.stamp[reader.buffer]]
  <2>1. /\ reader' \in Readers /\ reader'.pc = "first" /\ reader'.by = reader.by
        /\ reader'.buffer = reader.buffer /\ reader'.mapping = reader.mapping
        /\ reader'.since = reader.since /\ reader'.relic = reader.relic
        /\ reader'.givenUp = reader.givenUp /\ reader'.stamp = camera.stamp[reader.buffer]
    BY <1>1, <1>4 DEF Readers, ReaderPc
  <2>2. (Live' <=> Live) /\ (Still' <=> Still) /\ InFlight'
    BY <1>1, <2>1 DEF Live, Still, InFlight
  <2>3. FlightInv'
    BY <1>1, <1>4, <2>1, <2>2 DEF FlightInv
  <2>4. PictureInv' /\ CopiesAreWhole'
    BY <1>1, <1>4, <2>1 DEF PictureInv, CopiesAreWhole
  <2> QED
    BY <1>1, <2>1, <2>3, <2>4, ReaderKeepsCamera
<1> QED
  BY <1>2, <1>3, <1>4 DEF BorrowerStamp, ReaderMoves, Borrower

LEMMA CameraStep ==
  ASSUME CameraInv, [CameraNext]_cameraVars PROVE CameraInv'
<1>1. CASE CaptureStep
  <2>1. CameraTyped'
    BY <1>1, CaptureEffect DEF CameraInv, CameraTyped
  <2> QED
    BY <1>1, <2>1, CaptureStepInv, CaptureBesideReader DEF CameraInv
<1>2. CASE RestartStep
  BY <1>2, RestartStepInv
<1>3. CASE UNCHANGED cameraVars
  BY <1>3 DEF cameraVars, CameraInv, CameraTyped, WriterInv, LatestInv, RestartInv, FlightInv,
     PictureInv, CopiesAreWhole, Shows, Live, Still, InFlight, Holding, Whole
<1> QED
  BY <1>1, <1>2, <1>3, ReaderLoadStep, ReaderCopyStep, ReaderCheckStep, ReaderStampStep
     DEF CameraNext, CaptureStep, RestartStep

-----------------------------------------------------------------------------
(* The theorems.                                                           *)

\* A step of Media is a step of one part, beside which the others rest.
LEMMA PartsStep ==
  ASSUME [MediaNext]_mediaVars
  PROVE  [CameraNext]_cameraVars /\ [RecorderNext]_recorderVars /\ [SnapshotNext]_snapshotVars
BY DEF MediaNext, mediaVars, cameraVars, recorderVars, snapshotVars

\* What the camera, its capture thread and a reader keep in every reachable state,
\* whatever frames are captured and restarts fail.
THEOREM CameraIsKept == MediaSpec => []CameraInv
<1>1. MediaInit => CameraInv
  BY CameraInitInv DEF MediaInit
<1>2. CameraInv /\ [MediaNext]_mediaVars => CameraInv'
  BY PartsStep, CameraStep
<1> QED
  BY <1>1, <1>2, PTL DEF MediaSpec

\* What the recorder, its stream, the pool and the bus keep in every reachable state.
THEOREM RecorderIsKept == MediaSpec => [](RecorderInv /\ SegmentInv)
<1>1. MediaInit => RecorderInv /\ SegmentInv
  BY RecorderInitInv DEF MediaInit
<1>2. RecorderInv /\ SegmentInv /\ [MediaNext]_mediaVars => (RecorderInv /\ SegmentInv)'
  BY PartsStep, RecorderStep, SegmentStep
<1> QED
  BY <1>1, <1>2, PTL DEF MediaSpec

\* What arming, selection and the sampler keep in every reachable state.
THEOREM SelectionIsKept == MediaSpec => []SnapshotInv
<1>1. MediaInit => SnapshotInv
  BY SnapshotInitInv DEF MediaInit
<1>2. SnapshotInv /\ [MediaNext]_mediaVars => SnapshotInv'
  BY PartsStep, SnapshotStep
<1> QED
  BY <1>1, <1>2, PTL DEF MediaSpec

\* copy_latest_frame and copy_latest_media_frame: a picture that is called good
\* shows one frame, with its own stamp, unless frames overtook its reader, for any
\* number of frames and restarts.
THEOREM CopiesShowOneFrame == MediaSpec => []CopiesAreWhole
<1>1. CameraInv => CopiesAreWhole
  BY DEF CameraInv
<1> QED
  BY <1>1, CameraIsKept, PTL

\* acquire_dma_buffer and release_dma_buffer: no slot is lost, none is written while
\* the encoder reads it, for pools of any size.
THEOREM SlotsAreNeverLost == MediaSpec => []SlotsAreAccounted
<1>1. RecorderInv => SlotsAreAccounted
  BY DEF RecorderInv
<1> QED
  BY <1>1, RecorderIsKept, PTL

\* push_audio_frame: no frame follows the end of the audio into its source.
THEOREM NoAudioAfterTheEnd == MediaSpec => []AudioEndsAtEos
<1>1. RecorderInv => AudioEndsAtEos
  BY DEF RecorderInv
<1> QED
  BY <1>1, RecorderIsKept, PTL

\* process_bus_message: every segment is told once, under its number, without gaps
\* and to the last, for any number of fragments and any order of their ends.
THEOREM SegmentsAreToldOnce == MediaSpec => []SegmentsAreTold
<1>1. SegmentInv => SegmentsAreTold
  BY DEF SegmentInv
<1> QED
  BY <1>1, RecorderIsKept, PTL

\* ring_snapshot_worker: a ring is given no picture but one of its own window, for
\* windows of any length and any number of rings that replace one another.
THEOREM PicturesFitTheirRing == MediaSpec => []SnapshotFitsRing
<1>1. SnapshotInv => SnapshotFitsRing
  BY DEF SnapshotInv
<1> QED
  BY <1>1, SelectionIsKept, PTL
=============================================================================
