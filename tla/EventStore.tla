----------------------------- MODULE EventStore -----------------------------
(***************************************************************************)
(* The SQLite database of the doorbell (src/events/event_store.cpp): the   *)
(* tables and the transactions on them.  Every operation of the class runs *)
(* under one mutex and inside one SQLite transaction (or one statement),   *)
(* so each is one atomic action here.  An operation that fails rolls back  *)
(* and leaves every table as it was: for the tables a failure is a         *)
(* stuttering step, and the modules that call the store choose between     *)
(* the action and a failure.                                               *)
(*                                                                         *)
(* Event ids are numbered by the persistent event_sequence.  A recording   *)
(* id is "<device>-<start in ms>" in the code; here it is the next unused  *)
(* number, and two starts in the same millisecond (a primary key conflict) *)
(* are one more way to fail.  Durations and hashes, snapshot paths and     *)
(* URLs, time zones and the clip_daily_sequences table of the old clip     *)
(* interface are data no property depends on and are left out.             *)
(***************************************************************************)
EXTENDS Integers, FiniteSets

CONSTANTS
  MaxEvents,      \* bound: event ids ever allocated
  MaxPresses,     \* bound: presses counted by one ring event
  MaxRecordings,  \* bound: recording ids ever allocated
  MaxSegments,    \* bound: segments of one recording
  MaxTime,        \* bound: the system clock runs from 0 to MaxTime
  PressWindow,    \* a ring ends this long after its last press (40 s)
  RingCap         \* ... and at the latest this long after its first (120 s)

ASSUME EventStoreAssumption ==
  /\ MaxEvents \in Nat /\ MaxPresses \in Nat \ {0}
  /\ MaxRecordings \in Nat /\ MaxSegments \in Nat
  /\ MaxTime \in Nat /\ PressWindow \in Nat /\ RingCap \in Nat

EventId   == 1..MaxEvents
PressSeq  == 1..MaxPresses
RecId     == 1..MaxRecordings
SegIndex  == 1..MaxSegments
Time      == 0..MaxTime

NoEvent     == 0        \* no event id: an empty std::optional or string
NoRecording == 0        \* the empty recording id

RingState == {"ringing", "accepted", "ended"}
Terminal  == {"finalized", "interrupted", "failed"}

VARIABLES
  isOpen,      \* db_ is not null
  sequence,    \* event_meta.event_sequence: ids allocated so far
  events,      \* events: kind, recording and reported (0, 1 or -1)
  rings,       \* ring_events: state, press_count, first and last press
  pressQueue,  \* ring_press_queue: reported flag of each press row
  recordings,  \* recordings: status and segment_count
  segments     \* recording_segments: the <<recording, index>> rows

storeVars == <<isOpen, sequence, events, rings, pressQueue, recordings, segments>>

NoRow     == [kind |-> "none", recording |-> NoRecording, reported |-> 0]
NoRing    == [state |-> "none", count |-> 0, first |-> 0, last |-> 0]
NoPress   == "none"
NoRecRow  == [status |-> "absent", segments |-> 0]

EventRows ==
  [EventId -> [kind : {"none", "person", "ring"},
               recording : RecId \union {NoRecording}, reported : {-1, 0, 1}]]
RingRows ==
  [EventId -> [state : RingState \union {"none"}, count : 0..MaxPresses,
               first : Time, last : Time]]
PressRows     == [EventId \X PressSeq -> {NoPress, "queued", "reported"}]
RecordingRows ==
  [RecId -> [status : Terminal \union {"absent", "recording"}, segments : Nat]]

StoreTypeOK ==
  /\ isOpen \in BOOLEAN
  /\ sequence \in 0..MaxEvents
  /\ events \in EventRows
  /\ rings \in RingRows
  /\ pressQueue \in PressRows
  /\ recordings \in RecordingRows
  /\ segments \in SUBSET (RecId \X SegIndex)

StoreInit ==
  /\ isOpen = FALSE
  /\ sequence = 0
  /\ events = [e \in EventId |-> NoRow]
  /\ rings = [e \in EventId |-> NoRing]
  /\ pressQueue = [p \in EventId \X PressSeq |-> NoPress]
  /\ recordings = [r \in RecId |-> NoRecRow]
  /\ segments = {}

-----------------------------------------------------------------------------
(* Opening the database.                                                   *)

\* initialize_schema: a row still 'recording' belongs to a process that died.
Open ==
  /\ ~isOpen
  /\ isOpen' = TRUE
  /\ recordings' = [r \in RecId |->
       IF recordings[r].status = "recording"
         THEN [recordings[r] EXCEPT !.status = "failed"]
         ELSE recordings[r]]
  /\ UNCHANGED <<sequence, events, rings, pressQueue, segments>>

Close ==
  /\ isOpen
  /\ isOpen' = FALSE
  /\ UNCHANGED <<sequence, events, rings, pressQueue, recordings, segments>>

-----------------------------------------------------------------------------
(* Events and rings.                                                       *)

\* The rows the index uq_ring_events_one_active ranges over.
ActiveRings == {e \in EventId : rings[e].state \in {"ringing", "accepted"}}

\* The recording ids not used yet are allocated in order.
FreshRecording(r) ==
  /\ recordings[r].status = "absent"
  /\ \A q \in 1..(r - 1) : recordings[q].status # "absent"

InsertEvent(e, kind, r) ==
  /\ sequence' = e
  /\ events' = [events EXCEPT ![e] =
       [kind |-> kind, recording |-> r, reported |-> 0]]

CreatePersonEvent(e, r) ==
  /\ isOpen
  /\ e = sequence + 1
  /\ recordings[r].status # "absent"
  /\ InsertEvent(e, "person", r)
  /\ UNCHANGED <<isOpen, rings, pressQueue, recordings, segments>>

\* Mutant of RecordRepeatPress: the counter moves, the press is not queued.
RecordRepeatPressUnqueued(e, at) ==
  /\ isOpen
  /\ e \in ActiveRings
  /\ rings[e].count < MaxPresses
  /\ rings' = [rings EXCEPT ![e].count = @ + 1, ![e].last = at]
  /\ UNCHANGED <<isOpen, sequence, events, pressQueue, recordings, segments>>

\* record_ring_press when a ring is active: the press joins it.
RecordRepeatPress(e, at) ==
  /\ isOpen
  /\ e \in ActiveRings
  /\ rings[e].count < MaxPresses
  /\ rings' = [rings EXCEPT ![e].count = @ + 1, ![e].last = at]
  /\ pressQueue' = [pressQueue EXCEPT ![<<e, rings[e].count + 1>>] = "queued"]
  /\ UNCHANGED <<isOpen, sequence, events, recordings, segments>>

\* Mutant of RecordInitialPress: the sequence is read before it is advanced.
RecordInitialPressReusesId(e, known, r, at) ==
  /\ isOpen
  /\ ActiveRings = {}
  /\ e = sequence
  /\ known = r
  /\ recordings[r].status # "absent"
  /\ InsertEvent(e, "ring", r)
  /\ rings' = [rings EXCEPT ![e] =
       [state |-> "ringing", count |-> 1, first |-> at, last |-> at]]
  /\ UNCHANGED <<isOpen, pressQueue, recordings, segments>>

\* record_ring_press when no ring is active: a new event, and, when the
\* caller knows no recording, the identity r of the recording it will get.
RecordInitialPress(e, known, r, at) ==
  /\ isOpen
  /\ ActiveRings = {}
  /\ e = sequence + 1
  /\ \/ /\ known = NoRecording
        /\ FreshRecording(r)
        /\ recordings' = [recordings EXCEPT ![r] =
             [status |-> "recording", segments |-> 0]]
     \/ /\ known = r
        /\ recordings[r].status # "absent"
        /\ UNCHANGED recordings
  /\ InsertEvent(e, "ring", r)
  /\ rings' = [rings EXCEPT ![e] =
       [state |-> "ringing", count |-> 1, first |-> at, last |-> at]]
  /\ UNCHANGED <<isOpen, pressQueue, segments>>

Deadline(e) ==
  IF rings[e].last + PressWindow < rings[e].first + RingCap
    THEN rings[e].last + PressWindow
    ELSE rings[e].first + RingCap

Expired(e, at) == rings[e].state = "ringing" /\ at >= Deadline(e)

SetRingState(e, state) ==
  /\ isOpen
  /\ rings' = [rings EXCEPT ![e].state = state]
  /\ UNCHANGED <<isOpen, sequence, events, pressQueue, recordings, segments>>

ExpireOpenRing(e, at) ==
  /\ Expired(e, at)
  /\ SetRingState(e, "ended")

RecoverStaleAcceptedRing(e) ==
  /\ rings[e].state = "accepted"
  /\ SetRingState(e, "ended")

\* Mutant of UpdateRingState: no unique index stops it.
UpdateRingStateUnindexed(e, state) ==
  /\ rings[e].state # "none"
  /\ SetRingState(e, state)

\* update_ring_state does not look at the present state: it can bring an
\* ended ring back.  Only the unique index stops it, while another is active.
UpdateRingState(e, state) ==
  /\ rings[e].state # "none"
  /\ state # "ended" => ActiveRings \subseteq {e}
  /\ SetRingState(e, state)

MarkRingPressReported(e, seq) ==
  /\ isOpen
  /\ pressQueue[<<e, seq>>] # NoPress
  /\ pressQueue' = [pressQueue EXCEPT ![<<e, seq>>] = "reported"]
  /\ UNCHANGED <<isOpen, sequence, events, rings, recordings, segments>>

SetReported(e, value) ==
  /\ isOpen
  /\ events[e].kind # "none"
  /\ events' = [events EXCEPT ![e].reported = value]
  /\ UNCHANGED <<isOpen, sequence, rings, pressQueue, recordings, segments>>

MarkReported(e)     == SetReported(e, 1)
MarkUnreportable(e) == SetReported(e, -1)

-----------------------------------------------------------------------------
(* Recordings and their segments.                                          *)

BeginRecording(r) ==
  /\ isOpen
  /\ FreshRecording(r)
  /\ recordings' = [recordings EXCEPT ![r] = [status |-> "recording", segments |-> 0]]
  /\ UNCHANGED <<isOpen, sequence, events, rings, pressQueue, segments>>

AppendRecordingSegment(r, i) ==
  /\ isOpen
  /\ <<r, i>> \notin segments
  /\ recordings[r].status = "recording"
  /\ segments' = segments \union {<<r, i>>}
  /\ recordings' = [recordings EXCEPT ![r].segments = @ + 1]
  /\ UNCHANGED <<isOpen, sequence, events, rings, pressQueue>>

FinalizeRecording(r, status) ==
  /\ isOpen
  /\ recordings[r].status = "recording"
  /\ recordings' = [recordings EXCEPT ![r].status = status]
  /\ UNCHANGED <<isOpen, sequence, events, rings, pressQueue, segments>>

\* complete_recording: the last segment and the terminal state together.
CompleteRecording(r, i, status) ==
  /\ isOpen
  /\ <<r, i>> \notin segments
  /\ recordings[r].status = "recording"
  /\ segments' = segments \union {<<r, i>>}
  /\ recordings' = [recordings EXCEPT ![r] =
       [status |-> status, segments |-> @.segments + 1]]
  /\ UNCHANGED <<isOpen, sequence, events, rings, pressQueue>>

-----------------------------------------------------------------------------
(* The store used by arbitrary callers.                                    *)

EventTransaction(e) ==
  \/ \E r \in RecId : CreatePersonEvent(e, r)
  \/ \E at \in Time : RecordRepeatPress(e, at) \/ ExpireOpenRing(e, at)
  \/ \E known \in RecId \union {NoRecording}, r \in RecId, at \in Time :
       RecordInitialPress(e, known, r, at)
  \/ \E state \in RingState : UpdateRingState(e, state)
  \/ RecoverStaleAcceptedRing(e)
  \/ \E seq \in PressSeq : MarkRingPressReported(e, seq)
  \/ MarkReported(e) \/ MarkUnreportable(e)

RecordingTransaction(r) ==
  \/ BeginRecording(r)
  \/ \E i \in SegIndex : AppendRecordingSegment(r, i)
  \/ \E status \in Terminal : FinalizeRecording(r, status)
  \/ \E i \in SegIndex, status \in Terminal : CompleteRecording(r, i, status)

StoreNext ==
  \/ Open \/ Close
  \/ \E e \in EventId : EventTransaction(e)
  \/ \E r \in RecId : RecordingTransaction(r)

StoreSpec == StoreInit /\ [][StoreNext]_storeVars

-----------------------------------------------------------------------------
(* Properties.                                                             *)

\* At most one ring event is open at a time, whatever commands and presses
\* arrive in whatever order: record_ring_press joins the open one, and a
\* command that would reopen an ended ring beside it is refused.
OneActiveRing == \A e, f \in ActiveRings : e = f

\* The queue of presses agrees with the counter of the ring: press 1 is
\* carried by the event itself, presses 2..press_count have exactly one row
\* each, and nothing else has a row.
PressRowsMatchCount ==
  \A e \in EventId, s \in PressSeq :
    pressQueue[<<e, s>>] # NoPress <=> s \in 2..rings[e].count

\* An event refers to a recording row that exists (the foreign key, and the
\* identity that record_ring_press inserts first), and the rows of
\* ring_events are those of the events of type 'ring'.
EventsAreAnchored ==
  \A e \in EventId :
    /\ events[e].kind # "none" <=> e \in 1..sequence
    /\ events[e].kind # "none" =>
         /\ events[e].recording \in RecId
         /\ recordings[events[e].recording].status # "absent"
    /\ events[e].kind = "ring" <=> rings[e].state # "none"

\* segment_count is the number of segment rows, however segments, their
\* failures and the terminal state interleave.
SegmentCountMatches ==
  \A r \in RecId :
    recordings[r].segments = Cardinality({i \in SegIndex : <<r, i>> \in segments})

\* "把父 recording 收敛到不可变终态": a terminal recording keeps its state and
\* gets no further segment, also across restarts.
TerminalIsImmutable ==
  [][\A r \in RecId :
       recordings[r].status \in Terminal => recordings'[r] = recordings[r]]_storeVars

\* Rows are never taken back: an id keeps its kind and recording, a ring
\* never counts fewer presses, a press row never becomes unreported.
HistoryIsKept ==
  [][\A e \in EventId :
       /\ events[e].kind # "none" =>
            /\ events'[e].kind = events[e].kind
            /\ events'[e].recording = events[e].recording
       /\ rings'[e].count >= rings[e].count
       /\ \A s \in PressSeq :
            pressQueue[<<e, s>>] = "reported" => pressQueue'[<<e, s>>] = "reported"]_storeVars
=============================================================================
