-------------------------- MODULE EventStoreProofs --------------------------
(***************************************************************************)
(* The invariants of EventStore, proved for every number of events,        *)
(* presses, recordings and segments and every value of the deadlines.      *)
(***************************************************************************)
EXTENDS EventStore, FiniteSetTheorems, TLAPS

\* A ring has a press exactly when it has a row.  Without it a repeated press
\* could be numbered 1, the number that is carried by the event itself.
RingsAreCounted == \A e \in EventId : rings[e].count = 0 <=> rings[e].state = "none"

\* The inductive invariant of events, rings and presses.
RingInv == StoreTypeOK /\ OneActiveRing /\ PressRowsMatchCount
             /\ EventsAreAnchored /\ RingsAreCounted

USE DEF EventId, PressSeq, RecId, SegIndex, Time, NoEvent, NoRecording,
        RingState, Terminal, NoRow, NoRing, NoPress, NoRecRow, EventStoreAssumption

-----------------------------------------------------------------------------
(* Types.                                                                  *)

LEMMA Update ==
  ASSUME NEW S, NEW T, NEW f \in [S -> T], NEW x \in S, NEW v \in T
  PROVE  [f EXCEPT ![x] = v] \in [S -> T]
  OBVIOUS

LEMMA InitTypes == StoreInit => StoreTypeOK
<1> SUFFICES ASSUME StoreInit PROVE StoreTypeOK
  OBVIOUS
<1> USE EventStoreAssumption DEF StoreInit
<1>1. sequence \in 0..MaxEvents
  OBVIOUS
<1>2. events \in EventRows
  BY DEF EventRows
<1>3. rings \in RingRows
  BY DEF RingRows
<1>4. pressQueue \in PressRows
  BY DEF PressRows
<1>5. recordings \in RecordingRows
  BY DEF RecordingRows
<1> QED BY <1>1, <1>2, <1>3, <1>4, <1>5 DEF StoreTypeOK

\* A transaction on events keeps the types of the tables.
LEMMA EventStepTypes ==
  ASSUME StoreTypeOK, NEW e \in EventId, EventTransaction(e)
  PROVE  StoreTypeOK'
<1> USE EventStoreAssumption DEF StoreTypeOK
<1>1. ASSUME NEW r \in RecId, CreatePersonEvent(e, r) PROVE StoreTypeOK'
  BY <1>1 DEF CreatePersonEvent, InsertEvent, EventRows
<1>2. ASSUME NEW at \in Time, RecordRepeatPress(e, at) PROVE StoreTypeOK'
  <2>1. rings' \in RingRows
    <3>1. rings[e].count + 1 \in 0..MaxPresses
      BY <1>2 DEF RecordRepeatPress, RingRows
    <3>2. [rings EXCEPT ![e].count = @ + 1] \in RingRows
      BY <3>1 DEF RingRows
    <3> QED BY <1>2, <3>2 DEF RecordRepeatPress, RingRows
  <2>2. pressQueue' \in PressRows
    BY <1>2 DEF RecordRepeatPress, PressRows
  <2> QED BY <1>2, <2>1, <2>2 DEF RecordRepeatPress
<1>3. ASSUME NEW at \in Time, ExpireOpenRing(e, at) PROVE StoreTypeOK'
  BY <1>3 DEF ExpireOpenRing, SetRingState, RingRows
<1>4. ASSUME NEW known \in RecId \union {NoRecording}, NEW r \in RecId, NEW at \in Time,
             RecordInitialPress(e, known, r, at)
      PROVE  StoreTypeOK'
  <2>1. recordings' \in RecordingRows
    <3>1. [status |-> "recording", segments |-> 0]
            \in [status : Terminal \union {"absent", "recording"}, segments : Nat]
      OBVIOUS
    <3> QED BY <1>4, <3>1, Update DEF RecordInitialPress, RecordingRows
  <2>2. sequence' \in 0..MaxEvents /\ events' \in EventRows
    BY <1>4 DEF RecordInitialPress, InsertEvent, EventRows
  <2>3. rings' \in RingRows
    BY <1>4 DEF RecordInitialPress, RingRows
  <2> QED BY <1>4, <2>1, <2>2, <2>3 DEF RecordInitialPress
<1>5. ASSUME NEW state \in RingState, UpdateRingState(e, state) PROVE StoreTypeOK'
  BY <1>5 DEF UpdateRingState, SetRingState, RingRows
<1>6. CASE RecoverStaleAcceptedRing(e)
  BY <1>6 DEF RecoverStaleAcceptedRing, SetRingState, RingRows
<1>7. ASSUME NEW seq \in PressSeq, MarkRingPressReported(e, seq) PROVE StoreTypeOK'
  BY <1>7 DEF MarkRingPressReported, PressRows
<1>8. CASE MarkReported(e) \/ MarkUnreportable(e)
  <2>1. PICK value \in {-1, 1} : SetReported(e, value)
    BY <1>8 DEF MarkReported, MarkUnreportable
  <2>2. [events[e] EXCEPT !.reported = value]
          \in [kind : {"none", "person", "ring"},
               recording : RecId \union {NoRecording}, reported : {-1, 0, 1}]
    BY DEF EventRows
  <2>3. events' \in EventRows
    BY <2>1, <2>2, Update DEF SetReported, EventRows
  <2> QED BY <2>1, <2>3 DEF SetReported
<1> QED BY <1>1, <1>2, <1>3, <1>4, <1>5, <1>6, <1>7, <1>8 DEF EventTransaction

\* So does a transaction on recordings.
LEMMA RecordingStepTypes ==
  ASSUME StoreTypeOK, NEW r \in RecId, RecordingTransaction(r)
  PROVE  StoreTypeOK'
<1> USE DEF StoreTypeOK, RecordingRows
<1>1. CASE BeginRecording(r)
  BY <1>1 DEF BeginRecording
<1>2. ASSUME NEW i \in SegIndex, AppendRecordingSegment(r, i) PROVE StoreTypeOK'
  <2>1. [recordings[r] EXCEPT !.segments = @ + 1]
          \in [status : Terminal \union {"absent", "recording"}, segments : Nat]
    OBVIOUS
  <2>2. recordings' \in RecordingRows
    BY <1>2, <2>1, Update DEF AppendRecordingSegment
  <2> QED BY <1>2, <2>2 DEF AppendRecordingSegment
<1>3. ASSUME NEW status \in Terminal, FinalizeRecording(r, status) PROVE StoreTypeOK'
  BY <1>3 DEF FinalizeRecording
<1>4. ASSUME NEW i \in SegIndex, NEW status \in Terminal, CompleteRecording(r, i, status)
      PROVE  StoreTypeOK'
  BY <1>4 DEF CompleteRecording
<1> QED BY <1>1, <1>2, <1>3, <1>4 DEF RecordingTransaction

LEMMA StepTypes == StoreTypeOK /\ [StoreNext]_storeVars => StoreTypeOK'
<1> SUFFICES ASSUME StoreTypeOK, [StoreNext]_storeVars PROVE StoreTypeOK'
  OBVIOUS
<1>1. CASE Open
  BY <1>1 DEF Open, StoreTypeOK, RecordingRows
<1>2. CASE Close
  BY <1>2 DEF Close, StoreTypeOK
<1>3. CASE UNCHANGED storeVars
  BY <1>3 DEF storeVars, StoreTypeOK
<1> QED BY <1>1, <1>2, <1>3, EventStepTypes, RecordingStepTypes DEF StoreNext

-----------------------------------------------------------------------------
(* Events, rings and presses.                                              *)

RecordingsStay ==
  \A r \in RecId : recordings[r].status # "absent" => recordings'[r].status # "absent"

\* A step that touches only recordings, and removes none, keeps RingInv.
LEMMA OtherTables ==
  ASSUME RingInv, StoreTypeOK', RecordingsStay,
         UNCHANGED <<sequence, events, rings, pressQueue>>
  PROVE  RingInv'
  BY DEF RingInv, OneActiveRing, ActiveRings, PressRowsMatchCount, EventsAreAnchored,
         RingsAreCounted, RecordingsStay

LEMMA RecordingStepRings ==
  ASSUME RingInv, StoreTypeOK', NEW r \in RecId, RecordingTransaction(r)
  PROVE  RingInv'
<1>1. UNCHANGED <<sequence, events, rings, pressQueue>>
  BY DEF RecordingTransaction, BeginRecording, AppendRecordingSegment,
         FinalizeRecording, CompleteRecording
<1>2. RecordingsStay
  <2> USE DEF RecordingsStay, RingInv, StoreTypeOK, RecordingRows
  <2>1. CASE BeginRecording(r)
    BY <2>1 DEF BeginRecording
  <2>2. ASSUME NEW i \in SegIndex, AppendRecordingSegment(r, i) PROVE RecordingsStay
    BY <2>2 DEF AppendRecordingSegment
  <2>3. ASSUME NEW status \in Terminal, FinalizeRecording(r, status) PROVE RecordingsStay
    BY <2>3 DEF FinalizeRecording
  <2>4. ASSUME NEW i \in SegIndex, NEW status \in Terminal, CompleteRecording(r, i, status)
        PROVE  RecordingsStay
    BY <2>4 DEF CompleteRecording
  <2> QED BY <2>1, <2>2, <2>3, <2>4 DEF RecordingTransaction
<1> QED BY <1>1, <1>2, OtherTables

\* A step that only changes the state of a ring that has a row keeps RingInv,
\* if it leaves at most one ring active.
LEMMA StateChange ==
  ASSUME RingInv, StoreTypeOK', NEW e \in EventId, NEW state \in RingState,
         SetRingState(e, state), rings[e].state # "none",
         state # "ended" => ActiveRings \subseteq {e}
  PROVE  RingInv'
<1> USE DEF RingInv, SetRingState
<1>1. \A f \in EventId : /\ rings'[f].count = rings[f].count
                        /\ rings'[f].state = IF f = e THEN state ELSE rings[f].state
  BY DEF StoreTypeOK, RingRows
<1>2. OneActiveRing'
  BY <1>1 DEF OneActiveRing, ActiveRings
<1>3. PressRowsMatchCount'
  BY <1>1 DEF PressRowsMatchCount
<1>4. EventsAreAnchored' /\ RingsAreCounted'
  BY <1>1 DEF EventsAreAnchored, RingsAreCounted
<1> QED BY <1>2, <1>3, <1>4

LEMMA RingRow ==
  ASSUME StoreTypeOK, NEW e \in EventId
  PROVE  /\ rings[e].count \in Nat
         /\ rings[e].count <= MaxPresses
         /\ rings[e].state \in RingState \union {"none"}
<1>1. rings \in RingRows
  BY DEF StoreTypeOK
<1>2. rings[e] \in [state : RingState \union {"none"}, count : 0..MaxPresses,
                   first : Time, last : Time]
  BY <1>1 DEF RingRows
<1> QED BY <1>2

LEMMA EventStepRings ==
  ASSUME RingInv, StoreTypeOK', NEW e \in EventId, EventTransaction(e)
  PROVE  RingInv'
<1> USE DEF RingInv
<1>1. ASSUME NEW r \in RecId, CreatePersonEvent(e, r) PROVE RingInv'
  <2>1. rings[e].state = "none"
    BY <1>1 DEF CreatePersonEvent, EventsAreAnchored, StoreTypeOK, RingRows
  <2>2. EventsAreAnchored'
    BY <1>1, <2>1 DEF CreatePersonEvent, InsertEvent, EventsAreAnchored, StoreTypeOK, EventRows
  <2>3. (OneActiveRing /\ PressRowsMatchCount /\ RingsAreCounted)'
    BY <1>1 DEF CreatePersonEvent, OneActiveRing, ActiveRings, PressRowsMatchCount,
                RingsAreCounted
  <2> QED BY <2>2, <2>3
<1>2. ASSUME NEW at \in Time, RecordRepeatPress(e, at) PROVE RingInv'
  <2>1. \A f \in EventId : /\ rings'[f].state = rings[f].state
                          /\ rings'[f].count = IF f = e THEN rings[f].count + 1
                                               ELSE rings[f].count
    BY <1>2 DEF RecordRepeatPress, StoreTypeOK, RingRows
  <2>2. rings[e].count \in 1..(MaxPresses - 1)
    <3>1. rings[e].state # "none" /\ rings[e].count < MaxPresses
      BY <1>2 DEF RecordRepeatPress, ActiveRings
    <3>2. rings[e].count # 0
      BY <3>1 DEF RingsAreCounted
    <3>3. rings[e].count \in Nat
      BY RingRow
    <3> QED BY <3>1, <3>2, <3>3, EventStoreAssumption
  <2>3. PressRowsMatchCount'
    <3> SUFFICES ASSUME NEW f \in EventId, NEW s \in PressSeq
                 PROVE  pressQueue'[<<f, s>>] # NoPress <=> s \in 2..rings'[f].count
      BY DEF PressRowsMatchCount
    <3>1. pressQueue'[<<f, s>>] = IF f = e /\ s = rings[e].count + 1
                                    THEN "queued" ELSE pressQueue[<<f, s>>]
      BY <1>2, <2>2 DEF RecordRepeatPress, StoreTypeOK, PressRows
    <3>2. rings[f].count \in Nat
      BY RingRow
    <3>3. pressQueue[<<f, s>>] # NoPress <=> s \in 2..rings[f].count
      BY DEF PressRowsMatchCount
    <3>4. CASE f = e
      BY <2>1, <2>2, <3>1, <3>2, <3>3, <3>4
    <3>5. CASE f # e
      BY <2>1, <3>1, <3>3, <3>5
    <3> QED BY <3>4, <3>5
  <2>4. OneActiveRing'
    BY <2>1 DEF OneActiveRing, ActiveRings
  <2>5. RingsAreCounted'
    <3>1. \A f \in EventId : rings[f].count \in Nat
      BY RingRow
    <3>2. rings[e].count # 0 /\ rings[e].count + 1 # 0
      BY <2>2
    <3> QED BY <2>1, <3>1, <3>2 DEF RingsAreCounted
  <2>6. EventsAreAnchored'
    BY <1>2, <2>1 DEF RecordRepeatPress, EventsAreAnchored
  <2> QED BY <2>3, <2>4, <2>5, <2>6
<1>3. ASSUME NEW at \in Time, ExpireOpenRing(e, at) PROVE RingInv'
  BY <1>3, StateChange DEF ExpireOpenRing, Expired
<1>4. ASSUME NEW known \in RecId \union {NoRecording}, NEW r \in RecId, NEW at \in Time,
             RecordInitialPress(e, known, r, at)
      PROVE  RingInv'
  <2>1. rings[e].state = "none" /\ rings[e].count = 0
    BY <1>4 DEF RecordInitialPress, EventsAreAnchored, RingsAreCounted, StoreTypeOK, RingRows
  <2>2. \A f \in EventId : /\ rings'[f].state = IF f = e THEN "ringing" ELSE rings[f].state
                          /\ rings'[f].count = IF f = e THEN 1 ELSE rings[f].count
    BY <1>4 DEF RecordInitialPress, StoreTypeOK, RingRows
  <2>3. OneActiveRing'
    BY <1>4, <2>2 DEF RecordInitialPress, OneActiveRing, ActiveRings
  <2>4. RecordingsStay /\ recordings'[r].status # "absent"
    BY <1>4 DEF RecordInitialPress, RecordingsStay, StoreTypeOK, RecordingRows
  <2>5. EventsAreAnchored'
    <3> SUFFICES ASSUME NEW f \in EventId
                 PROVE  /\ events'[f].kind # "none" <=> f \in 1..sequence'
                        /\ events'[f].kind # "none" =>
                             /\ events'[f].recording \in RecId
                             /\ recordings'[events'[f].recording].status # "absent"
                        /\ events'[f].kind = "ring" <=> rings'[f].state # "none"
      BY DEF EventsAreAnchored
    <3>1. events'[f] = IF f = e THEN [kind |-> "ring", recording |-> r, reported |-> 0]
                       ELSE events[f]
      BY <1>4 DEF RecordInitialPress, InsertEvent, StoreTypeOK, EventRows
    <3>2. sequence \in Nat /\ sequence' = sequence + 1 /\ e = sequence + 1
      BY <1>4 DEF RecordInitialPress, InsertEvent, StoreTypeOK
    <3> QED BY <2>2, <2>4, <3>1, <3>2 DEF EventsAreAnchored, RecordingsStay
  <2>6. PressRowsMatchCount'
    <3> SUFFICES ASSUME NEW f \in EventId, NEW s \in PressSeq
                 PROVE  pressQueue'[<<f, s>>] # NoPress <=> s \in 2..rings'[f].count
      BY DEF PressRowsMatchCount
    <3>1. pressQueue' = pressQueue
      BY <1>4 DEF RecordInitialPress
    <3>2. pressQueue[<<f, s>>] # NoPress <=> s \in 2..rings[f].count
      BY DEF PressRowsMatchCount
    <3>3. CASE f = e
      BY <2>1, <2>2, <3>1, <3>2, <3>3
    <3>4. CASE f # e
      BY <2>2, <3>1, <3>2, <3>4
    <3> QED BY <3>3, <3>4
  <2>7. RingsAreCounted'
    BY <2>2 DEF RingsAreCounted
  <2> QED BY <2>3, <2>5, <2>6, <2>7
<1>5. ASSUME NEW state \in RingState, UpdateRingState(e, state) PROVE RingInv'
  BY <1>5, StateChange DEF UpdateRingState
<1>6. CASE RecoverStaleAcceptedRing(e)
  BY <1>6, StateChange DEF RecoverStaleAcceptedRing
<1>7. ASSUME NEW seq \in PressSeq, MarkRingPressReported(e, seq) PROVE RingInv'
  <2>1. \A p \in EventId \X PressSeq :
          pressQueue'[p] # NoPress <=> pressQueue[p] # NoPress
    BY <1>7 DEF MarkRingPressReported, StoreTypeOK, PressRows
  <2>2. PressRowsMatchCount'
    BY <1>7, <2>1 DEF MarkRingPressReported, PressRowsMatchCount
  <2> QED BY <1>7, <2>2 DEF MarkRingPressReported, OneActiveRing, ActiveRings,
                            EventsAreAnchored, RingsAreCounted
<1>8. CASE MarkReported(e) \/ MarkUnreportable(e)
  <2>1. PICK value \in {-1, 1} : SetReported(e, value)
    BY <1>8 DEF MarkReported, MarkUnreportable
  <2>2. \A f \in EventId : /\ events'[f].kind = events[f].kind
                          /\ events'[f].recording = events[f].recording
    BY <2>1 DEF SetReported, StoreTypeOK, EventRows
  <2>3. EventsAreAnchored'
    BY <2>1, <2>2 DEF SetReported, EventsAreAnchored
  <2> QED BY <2>1, <2>3 DEF SetReported, OneActiveRing, ActiveRings,
                            PressRowsMatchCount, RingsAreCounted
<1> QED BY <1>1, <1>2, <1>3, <1>4, <1>5, <1>6, <1>7, <1>8 DEF EventTransaction

LEMMA InitRings == StoreInit => RingInv
<1> SUFFICES ASSUME StoreInit PROVE RingInv
  OBVIOUS
<1>1. StoreTypeOK
  BY InitTypes
<1>2. OneActiveRing /\ RingsAreCounted
  BY DEF StoreInit, OneActiveRing, ActiveRings, RingsAreCounted
<1>3. PressRowsMatchCount
  BY DEF StoreInit, PressRowsMatchCount
<1>4. EventsAreAnchored
  BY DEF StoreInit, EventsAreAnchored
<1> QED BY <1>1, <1>2, <1>3, <1>4 DEF RingInv

LEMMA StepRings == RingInv /\ [StoreNext]_storeVars => RingInv'
<1> SUFFICES ASSUME RingInv, [StoreNext]_storeVars PROVE RingInv'
  OBVIOUS
<1>1. StoreTypeOK'
  BY StepTypes DEF RingInv
<1>2. CASE Open
  <2>1. RecordingsStay
    BY <1>2 DEF Open, RecordingsStay, RingInv, StoreTypeOK, RecordingRows
  <2> QED BY <1>1, <1>2, <2>1, OtherTables DEF Open
<1>3. CASE Close \/ UNCHANGED storeVars
  BY <1>1, <1>3, OtherTables DEF Close, storeVars, RecordingsStay
<1> QED BY <1>1, <1>2, <1>3, EventStepRings, RecordingStepRings DEF StoreNext

\* The tables are well typed, and the events, rings and presses agree: at most
\* one open ring, one row for each repeated press and no other, every event
\* anchored in a recording.
THEOREM RingsAreConsistent == StoreSpec => []RingInv
<1>1. StoreInit => RingInv
  BY InitRings
<1>2. RingInv /\ [StoreNext]_storeVars => RingInv'
  BY StepRings
<1> QED BY <1>1, <1>2, PTL DEF StoreSpec

\* Types hold in every state of the store.
THEOREM StoreIsTyped == StoreSpec => []StoreTypeOK
<1>1. RingInv => StoreTypeOK
  BY DEF RingInv
<1> QED BY <1>1, RingsAreConsistent, PTL

\* At most one ring is open, for any commands and presses in any order.
THEOREM OneRingAtATime == StoreSpec => []OneActiveRing
<1>1. RingInv => OneActiveRing
  BY DEF RingInv
<1> QED BY <1>1, RingsAreConsistent, PTL

\* Press rows and press counters agree.
THEOREM PressesAreCounted == StoreSpec => []PressRowsMatchCount
<1>1. RingInv => PressRowsMatchCount
  BY DEF RingInv
<1> QED BY <1>1, RingsAreConsistent, PTL

\* Events have their recordings, and ring rows their events.
THEOREM EventsStayAnchored == StoreSpec => []EventsAreAnchored
<1>1. RingInv => EventsAreAnchored
  BY DEF RingInv
<1> QED BY <1>1, RingsAreConsistent, PTL

-----------------------------------------------------------------------------
(* Recordings and segments.                                                *)

SegmentsOf(r) == {i \in SegIndex : <<r, i>> \in segments}

\* A recording begins with nothing: an id that is not allocated yet counts no
\* segment.
AbsentIsEmpty == \A r \in RecId : recordings[r].status = "absent" => recordings[r].segments = 0

\* The inductive invariant of recordings and segments.
SegmentInv == StoreTypeOK /\ SegmentCountMatches /\ AbsentIsEmpty

LEMMA SegmentsAreFinite ==
  ASSUME NEW r
  PROVE  IsFiniteSet(SegmentsOf(r))
<1>1. IsFiniteSet(SegIndex)
  BY FS_Interval, EventStoreAssumption
<1>2. SegmentsOf(r) \subseteq SegIndex
  BY DEF SegmentsOf
<1> QED BY <1>1, <1>2, FS_Subset

\* A step that adds no segment and changes no count keeps SegmentInv.
LEMMA NoSegment ==
  ASSUME SegmentInv, StoreTypeOK', UNCHANGED segments,
         \A q \in RecId : recordings'[q].segments = recordings[q].segments,
         RecordingsStay
  PROVE  SegmentInv'
  BY DEF SegmentInv, SegmentCountMatches, AbsentIsEmpty, RecordingsStay

\* A step that adds one segment and counts it keeps SegmentInv.
LEMMA OneSegment ==
  ASSUME SegmentInv, StoreTypeOK', NEW r \in RecId, NEW i \in SegIndex,
         <<r, i>> \notin segments, segments' = segments \union {<<r, i>>},
         \A q \in RecId : q # r => recordings'[q] = recordings[q],
         recordings'[r].segments = recordings[r].segments + 1,
         recordings'[r].status # "absent"
  PROVE  SegmentInv'
<1>1. SegmentCountMatches'
  <2> SUFFICES ASSUME NEW q \in RecId
               PROVE  recordings'[q].segments = Cardinality(SegmentsOf(q)')
    BY DEF SegmentCountMatches, SegmentsOf
  <2>1. recordings[q].segments = Cardinality(SegmentsOf(q))
    BY DEF SegmentInv, SegmentCountMatches, SegmentsOf
  <2>2. CASE q = r
    <3>1. SegmentsOf(r)' = SegmentsOf(r) \union {i}
      BY DEF SegmentsOf
    <3>2. i \notin SegmentsOf(r)
      BY DEF SegmentsOf
    <3>3. Cardinality(SegmentsOf(r) \union {i}) = Cardinality(SegmentsOf(r)) + 1
      BY <3>2, SegmentsAreFinite, FS_AddElement
    <3> QED BY <2>1, <2>2, <3>1, <3>3
  <2>3. CASE q # r
    <3>1. SegmentsOf(q)' = SegmentsOf(q)
      BY <2>3 DEF SegmentsOf
    <3> QED BY <2>1, <2>3, <3>1
  <2> QED BY <2>2, <2>3
<1>2. AbsentIsEmpty'
  BY DEF SegmentInv, AbsentIsEmpty
<1> QED BY <1>1, <1>2 DEF SegmentInv

LEMMA RecordingStepSegments ==
  ASSUME SegmentInv, StoreTypeOK', NEW r \in RecId, RecordingTransaction(r)
  PROVE  SegmentInv'
<1>1. recordings \in RecordingRows
  BY DEF SegmentInv, StoreTypeOK
<1>2. CASE BeginRecording(r)
  <2>1. recordings[r].segments = 0
    BY <1>2 DEF BeginRecording, FreshRecording, SegmentInv, AbsentIsEmpty
  <2>2. \A q \in RecId : recordings'[q].segments = recordings[q].segments
    BY <1>1, <1>2, <2>1 DEF BeginRecording, RecordingRows
  <2>3. RecordingsStay
    BY <1>1, <1>2 DEF BeginRecording, RecordingsStay, RecordingRows
  <2>4. UNCHANGED segments
    BY <1>2 DEF BeginRecording
  <2> QED BY <2>2, <2>3, <2>4, NoSegment
<1>3. ASSUME NEW status \in Terminal, FinalizeRecording(r, status) PROVE SegmentInv'
  <2>1. \A q \in RecId : recordings'[q].segments = recordings[q].segments
    BY <1>1, <1>3 DEF FinalizeRecording, RecordingRows
  <2>2. RecordingsStay
    BY <1>1, <1>3 DEF FinalizeRecording, RecordingsStay, RecordingRows
  <2>3. UNCHANGED segments
    BY <1>3 DEF FinalizeRecording
  <2> QED BY <2>1, <2>2, <2>3, NoSegment
<1>4. ASSUME NEW i \in SegIndex, AppendRecordingSegment(r, i) PROVE SegmentInv'
  <2>1. /\ \A q \in RecId : q # r => recordings'[q] = recordings[q]
        /\ recordings'[r].segments = recordings[r].segments + 1
        /\ recordings'[r].status # "absent"
    BY <1>1, <1>4 DEF AppendRecordingSegment, RecordingRows
  <2>2. <<r, i>> \notin segments /\ segments' = segments \union {<<r, i>>}
    BY <1>4 DEF AppendRecordingSegment
  <2> QED BY <2>1, <2>2, OneSegment
<1>5. ASSUME NEW i \in SegIndex, NEW status \in Terminal, CompleteRecording(r, i, status)
      PROVE  SegmentInv'
  <2>1. /\ \A q \in RecId : q # r => recordings'[q] = recordings[q]
        /\ recordings'[r].segments = recordings[r].segments + 1
        /\ recordings'[r].status # "absent"
    BY <1>1, <1>5 DEF CompleteRecording, RecordingRows
  <2>2. <<r, i>> \notin segments /\ segments' = segments \union {<<r, i>>}
    BY <1>5 DEF CompleteRecording
  <2> QED BY <2>1, <2>2, OneSegment
<1> QED BY <1>2, <1>3, <1>4, <1>5 DEF RecordingTransaction

\* Of the event transactions only a first press touches the recordings: it
\* inserts a fresh one.
LEMMA EventStepRecordings ==
  ASSUME recordings \in RecordingRows, NEW e \in EventId, EventTransaction(e)
  PROVE  /\ UNCHANGED segments
         /\ UNCHANGED recordings \/
              \E r \in RecId : /\ FreshRecording(r)
                               /\ recordings' = [recordings EXCEPT ![r] =
                                    [status |-> "recording", segments |-> 0]]
<1>1. ASSUME NEW known \in RecId \union {NoRecording}, NEW r \in RecId, NEW at \in Time,
             RecordInitialPress(e, known, r, at)
      PROVE  /\ UNCHANGED segments
             /\ UNCHANGED recordings \/
                  /\ FreshRecording(r)
                  /\ recordings' = [recordings EXCEPT ![r] =
                       [status |-> "recording", segments |-> 0]]
  BY <1>1 DEF RecordInitialPress
<1>2. ASSUME ~\E known \in RecId \union {NoRecording}, r \in RecId, at \in Time :
               RecordInitialPress(e, known, r, at)
      PROVE  UNCHANGED <<segments, recordings>>
  BY <1>2 DEF EventTransaction, CreatePersonEvent, RecordRepeatPress, ExpireOpenRing,
              UpdateRingState, RecoverStaleAcceptedRing, SetRingState,
              MarkRingPressReported, MarkReported, MarkUnreportable, SetReported
<1> QED BY <1>1, <1>2

LEMMA StepSegments == SegmentInv /\ [StoreNext]_storeVars => SegmentInv'
<1> SUFFICES ASSUME SegmentInv, [StoreNext]_storeVars PROVE SegmentInv'
  OBVIOUS
<1>1. StoreTypeOK' /\ recordings \in RecordingRows
  BY StepTypes DEF SegmentInv, StoreTypeOK
<1>2. CASE Open
  <2>1. \A q \in RecId : /\ recordings'[q].segments = recordings[q].segments
                        /\ recordings'[q].status = "absent" => recordings[q].status = "absent"
    BY <1>1, <1>2 DEF Open, RecordingRows
  <2> QED BY <1>1, <1>2, <2>1, NoSegment DEF Open, RecordingsStay
<1>3. CASE Close \/ UNCHANGED storeVars
  BY <1>1, <1>3, NoSegment DEF Close, storeVars, RecordingsStay
<1>4. ASSUME NEW e \in EventId, EventTransaction(e) PROVE SegmentInv'
  <2>1. UNCHANGED segments
    BY <1>1, <1>4, EventStepRecordings
  <2>2. CASE UNCHANGED recordings
    BY <1>1, <2>1, <2>2, NoSegment DEF RecordingsStay
  <2>3. ASSUME NEW r \in RecId, FreshRecording(r),
               recordings' = [recordings EXCEPT ![r] = [status |-> "recording", segments |-> 0]]
        PROVE  SegmentInv'
    <3>1. recordings[r].segments = 0
      BY <2>3 DEF FreshRecording, SegmentInv, AbsentIsEmpty
    <3>2. \A q \in RecId : recordings'[q].segments = recordings[q].segments
      BY <1>1, <2>3, <3>1 DEF RecordingRows
    <3>3. RecordingsStay
      BY <1>1, <2>3 DEF RecordingsStay, RecordingRows
    <3> QED BY <1>1, <2>1, <3>2, <3>3, NoSegment
  <2> QED BY <1>1, <1>4, <2>2, <2>3, EventStepRecordings
<1> QED BY <1>1, <1>2, <1>3, <1>4, RecordingStepSegments DEF StoreNext

\* The segment counter of a recording is the number of its segment rows.
THEOREM SegmentsAreCounted == StoreSpec => []SegmentCountMatches
<1>1. StoreInit => SegmentInv
  <2> SUFFICES ASSUME StoreInit PROVE SegmentInv
    OBVIOUS
  <2>1. \A r \in RecId : recordings[r].segments = 0 /\ SegmentsOf(r) = {}
    BY DEF StoreInit, SegmentsOf
  <2>2. SegmentCountMatches
    BY <2>1, FS_EmptySet DEF SegmentCountMatches, SegmentsOf
  <2> QED BY <2>1, <2>2, InitTypes DEF SegmentInv, AbsentIsEmpty
<1>2. SegmentInv /\ [StoreNext]_storeVars => SegmentInv'
  BY StepSegments
<1>3. SegmentInv => SegmentCountMatches
  BY DEF SegmentInv
<1> QED BY <1>1, <1>2, <1>3, PTL DEF StoreSpec

-----------------------------------------------------------------------------
(* What no transaction may do.                                             *)

RecordingsKept ==
  \A r \in RecId : recordings[r].status \in Terminal => recordings'[r] = recordings[r]

\* A recording that has ended keeps its state and its segment count: neither
\* a late segment, nor a second finalization, nor a restart changes it.
THEOREM EndedRecordingsAreImmutable == StoreSpec => TerminalIsImmutable
<1>1. StoreTypeOK /\ [StoreNext]_storeVars => [RecordingsKept]_storeVars
  <2> SUFFICES ASSUME recordings \in RecordingRows, StoreNext PROVE RecordingsKept
    BY DEF StoreTypeOK
  <2> USE DEF RecordingsKept, RecordingRows
  <2>1. CASE Open \/ Close
    BY <2>1 DEF Open, Close
  <2>2. ASSUME NEW e \in EventId, EventTransaction(e) PROVE RecordingsKept
    <3>1. CASE UNCHANGED recordings
      BY <3>1
    <3>2. ASSUME NEW r \in RecId, FreshRecording(r),
                 recordings' = [recordings EXCEPT ![r] = [status |-> "recording", segments |-> 0]]
          PROVE  RecordingsKept
      BY <3>2 DEF FreshRecording
    <3> QED BY <2>2, <3>1, <3>2, EventStepRecordings
  <2>3. ASSUME NEW r \in RecId, RecordingTransaction(r) PROVE RecordingsKept
    BY <2>3 DEF RecordingTransaction, BeginRecording, FreshRecording,
                AppendRecordingSegment, FinalizeRecording, CompleteRecording
  <2> QED BY <2>1, <2>2, <2>3 DEF StoreNext
<1> QED BY <1>1, StoreIsTyped, PTL DEF StoreSpec, TerminalIsImmutable, RecordingsKept

EventsKept ==
  \A e \in EventId : events[e].kind # "none" =>
    /\ events'[e].kind = events[e].kind
    /\ events'[e].recording = events[e].recording
CountsKept == \A e \in EventId : rings'[e].count >= rings[e].count
ReportsKept ==
  \A p \in EventId \X PressSeq : pressQueue[p] = "reported" => pressQueue'[p] = "reported"

LEMMA EventsAreKept ==
  ASSUME RingInv, NEW e \in EventId, EventTransaction(e)
  PROVE  EventsKept
<1>1. events \in EventRows
  BY DEF RingInv, StoreTypeOK
<1>2. ASSUME NEW kind, NEW r, e = sequence + 1, InsertEvent(e, kind, r)
      PROVE  EventsKept
  <2>1. sequence \in Nat
    BY DEF RingInv, StoreTypeOK
  <2>2. events[e].kind = "none"
    BY <1>2, <2>1 DEF RingInv, EventsAreAnchored
  <2>3. \A f \in EventId : f # e => events'[f] = events[f]
    BY <1>1, <1>2 DEF InsertEvent, EventRows
  <2> QED BY <2>2, <2>3 DEF EventsKept
<1>3. ASSUME NEW value, SetReported(e, value)
      PROVE  EventsKept
  BY <1>1, <1>3 DEF SetReported, EventRows, EventsKept
<1>4. CASE UNCHANGED events
  BY <1>4 DEF EventsKept
<1> QED
  BY <1>2, <1>3, <1>4 DEF EventTransaction, CreatePersonEvent, RecordInitialPress,
       RecordRepeatPress, ExpireOpenRing, UpdateRingState, RecoverStaleAcceptedRing,
       SetRingState, MarkRingPressReported, MarkReported, MarkUnreportable

LEMMA CountsAreKept ==
  ASSUME RingInv, NEW e \in EventId, EventTransaction(e)
  PROVE  CountsKept
<1>1. rings \in RingRows /\ \A f \in EventId : rings[f].count \in Nat
  BY RingRow DEF RingInv, StoreTypeOK
<1>2. ASSUME NEW known \in RecId \union {NoRecording}, NEW r \in RecId, NEW at \in Time,
             RecordInitialPress(e, known, r, at)
      PROVE  CountsKept
  <2>1. sequence \in Nat /\ e = sequence + 1
    BY <1>2 DEF RingInv, StoreTypeOK, RecordInitialPress
  <2>2. rings[e].count = 0
    BY <2>1 DEF RingInv, EventsAreAnchored, RingsAreCounted
  <2>3. \A f \in EventId : rings'[f].count = IF f = e THEN 1 ELSE rings[f].count
    BY <1>1, <1>2 DEF RecordInitialPress, RingRows
  <2> QED BY <1>1, <2>2, <2>3 DEF CountsKept
<1>3. ASSUME NEW at \in Time, RecordRepeatPress(e, at) PROVE CountsKept
  <2>1. \A f \in EventId : rings'[f].count = IF f = e THEN rings[f].count + 1
                                                     ELSE rings[f].count
    BY <1>1, <1>3 DEF RecordRepeatPress, RingRows
  <2> QED BY <1>1, <2>1 DEF CountsKept
<1>4. ASSUME NEW state, SetRingState(e, state) PROVE CountsKept
  <2>1. \A f \in EventId : rings'[f].count = rings[f].count
    BY <1>1, <1>4 DEF SetRingState, RingRows
  <2> QED BY <1>1, <2>1 DEF CountsKept
<1>5. CASE UNCHANGED rings
  BY <1>1, <1>5 DEF CountsKept
<1> QED
  BY <1>2, <1>3, <1>4, <1>5 DEF EventTransaction, CreatePersonEvent, ExpireOpenRing,
       UpdateRingState, RecoverStaleAcceptedRing, MarkRingPressReported,
       MarkReported, MarkUnreportable, SetReported

LEMMA ReportsAreKept ==
  ASSUME RingInv, NEW e \in EventId, EventTransaction(e)
  PROVE  ReportsKept
<1>1. pressQueue \in PressRows
  BY DEF RingInv, StoreTypeOK
<1>2. ASSUME NEW at \in Time, RecordRepeatPress(e, at) PROVE ReportsKept
  <2>1. rings[e].count \in Nat /\ rings[e].count < MaxPresses
    BY <1>2, RingRow DEF RingInv, RecordRepeatPress
  <2>2. pressQueue[<<e, rings[e].count + 1>>] = NoPress
    BY <2>1, EventStoreAssumption DEF RingInv, PressRowsMatchCount
  <2>3. \A p \in EventId \X PressSeq :
          p # <<e, rings[e].count + 1>> => pressQueue'[p] = pressQueue[p]
    BY <1>1, <1>2 DEF RecordRepeatPress, PressRows
  <2> QED BY <2>2, <2>3 DEF ReportsKept
<1>3. ASSUME NEW seq \in PressSeq, MarkRingPressReported(e, seq) PROVE ReportsKept
  BY <1>1, <1>3 DEF MarkRingPressReported, PressRows, ReportsKept
<1>4. CASE UNCHANGED pressQueue
  BY <1>4 DEF ReportsKept
<1> QED
  BY <1>2, <1>3, <1>4 DEF EventTransaction, CreatePersonEvent, RecordInitialPress,
       ExpireOpenRing, UpdateRingState, RecoverStaleAcceptedRing, SetRingState,
       MarkReported, MarkUnreportable, SetReported

\* No transaction takes an event, a press or a report back.
THEOREM HistoryIsNeverLost == StoreSpec => HistoryIsKept
<1>1. RingInv /\ [StoreNext]_storeVars => [EventsKept /\ CountsKept /\ ReportsKept]_storeVars
  <2> SUFFICES ASSUME RingInv, StoreNext PROVE EventsKept /\ CountsKept /\ ReportsKept
    OBVIOUS
  <2>1. CASE UNCHANGED <<events, rings, pressQueue>>
    <3>1. \A e \in EventId : rings[e].count \in Nat
      BY RingRow DEF RingInv
    <3> QED BY <2>1, <3>1 DEF EventsKept, CountsKept, ReportsKept
  <2>2. ASSUME NEW e \in EventId, EventTransaction(e)
        PROVE  EventsKept /\ CountsKept /\ ReportsKept
    BY <2>2, EventsAreKept, CountsAreKept, ReportsAreKept
  <2>3. CASE (Open \/ Close) \/ \E r \in RecId : RecordingTransaction(r)
    <3>1. UNCHANGED <<events, rings, pressQueue>>
      BY <2>3 DEF Open, Close, RecordingTransaction, BeginRecording,
           AppendRecordingSegment, FinalizeRecording, CompleteRecording
    <3> QED BY <2>1, <3>1
  <2> QED BY <2>2, <2>3 DEF StoreNext
<1>2. [EventsKept /\ CountsKept /\ ReportsKept]_storeVars
        => [\A e \in EventId :
              /\ events[e].kind # "none" =>
                   /\ events'[e].kind = events[e].kind
                   /\ events'[e].recording = events[e].recording
              /\ rings'[e].count >= rings[e].count
              /\ \A s \in PressSeq :
                   pressQueue[<<e, s>>] = "reported" =>
                     pressQueue'[<<e, s>>] = "reported"]_storeVars
  BY DEF EventsKept, CountsKept, ReportsKept
<1> QED BY <1>1, <1>2, RingsAreConsistent, PTL DEF StoreSpec, HistoryIsKept

=============================================================================
