---------------------------- MODULE AtLeastOnce ----------------------------
(***************************************************************************)
(* What reporting promises: an item that was recorded is received by the   *)
(* backend before it is settled, perhaps several times and also after it   *)
(* was settled; nothing is taken back.                                     *)
(***************************************************************************)
CONSTANT Item
VARIABLES recorded, received, settled

vars == <<recorded, received, settled>>

Init == recorded = {} /\ received = {} /\ settled = {}

Record(i) ==
  /\ i \notin recorded
  /\ recorded' = recorded \union {i}
  /\ UNCHANGED <<received, settled>>

Receive(i) ==
  /\ i \in recorded
  /\ received' = received \union {i}
  /\ UNCHANGED <<recorded, settled>>

Settle(i) ==
  /\ i \in received
  /\ settled' = settled \union {i}
  /\ UNCHANGED <<recorded, received>>

Next == \E i \in Item : Record(i) \/ Receive(i) \/ Settle(i)

Spec == Init /\ [][Next]_vars
=============================================================================
