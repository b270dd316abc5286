----------------------------- MODULE QueueOnce ------------------------------
(***************************************************************************)
(* What intake is to the lifecycle of a question, however many deliveries  *)
(* there are of it: it is stored once, and whoever stored it then queues   *)
(* it once or gives up; after that intake has no more to do with it.       *)
(***************************************************************************)
EXTENDS Naturals

VARIABLES
  intake,   \* none, registered or ended
  queued    \* messages that intake put on the queue

promise == <<intake, queued>>

Init == intake = "none" /\ queued = 0

Store ==
  /\ intake = "none"
  /\ intake' = "registered"
  /\ UNCHANGED queued

Queue ==
  /\ intake = "registered"
  /\ intake' = "ended"
  /\ queued' = queued + 1

GiveUp ==
  /\ intake = "registered"
  /\ intake' = "ended"
  /\ UNCHANGED queued

Next == Store \/ Queue \/ GiveUp

Spec == Init /\ [][Next]_promise
=============================================================================
