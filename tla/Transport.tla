------------------------------ MODULE Transport ------------------------------
(***************************************************************************)
(* What ConversationController expects of a CollectiveOSTransport          *)
(* (collectiveos_client.py), whichever class stands behind it: events      *)
(* arrive in order, an interruption loses only the last ones on their way, *)
(* and it is repaired, or given up, only after the others were delivered.  *)
(* Conversation models its network this way.                               *)
(***************************************************************************)
EXTENDS Integers

VARIABLES
  link,    \* "none", "up", "down" (not noticed or being repaired), "failed",
           \* "closed"
  pending  \* events that arrived or will, and have not been delivered

Init == link = "none" /\ pending = 0

Opens == link = "none" /\ link' = "up" /\ UNCHANGED pending

NeverOpens == link = "none" /\ link' = "failed" /\ UNCHANGED pending

Emits == link = "up" /\ pending' = pending + 1 /\ UNCHANGED link

Delivers ==
  link \in {"up", "down"} /\ pending > 0 /\ pending' = pending - 1 /\ UNCHANGED link

Breaks == link = "up" /\ link' = "down" /\ pending' \in 0..pending

Restores == link = "down" /\ pending = 0 /\ link' = "up" /\ UNCHANGED pending

Abandons == link = "down" /\ pending = 0 /\ link' = "failed" /\ UNCHANGED pending

Closes == link \in {"up", "down", "failed"} /\ link' = "closed" /\ pending' = 0

Next ==
  \/ Opens \/ NeverOpens \/ Emits \/ Delivers \/ Breaks \/ Restores \/ Abandons
  \/ Closes

Spec == Init /\ [][Next]_<<link, pending>>
=============================================================================
