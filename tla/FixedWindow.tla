----------------------------- MODULE FixedWindow -----------------------------
(***************************************************************************)
(* RedisRateLimiter (rate_limiter.py) for one key: a counter in Redis that *)
(* the first call of a window creates and, with a second command, gives a  *)
(* time to live.  The turns of a user call allow() concurrently; another   *)
(* call, or the end of the turn, may come between the two commands.        *)
(***************************************************************************)
EXTENDS Integers

CONSTANTS
  Calls,      \* calls of allow() that can be under way at the same time
  Limit,      \* limit
  Window,     \* window_seconds, in ticks
  MaxCount    \* bound: how far the counter goes

ASSUME LimitAssumption  == Limit \in Nat \ {0} /\ MaxCount \in Nat /\ MaxCount > Limit
ASSUME WindowAssumption == Window \in Nat \ {0}

VARIABLES
  count,    \* the counter in Redis, 0 when there is no key
  ttl,      \* ticks until the key expires, 0 when nothing makes it expire
  calls,    \* calls that have counted 1 and not yet sent EXPIRE
  lost,     \* history: a call ended between its two commands
  admitted, \* history: calls let through since an observer looks
  left      \* history: what is left of the window it looks at

vars == <<count, ttl, calls, lost, admitted, left>>

TypeOK ==
  /\ count \in 0..MaxCount /\ ttl \in 0..Window
  /\ calls \subseteq Calls /\ lost \in BOOLEAN
  /\ admitted \in Nat /\ left \in 0..Window

Init == count = 0 /\ ttl = 0 /\ calls = {} /\ lost = FALSE /\ admitted = 0 /\ left = 0

(* A call that is let through while the observer looks is counted.         *)
Admit(ok) == admitted' = IF ok /\ left > 0 THEN admitted + 1 ELSE admitted

(* The counter is compared before it counts this call.                     *)
IncrOffByOneFaulty(c) ==
  /\ c \notin calls /\ count < MaxCount
  /\ count' = count + 1
  /\ IF count' = 1 THEN calls' = calls \cup {c} /\ UNCHANGED admitted
                   ELSE Admit(count <= Limit) /\ UNCHANGED calls
  /\ UNCHANGED <<ttl, lost, left>>

(* No call recognises that it is the first one of a window.                *)
IncrNeverFirstFaulty(c) ==
  /\ c \notin calls /\ count < MaxCount
  /\ count' = count + 1
  /\ Admit(count' <= Limit)
  /\ UNCHANGED <<ttl, calls, lost, left>>

(* allow(), INCR: the first call of a window goes on to EXPIRE, any other  *)
(* one has its answer.                                                     *)
Incr(c) ==
  /\ c \notin calls /\ count < MaxCount
  /\ count' = count + 1
  /\ IF count' = 1 THEN calls' = calls \cup {c} /\ UNCHANGED admitted
                   ELSE Admit(count' <= Limit) /\ UNCHANGED calls
  /\ UNCHANGED <<ttl, lost, left>>

(* The time to live is given in a unit half as long as Redis takes it for. *)
ExpireFaulty(c) ==
  /\ c \in calls
  /\ ttl' = IF count > 0 THEN 2 * Window ELSE 0
  /\ calls' = calls \ {c} /\ Admit(TRUE)
  /\ UNCHANGED <<count, lost, left>>

(* allow(), EXPIRE                                                         *)
Expire(c) ==
  /\ c \in calls
  /\ ttl' = IF count > 0 THEN Window ELSE 0
  /\ calls' = calls \ {c} /\ Admit(TRUE)
  /\ UNCHANGED <<count, lost, left>>

(* The call ends without it: a barge-in cancels its turn, or Redis refuses *)
(* the second command.                                                     *)
Abandon(c) ==
  /\ c \in calls
  /\ calls' = calls \ {c} /\ lost' = TRUE
  /\ UNCHANGED <<count, ttl, admitted, left>>

(* A tick later; Redis drops a key whose time is over (external).          *)
Tick ==
  /\ ttl' = IF ttl > 0 THEN ttl - 1 ELSE 0
  /\ count' = IF ttl = 1 THEN 0 ELSE count
  /\ left' = IF left > 0 THEN left - 1 ELSE 0
  /\ admitted' = IF left' = 0 THEN 0 ELSE admitted
  /\ UNCHANGED <<calls, lost>>

Observe == left = 0 /\ left' = Window /\ UNCHANGED <<count, ttl, calls, lost, admitted>>

Next ==
  \/ \E c \in Calls : Incr(c) \/ Expire(c) \/ Abandon(c)
  \/ Tick \/ Observe

(* Time goes on, and a call that has counted sends its second command.     *)
Fairness == WF_vars(Tick) /\ \A c \in Calls : WF_vars(Expire(c))

Spec == Init /\ [][Next]_vars /\ Fairness

-----------------------------------------------------------------------------
(* The slop at the edge of a window has a limit: over any time as long as  *)
(* a window, at most twice the limit gets through.                         *)
AtMostTwice == admitted <= 2 * Limit

(* While no call was lost between its two commands, a user who was refused *)
(* will be let through again: the counter is dropped some time.            *)
LockoutEnds == count > Limit /\ ~ lost ~> count = 0 \/ lost

(* ... and afterwards too, so that a window is what its name says.         *)
WindowsEnd == count > Limit ~> count = 0
=============================================================================
