----------------------------- MODULE TokenBucket -----------------------------
(***************************************************************************)
(* InMemoryRateLimiter (rate_limiter.py): a token bucket per user.         *)
(*                                                                         *)
(* Time is counted in ticks of the clock and tokens in shares, Rate shares *)
(* per tick and Cost shares per token, so that a refill between two calls  *)
(* may add part of a token, as the floats of the code do; their rounding   *)
(* is left out.  allow() does not suspend: a call is one step.             *)
(***************************************************************************)
EXTENDS Integers

CONSTANTS
  Users,    \* keys
  Capacity, \* capacity, in shares: the shares a full bucket holds
  Rate,     \* refill_rate: shares gained per tick
  Cost,     \* shares in a token, which is what a call costs
  MaxTime   \* bound: how far the clock goes

ASSUME SharesAssumption ==
  /\ Capacity \in Nat /\ Rate \in Nat \ {0} /\ Cost \in Nat \ {0}
  /\ Cost <= Capacity
ASSUME TimeAssumption == MaxTime \in Nat

VARIABLES
  now,         \* the clock
  known,       \* users that have a bucket
  tokens,      \* per user, tokens
  last_refill, \* per user, last_refill
  admitted,    \* history: calls let through since the observer looks
  since,       \* history: when an observer began to count, per user
  served,      \* history: when the last call was let through
  refused      \* history: users whose last call was refused

buckets == <<known, tokens, last_refill>>
history == <<admitted, since, served, refused>>
vars    == <<now, buckets, history>>

TypeOK ==
  /\ now \in 0..MaxTime
  /\ known \subseteq Users
  /\ tokens \in [Users -> 0..Capacity]
  /\ last_refill \in [Users -> 0..MaxTime]
  /\ admitted \in [Users -> Nat]
  /\ since \in [Users -> 0..MaxTime]
  /\ served \in [Users -> 0..MaxTime]
  /\ refused \subseteq Users

Init ==
  /\ now = 0
  /\ known = {}
  /\ tokens = [u \in Users |-> 0] /\ last_refill = [u \in Users |-> 0]
  /\ admitted = [u \in Users |-> 0] /\ since = [u \in Users |-> 0]
  /\ served = [u \in Users |-> 0] /\ refused = {}

Least(m, n) == IF m <= n THEN m ELSE n

(* Whole tokens only: what is left of a token is forgotten at every call.  *)
RefillFaulty(u) ==
  IF u \notin known THEN Capacity
  ELSE Least(Capacity, tokens[u] + (((now - last_refill[u]) * Rate) \div Cost) * Cost)

(* The refill is not capped.                                               *)
RefillUncappedFaulty(u) ==
  IF u \notin known THEN Capacity
  ELSE tokens[u] + (now - last_refill[u]) * Rate

(* The shares in the bucket of u once it has been made or refilled.        *)
Refill(u) ==
  IF u \notin known THEN Capacity
  ELSE Least(Capacity, tokens[u] + (now - last_refill[u]) * Rate)

(* The time of the refill is kept only when the call is let through.       *)
AllowFaulty(u) ==
  LET filled == Refill(u)
      ok     == filled >= Cost
  IN  /\ known' = known \cup {u}
      /\ tokens' = [tokens EXCEPT ![u] = IF ok THEN filled - Cost ELSE filled]
      /\ last_refill' = [last_refill EXCEPT ![u] = IF ok THEN now ELSE @]
      /\ admitted' = [admitted EXCEPT ![u] = IF ok THEN @ + 1 ELSE @]
      /\ served' = [served EXCEPT ![u] = IF ok THEN now ELSE @]
      /\ refused' = IF ok THEN refused \ {u} ELSE refused \cup {u}
      /\ UNCHANGED <<now, since>>

(* allow(key)                                                              *)
Allow(u) ==
  LET filled == Refill(u)
      ok     == filled >= Cost
  IN  /\ known' = known \cup {u}
      /\ tokens' = [tokens EXCEPT ![u] = IF ok THEN filled - Cost ELSE filled]
      /\ last_refill' = [last_refill EXCEPT ![u] = now]
      /\ admitted' = [admitted EXCEPT ![u] = IF ok THEN @ + 1 ELSE @]
      /\ served' = [served EXCEPT ![u] = IF ok THEN now ELSE @]
      /\ refused' = IF ok THEN refused \ {u} ELSE refused \cup {u}
      /\ UNCHANGED <<now, since>>

(* time.monotonic() never goes back, so that max(0.0, ...) changes nothing.*)
Tick ==
  /\ now < MaxTime
  /\ now' = now + 1
  /\ UNCHANGED <<buckets, history>>

(* An observer begins to count the calls of u that are let through.        *)
Observe(u) ==
  /\ since' = [since EXCEPT ![u] = now] /\ admitted' = [admitted EXCEPT ![u] = 0]
  /\ UNCHANGED <<now, buckets, served, refused>>

Next == Tick \/ \E u \in Users : Allow(u) \/ Observe(u)

Spec == Init /\ [][Next]_vars

-----------------------------------------------------------------------------
(* The promise of the module's docstring, in any window whatever: a user   *)
(* gets no more calls through than a full bucket and the refill over the   *)
(* window pay for.                                                         *)
BurstBounded ==
  \A u \in Users : admitted[u] * Cost <= Capacity + (now - since[u]) * Rate

(* Hammering is not punished: a call is refused only when less than a      *)
(* token's worth of time has passed since the last one that got through,   *)
(* however many calls were refused in between.                             *)
RefusedOnlyWhenFast ==
  \A u \in Users : u \in refused => (last_refill[u] - served[u]) * Rate < Cost

-----------------------------------------------------------------------------
(* What the two rest on.                                                   *)

(* Every share given out in the window was in the bucket when it began or  *)
(* has been gained since.                                                  *)
Paid ==
  \A u \in Users :
     /\ last_refill[u] <= now /\ since[u] <= now
     /\ u \notin known => admitted[u] = 0
     /\ IF u \in known /\ last_refill[u] >= since[u]
        THEN admitted[u] * Cost + tokens[u] <= Capacity + (last_refill[u] - since[u]) * Rate
        ELSE admitted[u] = 0

(* Nothing gained since the last call that got through is lost.            *)
Gained ==
  \A u \in Users :
     /\ u \in refused => u \in known /\ tokens[u] < Cost
     /\ u \in known =>
          /\ served[u] <= last_refill[u]
          /\ Least(Capacity, (last_refill[u] - served[u]) * Rate) <= tokens[u]

Accounting == Paid /\ Gained
=============================================================================
