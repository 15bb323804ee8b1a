-------------------------- MODULE FixedWindowProofs --------------------------
(* Proofs about FixedWindow, for every limit, window and number of calls.  *)
EXTENDS FixedWindow, TLAPS

(* Calls that have counted and were not let through yet: one at most, the  *)
(* first call of the window.                                               *)
Pending == IF calls = {} THEN 0 ELSE 1

(* How many calls the counter lets through as far as it has come.          *)
Granted == IF count < Limit THEN count ELSE Limit

(* Between its two commands the first call of a window is alone, and       *)
(* nothing makes its key expire.                                           *)
FirstIsAlone ==
  /\ \A c, d \in calls : c = d
  /\ calls # {} => ttl = 0 /\ count > 0
  /\ count = 0 => ttl = 0

(* Since the observer looks the key was not dropped, and what was let      *)
(* through is in the counter; or it was dropped once, and lives on for as  *)
(* long as the observer looks.                                             *)
SameKey   == admitted + Pending <= Granted
SecondKey == admitted + Pending <= Limit + Granted /\ (ttl = 0 \/ ttl >= left)

Windows == IF left = 0 THEN admitted = 0 ELSE SameKey \/ SecondKey

IInv == TypeOK /\ FirstIsAlone /\ Windows

(* The invariant at the beginning.                                         *)
LEMMA IInvInit ==
  ASSUME Init
  PROVE  IInv
<1>1. TypeOK
  <2>1. lost \in BOOLEAN /\ calls \subseteq Calls
    BY DEF Init
  <2>2. 0 \in 0..MaxCount /\ 0 \in 0..Window /\ 0 \in Nat
    BY LimitAssumption, WindowAssumption
  <2> QED
    BY <2>1, <2>2 DEF Init, TypeOK
<1>2. FirstIsAlone /\ Windows
  BY DEF Init, FirstIsAlone, Windows
<1> QED
  BY <1>1, <1>2 DEF IInv

(* Every step keeps the types.                                             *)
LEMMA TypeStep ==
  ASSUME TypeOK, [Next]_vars
  PROVE  TypeOK'
<1> USE LimitAssumption, WindowAssumption DEF TypeOK, Admit
<1>1. ASSUME NEW c \in Calls, Incr(c) PROVE TypeOK'
  BY <1>1 DEF Incr
<1>2. ASSUME NEW c \in Calls, Expire(c) PROVE TypeOK'
  BY <1>2 DEF Expire
<1>3. ASSUME NEW c \in Calls, Abandon(c) PROVE TypeOK'
  BY <1>3 DEF Abandon
<1>4. CASE Tick
  BY <1>4 DEF Tick
<1>5. CASE Observe
  BY <1>5 DEF Observe
<1>6. CASE UNCHANGED vars
  BY <1>6 DEF vars
<1> QED
  BY <1>1, <1>2, <1>3, <1>4, <1>5, <1>6 DEF Next

(* Every step keeps the first call of a window alone with its expiry.      *)
LEMMA AloneStep ==
  ASSUME TypeOK, FirstIsAlone, [Next]_vars
  PROVE  FirstIsAlone'
<1> USE LimitAssumption, WindowAssumption DEF TypeOK, FirstIsAlone
<1>1. ASSUME NEW c \in Calls, Incr(c) PROVE FirstIsAlone'
  BY <1>1 DEF Incr
<1>2. ASSUME NEW c \in Calls, Expire(c) PROVE FirstIsAlone'
  BY <1>2 DEF Expire
<1>3. ASSUME NEW c \in Calls, Abandon(c) PROVE FirstIsAlone'
  BY <1>3 DEF Abandon
<1>4. CASE Tick
  BY <1>4 DEF Tick
<1>5. CASE Observe \/ UNCHANGED vars
  BY <1>5 DEF Observe, vars
<1> QED
  BY <1>1, <1>2, <1>3, <1>4, <1>5 DEF Next

(* Every step keeps the account of the observer.                           *)
LEMMA WindowsStep ==
  ASSUME IInv, [Next]_vars
  PROVE  Windows'
<1> USE LimitAssumption, WindowAssumption DEF IInv, TypeOK
<1> USE DEF Windows, SameKey, SecondKey, Granted
<1>0. Pending \in {0, 1} /\ Pending' \in {0, 1}
  BY DEF Pending
(* INCR: the first call of a window waits, another has its answer.         *)
<1>1. ASSUME NEW c \in Calls, Incr(c) PROVE Windows'
  <2>1. CASE count = 0
    <3>1. /\ count' = 1 /\ Pending = 0 /\ Pending' = 1
          /\ UNCHANGED <<ttl, left, admitted>>
      BY <1>1, <2>1 DEF Incr, Pending, FirstIsAlone
    <3> QED
      BY <3>1, <2>1
  <2>2. CASE count # 0
    <3>1. /\ count' = count + 1 /\ count' # 1 /\ Pending' = Pending
          /\ UNCHANGED <<ttl, left>>
          /\ admitted' = IF count' <= Limit /\ left > 0 THEN admitted + 1 ELSE admitted
      BY <1>1, <2>2 DEF Incr, Pending, Admit
    <3> QED
      BY <1>0, <3>1, <2>2
  <2> QED
    BY <2>1, <2>2
(* EXPIRE: the waiting call is let through, the key lives for a window.    *)
<1>2. ASSUME NEW c \in Calls, Expire(c) PROVE Windows'
  <2>1. /\ Pending = 1 /\ Pending' = 0 /\ ttl' = Window
        /\ UNCHANGED <<count, left>>
        /\ admitted' = IF left > 0 THEN admitted + 1 ELSE admitted
    BY <1>2 DEF Expire, Pending, Admit, FirstIsAlone
  <2> QED
    BY <2>1
<1>3. ASSUME NEW c \in Calls, Abandon(c) PROVE Windows'
  <2>1. Pending = 1 /\ UNCHANGED <<count, ttl, left, admitted>>
    BY <1>3 DEF Abandon, Pending
  <2>2. CASE Pending' = 0
    BY <2>1, <2>2
  <2>3. CASE Pending' = 1
    BY <2>1, <2>3
  <2> QED
    BY <1>0, <2>2, <2>3
(* The key expires: nobody waits, and it does so once while the observer   *)
(* looks.                                                                  *)
<1>4. CASE Tick
  <2>1. CASE ttl = 1
    <3>1. /\ Pending = 0 /\ Pending' = 0 /\ count' = 0 /\ ttl' = 0
          /\ left' = (IF left > 0 THEN left - 1 ELSE 0)
          /\ admitted' = (IF left' = 0 THEN 0 ELSE admitted)
      BY <1>4, <2>1 DEF Tick, Pending, FirstIsAlone
    <3> QED
      BY <3>1, <2>1
  <2>2. CASE ttl # 1
    <3>1. /\ Pending' = Pending /\ count' = count
          /\ ttl' = (IF ttl > 0 THEN ttl - 1 ELSE 0)
          /\ left' = (IF left > 0 THEN left - 1 ELSE 0)
          /\ admitted' = (IF left' = 0 THEN 0 ELSE admitted)
      BY <1>4, <2>2 DEF Tick, Pending
    <3> QED
      BY <1>0, <3>1, <2>2
  <2> QED
    BY <2>1, <2>2
(* The observer looks: one call at most is under way, and it has counted.  *)
<1>5. CASE Observe
  <2>1. /\ left = 0 /\ left' = Window /\ Pending' = Pending
        /\ UNCHANGED <<count, ttl, admitted>>
        /\ Pending = 1 => count > 0
    BY <1>5 DEF Observe, Pending, FirstIsAlone
  <2> QED
    BY <1>0, <2>1
<1>6. CASE UNCHANGED vars
  BY <1>6 DEF vars, Pending
<1> QED
  BY <1>1, <1>2, <1>3, <1>4, <1>5, <1>6 DEF Next

(* Every step keeps the invariant.                                         *)
LEMMA IInvStep ==
  ASSUME IInv, [Next]_vars
  PROVE  IInv'
BY TypeStep, AloneStep, WindowsStep DEF IInv

(* The counter, the time to live and the calls between two commands of     *)
(* RedisRateLimiter.allow keep their types; in particular the time to live *)
(* never exceeds the window.                                               *)
THEOREM WindowTypeCorrect == Spec => []TypeOK
<1>1. IInv => TypeOK
  BY DEF IInv
<1> QED
  BY IInvInit, IInvStep, <1>1, PTL DEF Spec

(* Over any time as long as a window RedisRateLimiter lets through at most *)
(* twice its limit, whatever calls interleave with its two commands or end *)
(* between them.                                                           *)
THEOREM TwiceAtMost == Spec => []AtMostTwice
<1>1. IInv => AtMostTwice
  BY LimitAssumption DEF IInv, TypeOK, Windows, SameKey, SecondKey, Granted, Pending,
                         AtMostTwice
<1> QED
  BY IInvInit, IInvStep, <1>1, PTL DEF Spec
=============================================================================
