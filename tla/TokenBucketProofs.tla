-------------------------- MODULE TokenBucketProofs --------------------------
(* Proofs about TokenBucket, for every capacity, rate and cost.            *)
EXTENDS TokenBucket, TLAPS

IInv == TypeOK /\ Paid /\ Gained

(* The refill over two adjacent spans of time.                             *)
LEMMA SpansAdd ==
  ASSUME NEW a \in Int, NEW b \in Int, NEW c \in Int
  PROVE  (c - a) * Rate = (c - b) * Rate + (b - a) * Rate
BY SharesAssumption

(* What a span of time brings is a natural number.                         *)
LEMMA SpanIsNat ==
  ASSUME NEW a \in Int, NEW b \in Int, a <= b
  PROVE  (b - a) * Rate \in Nat
BY SharesAssumption

(* What a bucket holds after a refill, and what it gained.                 *)
LEMMA RefillProperties ==
  ASSUME TypeOK, NEW u \in Users, last_refill[u] <= now
  PROVE  /\ Refill(u) \in 0..Capacity
         /\ u \in known =>
              Refill(u) = Least(Capacity, tokens[u] + (now - last_refill[u]) * Rate)
         /\ u \notin known => Refill(u) = Capacity
<1>1. (now - last_refill[u]) * Rate \in Nat
  BY SpanIsNat DEF TypeOK
<1> DEFINE gain == (now - last_refill[u]) * Rate
<1> HIDE DEF gain
<1>2. gain \in Nat /\ tokens[u] \in 0..Capacity /\ Capacity \in Nat
  BY <1>1, SharesAssumption DEF gain, TypeOK
<1>3. Refill(u) = IF u \notin known THEN Capacity ELSE Least(Capacity, tokens[u] + gain)
  BY DEF Refill, gain
<1>4. Least(Capacity, tokens[u] + gain) \in 0..Capacity
  BY <1>2 DEF Least
<1> QED
  BY <1>2, <1>3, <1>4 DEF gain

(* The invariant at the beginning.                                         *)
LEMMA IInvInit ==
  ASSUME Init
  PROVE  IInv
<1>1. 0 \in 0..Capacity /\ 0 \in 0..MaxTime
  BY SharesAssumption, TimeAssumption
<1> QED
  BY <1>1 DEF Init, IInv, TypeOK, Paid, Gained

(* A call keeps the types, whether it is admitted or not.                  *)
LEMMA AllowKeepsType ==
  ASSUME IInv, NEW u \in Users, Allow(u)
  PROVE  TypeOK'
<1>1. Refill(u) \in 0..Capacity
  BY RefillProperties DEF IInv, Paid
<1>2. Cost \in Nat \ {0} /\ Capacity \in Nat
  BY SharesAssumption
<1>3. (IF Refill(u) >= Cost THEN Refill(u) - Cost ELSE Refill(u)) \in 0..Capacity
  BY <1>1, <1>2
<1> QED
  BY <1>3 DEF Allow, IInv, TypeOK

(* The bucket pays for a call that is let through.                         *)
LEMMA AllowKeepsPaid ==
  ASSUME IInv, NEW u \in Users, Allow(u)
  PROVE  Paid'
<1>0. /\ now \in Nat /\ last_refill[u] \in Nat /\ since[u] \in Nat /\ admitted[u] \in Nat
      /\ last_refill[u] <= now /\ since[u] <= now
      /\ Cost \in Nat \ {0} /\ Capacity \in Nat /\ Rate \in Nat \ {0}
      /\ tokens[u] \in 0..Capacity /\ Refill(u) \in 0..Capacity
  BY RefillProperties, SharesAssumption DEF IInv, TypeOK, Paid
<1> DEFINE gain   == (now - last_refill[u]) * Rate
           past   == (last_refill[u] - since[u]) * Rate
           window == (now - since[u]) * Rate
           spent  == admitted[u] * Cost
<1>1. gain \in Nat /\ past \in Int /\ window \in Nat /\ spent \in Nat
      /\ window = gain + past /\ (admitted[u] + 1) * Cost = spent + Cost
      /\ 0 * Cost = 0
  BY <1>0, SpansAdd, SpanIsNat
<1>2. u \in known => Refill(u) <= tokens[u] + gain
  BY <1>0, <1>1, RefillProperties DEF IInv, Least, Paid
<1>3. IF u \in known /\ last_refill[u] >= since[u]
      THEN spent + tokens[u] <= Capacity + past ELSE admitted[u] = 0
  BY DEF IInv, Paid
<1>4. spent + Refill(u) <= Capacity + window
  <2>1. CASE u \in known /\ last_refill[u] >= since[u]
    <3> HIDE DEF gain, past, window, spent
    <3> QED
      BY <1>0, <1>1, <1>2, <1>3, <2>1
  <2>2. CASE ~ (u \in known /\ last_refill[u] >= since[u])
    <3>1. spent = 0
      BY <1>1, <1>3, <2>2
    <3> HIDE DEF gain, past, window, spent
    <3> QED
      BY <1>0, <1>1, <3>1
  <2> QED
    BY <2>1, <2>2
<1>5. /\ last_refill'[u] = now /\ since' = since /\ now' = now /\ u \in known'
      /\ IF Refill(u) >= Cost
         THEN tokens'[u] = Refill(u) - Cost /\ admitted'[u] = admitted[u] + 1
         ELSE tokens'[u] = Refill(u) /\ admitted'[u] = admitted[u]
  BY DEF Allow, IInv, TypeOK
<1>6. admitted'[u] * Cost + tokens'[u] <= Capacity + (last_refill'[u] - since'[u]) * Rate
  <2>1. admitted'[u] * Cost + tokens'[u] = spent + Refill(u)
    <3>1. CASE Refill(u) >= Cost
      <4>1. admitted'[u] * Cost = spent + Cost /\ tokens'[u] = Refill(u) - Cost
        BY <1>1, <1>5, <3>1
      <4> HIDE DEF spent
      <4> QED
        BY <1>0, <1>1, <4>1
    <3>2. CASE ~ (Refill(u) >= Cost)
      BY <1>5, <3>2
    <3> QED
      BY <3>1, <3>2
  <2>2. (last_refill'[u] - since'[u]) * Rate = window
    BY <1>5
  <2> QED
    BY <1>4, <2>1, <2>2
<1>7. ASSUME NEW v \in Users, v # u
      PROVE  /\ last_refill'[v] = last_refill[v] /\ since'[v] = since[v]
             /\ tokens'[v] = tokens[v] /\ admitted'[v] = admitted[v]
             /\ (v \in known' <=> v \in known)
  BY <1>7 DEF Allow, IInv, TypeOK
<1>8. ASSUME NEW v \in Users
      PROVE  /\ last_refill'[v] <= now' /\ since'[v] <= now'
             /\ v \notin known' => admitted'[v] = 0
             /\ IF v \in known' /\ last_refill'[v] >= since'[v]
                THEN admitted'[v] * Cost + tokens'[v]
                       <= Capacity + (last_refill'[v] - since'[v]) * Rate
                ELSE admitted'[v] = 0
  <2>1. CASE v = u
    BY <1>0, <1>5, <1>6, <2>1
  <2>2. CASE v # u
    BY <1>5, <1>7, <2>2 DEF IInv, Paid
  <2> QED
    BY <2>1, <2>2
<1> QED
  BY <1>8 DEF Paid

(* A refused call leaves in the bucket what it gained.                     *)
LEMMA AllowKeepsGained ==
  ASSUME IInv, NEW u \in Users, Allow(u)
  PROVE  Gained'
<1>0. /\ now \in Nat /\ last_refill[u] \in Nat /\ served[u] \in Nat
      /\ last_refill[u] <= now
      /\ Cost \in Nat \ {0} /\ Capacity \in Nat /\ Rate \in Nat \ {0}
      /\ tokens[u] \in 0..Capacity /\ Refill(u) \in 0..Capacity
  BY RefillProperties, SharesAssumption DEF IInv, TypeOK, Paid
<1> DEFINE gain  == (now - last_refill[u]) * Rate
           past  == (last_refill[u] - served[u]) * Rate
           whole == (now - served[u]) * Rate
<1>1. gain \in Nat /\ past \in Int /\ whole \in Int /\ whole = gain + past
  BY <1>0, SpansAdd, SpanIsNat
<1>2. u \in known => Refill(u) = Least(Capacity, tokens[u] + gain)
  BY <1>0, RefillProperties DEF IInv
<1>3. u \in known => served[u] <= last_refill[u] /\ Least(Capacity, past) <= tokens[u]
  BY DEF IInv, Gained
<1>4. u \in known => Least(Capacity, whole) <= Refill(u)
  <2> HIDE DEF gain, past, whole
  <2> QED
    BY <1>0, <1>1, <1>2, <1>3 DEF Least
<1>5. u \notin known => Refill(u) = Capacity
  BY <1>0, RefillProperties DEF IInv
<1>6. /\ last_refill'[u] = now /\ u \in known'
      /\ IF Refill(u) >= Cost
         THEN tokens'[u] = Refill(u) - Cost /\ served'[u] = now /\ u \notin refused'
         ELSE tokens'[u] = Refill(u) /\ served'[u] = served[u] /\ u \in refused'
  BY DEF Allow, IInv, TypeOK
<1>7. /\ u \in refused' => u \in known' /\ tokens'[u] < Cost
      /\ served'[u] <= last_refill'[u]
      /\ Least(Capacity, (last_refill'[u] - served'[u]) * Rate) <= tokens'[u]
  <2>1. CASE Refill(u) >= Cost
    <3>1. (last_refill'[u] - served'[u]) * Rate = 0 /\ tokens'[u] >= 0
      BY <1>0, <1>6, <2>1
    <3> QED
      BY <1>0, <1>6, <2>1, <3>1 DEF Least
  <2>2. CASE ~ (Refill(u) >= Cost)
    <3>1. u \in known
      BY <1>0, <1>5, <2>2, SharesAssumption
    <3>2. (last_refill'[u] - served'[u]) * Rate = whole
      BY <1>6, <2>2
    <3> QED
      BY <1>0, <1>3, <1>4, <1>6, <2>2, <3>1, <3>2
  <2> QED
    BY <2>1, <2>2
<1>8. ASSUME NEW v \in Users, v # u
      PROVE  /\ last_refill'[v] = last_refill[v] /\ served'[v] = served[v]
             /\ tokens'[v] = tokens[v]
             /\ (v \in known' <=> v \in known) /\ (v \in refused' <=> v \in refused)
  BY <1>8 DEF Allow, IInv, TypeOK
<1>9. ASSUME NEW v \in Users
      PROVE  /\ v \in refused' => v \in known' /\ tokens'[v] < Cost
             /\ v \in known' =>
                  /\ served'[v] <= last_refill'[v]
                  /\ Least(Capacity, (last_refill'[v] - served'[v]) * Rate) <= tokens'[v]
  <2>1. CASE v = u
    BY <1>7, <2>1
  <2>2. CASE v # u
    BY <1>8, <2>2 DEF IInv, Gained
  <2> QED
    BY <2>1, <2>2
<1> QED
  BY <1>9 DEF Gained, Least

(* Every step keeps the invariant.                                         *)
LEMMA IInvStep ==
  ASSUME IInv, [Next]_vars
  PROVE  IInv'
<1>1. ASSUME NEW u \in Users, Allow(u)
      PROVE  IInv'
  BY <1>1, AllowKeepsType, AllowKeepsPaid, AllowKeepsGained DEF IInv
<1>2. CASE Tick
  <2>1. TypeOK'
    BY <1>2, TimeAssumption DEF Tick, IInv, TypeOK, buckets, history
  <2>2. Paid'
    BY <1>2 DEF Tick, IInv, TypeOK, Paid, buckets, history
  <2>3. Gained'
    BY <1>2 DEF Tick, IInv, Gained, buckets, history
  <2> QED
    BY <2>1, <2>2, <2>3 DEF IInv
<1>3. ASSUME NEW u \in Users, Observe(u)
      PROVE  IInv'
  <2>1. TypeOK'
    BY <1>3 DEF Observe, IInv, TypeOK, buckets
  <2>2. Gained'
    BY <1>3 DEF Observe, IInv, Gained, buckets
  <2>3. Paid'
    <3>1. ASSUME NEW v \in Users
          PROVE  /\ last_refill[v] <= now /\ since'[v] <= now
                 /\ v \notin known => admitted'[v] = 0
                 /\ IF v \in known /\ last_refill[v] >= since'[v]
                    THEN admitted'[v] * Cost + tokens[v]
                           <= Capacity + (last_refill[v] - since'[v]) * Rate
                    ELSE admitted'[v] = 0
      <4>1. CASE v = u
        <5>1. since'[v] = now /\ admitted'[v] = 0 /\ last_refill[v] <= now
              /\ now \in Nat /\ last_refill[v] \in Nat /\ tokens[v] \in 0..Capacity
          BY <1>3, <4>1 DEF Observe, IInv, TypeOK, Paid
        <5>2. Cost \in Nat /\ Capacity \in Nat /\ Rate \in Nat
              /\ 0 * Cost = 0 /\ 0 * Rate = 0
          BY SharesAssumption
        <5>3. ASSUME last_refill[v] >= since'[v]
              PROVE  admitted'[v] * Cost + tokens[v]
                       <= Capacity + (last_refill[v] - since'[v]) * Rate
          <6>1. last_refill[v] - since'[v] = 0
            BY <5>1, <5>3
          <6>2. (last_refill[v] - since'[v]) * Rate = 0 /\ admitted'[v] * Cost = 0
            BY <5>1, <5>2, <6>1
          <6> QED
            BY <5>1, <5>2, <6>2
        <5> QED
          BY <1>3, <5>1, <5>3 DEF Observe, IInv, Paid
      <4>2. CASE v # u
        <5>1. since'[v] = since[v] /\ admitted'[v] = admitted[v]
          BY <1>3, <4>2 DEF Observe, IInv, TypeOK
        <5> QED
          BY <5>1 DEF IInv, Paid
      <4> QED
        BY <4>1, <4>2
    <3> QED
      BY <1>3, <3>1 DEF Observe, Paid, buckets
  <2> QED
    BY <2>1, <2>2, <2>3 DEF IInv
<1>4. CASE UNCHANGED vars
  BY <1>4 DEF vars, buckets, history, IInv, TypeOK, Paid, Gained
<1> QED
  BY <1>1, <1>2, <1>3, <1>4 DEF Next

(* Every variable keeps its type: no bucket is ever overdrawn, or holds    *)
(* more than its capacity.                                                 *)
THEOREM BucketTypeCorrect == Spec => []TypeOK
<1>1. IInv => TypeOK
  BY DEF IInv
<1> QED
  BY IInvInit, IInvStep, <1>1, PTL DEF Spec

(* In any window, a user gets no more calls through allow() than a full    *)
(* bucket and the refill over the window pay for.                          *)
THEOREM BurstIsBounded == Spec => []BurstBounded
<1>1. ASSUME IInv PROVE BurstBounded
  <2> SUFFICES ASSUME NEW u \in Users
               PROVE  admitted[u] * Cost <= Capacity + (now - since[u]) * Rate
    BY DEF BurstBounded
  <2>1. /\ now \in Nat /\ last_refill[u] \in Nat /\ since[u] \in Nat
        /\ admitted[u] \in Nat /\ tokens[u] \in 0..Capacity
        /\ last_refill[u] <= now /\ since[u] <= now
        /\ Cost \in Nat \ {0} /\ Capacity \in Nat /\ Rate \in Nat \ {0}
    BY <1>1, SharesAssumption DEF IInv, TypeOK, Paid
  <2> DEFINE gain   == (now - last_refill[u]) * Rate
             past   == (last_refill[u] - since[u]) * Rate
             window == (now - since[u]) * Rate
             spent  == admitted[u] * Cost
  <2>2. gain \in Nat /\ past \in Int /\ window \in Nat /\ spent \in Nat
        /\ window = gain + past /\ 0 * Cost = 0
    BY <2>1, SpansAdd, SpanIsNat
  <2>3. spent = 0 \/ spent + tokens[u] <= Capacity + past
    BY <1>1, <2>2 DEF IInv, Paid
  <2>4. spent <= Capacity + window
    <3> HIDE DEF gain, past, window, spent
    <3> QED
      BY <2>1, <2>2, <2>3
  <2> QED
    BY <2>4
<1> QED
  BY IInvInit, IInvStep, <1>1, PTL DEF Spec

(* allow() refuses a call only when less than a token's worth of time has  *)
(* passed since the last call it let through, however many it refused.     *)
THEOREM RefusalIsFair == Spec => []RefusedOnlyWhenFast
<1>1. ASSUME IInv PROVE RefusedOnlyWhenFast
  <2> SUFFICES ASSUME NEW u \in Users, u \in refused
               PROVE  (last_refill[u] - served[u]) * Rate < Cost
    BY DEF RefusedOnlyWhenFast
  <2>1. /\ last_refill[u] \in Nat /\ served[u] \in Nat /\ tokens[u] \in 0..Capacity
        /\ Cost \in Nat \ {0} /\ Capacity \in Nat /\ Rate \in Nat \ {0}
        /\ Cost <= Capacity
    BY <1>1, SharesAssumption DEF IInv, TypeOK
  <2> DEFINE past == (last_refill[u] - served[u]) * Rate
  <2>2. past \in Int
    BY <2>1
  <2>3. Least(Capacity, past) <= tokens[u] /\ tokens[u] < Cost
    BY <1>1 DEF IInv, Gained
  <2>4. past < Cost
    <3> HIDE DEF past
    <3> QED
      BY <2>1, <2>2, <2>3 DEF Least
  <2> QED
    BY <2>4
<1> QED
  BY IInvInit, IInvStep, <1>1, PTL DEF Spec
=============================================================================
