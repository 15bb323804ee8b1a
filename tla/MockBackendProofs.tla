-------------------------- MODULE MockBackendProofs --------------------------
(* Proofs about MockBackend, for any number of connections, items and      *)
(* messages.                                                               *)
EXTENDS MockBackend, WellFoundedInduction, TLAPS

IInv == TypeOK /\ Places /\ WritesAreAgreed /\ CompletedAfterDone

USE ConnsAssumption, ItemsAssumption DEF Conns, Items

(* The least of some natural numbers is one of them.                       *)
LEMMA MinIsMember ==
  ASSUME NEW S \in SUBSET Nat, S # {}
  PROVE  Min(S) \in S
<1>1. PICK x \in S : \A y \in S : ~ (<<y, x>> \in OpToRel(<, Nat))
  BY NatLessThanWellFounded, WFMin
<1>2. ASSUME NEW y \in S PROVE x <= y
  <2> SUFFICES ASSUME ~ (x <= y) PROVE FALSE
    OBVIOUS
  <2>1. x \in Nat /\ y \in Nat /\ y < x
    OBVIOUS
  <2>2. <<y, x>> \in Nat \X Nat /\ <<y, x>>[1] < <<y, x>>[2]
    BY <2>1
  <2> QED
    BY <2>2, <1>1 DEF OpToRel
<1> QED
  BY <1>2 DEF Min

(* What a resumed session finds pending is a task, or nothing.             *)
LEMMA FirstPendingType ==
  ASSUME opened \in Seq(Conns)
  PROVE  FirstPending \in 0..MaxConns
<1> DEFINE pending == {i \in 1..Len(opened) : opened[i] \in InFlight}
<1>1. Len(opened) \in Nat /\ \A i \in 1..Len(opened) : opened[i] \in Conns
  OBVIOUS
<1>2. CASE pending = {}
  BY <1>2 DEF FirstPending
<1>3. CASE pending # {}
  <2>1. Min(pending) \in pending
    <3>1. pending \in SUBSET Nat
      BY <1>1
    <3> HIDE DEF pending
    <3> QED
      BY <3>1, <1>3, MinIsMember
  <2>2. opened[Min(pending)] \in Conns
    BY <1>1, <2>1
  <2>3. FirstPending = opened[Min(pending)]
    BY <1>3 DEF FirstPending
  <2> QED
    BY <2>2, <2>3
<1> QED
  BY <1>2, <1>3

(* The queue after an event was taken from it, and the event.              *)
LEMMA TakesType ==
  ASSUME TypeOK, NEW c \in Conns, Takes(c)
  PROVE  /\ Taken(c) \in Event
         /\ queue' \in [Conns -> Seq(Event)]
         /\ UNCHANGED <<reader, line, said>>
<1>1. queue[c] \in Seq(Event) /\ queue[c] # <<>>
  BY DEF TypeOK, Takes
<1>2. Head(queue[c]) \in Event /\ Tail(queue[c]) \in Seq(Event)
  BY <1>1
<1> QED
  BY <1>2 DEF Takes, Taken, TypeOK

(* The invariant at the beginning,                                         *)
LEMMA IInvInit ==
  ASSUME Init
  PROVE  IInv
<1>1. 0 \in 0..MaxConns /\ 0 \in 0..MaxSaid /\ <<>> \in Seq(Event) /\ <<>> \in Seq(Conns)
  OBVIOUS
<1> QED
  BY <1>1 DEF Init, IInv, TypeOK, Places, Place, WritesAreAgreed, CompletedAfterDone,
              Scenarios

(* What a handler does leaves the others where they were.                  *)
LEMMA Elsewhere ==
  ASSUME NEW d \in Conns, Place(d),
         pos'[d] = pos[d], script'[d] = script[d], task'[d] = task[d],
         kept'[d] = kept[d], asked'[d] = asked[d], written'[d] = written[d],
         approved \subseteq approved', announced \subseteq announced'
  PROVE  Place(d)'
BY DEF Place, Scenarios

(* A step of the handler of c that neither asks, nor takes an approval,    *)
(* nor acts, and leaves the records alone.                                 *)
LEMMA Moves ==
  ASSUME IInv, NEW c \in Conns, NEW p, pos' = [pos EXCEPT ![c] = p],
         UNCHANGED <<script, task, kept, handled, status, history>>, TypeOK', Place(c)'
  PROVE  IInv'
<1>1. ASSUME NEW d \in Conns, d # c PROVE Place(d)'
  BY <1>1, Elsewhere DEF IInv, TypeOK, Places, history
<1>2. Places'
  BY <1>1 DEF Places
<1> QED
  BY <1>2 DEF IInv, WritesAreAgreed, CompletedAfterDone, history

(* ... and after every step.                                               *)
LEMMA IInvStep ==
  ASSUME IInv, [Next]_vars
  PROVE  IInv'
<1> USE DEF At, Goes, handlers, wires, records, history
<1>1. ASSUME NEW c \in Conns, NEW resume \in BOOLEAN, Accept(c, resume)
      PROVE  IInv'
  <2>1. (IF resume THEN FirstPending ELSE c) \in 0..MaxConns
    BY FirstPendingType DEF IInv, TypeOK
  <2>2. TypeOK'
    BY <1>1, <2>1 DEF Accept, IInv, TypeOK
  <2>3. ASSUME NEW d \in Conns PROVE Place(d)'
    <3>1. CASE d = c
      BY SMTT(30), <1>1, <3>1 DEF Accept, IInv, TypeOK, Places, Place
    <3>2. CASE d # c
      BY <1>1, <3>2, Elsewhere DEF Accept, IInv, TypeOK, Places
    <3> QED
      BY <3>1, <3>2
  <2> QED
    BY <1>1, <2>2, <2>3 DEF Accept, IInv, Places, WritesAreAgreed, CompletedAfterDone
<1>2. ASSUME NEW c \in Conns, Reject(c)
      PROVE  IInv'
  <2>1. TypeOK'
    <3>1. <<>> \in Seq(Event)
      OBVIOUS
    <3> QED
      BY <1>2, <3>1 DEF Reject, IInv, TypeOK
  <2>2. Place(c)'
    BY <1>2 DEF Reject, IInv, TypeOK, Places, Place, Scenarios
  <2>3. /\ pos' = [pos EXCEPT ![c] = "closed"]
        /\ UNCHANGED <<script, task, kept, handled, status, history>>
    BY <1>2 DEF Reject
  <2> QED
    BY <2>1, <2>2, <2>3, Moves
<1>3. ASSUME NEW c \in Conns, Raises(c)
      PROVE  IInv'
  <2>1. TypeOK'
    <3>1. <<>> \in Seq(Event)
      OBVIOUS
    <3> QED
      BY <1>3, <3>1 DEF Raises, IInv, TypeOK
  <2>2. Place(c)'
    BY <1>3 DEF Raises, IInv, TypeOK, Places, Place, Scenarios
  <2>3. /\ pos' = [pos EXCEPT ![c] = "returned"]
        /\ UNCHANGED <<script, task, kept, handled, status, history>>
    BY <1>3 DEF Raises
  <2> QED
    BY <2>1, <2>2, <2>3, Moves
<1>4. ASSUME NEW c \in Conns, Close(c)
      PROVE  IInv'
  <2>1. TypeOK'
    <3>1. <<>> \in Seq(Event)
      OBVIOUS
    <3> QED
      BY <1>4, <3>1 DEF Close, IInv, TypeOK
  <2>2. Place(c)'
    BY <1>4 DEF Close, IInv, TypeOK, Places, Place, Scenarios
  <2>3. /\ pos' = [pos EXCEPT ![c] = "closed"]
        /\ UNCHANGED <<script, task, kept, handled, status, history>>
    BY <1>4 DEF Close
  <2> QED
    BY <2>1, <2>2, <2>3, Moves
<1>5. ASSUME NEW c \in Conns, Open(c)
      PROVE  IInv'
  <2>1. TypeOK'
    <3>1. <<>> \in Seq(Event)
      OBVIOUS
    <3> QED
      BY <1>5, <3>1 DEF Open, IInv, TypeOK
  <2>2. Place(c)'
    BY SMTT(30), <1>5 DEF Open, IInv, TypeOK, Places, Place, Scenarios
  <2>3. /\ pos' = [pos EXCEPT ![c] = IF script[c] = "b" THEN "returned" ELSE "asking"]
        /\ UNCHANGED <<script, task, kept, handled, status, history>>
    BY <1>5 DEF Open
  <2> QED
    BY <2>1, <2>2, <2>3, Moves
<1>6. ASSUME NEW c \in Conns, Timeout(c)
      PROVE  IInv'
  <2>1. TypeOK'
    <3>1. <<>> \in Seq(Event)
      OBVIOUS
    <3> QED
      BY <1>6, <3>1 DEF Timeout, IInv, TypeOK
  <2>2. Place(c)'
    BY <1>6 DEF Timeout, IInv, TypeOK, Places, Place, Scenarios
  <2>3. /\ pos' = [pos EXCEPT ![c] = "working"]
        /\ UNCHANGED <<script, task, kept, handled, status, history>>
    BY <1>6 DEF Timeout
  <2> QED
    BY <2>1, <2>2, <2>3, Moves
<1>7. ASSUME NEW c \in Conns, Disconnect(c)
      PROVE  IInv'
  <2>1. TypeOK'
    BY <1>7 DEF Disconnect, IInv, TypeOK
  <2>2. Places'
    BY <1>7 DEF Disconnect, IInv, Places, Place
  <2> QED
    BY <1>7, <2>1, <2>2 DEF Disconnect, IInv, WritesAreAgreed, CompletedAfterDone
<1>8. ASSUME NEW c \in Conns, Ask(c)
      PROVE  IInv'
  <2>1. asked[c] + 1 \in Nat /\ asked[c] + 1 > 0
    <3>1. asked \in [Conns -> Nat]
      BY DEF IInv, TypeOK
    <3>2. asked[c] \in Nat
      BY <3>1
    <3> QED
      BY <3>2
  <2>2. TypeOK'
    BY <1>8, <2>1 DEF Ask, IInv, TypeOK
  <2>3. ASSUME NEW d \in Conns PROVE Place(d)'
    <3>1. CASE d = c
      BY <1>8, <2>1, <3>1 DEF Ask, IInv, TypeOK, Places, Place
    <3>2. CASE d # c
      BY <1>8, <3>2, Elsewhere DEF Ask, IInv, TypeOK, Places
    <3> QED
      BY <3>1, <3>2
  <2>4. WritesAreAgreed' /\ CompletedAfterDone'
    BY <1>8, <2>1 DEF Ask, IInv, TypeOK, WritesAreAgreed, CompletedAfterDone
  <2> QED
    BY <2>2, <2>3, <2>4 DEF IInv, Places
<1>9. ASSUME NEW c \in Conns, Finish(c)
      PROVE  IInv'
  <2>1. task[c] \in Conns
    BY <1>9 DEF Finish, IInv, Places, Place
  <2>2. TypeOK'
    BY <1>9, <2>1 DEF Finish, IInv, TypeOK
  <2>3. ASSUME NEW d \in Conns PROVE Place(d)'
    <3>1. CASE d = c
      BY <1>9, <2>1, <3>1 DEF Finish, IInv, TypeOK, Places, Place
    <3>2. CASE d # c
      BY <1>9, <3>2, Elsewhere DEF Finish, IInv, TypeOK, Places
    <3> QED
      BY <3>1, <3>2
  <2>4. WritesAreAgreed' /\ CompletedAfterDone'
    BY <1>9, <2>1 DEF Finish, IInv, TypeOK, WritesAreAgreed, CompletedAfterDone
  <2> QED
    BY <2>2, <2>3, <2>4 DEF IInv, Places
<1>10. ASSUME NEW c \in Conns, Settle(c)
      PROVE  IInv'
  <2>1. task[c] \in Conns /\ task[c] \in announced
    BY <1>10 DEF Settle, IInv, Places, Place
  <2>2. TypeOK'
    BY <1>10, <2>1 DEF Settle, IInv, TypeOK
  <2>3. ASSUME NEW d \in Conns PROVE Place(d)'
    <3>1. CASE d = c
      BY <1>10, <2>1, <3>1 DEF Settle, IInv, TypeOK, Places, Place
    <3>2. CASE d # c
      BY <1>10, <3>2, Elsewhere DEF Settle, IInv, TypeOK, Places
    <3> QED
      BY <3>1, <3>2
  <2>4. WritesAreAgreed' /\ CompletedAfterDone'
    BY <1>10, <2>1 DEF Settle, IInv, TypeOK, WritesAreAgreed, CompletedAfterDone
  <2> QED
    BY <2>2, <2>3, <2>4 DEF IInv, Places
<1>11. ASSUME NEW c \in Conns, NEW kind \in Kinds, NEW names \in SUBSET Items,
             Say(c, kind, names)
      PROVE  IInv'
  <2> DEFINE e == [kind |-> kind, names |-> names,
                   asked |-> IF kind = "approve" THEN asked[c] ELSE 0]
  <2>1. e \in Event
    BY DEF IInv, TypeOK, Event
  <2>2. queue' \in [Conns -> Seq(Event)] /\ said' \in [Conns -> 0..MaxSaid]
    <3>1. queue' = [queue EXCEPT ![c] = Append(@, e)] /\ said[c] < MaxSaid
          /\ said' = [said EXCEPT ![c] = @ + 1]
      BY <1>11 DEF Say
    <3>2. Append(queue[c], e) \in Seq(Event) /\ said[c] + 1 \in 0..MaxSaid
      <4>1. queue[c] \in Seq(Event) /\ said[c] \in 0..MaxSaid
        BY DEF IInv, TypeOK
      <4> HIDE DEF e
      <4> QED
        BY <2>1, <3>1, <4>1
    <3> HIDE DEF e
    <3> QED
      BY <3>1, <3>2 DEF IInv, TypeOK
  <2>3. reader' \in [Conns -> BOOLEAN] /\ UNCHANGED <<handlers, line, records, history>>
    BY <1>11 DEF Say, IInv, TypeOK
  <2> QED
    BY <2>2, <2>3 DEF IInv, TypeOK, Places, Place, WritesAreAgreed, CompletedAfterDone
<1>12. ASSUME NEW c \in Conns, First(c)
      PROVE  IInv'
  <2>1. /\ Taken(c) \in Event /\ queue' \in [Conns -> Seq(Event)]
        /\ UNCHANGED <<reader, line, said>>
    BY <1>12, TakesType DEF First, IInv
  <2>2. TypeOK'
    <3>1. CASE Taken(c).kind \in Scenarios
      <4>1. /\ script' = [script EXCEPT ![c] = Taken(c).kind]
            /\ opened' = Append(opened, c) /\ pos' = [pos EXCEPT ![c] = "opening"]
            /\ UNCHANGED <<task, kept, handled, history>>
        BY <1>12, <3>1 DEF First
      <4>2. PICK s \in {"blocked", "running"} : status' = [status EXCEPT ![c] = s]
        BY <1>12, <3>1 DEF First
      <4>3. opened' \in Seq(Conns)
        <5>1. opened \in Seq(Conns)
          BY DEF IInv, TypeOK
        <5> HIDE DEF Conns
        <5> QED
          BY <4>1, <5>1
      <4> QED
        BY <2>1, <3>1, <4>1, <4>2, <4>3 DEF IInv, TypeOK
    <3>2. CASE Taken(c).kind \notin Scenarios
      BY <1>12, <2>1, <3>2 DEF First, IInv, TypeOK
    <3> QED
      BY <3>1, <3>2
  <2>3. ASSUME NEW d \in Conns PROVE Place(d)'
    <3>1. CASE d = c
      <4>1. pos[c] = "first" /\ task[c] = c /\ kept[c] = {} /\ written[c] = {}
        BY <1>12 DEF First, IInv, Places, Place
      <4>2. \/ pos'[c] = "opening" /\ script'[c] \in Scenarios
            \/ pos'[c] = "returned" /\ script'[c] = script[c]
        BY <1>12 DEF First, IInv, TypeOK
      <4>3. UNCHANGED <<task, kept, history>>
        BY <1>12 DEF First
      <4> QED
        BY <3>1, <4>1, <4>2, <4>3 DEF Place
    <3>2. CASE d # c
      BY <1>12, <3>2, Elsewhere DEF First, IInv, TypeOK, Places
    <3> QED
      BY <3>1, <3>2
  <2>4. WritesAreAgreed'
    BY <1>12 DEF First, IInv, TypeOK, Places, Place, WritesAreAgreed
  <2>5. CompletedAfterDone'
    <3>1. announced' = announced
      BY <1>12 DEF First
    <3>2. \A t \in Conns : status'[t] = "completed" => status[t] = "completed"
      BY <1>12 DEF First, IInv, TypeOK
    <3> QED
      BY <3>1, <3>2 DEF IInv, CompletedAfterDone
  <2> QED
    BY <2>2, <2>3, <2>4, <2>5 DEF IInv, Places
<1>13. ASSUME NEW c \in Conns, Query(c)
      PROVE  IInv'
  <2>1. /\ queue' \in [Conns -> Seq(Event)]
        /\ UNCHANGED <<reader, line, said, task, kept, handled, status, opened, history>>
    BY <1>13, TakesType DEF Query, IInv
  <2>2. /\ pos[c] = "query"
        /\ \/ /\ task[c] # 0 /\ pos' = [pos EXCEPT ![c] = "working"]
              /\ script' = [script EXCEPT ![c] = "resume"]
           \/ pos' = [pos EXCEPT ![c] = "returned"] /\ UNCHANGED script
    BY <1>13 DEF Query
  <2>3. TypeOK'
    BY <2>1, <2>2 DEF IInv, TypeOK
  <2>4. ASSUME NEW d \in Conns PROVE Place(d)'
    <3>1. CASE d = c
      <4>1. task[c] # 0 => task[c] \in Conns
        BY SMTT(30) DEF IInv, TypeOK
      <4>2. written[c] = {} /\ kept[c] = {}
        BY <2>2 DEF IInv, Places, Place
      <4>3. \/ pos'[c] = "working" /\ script'[c] = "resume" /\ task[c] # 0
            \/ pos'[c] = "returned"
        BY <2>2 DEF IInv, TypeOK
      <4>4. UNCHANGED <<task, kept, history>>
        BY <2>1
      <4> QED
        BY <3>1, <4>1, <4>2, <4>3, <4>4 DEF Place
    <3>2. CASE d # c
      BY <2>1, <2>2, <3>2, Elsewhere DEF IInv, TypeOK, Places
    <3> QED
      BY <3>1, <3>2
  <2> QED
    BY <2>1, <2>3, <2>4 DEF IInv, Places, WritesAreAgreed, CompletedAfterDone
<1>14. ASSUME NEW c \in Conns, Listen(c)
      PROVE  IInv'
  <2>1. /\ queue' \in [Conns -> Seq(Event)]
        /\ UNCHANGED <<reader, line, said, script, task, handled, records, asked, written,
                       announced>>
    BY <1>14, TakesType DEF Listen, IInv
  <2>2. pos[c] = "listening" /\ task[c] = c /\ written[c] = {} /\ asked[c] > 0
        /\ script[c] \in {"a", "c"}
    BY <1>14 DEF Listen, IInv, Places, Place
  <2> DEFINE k == IF script[c] = "a" THEN Keeps(c, Taken(c)) ELSE kept[c]
             q == IF Approves(Taken(c)) THEN IF script[c] = "a" THEN "working" ELSE "window"
                  ELSE IF script[c] = "a" THEN "asking" ELSE "listening"
  <2>3. /\ k \in SUBSET Items /\ kept' = [kept EXCEPT ![c] = k]
        /\ script[c] = "a" => k \subseteq {Ten}
    <3>1. kept[c] \in SUBSET Items /\ (script[c] = "a" => kept[c] \subseteq {Ten})
      BY DEF IInv, TypeOK, Places, Place
    <3>2. {Ten} \in SUBSET Items
      OBVIOUS
    <3>3. kept[c] \subseteq Keeps(c, Taken(c)) /\ Keeps(c, Taken(c)) \subseteq kept[c] \cup {Ten}
      BY DEF Keeps
    <3>4. kept' = [kept EXCEPT ![c] = k]
      BY <1>14 DEF Listen
    <3> QED
      BY <3>1, <3>2, <3>3, <3>4
  <2>4. /\ q \in {"working", "window", "asking", "listening"}
        /\ pos' = [pos EXCEPT ![c] = q]
        /\ approved' \in {approved, approved \cup {c}}
        /\ q \in {"working", "window"} => c \in approved'
        /\ q = "working" => script[c] = "a"
        /\ q = "window" => script[c] = "c"
    BY <1>14, <2>2 DEF Listen, Approves
  <2> HIDE DEF k, q
  <2>5. TypeOK'
    <3>1. wished' \in [Conns -> SUBSET Items]
      <4> DEFINE w == IF script[c] = "a" THEN wished[c] \cup (Named(Taken(c)) \cap {Ten})
                      ELSE wished[c]
      <4>1. w \in SUBSET Items /\ wished' = [wished EXCEPT ![c] = w]
        BY <1>14 DEF Listen, IInv, TypeOK
      <4> HIDE DEF w
      <4> QED
        BY <4>1 DEF IInv, TypeOK
    <3> QED
      BY <2>1, <2>3, <2>4, <3>1 DEF IInv, TypeOK
  <2>6. ASSUME NEW d \in Conns PROVE Place(d)'
    <3>1. CASE d = c
      <4>1. /\ pos'[c] = q /\ kept'[c] = k
            /\ UNCHANGED <<task, script, asked, written, announced>>
        BY <2>1, <2>3, <2>4 DEF IInv, TypeOK
      <4> QED
        BY <2>2, <2>3, <2>4, <3>1, <4>1 DEF Place
    <3>2. CASE d # c
      <4>1. /\ pos'[d] = pos[d] /\ kept'[d] = kept[d] /\ approved \subseteq approved'
            /\ UNCHANGED <<task, script, asked, written, announced>>
        BY <2>1, <2>3, <2>4, <3>2 DEF IInv, TypeOK
      <4> QED
        BY <4>1, Elsewhere DEF IInv, Places
    <3> QED
      BY <3>1, <3>2
  <2>7. WritesAreAgreed'
    <3>1. approved \subseteq approved' /\ UNCHANGED <<asked, written>>
      BY <2>1, <2>4
    <3>2. \A d \in Conns : d # c => kept'[d] = kept[d]
      BY <2>3 DEF IInv, TypeOK
    <3> QED
      BY <2>2, <3>1, <3>2 DEF IInv, WritesAreAgreed
  <2> QED
    BY <2>1, <2>5, <2>6, <2>7 DEF IInv, Places, CompletedAfterDone
<1>15. ASSUME NEW c \in Conns, Window(c)
      PROVE  IInv'
  <2>1. /\ Taken(c) \in Event /\ queue' \in [Conns -> Seq(Event)]
        /\ UNCHANGED <<reader, line, said>>
    BY <1>15, TakesType DEF Window, IInv
  <2>2. TypeOK'
    <3> DEFINE n == Named(Taken(c))
    <3>1. n \in SUBSET Items
      BY <2>1 DEF Named, Event
    <3>2. /\ kept' = [kept EXCEPT ![c] = n] /\ wished' = [wished EXCEPT ![c] = @ \cup n]
          /\ pos' = [pos EXCEPT ![c] = "working"]
          /\ UNCHANGED <<script, task, handled, records, asked, approved, written,
                         announced>>
      BY <1>15 DEF Window
    <3> HIDE DEF n
    <3> QED
      BY <2>1, <3>1, <3>2 DEF IInv, TypeOK
  <2>3. ASSUME NEW d \in Conns PROVE Place(d)'
    <3>1. CASE d = c
      BY <1>15, <3>1 DEF Window, IInv, TypeOK, Places, Place, Event
    <3>2. CASE d # c
      BY <1>15, <3>2, Elsewhere DEF Window, IInv, TypeOK, Places
    <3> QED
      BY <3>1, <3>2
  <2>4. WritesAreAgreed'
    <3>1. written[c] = {} /\ kept' = [kept EXCEPT ![c] = kept'[c]]
      BY <1>15 DEF Window, IInv, TypeOK, Places, Place
    <3> QED
      BY <1>15, <3>1 DEF Window, IInv, TypeOK, WritesAreAgreed
  <2>5. CompletedAfterDone'
    BY <1>15 DEF Window, IInv, TypeOK, CompletedAfterDone
  <2> QED
    BY <2>2, <2>3, <2>4, <2>5 DEF IInv, Places
<1>16. ASSUME NEW c \in Conns, Work(c)
      PROVE  IInv'
  <2>1. CASE script[c] = "resume" \/ ToDo(c) = {}
    <3>1. /\ pos[c] = "working" /\ pos' = [pos EXCEPT ![c] = "finishing"]
          /\ UNCHANGED <<script, task, kept, handled, wires, records, history>>
      BY <1>16, <2>1 DEF Work
    <3>2. TypeOK'
      BY <3>1 DEF IInv, TypeOK
    <3>3. Place(c)'
      BY SMTT(30), <3>1 DEF IInv, TypeOK, Places, Place
    <3> QED
      BY <3>1, <3>2, <3>3, Moves
  <2>2. CASE ~ (script[c] = "resume" \/ ToDo(c) = {})
    <3> DEFINE batch == IF script[c] = "c" THEN {Min(ToDo(c))} ELSE ToDo(c)
               done  == IF script[c] = "c" THEN batch \ Broken ELSE batch
    <3>1. batch \subseteq ToDo(c)
      <4>1. ToDo(c) \in SUBSET Nat /\ ToDo(c) # {}
        BY <2>2 DEF ToDo
      <4> QED
        BY <4>1, MinIsMember
    <3>2. /\ batch \subseteq Items /\ done \subseteq Items /\ done \cap kept[c] = {}
      BY <3>1 DEF ToDo
    <3>3. /\ pos[c] = "working" /\ task[c] = c /\ asked[c] > 0 /\ c \in approved
      BY <1>16, <2>2 DEF Work, IInv, Places, Place
    <3>4. /\ handled' = [handled EXCEPT ![c] = @ \cup batch]
          /\ written' = [written EXCEPT ![c] = @ \cup done]
          /\ UNCHANGED <<pos, script, task, kept, wires, records, asked, approved,
                         wished, announced>>
      BY <1>16, <2>2, <3>3 DEF Work
    <3> HIDE DEF batch, done
    <3>5. TypeOK'
      BY <3>2, <3>4 DEF IInv, TypeOK
    <3>6. ASSUME NEW d \in Conns PROVE Place(d)'
      <4>1. CASE d = c
        BY <3>3, <3>4, <4>1 DEF IInv, TypeOK, Places, Place
      <4>2. CASE d # c
        BY <3>4, <4>2, Elsewhere DEF IInv, TypeOK, Places
      <4> QED
        BY <4>1, <4>2
    <3>7. WritesAreAgreed'
      BY <3>2, <3>3, <3>4 DEF IInv, TypeOK, WritesAreAgreed
    <3> QED
      BY <3>4, <3>5, <3>6, <3>7 DEF IInv, Places, CompletedAfterDone
  <2> QED
    BY <2>1, <2>2
<1>17. CASE UNCHANGED vars
  BY <1>17 DEF vars, IInv, TypeOK, Places, Place, WritesAreAgreed, CompletedAfterDone
<1>18. ASSUME NEW c \in Conns, UserStep(c)
      PROVE  IInv'
  <2>1. ASSUME NEW kind \in Says \ {"interrupt"}, Say(c, kind, {})
        PROVE  IInv'
    BY <2>1, <1>11, SaysAssumption
  <2>2. ASSUME "interrupt" \in Says, NEW names \in SUBSET Items, Say(c, "interrupt", names)
        PROVE  IInv'
    BY <2>2, <1>11 DEF Kinds
  <2> QED
    BY <1>18, <2>1, <2>2, <1>1, <1>2, <1>7 DEF UserStep
<1> QED
  BY <1>2, <1>3, <1>4, <1>5, <1>6, <1>7, <1>8, <1>9, <1>10, <1>11, <1>12, <1>13, <1>14, <1>15, <1>16, <1>17, <1>18
  DEF Next, Step

(* Every variable keeps its type.                                          *)
THEOREM BackendTypeCorrect == Spec => []TypeOK
<1>1. IInv => TypeOK
  BY DEF IInv
<1> QED
  BY IInvInit, IInvStep, <1>1, PTL DEF Spec

(* Nothing is moved or cancelled before its question was asked and an      *)
(* approval was taken, and nothing that the user was told is kept.         *)
THEOREM WritesAgreed == Spec => []WritesAreAgreed
<1>1. IInv => WritesAreAgreed
  BY DEF IInv
<1> QED
  BY IInvInit, IInvStep, <1>1, PTL DEF Spec

(* A task record is terminal only when done was sent for the task.         *)
THEOREM CompletedCorrect == Spec => []CompletedAfterDone
<1>1. IInv => CompletedAfterDone
  BY DEF IInv
<1> QED
  BY IInvInit, IInvStep, <1>1, PTL DEF Spec

(* What was wished for stays kept: through every further question of A,    *)
(* and from the window of C on.                                            *)
LEMMA WishesStep ==
  ASSUME IInv, WishesAreKept, [Next]_vars
  PROVE  WishesAreKept'
<1> USE DEF At, Goes, handlers, wires, records, history
<1>0. /\ TypeOK /\ Places /\ \A c \in Conns : Place(c)
  BY DEF IInv, Places
<1>1. ASSUME NEW c \in Conns, Listen(c)
      PROVE  WishesAreKept'
  <2> DEFINE k == IF script[c] = "a" THEN Keeps(c, Taken(c)) ELSE kept[c]
             w == IF script[c] = "a" THEN wished[c] \cup (Named(Taken(c)) \cap {Ten})
                  ELSE wished[c]
  <2>1. /\ pos[c] = "listening" /\ UNCHANGED script
        /\ kept' = [kept EXCEPT ![c] = k] /\ wished' = [wished EXCEPT ![c] = w]
        /\ \A d \in Conns : d # c => pos'[d] = pos[d]
    BY <1>0, <1>1 DEF Listen, TypeOK
  <2>2. w \subseteq k /\ (script[c] = "c" => w = {})
    BY <2>1 DEF WishesAreKept, Keeps
  <2> HIDE DEF k, w
  <2> QED
    BY <1>0, <2>1, <2>2 DEF WishesAreKept, TypeOK
<1>2. ASSUME NEW c \in Conns, Window(c)
      PROVE  WishesAreKept'
  <2> DEFINE n == Named(Taken(c))
  <2>1. wished[c] = {} /\ UNCHANGED script
    BY <1>0, <1>2 DEF Window, Place, WishesAreKept
  <2>2. /\ kept' = [kept EXCEPT ![c] = n] /\ wished' = [wished EXCEPT ![c] = wished[c] \cup n]
        /\ pos' = [pos EXCEPT ![c] = "working"]
    BY <1>2 DEF Window
  <2> HIDE DEF n
  <2> QED
    BY <1>0, <2>1, <2>2 DEF WishesAreKept, TypeOK
<1>3. ASSUME NEW c \in Conns, First(c)
      PROVE  WishesAreKept'
  <2>1. wished[c] = {} /\ UNCHANGED <<kept, wished>>
    BY <1>0, <1>3 DEF First, Place, WishesAreKept
  <2>2. \A d \in Conns : d # c => pos'[d] = pos[d] /\ script'[d] = script[d]
    BY <1>0, <1>3 DEF First, TypeOK
  <2> QED
    BY <2>1, <2>2 DEF WishesAreKept
<1>4. ASSUME NEW c \in Conns,
             Query(c) \/ Open(c) \/ Ask(c) \/ Timeout(c) \/ Work(c) \/ Finish(c)
             \/ Settle(c) \/ Close(c) \/ Raises(c) \/ UserStep(c)
      PROVE  WishesAreKept'
  <2>1. UNCHANGED <<kept, wished>>
    BY <1>4 DEF Query, Open, Ask, Timeout, Work, Finish, Settle, Close, Raises, UserStep,
                Accept, Reject, Disconnect, Say
  <2>2. ASSUME NEW d \in Conns, script'[d] = "c",
               pos'[d] \in {"opening", "asking", "listening", "window"}
        PROVE  script[d] = "c" /\ pos[d] \in {"opening", "asking", "listening", "window"}
    <3>1. CASE Query(c) \/ Open(c) \/ Ask(c) \/ Timeout(c)
      BY <1>0, <2>2, <3>1 DEF Query, Open, Ask, Timeout, TypeOK
    <3>2. CASE Work(c) \/ Finish(c) \/ Settle(c) \/ Close(c) \/ Raises(c)
      BY <1>0, <2>2, <3>2 DEF Work, Finish, Settle, Close, Raises, TypeOK
    <3>3. CASE UserStep(c)
      BY <1>0, <2>2, <3>3 DEF UserStep, Accept, Reject, Disconnect, Say, TypeOK
    <3> QED
      BY <1>4, <3>1, <3>2, <3>3
  <2> QED
    BY <2>1, <2>2 DEF WishesAreKept
<1>5. CASE UNCHANGED vars
  BY <1>5 DEF vars, WishesAreKept
<1> QED
  BY <1>1, <1>2, <1>3, <1>4, <1>5 DEF Next, Step

(* What the user named where a script listens for it is never acted on.    *)
THEOREM WishesGranted == Spec => []WishesAreGranted
<1>1. Init => WishesAreKept
  BY DEF Init, WishesAreKept
<1>2. IInv /\ WishesAreKept => WishesAreGranted
  BY DEF IInv, WritesAreAgreed, WishesAreKept, WishesAreGranted
<1> QED
  BY IInvInit, IInvStep, WishesStep, <1>1, <1>2, PTL DEF Spec
=============================================================================
